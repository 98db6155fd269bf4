----------------------------- MODULE PoolReplicas -----------------------------
(***************************************************************************)
(* A BareMetalPool and the BareMetalInstances it owns: the reconcile loop  *)
(* of baremetalpool_controller.go with scaling, the pool's provision job,  *)
(* readiness, deletion and teardown.  The controller reads the pool and    *)
(* the list of its instances from two informer caches, each of which lags  *)
(* behind the API server.  What the instances do is the environment's.     *)
(*                                                                         *)
(* A step is one remote call with the local code that follows it, up to    *)
(* the next remote call or the next look into a cache.                     *)
(***************************************************************************)
EXTENDS Naturals, Sequences, FiniteSets

CONSTANTS
    Instances,      \* names; one is used again when no cache knows it any more
    HostTypes,
    NoType,         \* no host type is being scaled
    MaxReplicas,
    Jobs,           \* IDs of provision jobs: as many are started at most
    NoJob,
    NoVersion,      \* no version of the spec has been computed
    Environments    \* what may happen around the controller; see env

Profiles ==
    {"none",        \* spec.profile is empty
     "missing",     \* no profile of that name is registered
     "invalid",     \* the template parameters do not fit the profile
     "plain",       \* a profile without a pool template, or with the noop one
     "template"}    \* a profile with a pool template

Configs == [profile : Profiles, provider : BOOLEAN]

FaultKinds ==
    {"request",     \* a request fails, or its reply is lost
     "restart",     \* the process dies and another one starts
     "job",         \* a provision job fails
     "unready",     \* a Ready instance stops being so
     "delete"}      \* somebody else deletes an instance

Calls ==    \* remote calls
    {"addFinalizer", "scale", "trigger", "flush", "poll", "remove", "teardown",
     "dropFinalizer", "status"}

Looks ==    \* the provision job in the cached pool, the cached list
    {"provision", "readiness"}

ASSUME NoTypeAssumption == NoType \notin HostTypes
ASSUME NoJobAssumption == NoJob \notin Jobs
ASSUME BoundsAssumption == MaxReplicas \in Nat
ASSUME FiniteAssumption == IsFiniteSet(Instances)
ASSUME EnvironmentsAssumption ==
    Environments \subseteq
        [specs    : SUBSET [HostTypes -> 0 .. MaxReplicas],     \* of spec.hostSets
         poolLag  : Nat,                \* versions the cached pool may be behind
         listLag  : Nat,                \* versions the cached list may be behind
         edits    : Nat,                \* edits of spec.hostSets
         faults   : SUBSET FaultKinds,
         failures : Nat,                \* how many of them
         configs  : SUBSET Configs]     \* a process starts with one of these

VARIABLES
    env,        \* the environment of this behaviour
    config,     \* the profile and the provider of this process
    pools,      \* versions of the pool, from the cached one to the stored one
    lists,      \* versions of its instances, likewise
    jobs,       \* the provision jobs of the provider
    queued,     \* the pool's key waits for a worker
    timer,      \* the key comes back: RequeueAfter or back-off
    pc,         \* what the worker does next; see Calls and Looks
    obj,        \* the worker's copy of the pool
    current,    \* whether the copy's resourceVersion is the stored one
    oldstatus,  \* the status the worker read
    again,      \* whether the handler returned an error or a RequeueAfter
    held,       \* per host type, the instances the worker still counts
    made,       \* per host type, how many it has created
    turn,       \* the host type it is scaling
    edits,      \* edits so far
    failures    \* failures so far

worker == <<pc, obj, current, oldstatus, again, held, made, turn>>
counted == <<held, made, turn>>
cluster == <<env, config, jobs, edits>>

vars == <<env, config, pools, lists, jobs, queued, timer, worker, edits, failures>>
--------------------------------------------------------------------------------
Replicas == [HostTypes -> 0 .. MaxReplicas]     \* 0: the host set is not in the spec

NoReplicas == [t \in HostTypes |-> 0]

ASSUME NoVersionAssumption == NoVersion \notin Replicas

(* DesiredConfigVersion: a hash of the spec. *)
Versions == Replicas \union {NoVersion}

(* The latest provision job in the status, with the version it was started for. *)
JobStates == {"none", "running", "ok", "failed"}

JobStatuses == {job \in [id : Jobs \union {NoJob}, state : JobStates, version : Versions] :
                    job.state = "none" \/ job.id \in Jobs}

NoJobStatus == [id |-> NoJob, state |-> "none", version |-> NoVersion]

(* hosts: status.hostSets; desired: the version this status was computed for. *)
Statuses == [phase   : {"", "Progressing", "Failed", "Ready", "Deleting"},
             hosts   : [HostTypes -> Nat],
             job     : JobStatuses,
             desired : Versions]

EmptyStatus == [phase |-> "", hosts |-> NoReplicas, job |-> NoJobStatus,
                desired |-> NoVersion]

Pools == [life : {"live", "deleting", "gone"}, replicas : Replicas,
          finalizer : BOOLEAN, status : Statuses]

InstanceStates == [life : {"absent", "live", "deleting"},
                   type : HostTypes \union {NoType}, ready : BOOLEAN]

Absent == [life |-> "absent", type |-> NoType, ready |-> FALSE]

(* What a worker that has nothing to do holds. *)
NoPool == [life |-> "gone", replicas |-> NoReplicas, finalizer |-> FALSE,
           status |-> EmptyStatus]

Nobody == [t \in HostTypes |-> {}]

CachedPool == pools[1]
Pool == pools[Len(pools)]
CachedList == lists[1]
List == lists[Len(lists)]

Exists(u) == List[u].life # "absent"

(* The instances of a host type that a list shows and that are not being deleted. *)
Live(list, t) == {u \in Instances : list[u].life = "live" /\ list[u].type = t}

Init ==
    /\ env \in Environments
    /\ config \in env.configs
    /\ \E replicas \in env.specs :
          pools = <<[life |-> "live", replicas |-> replicas, finalizer |-> FALSE,
                     status |-> EmptyStatus]>>
    /\ lists = <<[u \in Instances |-> Absent]>>
    /\ jobs = [j \in Jobs |-> "none"]
    /\ queued = TRUE
    /\ timer = FALSE
    /\ pc = "idle"
    /\ obj = NoPool
    /\ current = FALSE
    /\ oldstatus = EmptyStatus
    /\ again = FALSE
    /\ held = Nobody
    /\ made = NoReplicas
    /\ turn = NoType
    /\ edits = 0
    /\ failures = 0
--------------------------------------------------------------------------------
(* The API server and the two informers *)

(* The versions after one more was written: an informer that is as far behind as it *)
(* gets receives its next event.                                                    *)
Written(versions, version, lag) ==
    LET written == Append(versions, version) IN
    IF Len(versions) > lag THEN Tail(written) ELSE written

(* Every event of the pool puts its key on the queue. *)
WritePool(p) ==
    /\ pools' = Written(pools, p, env.poolLag)
    /\ queued' = (queued \/ Len(pools) > env.poolLag)

(* Of the instances' events only the removal of one wakes the pool. *)
Removal(old, new) == \E u \in Instances : old[u].life # "absent" /\ new[u].life = "absent"

WriteList(list) ==
    /\ lists' = Written(lists, list, env.listLag)
    /\ queued' = (queued \/ (Len(lists) > env.listLag /\ Removal(lists[1], lists'[1])))

SetInstance(u, i) == WriteList([List EXCEPT ![u] = i])

(* An API delete marks an instance that has finalizers and removes one without. *)
Deleted(u) ==
    IF List[u].life # "live" THEN {List[u]}
    ELSE {[List[u] EXCEPT !.life = "deleting"], Absent}

(* An object that is being deleted disappears with its finalizer. *)
Swept(p) == IF p.life = "deleting" /\ ~p.finalizer THEN [p EXCEPT !.life = "gone"] ELSE p

DeliverPool ==
    /\ Len(pools) > 1
    /\ pools' = Tail(pools)
    /\ queued' = TRUE
    /\ UNCHANGED <<cluster, lists, timer, worker, failures>>

DeliverList ==
    /\ Len(lists) > 1
    /\ lists' = Tail(lists)
    /\ queued' = (queued \/ Removal(lists[1], lists[2]))
    /\ UNCHANGED <<cluster, pools, timer, worker, failures>>

FireTimer ==
    /\ timer
    /\ timer' = FALSE
    /\ queued' = TRUE
    /\ UNCHANGED <<cluster, pools, lists, worker, failures>>
--------------------------------------------------------------------------------
(* Users, the instances and the provider's jobs *)

Fault(kind) ==
    /\ kind \in env.faults
    /\ failures < env.failures
    /\ failures' = failures + 1

EditHostSets ==
    /\ Pool.life = "live"
    /\ edits < env.edits
    /\ edits' = edits + 1
    /\ \E replicas \in env.specs \ {Pool.replicas} :
          WritePool([Pool EXCEPT !.replicas = replicas])
    /\ current' = FALSE
    /\ UNCHANGED <<env, config, jobs, lists, timer, pc, obj, oldstatus, again,
                   counted, failures>>

DeletePool ==
    /\ Pool.life = "live"
    /\ WritePool(Swept([Pool EXCEPT !.life = "deleting"]))
    /\ current' = FALSE
    /\ UNCHANGED <<cluster, lists, timer, pc, obj, oldstatus, again, counted, failures>>

InstanceReady(u) ==
    /\ List[u].life = "live" /\ ~List[u].ready
    /\ SetInstance(u, [List[u] EXCEPT !.ready = TRUE])
    /\ UNCHANGED <<cluster, pools, timer, worker, failures>>

InstanceUnready(u) ==
    /\ List[u].life = "live" /\ List[u].ready
    /\ Fault("unready")
    /\ SetInstance(u, [List[u] EXCEPT !.ready = FALSE])
    /\ UNCHANGED <<cluster, pools, timer, worker>>

(* The instance controller has dropped the last finalizer. *)
InstanceGone(u) ==
    /\ List[u].life = "deleting"
    /\ SetInstance(u, Absent)
    /\ UNCHANGED <<cluster, pools, timer, worker, failures>>

DeleteByOther(u) ==
    /\ List[u].life = "live"
    /\ Fault("delete")
    /\ \E i \in Deleted(u) : SetInstance(u, i)
    /\ UNCHANGED <<cluster, pools, timer, worker>>

(* Kubernetes deletes what the owner reference of a pool that is gone leaves. *)
CollectGarbage(u) ==
    /\ Pool.life = "gone"
    /\ List[u].life = "live"
    /\ \E i \in Deleted(u) : SetInstance(u, i)
    /\ UNCHANGED <<cluster, pools, timer, worker, failures>>

EndJob(j, state) ==
    /\ jobs[j] = "running"
    /\ jobs' = [jobs EXCEPT ![j] = state]
    /\ UNCHANGED <<env, config, edits, pools, lists, queued, timer, worker>>

JobSucceeds(j) == EndJob(j, "ok") /\ UNCHANGED failures
JobFails(j) == EndJob(j, "failed") /\ Fault("job")
--------------------------------------------------------------------------------
(* Reconcile, up to the first remote call *)

Dequeue == /\ pc = "idle"
           /\ queued
           /\ queued' = FALSE
           /\ UNCHANGED <<cluster, pools, lists, timer, failures>>

Begin(phase, desired, next, requeue) ==
    /\ pc' = next
    /\ obj' = [CachedPool EXCEPT !.status.phase = phase, !.status.desired = desired]
    /\ current' = (Len(pools) = 1)
    /\ oldstatus' = CachedPool.status
    /\ again' = requeue

BeginUpdate(phase, next) == Begin(phase, CachedPool.replicas, next, FALSE)

(* handleDeletion leaves the version as it is. *)
BeginDeletion(phase, next, requeue) == Begin(phase, CachedPool.status.desired, next, requeue)

CountNothing == UNCHANGED counted

(* listAndGroupBareMetalInstances, and the list of handleDeletion. *)
CountListed ==
    /\ held' = [t \in HostTypes |-> Live(CachedList, t)]
    /\ made' = NoReplicas
    /\ turn' = NoType

(* Get returned NotFound. *)
ReconcileMissing ==
    /\ Dequeue
    /\ CachedPool.life = "gone"
    /\ UNCHANGED worker

Template == config.profile \in {"template", "invalid"}

Refused == \/ config.profile # "none" /\ ~config.provider
           \/ config.profile \in {"missing", "invalid"}

(* handleUpdate gives up and is not requeued: no provider, before it computes the *)
(* version; no such profile, or parameters that do not fit it, after that.        *)
RefuseProfile ==
    /\ Dequeue
    /\ CachedPool.life = "live"
    /\ Refused
    /\ IF config.provider THEN BeginUpdate("Failed", "status")
       ELSE Begin("Failed", CachedPool.status.desired, "status", FALSE)
    /\ CountNothing

InitialPhase == IF CachedPool.status.phase = "" THEN "Progressing" ELSE CachedPool.status.phase

NeedsFinalizer ==
    /\ Dequeue
    /\ CachedPool.life = "live" /\ ~CachedPool.finalizer
    /\ ~Refused
    /\ BeginUpdate(InitialPhase, "addFinalizer")
    /\ CountNothing

(* Mutant: instances are created without looking for the finalizer. *)
HandleUpdate_NoFinalizer ==
    /\ Dequeue
    /\ CachedPool.life = "live"
    /\ ~Refused
    /\ BeginUpdate(InitialPhase, "scale")
    /\ CountListed

(* handleUpdate lists the instances and compares them with the spec. *)
HandleUpdate ==
    /\ Dequeue
    /\ CachedPool.life = "live" /\ CachedPool.finalizer
    /\ ~Refused
    /\ BeginUpdate(InitialPhase, "scale")
    /\ CountListed

AnyListed(life) == \E u \in Instances : CachedList[u].life = life

(* Mutant: instances that are still being deleted are not waited for. *)
HandleDeletion_LiveOnly ==
    /\ Dequeue
    /\ CachedPool.life = "deleting"
    /\ CountListed
    /\ IF AnyListed("live") THEN BeginDeletion("Deleting", "remove", FALSE)
       ELSE IF ~Template THEN BeginDeletion("Deleting", "dropFinalizer", FALSE)
       ELSE IF config.provider THEN BeginDeletion("Deleting", "teardown", FALSE)
       ELSE BeginDeletion("Failed", "status", FALSE)

(* handleDeletion: the instances first, then the teardown, then the finalizer. *)
HandleDeletion ==
    /\ Dequeue
    /\ CachedPool.life = "deleting"
    /\ CountListed
    /\ IF AnyListed("live") THEN BeginDeletion("Deleting", "remove", FALSE)
       ELSE IF AnyListed("deleting") THEN BeginDeletion("Deleting", "status", TRUE)
       ELSE IF ~Template THEN BeginDeletion("Deleting", "dropFinalizer", FALSE)
       ELSE IF config.provider THEN BeginDeletion("Deleting", "teardown", FALSE)
       ELSE BeginDeletion("Failed", "status", FALSE)
--------------------------------------------------------------------------------
(* How a call ends *)

Phase(phase) == obj' = [obj EXCEPT !.status.phase = phase]

Continue(next) == pc' = next

(* The handler returns; Reconcile goes on to the status. *)
Return(requeue) == pc' = "status" /\ again' = requeue

(* Mutant: what this reconcile has created does not count. *)
Count_Listed(t) == Cardinality(held[t])

Count(t) == Cardinality(held[t]) + made[t]

(* updateStatusHostSets, which reconcileBareMetalInstances defers. *)
StatusHosts == [t \in HostTypes |-> Count(t)]

(* The handler returns the error of a call. *)
Fails ==
    /\ Return(TRUE)
    /\ obj' = CASE pc = "addFinalizer" -> [obj EXCEPT !.status.phase = "Failed"]
                [] pc = "scale" -> [obj EXCEPT !.status.phase = "Failed",
                                               !.status.hosts = StatusHosts]
                [] OTHER -> obj
    /\ UNCHANGED <<oldstatus, counted>>

(* An update from a copy that is not the stored version, or of a pool that is gone. *)
Rejected ==
    /\ pc \in {"addFinalizer", "flush", "dropFinalizer"}
    /\ ~current \/ Pool.life = "gone"
    /\ Fails
    /\ UNCHANGED <<cluster, pools, lists, queued, timer, current, failures>>

Accepted == current /\ Pool.life # "gone"

RequestFails ==
    /\ pc \in Calls \ {"status"}
    /\ Fault("request")
    /\ Fails
    /\ UNCHANGED <<cluster, pools, lists, queued, timer, current>>
--------------------------------------------------------------------------------
(* The finalizer and the replicas *)

StoreFinalizer ==
    /\ pc = "addFinalizer"
    /\ Accepted
    /\ WritePool([Pool EXCEPT !.finalizer = TRUE])
    /\ UNCHANGED <<cluster, lists, timer>>

(* ensureFinalizer succeeded; the list follows in the same handler.  The response is  *)
(* decoded into the copy: a version that is stored replaces the one just computed.   *)
AddFinalizer ==
    /\ StoreFinalizer
    /\ Continue("scale")
    /\ obj' = [obj EXCEPT !.finalizer = TRUE,
                          !.status.desired = IF Pool.status.desired = NoVersion THEN @
                                             ELSE Pool.status.desired]
    /\ CountListed
    /\ UNCHANGED <<current, oldstatus, again, failures>>

(* reconcileBareMetalInstances takes the types in any order, one after the other. *)
Turn(t) == pc = "scale" /\ turn \in {NoType, t}

After(t) == turn' = IF Count(t)' = obj.replicas[t] THEN NoType ELSE t

(* A random suffix makes a name that no cache or worker knows. *)
Fresh(u) == /\ \A n \in 1 .. Len(lists) : lists[n][u].life = "absent"
            /\ \A t \in HostTypes : u \notin held[t]

Create(t, u) ==
    /\ Turn(t)
    /\ Count(t) < obj.replicas[t]
    /\ Fresh(u)
    /\ SetInstance(u, [life |-> "live", type |-> t, ready |-> FALSE])
    /\ UNCHANGED <<cluster, pools, timer>>

ScaleUp(t, u) ==
    /\ Create(t, u)
    /\ made' = [made EXCEPT ![t] = @ + 1]
    /\ UNCHANGED <<pc, obj, current, oldstatus, again, held, failures>>
    /\ After(t)

(* The list is in no particular order; an instance that is gone already is no error. *)
Delete(t, u) ==
    /\ Turn(t)
    /\ Count(t) > obj.replicas[t]
    /\ u \in held[t]
    /\ \E i \in Deleted(u) :
          IF i = List[u] THEN UNCHANGED <<lists, queued>> ELSE SetInstance(u, i)
    /\ UNCHANGED <<cluster, pools, timer>>

(* Mutant: the placeholder of a created instance is dropped instead of the deleted one. *)
ScaleDown_Placeholder(t, u) ==
    /\ Delete(t, u)
    /\ made' = [made EXCEPT ![t] = @ - 1]
    /\ UNCHANGED <<pc, obj, current, oldstatus, again, held, failures>>
    /\ After(t)

ScaleDown(t, u) ==
    /\ Delete(t, u)
    /\ held' = [held EXCEPT ![t] = @ \ {u}]
    /\ UNCHANGED <<pc, obj, current, oldstatus, again, made, failures>>
    /\ After(t)

Scaled ==
    /\ pc = "scale"
    /\ \A t \in HostTypes : Count(t) = obj.replicas[t]
    /\ obj' = [obj EXCEPT !.status.hosts = StatusHosts]
    /\ Continue(IF config.profile = "template" THEN "provision" ELSE "readiness")
    /\ UNCHANGED <<cluster, pools, lists, timer, queued, current, oldstatus, again,
                   counted, failures>>
--------------------------------------------------------------------------------
(* reconcileProvisioning: RunProvisioningLifecycle with the callbacks given to it *)

Job == obj.status.job

UpToDate == Job.version = obj.status.desired

Local == UNCHANGED <<cluster, pools, lists, queued, timer, current, oldstatus, counted,
                     failures>>

(* A job that succeeded for this version of the spec is enough; one that failed for   *)
(* it backs off before it is started again; and no job is started while the           *)
(* cached pool shows one that has not ended.                                          *)
Provision ==
    /\ pc = "provision"
    /\ \/ /\ Job.state = "ok" /\ UpToDate
          /\ Continue("readiness") /\ UNCHANGED again
       \/ /\ Job.state = "running"
          /\ Continue("poll") /\ UNCHANGED again
       \/ /\ Job.state = "failed" /\ UpToDate
          /\ Return(TRUE)
       \/ /\ Job.state \in {"none", "failed"} \/ (Job.state = "ok" /\ ~UpToDate)
          /\ IF CachedPool.status.job.state = "running" THEN Return(TRUE)
             ELSE Continue("trigger") /\ UNCHANGED again
    /\ UNCHANGED obj
    /\ Local

StartJob(j) ==
    /\ pc = "trigger"
    /\ jobs[j] = "none"
    /\ jobs' = [jobs EXCEPT ![j] = "running"]
    /\ UNCHANGED <<env, config, edits, pools, lists, queued, timer>>

(* Mutant: the job is not recorded in the status. *)
Trigger_Unrecorded(j) ==
    /\ StartJob(j)
    /\ Continue("flush")
    /\ UNCHANGED <<obj, current, oldstatus, again, counted, failures>>

Trigger(j) ==
    /\ StartJob(j)
    /\ obj' = [obj EXCEPT !.status.job =
                  [id |-> j, state |-> "running", version |-> obj.status.desired]]
    /\ Continue("flush")
    /\ UNCHANGED <<current, oldstatus, again, counted, failures>>

(* A write of the status that changes nothing is no event. *)
StoreStatus ==
    /\ Accepted
    /\ IF Pool.status = obj.status THEN UNCHANGED <<pools, queued>>
       ELSE WritePool([Pool EXCEPT !.status = obj.status])
    /\ UNCHANGED <<cluster, lists>>

Flush ==
    /\ pc = "flush"
    /\ StoreStatus
    /\ Return(TRUE)
    /\ UNCHANGED <<timer, obj, current, oldstatus, counted, failures>>

(* Whether a failed job's result ends the reconcile is the library's business. *)
Poll ==
    /\ pc = "poll"
    /\ LET state == jobs[Job.id] IN
       /\ obj' = [obj EXCEPT !.status.job.state = state,
                             !.status.phase = IF state = "failed" THEN "Failed" ELSE @]
       /\ \/ state # "ok" /\ Return(TRUE)
          \/ state # "running" /\ Continue("readiness") /\ UNCHANGED again
    /\ Local
--------------------------------------------------------------------------------
(* checkBareMetalInstancesReady and the end of handleUpdate *)

(* Mutant: one ready instance is enough. *)
ListedReady_One ==
    \/ \A u \in Instances : CachedList[u].life # "live"
    \/ \E u \in Instances : CachedList[u].life = "live" /\ CachedList[u].ready

ListedReady == \A u \in Instances : CachedList[u].life = "live" => CachedList[u].ready

(* Mutant: a pool that is not ready is not looked at again. *)
CheckReady_Once ==
    /\ pc = "readiness"
    /\ Phase(IF ListedReady THEN "Ready" ELSE "Progressing")
    /\ Return(FALSE)
    /\ Local

CheckReady ==
    /\ pc = "readiness"
    /\ Phase(IF ListedReady THEN "Ready" ELSE "Progressing")
    /\ Return(~ListedReady)
    /\ Local
--------------------------------------------------------------------------------
(* The rest of handleDeletion *)

Remove(t, u) ==
    /\ pc = "remove"
    /\ u \in held[t]
    /\ \E i \in Deleted(u) :
          IF i = List[u] THEN UNCHANGED <<lists, queued>> ELSE SetInstance(u, i)
    /\ UNCHANGED <<cluster, pools, timer>>

RemoveInstance(t, u) ==
    /\ Remove(t, u)
    /\ held' = [held EXCEPT ![t] = @ \ {u}]
    /\ IF \A s \in HostTypes : held'[s] = {} THEN Return(TRUE) ELSE UNCHANGED <<pc, again>>
    /\ UNCHANGED <<obj, current, oldstatus, made, turn, failures>>

(* Mutant: a teardown under way is not polled. *)
TeardownPending_Once ==
    /\ pc = "teardown"
    /\ Return(FALSE)
    /\ UNCHANGED obj
    /\ Local

(* RunDeprovisioningLifecycle, until its job has ended or there is nothing to do. *)
TeardownPending ==
    /\ pc = "teardown"
    /\ Return(TRUE)
    /\ UNCHANGED obj
    /\ Local

TeardownDone ==
    /\ pc = "teardown"
    /\ Continue("dropFinalizer")
    /\ UNCHANGED <<obj, again>>
    /\ Local

RemoveFinalizer ==
    /\ pc = "dropFinalizer"
    /\ Accepted
    /\ WritePool(Swept([Pool EXCEPT !.finalizer = FALSE]))
    /\ UNCHANGED <<cluster, lists, timer>>

DropFinalizer ==
    /\ RemoveFinalizer
    /\ Return(FALSE)
    /\ obj' = [obj EXCEPT !.finalizer = FALSE]
    /\ UNCHANGED <<current, oldstatus, counted, failures>>
--------------------------------------------------------------------------------
(* The end of Reconcile *)

Rest ==
    /\ pc' = "idle"
    /\ obj' = NoPool
    /\ current' = FALSE
    /\ oldstatus' = EmptyStatus
    /\ again' = FALSE
    /\ held' = Nobody
    /\ made' = NoReplicas
    /\ turn' = NoType

(* Mutant: errors and RequeueAfter are ignored. *)
Finish_NoRetry(requeue) == Rest /\ timer' = timer

Finish(requeue) == Rest /\ timer' = (timer \/ requeue)

(* The status is as it was read, or the pool is gone, which is no error. *)
EndReconcile ==
    /\ pc = "status"
    /\ obj.status = oldstatus \/ Pool.life = "gone"
    /\ Finish(again)
    /\ UNCHANGED <<cluster, pools, lists, queued, failures>>

Writes == pc = "status" /\ obj.status # oldstatus

UpdateStatus ==
    /\ Writes
    /\ StoreStatus
    /\ Finish(again)
    /\ UNCHANGED failures

StatusConflict ==
    /\ Writes
    /\ ~current /\ Pool.life # "gone"
    /\ Finish(TRUE)
    /\ UNCHANGED <<cluster, pools, lists, queued, failures>>

StatusFails ==
    /\ Writes
    /\ Fault("request")
    /\ Finish(TRUE)
    /\ StoreStatus \/ UNCHANGED <<cluster, pools, lists, queued>>

(* The call had its effect, but the reply never arrived. *)
ReplyLost ==
    /\ Fault("request")
    /\ Fails
    /\ \/ StoreFinalizer
       \/ \E t \in HostTypes, u \in Instances : Create(t, u) \/ Delete(t, u) \/ Remove(t, u)
       \/ \E j \in Jobs : StartJob(j)
       \/ pc = "flush" /\ StoreStatus /\ UNCHANGED timer
       \/ RemoveFinalizer
    /\ current' = (current /\ pools' = pools)

Restart ==
    /\ Fault("restart")
    /\ config' \in env.configs
    /\ pools' = <<Pool>>
    /\ lists' = <<List>>
    /\ queued' = TRUE
    /\ timer' = FALSE
    /\ Rest
    /\ UNCHANGED <<env, jobs, edits>>
--------------------------------------------------------------------------------
Start == \/ ReconcileMissing \/ RefuseProfile \/ NeedsFinalizer \/ HandleUpdate
         \/ HandleDeletion

Step == \/ Rejected \/ AddFinalizer
        \/ \E t \in HostTypes, u \in Instances :
              ScaleUp(t, u) \/ ScaleDown(t, u) \/ RemoveInstance(t, u)
        \/ Scaled \/ Provision \/ Flush \/ Poll \/ CheckReady
        \/ \E j \in Jobs : Trigger(j)
        \/ TeardownPending \/ TeardownDone \/ DropFinalizer
        \/ EndReconcile \/ UpdateStatus \/ StatusConflict

Faults == RequestFails \/ StatusFails \/ ReplyLost \/ Restart

Deliver == DeliverPool \/ DeliverList

Around == \/ EditHostSets \/ DeletePool
          \/ \E u \in Instances : \/ InstanceReady(u) \/ InstanceUnready(u) \/ InstanceGone(u)
                                  \/ DeleteByOther(u) \/ CollectGarbage(u)
          \/ \E j \in Jobs : JobSucceeds(j) \/ JobFails(j)

Next == Start \/ Step \/ Faults \/ Deliver \/ FireTimer \/ Around

Spec == Init /\ [][Next]_vars
--------------------------------------------------------------------------------
(* Fairness: the worker runs, the informers deliver, the timer fires; an instance becomes *)
(* ready, or goes when it is deleted, in the end; a job, a back-off and a teardown end.   *)
Fairness ==
    /\ WF_vars(Start \/ Step)
    /\ WF_vars(DeliverPool) /\ WF_vars(DeliverList)
    /\ WF_vars(FireTimer)
    /\ \A u \in Instances :
          WF_vars(InstanceReady(u) \/ InstanceGone(u) \/ CollectGarbage(u))
    /\ WF_vars(\E j \in Jobs : JobSucceeds(j))
    /\ SF_vars(Provision /\ pc' = "trigger")
    /\ SF_vars(TeardownDone)

FairSpec == Spec /\ Fairness
--------------------------------------------------------------------------------
TypeOK ==
    /\ env \in Environments
    /\ config \in Configs
    /\ pools \in Seq(Pools) /\ Len(pools) \in 1 .. env.poolLag + 1
    /\ lists \in Seq([Instances -> InstanceStates]) /\ Len(lists) \in 1 .. env.listLag + 1
    /\ jobs \in [Jobs -> JobStates]
    /\ queued \in BOOLEAN /\ timer \in BOOLEAN
    /\ pc \in {"idle"} \union Calls \union Looks
    /\ obj \in Pools
    /\ pc = "poll" => Job.id \in Jobs
    /\ current \in BOOLEAN
    /\ oldstatus \in Statuses
    /\ again \in BOOLEAN
    /\ held \in [HostTypes -> SUBSET Instances]
    /\ made \in [HostTypes -> Nat]
    /\ turn \in HostTypes \union {NoType}
    /\ edits \in 0 .. env.edits
    /\ failures \in 0 .. env.failures

(* A pool that has instances has its finalizer, however old the caches are: it cannot *)
(* disappear without handleDeletion, which deletes them and runs the teardown.        *)
InstancesUnderFinalizer ==
    Pool.life # "gone" /\ (\E u \in Instances : Exists(u)) => Pool.finalizer

(* Scaling creates an instance only while too few are stored.  *)
CreatesMissing ==
    \A t \in HostTypes :
        (\E u \in Instances : ~Exists(u) /\ Exists(u)' /\ List'[u].type = t) =>
            Cardinality(Live(List, t)) < obj.replicas[t]

(* Scaling deletes an instance only while too many are stored. *)
DeletesExcess ==
    \A t \in HostTypes, u \in Instances :
        pc = "scale" /\ ScaleDown(t, u) /\ List[u].life = "live" =>
            Cardinality(Live(List, t)) > obj.replicas[t]

(* With an up-to-date list and nobody else deleting, scaling takes every host type    *)
(* towards its replicas and never past them.                                          *)
ScalesTowardsReplicas ==
    [][env.listLag = 0 => CreatesMissing /\ ("delete" \notin env.faults => DeletesExcess)]_vars

(* With an up-to-date list the teardown starts, and the pool disappears, only when    *)
(* every instance has.                                                                *)
TeardownIsLast ==
    /\ env.listLag = 0
    /\ pc \in {"teardown", "dropFinalizer"} \/ Pool.life = "gone"
    => \A u \in Instances : ~Exists(u)

Running == {j \in Jobs : jobs[j] = "running"}

(* With an up-to-date pool, and until it is edited or something fails, at most one      *)
(* provision job runs: the job is flushed to the status before anything else happens.  *)
(* Each edit and each failure may cost the record of one job, and so one more of them. *)
OneJob == env.poolLag = 0 => Cardinality(Running) <= 1 + edits + failures

AsDesired ==
    \A t \in HostTypes : Cardinality(Live(List, t)) = Pool.replicas[t]

AllReady == \A u \in Instances : List[u].life = "live" => List[u].ready

(* Nothing is left to do for the controller or on its way to it. *)
Quiet == /\ pc = "idle" /\ ~queued /\ ~timer
         /\ Len(pools) = 1 /\ Len(lists) = 1
         /\ \A u \in Instances : List[u].life # "deleting"

(* When all is quiet around a pool that is not refused, it has the instances of its   *)
(* spec, its status says so, its provision job has succeeded for this spec, and its   *)
(* instances are ready, unless one has stopped being so.                              *)
QuietIsComplete ==
    env.listLag = 0 /\ Quiet /\ Pool.life = "live" /\ ~Refused =>
        /\ AsDesired
        /\ Pool.status.phase = "Ready"
        /\ Pool.status.hosts = Pool.replicas
        /\ config.profile = "template" =>
              Pool.status.job.state = "ok" /\ Pool.status.job.version = Pool.replicas
        /\ "unready" \notin env.faults => AllReady

(* Until its spec is edited, a pool says Ready only when all its instances are there  *)
(* and ready, if the list is up to date and no instance is disturbed.                 *)
ReadyIsEarned ==
    /\ env.listLag = 0 /\ edits = 0
    /\ env.faults \intersect {"unready", "delete"} = {}
    /\ Pool.life = "live" /\ Pool.status.phase = "Ready"
    => AsDesired /\ AllReady

(* The same of the number of instances, however old the list was on the way: instances *)
(* are created or deleted "to match the desired replica count per hostType".           *)
QuietMatchesReplicas == Quiet /\ Pool.life = "live" /\ ~Refused => AsDesired

(* "Ready means the pool and all associated resources are ready", once all is quiet. *)
QuietReadyIsReady == Quiet /\ Pool.life = "live" /\ Pool.status.phase = "Ready" => AllReady

Complete == AsDesired /\ AllReady /\ Pool.status.phase = "Ready"

(* A pool that is not being deleted reaches its replicas, ready. *)
PoolConverges ==
    env.listLag = 0 /\ <>[](Pool.life = "live" /\ ~Refused) => <>[]Complete

(* A pool that is deleted goes, with all its instances, if the provider is there. *)
PoolDeletionCompletes ==
    Pool.life = "deleting" ~>
        \/ Pool.life = "gone" /\ \A u \in Instances : ~Exists(u)
        \/ Template /\ ~config.provider
================================================================================
