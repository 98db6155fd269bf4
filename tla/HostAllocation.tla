---------------------------- MODULE HostAllocation ----------------------------
(***************************************************************************)
(* How BareMetalInstances get and give back inventory hosts: the reconcile *)
(* loop of baremetalinstance_controller.go, the in-process host locks, the *)
(* calls to the inventory, the API server's copy of every instance, the    *)
(* informer cache that lags behind it, and the work queue.                 *)
(*                                                                         *)
(* One worker at a time reconciles an instance; different instances are    *)
(* reconciled concurrently.  Between two remote calls a worker touches     *)
(* only its own copy of the object, so one remote call (with the local     *)
(* code that follows it) is one step.                                      *)
(***************************************************************************)
EXTENDS Naturals, Sequences, FiniteSets

CONSTANTS
    Instances,      \* UIDs: an instance is created at most once
    Hosts,          \* inventory host IDs
    Matching,       \* the hosts that fit the instances' host type and selector
    NoHost,         \* the empty spec.externalHostID
    NoInstance,     \* an inventory host without a consumer
    Backend,        \* "openstack" (Ironic nodes) or "metal3" (BareMetalHosts)
    MaxConcurrentReconciles,    \* controller.Options of SetupWithManager
    MaxLag,         \* bound of lag
    MaxFaults,      \* failed requests, crashes and edits by others per run
    Labels,         \* keys of host labels
    InventoryLabels,    \* per instance, the keys of spec.inventorylabels and the
                        \* pool's, if it has one
    PersistentLabels    \* per instance, the keys of spec.inventorypersistentlabels

ASSUME NoHostAssumption == NoHost \notin Hosts
ASSUME MatchingAssumption == Matching \subseteq Hosts
ASSUME NoInstanceAssumption == NoInstance \notin Instances
ASSUME BackendAssumption == Backend \in {"openstack", "metal3"}
ASSUME BoundsAssumption ==
    /\ MaxConcurrentReconciles \in Nat \ {0}
    /\ MaxLag \in Nat
    /\ MaxFaults \in Nat
ASSUME LabelsAssumption ==
    /\ InventoryLabels \in [Instances -> SUBSET Labels]
    /\ PersistentLabels \in [Instances -> SUBSET Labels]

VARIABLES
    versions,   \* per instance, the versions from the cached one to the stored one
    queue,      \* work queue: the keys waiting for a worker
    timers,     \* keys to be queued later: RequeueAfter and error back-off
    pc,         \* per instance, the next remote call of its worker
    obj,        \* the worker's copy of the object
    current,    \* whether the copy's resourceVersion is the stored one
    oldstatus,  \* the status the worker read
    requeue,    \* whether the handler returned an error or a RequeueAfter
    hostLocks,  \* the host IDs whose mutex is locked
    owner,      \* the inventory: bareMetalInstanceId label, or consumerRef
    bare,       \* Ironic nodes that have no osac_labels map yet
    labels,     \* per host, the keys of the other labels instances gave it
    faults,     \* failures so far
    lag         \* how many versions of an object the cache may be behind, in
                \* this behaviour

vars == <<versions, queue, timers, pc, obj, current, oldstatus, requeue,
          hostLocks, owner, bare, labels, faults, lag>>

worker == <<pc, obj, current, oldstatus, requeue>>
inventory == <<owner, bare, labels>>
-------------------------------------------------------------------------------
Phases == {"", "Allocating", "Progressing", "Failed", "Ready", "Deleting"}

Statuses == [phase : Phases, allocated : {"", "False", "True"}]

EmptyStatus == [phase |-> "", allocated |-> ""]

Finalizers == {"inventory", "management"}

(* A version of a BareMetalInstance. classed: spec.hostClass is not empty. *)
Objects == [life       : {"unborn", "live", "deleting", "gone"},
            host       : Hosts \union {NoHost},
            classed    : BOOLEAN,
            finalizers : SUBSET Finalizers,
            status     : Statuses]

NoObject == [life |-> "unborn", host |-> NoHost, classed |-> FALSE,
             finalizers |-> {}, status |-> EmptyStatus]

Exists(o) == o.life \in {"live", "deleting"}

Cached(i) == versions[i][1]
Stored(i) == versions[i][Len(versions[i])]

(* A write at the API server. An informer that is lag versions behind      *)
(* receives its next watch event no later than this write.                 *)
Publish(i, o) ==
    versions' = [versions EXCEPT ![i] =
                    IF Len(@) > lag THEN Append(Tail(@), o) ELSE Append(@, o)]

(* The key the watch event of that write puts on the work queue. *)
Woken(i) == IF Len(versions[i]) > lag THEN {i} ELSE {}

SpecUpdates == {"addInventory", "select", "setClass", "clearHost",
                "addManagement", "dropManagement", "dropInventory"}

(* Inside AssignHost and UnassignHost. *)
ClaimSteps == {"getForClaim", "initLabels", "claim"}
ReleaseSteps == {"getForRelease", "release"}

RemoteCalls == SpecUpdates \union ClaimSteps \union ReleaseSteps
                 \union {"find", "manage", "deprovision"}

ProgramPoints == RemoteCalls \union
                   {"idle", "lockForClaim", "lockForRelease", "status"}

(* Whether a worker holds the lock of its host; dropInventory is inside the *)
(* critical section when a host was released.                               *)
Locked(i) ==
    \/ pc[i] \in ClaimSteps \union ReleaseSteps \union {"setClass", "clearHost"}
    \/ pc[i] = "dropInventory" /\ obj[i].host # NoHost

(* Mutant: an early return without the Unlock. *)
AfterUnlock_NoDefer(i) == hostLocks

(* The deferred Unlock, run when the handler returns. *)
AfterUnlock(i) == IF Locked(i) THEN hostLocks \ {obj[i].host} ELSE hostLocks

Init ==
    /\ versions = [i \in Instances |-> <<NoObject>>]
    /\ queue = {}
    /\ timers = {}
    /\ pc = [i \in Instances |-> "idle"]
    /\ obj = [i \in Instances |-> NoObject]
    /\ current = [i \in Instances |-> FALSE]
    /\ oldstatus = [i \in Instances |-> EmptyStatus]
    /\ requeue = [i \in Instances |-> FALSE]
    /\ hostLocks = {}
    /\ owner = [h \in Hosts |-> NoInstance]
    /\ bare = IF Backend = "openstack" THEN Hosts ELSE {}
    /\ labels = [h \in Hosts |-> {}]
    /\ faults = 0
    /\ lag \in 0 .. MaxLag
-------------------------------------------------------------------------------
(* Users and the informer *)

(* A BareMetalInstance is created, by a pool or by a user, without a host. *)
Create(i) ==
    /\ Stored(i).life = "unborn"
    /\ Publish(i, [NoObject EXCEPT !.life = "live"])
    /\ queue' = queue \union Woken(i)
    /\ UNCHANGED <<timers, worker, hostLocks, inventory, faults>>

(* An API delete marks an object that has finalizers, removes one that has none. *)
Delete(i) ==
    LET o == Stored(i) IN
    /\ o.life = "live"
    /\ Publish(i, [o EXCEPT !.life = IF o.finalizers = {} THEN "gone" ELSE "deleting"])
    /\ queue' = queue \union Woken(i)
    /\ current' = [current EXCEPT ![i] = FALSE]
    /\ UNCHANGED <<timers, pc, obj, oldstatus, requeue, hostLocks, inventory, faults>>

(* Somebody updates a field this module leaves out: the resourceVersion moves on. *)
EditByOther(i) ==
    /\ Exists(Stored(i))
    /\ faults < MaxFaults
    /\ faults' = faults + 1
    /\ Publish(i, Stored(i))
    /\ queue' = queue \union Woken(i)
    /\ current' = [current EXCEPT ![i] = FALSE]
    /\ UNCHANGED <<timers, pc, obj, oldstatus, requeue, hostLocks, inventory>>

(* The informer receives a watch event, updates the cache and queues the key. *)
DeliverEvent(i) ==
    /\ Len(versions[i]) > 1
    /\ versions' = [versions EXCEPT ![i] = Tail(@)]
    /\ queue' = queue \union {i}
    /\ UNCHANGED <<timers, worker, hostLocks, inventory, faults>>

(* A RequeueAfter or a back-off expires. *)
FireTimer(i) ==
    /\ i \in timers
    /\ timers' = timers \ {i}
    /\ queue' = queue \union {i}
    /\ UNCHANGED <<versions, worker, hostLocks, inventory, faults>>
-------------------------------------------------------------------------------
(* Reconcile, up to the first remote call *)

Dequeue(i) ==
    /\ pc[i] = "idle"
    /\ i \in queue
    /\ Cardinality({j \in Instances : pc[j] # "idle"}) < MaxConcurrentReconciles
    /\ queue' = queue \ {i}
    /\ UNCHANGED <<versions, timers, hostLocks, inventory, faults>>

(* The copy read from the cache, with the status the handler gives it. *)
Begin(i, status, next) ==
    /\ obj' = [obj EXCEPT ![i] = [Cached(i) EXCEPT !.status = status]]
    /\ current' = [current EXCEPT ![i] = Len(versions[i]) = 1]
    /\ oldstatus' = [oldstatus EXCEPT ![i] = Cached(i).status]
    /\ pc' = [pc EXCEPT ![i] = next]
    /\ UNCHANGED requeue

(* Get returned NotFound. *)
ReconcileMissing(i) ==
    /\ Dequeue(i)
    /\ ~Exists(Cached(i))
    /\ UNCHANGED worker

(* handleUpdate without a HostClass: reconcileInventory. *)
ReconcileInventory(i) ==
    LET o == Cached(i) IN
    /\ Dequeue(i)
    /\ o.life = "live" /\ ~o.classed
    /\ Begin(i, [phase |-> "Allocating", allocated |-> "False"],
             IF "inventory" \notin o.finalizers THEN "addInventory"
             ELSE IF o.host = NoHost THEN "find" ELSE "lockForClaim")

(* handleUpdate with a HostClass: reconcileManagement. *)
ReconcileManagement(i) ==
    LET o == Cached(i) IN
    /\ Dequeue(i)
    /\ o.life = "live" /\ o.classed
    /\ Begin(i, o.status,
             IF "management" \in o.finalizers THEN "manage" ELSE "addManagement")

(* handleDeletion once the management finalizer is gone. *)
InventoryCleanup(o) ==
    IF "inventory" \notin o.finalizers THEN "status"
    ELSE IF o.host = NoHost THEN "dropInventory" ELSE "lockForRelease"

(* Mutant: the inventory is cleaned up first. *)
HandleDeletion_HostFirst(i) ==
    /\ Dequeue(i)
    /\ Cached(i).life = "deleting"
    /\ Begin(i, Cached(i).status, InventoryCleanup(Cached(i)))

HandleDeletion(i) ==
    LET o == Cached(i) IN
    /\ Dequeue(i)
    /\ o.life = "deleting"
    /\ IF "management" \in o.finalizers
       THEN Begin(i, [o.status EXCEPT !.phase = "Deleting"], "deprovision")
       ELSE Begin(i, o.status, InventoryCleanup(o))
-------------------------------------------------------------------------------
(* The end of a reconcile *)

(* The handler returns: Reconcile goes on to the status update. *)
Return(i, status, again) ==
    /\ pc' = [pc EXCEPT ![i] = "status"]
    /\ obj' = [obj EXCEPT ![i].status = status]
    /\ requeue' = [requeue EXCEPT ![i] = again]
    /\ UNCHANGED <<timers, oldstatus>>

Done(i, again) ==
    /\ timers' = IF again THEN timers \union {i} ELSE timers
    /\ pc' = [pc EXCEPT ![i] = "idle"]
    /\ obj' = [obj EXCEPT ![i] = NoObject]
    /\ current' = [current EXCEPT ![i] = FALSE]
    /\ oldstatus' = [oldstatus EXCEPT ![i] = EmptyStatus]
    /\ requeue' = [requeue EXCEPT ![i] = FALSE]
    /\ UNCHANGED <<hostLocks, inventory>>

StatusChanged(i) == obj[i].status # oldstatus[i]

(* Optimistic concurrency: the API server takes an update of the version it has. *)
Accepted(i) == current[i] /\ Exists(Stored(i))

(* No status update, or one the API server refuses with NotFound, which is ignored. *)
EndReconcile(i) ==
    /\ pc[i] = "status"
    /\ ~StatusChanged(i) \/ ~Exists(Stored(i))
    /\ Done(i, requeue[i])
    /\ UNCHANGED <<versions, queue, faults>>

UpdateStatus(i) ==
    /\ pc[i] = "status"
    /\ StatusChanged(i)
    /\ Accepted(i)
    /\ Publish(i, [Stored(i) EXCEPT !.status = obj[i].status])
    /\ queue' = queue \union Woken(i)
    /\ Done(i, requeue[i])
    /\ UNCHANGED faults

(* The error of the status update makes the key come back. *)
StatusConflict(i) ==
    /\ pc[i] = "status"
    /\ StatusChanged(i)
    /\ ~current[i] /\ Exists(Stored(i))
    /\ Done(i, TRUE)
    /\ UNCHANGED <<versions, queue, faults>>

StatusRequestFails(i) ==
    /\ pc[i] = "status"
    /\ StatusChanged(i)
    /\ faults < MaxFaults
    /\ faults' = faults + 1
    /\ Done(i, TRUE)
    /\ UNCHANGED <<versions, queue>>
-------------------------------------------------------------------------------
(* Updates of the object *)

(* Decoding the response of an update into the copy brings back the stored *)
(* status; a field the stored status does not have keeps its value.        *)
Decoded(mine, stored) ==
    [phase     |-> IF stored.phase = "" THEN mine.phase ELSE stored.phase,
     allocated |-> IF stored.allocated = "" THEN mine.allocated ELSE stored.allocated]

(* The status of the copy after a successful Update. *)
StatusAfterUpdate(i) == Decoded(obj[i].status, Stored(i).status)

(* An object that is being deleted disappears with its last finalizer. *)
Swept(o) == IF o.life = "deleting" /\ o.finalizers = {}
            THEN [o EXCEPT !.life = "gone"] ELSE o

(* r.Update at this step of the worker. The status subresource is not written. *)
Update(i, step, o) ==
    /\ pc[i] = step
    /\ Accepted(i)
    /\ Publish(i, Swept([o EXCEPT !.status = Stored(i).status]))
    /\ queue' = queue \union Woken(i)
    /\ UNCHANGED <<current, inventory, faults>>

(* Mutant: the handler logs the error and returns nil. *)
Abort_Swallowed(i) ==
    /\ Return(i, obj[i].status, FALSE)
    /\ hostLocks' = AfterUnlock(i)
    /\ UNCHANGED <<versions, queue, current>>

(* The handler returns the error of a remote call. *)
Abort(i) ==
    /\ Return(i, [obj[i].status EXCEPT !.phase =
                     IF pc[i] \in {"addManagement", "manage"} THEN "Failed" ELSE @], TRUE)
    /\ hostLocks' = AfterUnlock(i)
    /\ UNCHANGED <<versions, queue, current>>

(* Conflict, or NotFound. *)
UpdateRejected(i) ==
    /\ pc[i] \in SpecUpdates
    /\ ~Accepted(i)
    /\ Abort(i)
    /\ UNCHANGED <<inventory, faults>>

RequestFails(i) ==
    /\ pc[i] \in RemoteCalls
    /\ faults < MaxFaults
    /\ faults' = faults + 1
    /\ Abort(i)
    /\ UNCHANGED inventory
-------------------------------------------------------------------------------
(* reconcileInventory *)

(* Mutant: the pool's finalizer is added. *)
AddInventoryFinalizer_Wrong(i) ==
    LET o == [obj[i] EXCEPT !.finalizers = @ \union {"pool"}] IN
    /\ Update(i, "addInventory", o)
    /\ Return(i, StatusAfterUpdate(i), FALSE)
    /\ UNCHANGED hostLocks

AddInventoryFinalizer(i) ==
    LET o == [obj[i] EXCEPT !.finalizers = @ \union {"inventory"}] IN
    /\ Update(i, "addInventory", o)
    /\ Return(i, StatusAfterUpdate(i), FALSE)
    /\ UNCHANGED hostLocks

(* Mutant: the host is claimed before it is stored in the spec. *)
FindFreeHost_ClaimFirst(i) ==
    /\ pc[i] = "find"
    /\ \E h \in Matching :
          /\ owner[h] = NoInstance
          /\ obj' = [obj EXCEPT ![i].host = h]
    /\ pc' = [pc EXCEPT ![i] = "lockForClaim"]
    /\ UNCHANGED <<versions, queue, timers, current, oldstatus, requeue,
                   hostLocks, inventory, faults>>

(* FindFreeHost picks any host that fits and has no consumer ... *)
FindFreeHost(i) ==
    /\ pc[i] = "find"
    /\ \E h \in Matching :
          /\ owner[h] = NoInstance
          /\ obj' = [obj EXCEPT ![i].host = h]
    /\ pc' = [pc EXCEPT ![i] = "select"]
    /\ UNCHANGED <<versions, queue, timers, current, oldstatus, requeue,
                   hostLocks, inventory, faults>>

(* Mutant: no RequeueAfter. *)
NoFreeHost_NoPoll(i) ==
    /\ pc[i] = "find"
    /\ \A h \in Matching : owner[h] # NoInstance
    /\ Return(i, [obj[i].status EXCEPT !.phase = "Failed"], FALSE)
    /\ UNCHANGED <<versions, queue, current, hostLocks, inventory, faults>>

(* ... or returns nil, and the instance polls. *)
NoFreeHost(i) ==
    /\ pc[i] = "find"
    /\ \A h \in Matching : owner[h] # NoInstance
    /\ Return(i, [obj[i].status EXCEPT !.phase = "Failed"], TRUE)
    /\ UNCHANGED <<versions, queue, current, hostLocks, inventory, faults>>

(* spec.externalHostID is stored before the host is claimed. *)
SelectHost(i) ==
    /\ Update(i, "select", obj[i])
    /\ Return(i, StatusAfterUpdate(i), FALSE)
    /\ UNCHANGED hostLocks

(* Mutant: the result of TryLock is ignored. *)
TryLock_Ignored(i) ==
    /\ pc[i] \in {"lockForClaim", "lockForRelease"}
    /\ hostLocks' = hostLocks \union {obj[i].host}
    /\ pc' = [pc EXCEPT ![i] = IF @ = "lockForClaim" THEN "getForClaim" ELSE "getForRelease"]
    /\ UNCHANGED <<versions, queue, timers, obj, current, oldstatus, requeue,
                   inventory, faults>>

(* TryLock, before a claim and before a release. *)
TryLock(i) ==
    /\ pc[i] \in {"lockForClaim", "lockForRelease"}
    /\ obj[i].host \notin hostLocks
    /\ hostLocks' = hostLocks \union {obj[i].host}
    /\ pc' = [pc EXCEPT ![i] = IF @ = "lockForClaim" THEN "getForClaim" ELSE "getForRelease"]
    /\ UNCHANGED <<versions, queue, timers, obj, current, oldstatus, requeue,
                   inventory, faults>>

TryLockFails(i) ==
    /\ pc[i] \in {"lockForClaim", "lockForRelease"}
    /\ obj[i].host \in hostLocks
    /\ Return(i, obj[i].status, TRUE)
    /\ UNCHANGED <<versions, queue, current, hostLocks, inventory, faults>>

(* Mutant: the current consumer is not looked at. *)
GetForClaim_Unchecked(i) ==
    /\ pc[i] = "getForClaim"
    /\ pc' = [pc EXCEPT ![i] = IF obj[i].host \in bare THEN "initLabels" ELSE "claim"]
    /\ UNCHANGED <<versions, queue, timers, obj, current, oldstatus, requeue,
                   hostLocks, inventory, faults>>

(* Mutant: any consumer is taken for the instance's own earlier claim. *)
GetForClaim_AnyOwner(i) ==
    LET h == obj[i].host IN
    /\ pc[i] = "getForClaim"
    /\ pc' = [pc EXCEPT ![i] =
                 IF owner[h] # NoInstance THEN "setClass"
                 ELSE IF h \in bare THEN "initLabels" ELSE "claim"]
    /\ UNCHANGED <<versions, queue, timers, obj, current, oldstatus, requeue,
                   hostLocks, inventory, faults>>

(* AssignHost reads the host: another consumer's is given up, a free one    *)
(* or the instance's own is written.                                        *)
GetForClaim(i) ==
    LET h == obj[i].host IN
    /\ pc[i] = "getForClaim"
    /\ pc' = [pc EXCEPT ![i] =
                 IF owner[h] \notin {NoInstance, i} THEN "clearHost"
                 ELSE IF h \in bare THEN "initLabels" ELSE "claim"]
    /\ UNCHANGED <<versions, queue, timers, obj, current, oldstatus, requeue,
                   hostLocks, inventory, faults>>

(* OpenStack only: the first patch sets osac_labels to an empty map, whatever *)
(* the node holds by then.                                                    *)
InitLabels(i) ==
    LET h == obj[i].host IN
    /\ pc[i] = "initLabels"
    /\ owner' = [owner EXCEPT ![h] = NoInstance]
    /\ labels' = [labels EXCEPT ![h] = {}]
    /\ bare' = bare \ {h}
    /\ pc' = [pc EXCEPT ![i] = "claim"]
    /\ UNCHANGED <<versions, queue, timers, obj, current, oldstatus, requeue,
                   hostLocks, faults>>

(* The write of the claim. Ironic patches the node unconditionally; the API *)
(* server refuses a BareMetalHost that is no longer the one that was read.  *)
Writable(i) == Backend = "metal3" => owner[obj[i].host] \in {NoInstance, i}

(* One request claims the host and gives it both kinds of labels. *)
Claimed(i) ==
    /\ owner' = [owner EXCEPT ![obj[i].host] = i]
    /\ labels' = [labels EXCEPT ![obj[i].host] =
                     @ \union InventoryLabels[i] \union PersistentLabels[i]]

Claim(i) ==
    /\ pc[i] = "claim"
    /\ Writable(i)
    /\ Claimed(i)
    /\ pc' = [pc EXCEPT ![i] = "setClass"]
    /\ UNCHANGED <<versions, queue, timers, obj, current, oldstatus, requeue,
                   hostLocks, bare, faults>>

(* A BareMetalHost that somebody, the BareMetalOperator for one, has updated  *)
(* since it was read.                                                         *)
ClaimConflict(i) ==
    /\ pc[i] = "claim"
    /\ Backend = "metal3"
    /\ Writable(i) => faults < MaxFaults
    /\ faults' = IF Writable(i) THEN faults + 1 ELSE faults
    /\ Abort(i)
    /\ UNCHANGED inventory

(* The claim is written and the reply is lost. *)
ClaimReplyLost(i) ==
    /\ pc[i] = "claim"
    /\ Writable(i)
    /\ Claimed(i)
    /\ faults < MaxFaults
    /\ faults' = faults + 1
    /\ Abort(i)
    /\ UNCHANGED bare

(* HostClass and NetworkClass record the claim; the status follows. *)
SetHostClass(i) ==
    /\ Update(i, "setClass", [obj[i] EXCEPT !.classed = TRUE])
    /\ Return(i, [phase |-> "Progressing", allocated |-> "True"], FALSE)
    /\ hostLocks' = AfterUnlock(i)

(* The host belongs to somebody else: forget it. *)
ClearHost(i) ==
    /\ Update(i, "clearHost", [obj[i] EXCEPT !.host = NoHost])
    /\ Return(i, StatusAfterUpdate(i), FALSE)
    /\ hostLocks' = AfterUnlock(i)
-------------------------------------------------------------------------------
(* reconcileManagement, of which this module keeps the finalizer, the host it *)
(* acts on, and what it leaves in the status                                  *)

AddManagementFinalizer(i) ==
    /\ Update(i, "addManagement",
              [obj[i] EXCEPT !.finalizers = @ \union {"management"}])
    /\ Return(i, [StatusAfterUpdate(i) EXCEPT !.phase = "Progressing"], FALSE)
    /\ UNCHANGED hostLocks

(* Provisioning, restart and power of obj[i].host: ready, in progress (with a *)
(* requeue), failed with an error, or a failed template.                      *)
ManageHost(i) ==
    /\ pc[i] = "manage"
    /\ \E phase \in {"Ready", "Progressing", "Failed"}, again \in BOOLEAN :
          /\ phase = "Ready" => ~again
          /\ phase = "Progressing" => again
          /\ Return(i, [obj[i].status EXCEPT !.phase = phase], again)
    /\ UNCHANGED <<versions, queue, current, hostLocks, inventory, faults>>
-------------------------------------------------------------------------------
(* handleDeletion *)

(* reconcileDeprovisioning is not done: the template's job is polled. *)
DeprovisionPending(i) ==
    /\ pc[i] = "deprovision"
    /\ Return(i, obj[i].status, TRUE)
    /\ UNCHANGED <<versions, queue, current, hostLocks, inventory, faults>>

(* It is done, or there is no template to run. *)
DeprovisionDone(i) ==
    /\ pc[i] = "deprovision"
    /\ pc' = [pc EXCEPT ![i] = "dropManagement"]
    /\ UNCHANGED <<versions, queue, timers, obj, current, oldstatus, requeue,
                   hostLocks, inventory, faults>>

(* The same call of handleDeletion goes on to the inventory. *)
DropManagementFinalizer(i) ==
    LET o == [obj[i] EXCEPT !.finalizers = @ \ {"management"}] IN
    /\ Update(i, "dropManagement", o)
    /\ obj' = [obj EXCEPT ![i] = [o EXCEPT !.status = StatusAfterUpdate(i)]]
    /\ pc' = [pc EXCEPT ![i] = InventoryCleanup(o)]
    /\ UNCHANGED <<timers, oldstatus, requeue, hostLocks>>

(* Mutant: a node without a consumer is taken to be clean. *)
GetForRelease_ClaimOnly(i) ==
    /\ pc[i] = "getForRelease"
    /\ pc' = [pc EXCEPT ![i] =
                 IF Backend = "openstack" /\ owner[obj[i].host] = NoInstance
                 THEN "dropInventory" ELSE "release"]
    /\ UNCHANGED <<versions, queue, timers, obj, current, oldstatus, requeue,
                   hostLocks, inventory, faults>>

(* UnassignHost reads the host; a node on which there is nothing to remove *)
(* is not patched ...                                                       *)
GetForRelease(i) ==
    LET h == obj[i].host IN
    /\ pc[i] = "getForRelease"
    /\ pc' = [pc EXCEPT ![i] =
                 IF /\ Backend = "openstack"
                    /\ owner[h] = NoInstance
                    /\ labels[h] \intersect InventoryLabels[i] = {}
                 THEN "dropInventory" ELSE "release"]
    /\ UNCHANGED <<versions, queue, timers, obj, current, oldstatus, requeue,
                   hostLocks, inventory, faults>>

(* Mutant: the combined labels of the allocation are removed. *)
Released_AllLabels(i) ==
    /\ pc[i] = "release"
    /\ owner' = [owner EXCEPT ![obj[i].host] = NoInstance]
    /\ labels' = [labels EXCEPT ![obj[i].host] =
                     @ \ (InventoryLabels[i] \union PersistentLabels[i])]
    /\ UNCHANGED bare

(* ... and removes its consumer, whoever that is, and the labels of *)
(* inventorylabels, whoever else has set them.                       *)
Released(i) ==
    /\ pc[i] = "release"
    /\ owner' = [owner EXCEPT ![obj[i].host] = NoInstance]
    /\ labels' = [labels EXCEPT ![obj[i].host] = @ \ InventoryLabels[i]]
    /\ UNCHANGED bare

Release(i) ==
    /\ Released(i)
    /\ pc' = [pc EXCEPT ![i] = "dropInventory"]
    /\ UNCHANGED <<versions, queue, timers, obj, current, oldstatus, requeue,
                   hostLocks, faults>>

ReleaseReplyLost(i) ==
    /\ Released(i)
    /\ faults < MaxFaults
    /\ faults' = faults + 1
    /\ Abort(i)

(* OpenStack only: an authentication error replaces the service client, and the *)
(* operation starts over, in the same call and under the same lock.  Whatever    *)
(* fails after gophercloud has renewed a token is taken for such an error, so    *)
(* the request may have been carried out.  (The code does it once per call and   *)
(* returns the second such error; here only MaxFaults limits it.)                 *)
Reconnect(i) ==
    /\ Backend = "openstack"
    /\ pc[i] \in ClaimSteps \union ReleaseSteps
    /\ faults < MaxFaults
    /\ faults' = faults + 1
    /\ \/ UNCHANGED inventory
       \/ pc[i] = "claim" /\ Claimed(i) /\ UNCHANGED bare
       \/ Released(i)
    /\ pc' = [pc EXCEPT ![i] =
                 IF @ \in ClaimSteps THEN "getForClaim" ELSE "getForRelease"]
    /\ UNCHANGED <<versions, queue, timers, obj, current, oldstatus, requeue, hostLocks>>

DropInventoryFinalizer(i) ==
    /\ Update(i, "dropInventory",
              [obj[i] EXCEPT !.finalizers = @ \ {"inventory"}])
    /\ Return(i, StatusAfterUpdate(i), FALSE)
    /\ hostLocks' = AfterUnlock(i)
-------------------------------------------------------------------------------
(* The process dies and another one starts: locks, queue, timers and workers *)
(* are gone, and the new cache lists every object.                           *)
Restart ==
    /\ faults < MaxFaults
    /\ faults' = faults + 1
    /\ versions' = [i \in Instances |-> <<Stored(i)>>]
    /\ queue' = {i \in Instances : Exists(Stored(i))}
    /\ timers' = {}
    /\ pc' = [i \in Instances |-> "idle"]
    /\ obj' = [i \in Instances |-> NoObject]
    /\ current' = [i \in Instances |-> FALSE]
    /\ oldstatus' = [i \in Instances |-> EmptyStatus]
    /\ requeue' = [i \in Instances |-> FALSE]
    /\ hostLocks' = {}
    /\ UNCHANGED inventory

Start(i) ==
    \/ ReconcileMissing(i)
    \/ ReconcileInventory(i)
    \/ ReconcileManagement(i)
    \/ HandleDeletion(i)

(* What a worker does next when no request fails. *)
Step(i) ==
    \/ EndReconcile(i) \/ UpdateStatus(i) \/ StatusConflict(i)
    \/ UpdateRejected(i)
    \/ AddInventoryFinalizer(i)
    \/ FindFreeHost(i) \/ NoFreeHost(i) \/ SelectHost(i)
    \/ TryLock(i) \/ TryLockFails(i)
    \/ GetForClaim(i) \/ InitLabels(i) \/ Claim(i)
    \/ SetHostClass(i) \/ ClearHost(i)
    \/ AddManagementFinalizer(i) \/ ManageHost(i)
    \/ DeprovisionPending(i) \/ DeprovisionDone(i)
    \/ DropManagementFinalizer(i)
    \/ GetForRelease(i) \/ Release(i) \/ DropInventoryFinalizer(i)

Fault(i) ==
    \/ RequestFails(i) \/ StatusRequestFails(i)
    \/ ClaimConflict(i) \/ ClaimReplyLost(i) \/ ReleaseReplyLost(i)
    \/ Reconnect(i)

Environment(i) == Create(i) \/ Delete(i) \/ EditByOther(i)

Informer(i) == DeliverEvent(i) \/ FireTimer(i)

Next ==
    /\ \/ Restart
       \/ \E i \in Instances :
             Environment(i) \/ Informer(i) \/ Start(i) \/ Step(i) \/ Fault(i)
    /\ UNCHANGED lag

Spec == Init /\ [][Next]_vars

(***************************************************************************)
(* Scheduling: a worker whose calls return goes on; the informer keeps     *)
(* receiving events; a delayed key is eventually queued; the work queue is *)
(* first-in first-out, so a key that waits gets a worker even though other *)
(* keys keep them busy; and a deprovision job that is polled for ever      *)
(* finishes.                                                               *)
(***************************************************************************)
Fairness ==
    \A i \in Instances :
        /\ WF_vars(Step(i) /\ UNCHANGED lag)
        /\ WF_vars(DeliverEvent(i) /\ UNCHANGED lag)
        /\ WF_vars(FireTimer(i) /\ UNCHANGED lag)
        /\ SF_vars(Start(i) /\ UNCHANGED lag)
        /\ SF_vars(DeprovisionDone(i) /\ UNCHANGED lag)

FairSpec == Spec /\ Fairness
-------------------------------------------------------------------------------
(* Properties *)

TypeOK ==
    /\ versions \in [Instances -> Seq(Objects) \ {<<>>}]
    /\ queue \subseteq Instances
    /\ timers \subseteq Instances
    /\ pc \in [Instances -> ProgramPoints]
    /\ obj \in [Instances -> Objects]
    /\ current \in [Instances -> BOOLEAN]
    /\ oldstatus \in [Instances -> Statuses]
    /\ requeue \in [Instances -> BOOLEAN]
    /\ hostLocks \subseteq Hosts
    /\ owner \in [Hosts -> Instances \union {NoInstance}]
    /\ bare \subseteq Hosts
    /\ labels \in [Hosts -> SUBSET Labels]
    /\ faults \in 0 .. MaxFaults
    /\ lag \in 0 .. MaxLag

(* Two workers are never between TryLock and Unlock of the same host. *)
LockExclusion ==
    \A i, j \in Instances :
        i # j /\ Locked(i) /\ Locked(j) => obj[i].host # obj[j].host

(* A mutex is locked only while the worker that locked it has still to unlock *)
(* it: no path of the handlers leaves a host locked for ever.                  *)
NoLockLeak ==
    \A h \in hostLocks : \E i \in Instances : Locked(i) /\ obj[i].host = h

(* What AssignHost read of a host still holds when its patches arrive: the   *)
(* patch that creates osac_labels erases no claim, and the claim replaces    *)
(* nobody else's.  Ironic checks neither.                                    *)
ClaimStillFree ==
    \A i \in Instances :
        /\ pc[i] = "initLabels" => owner[obj[i].host] = NoInstance
        /\ pc[i] = "claim" => owner[obj[i].host] \in {NoInstance, i}

(* A host goes back to the inventory only for an instance whose management   *)
(* finalizer the API server, not just the cache, has dropped: the template's *)
(* teardown is over before another instance can be given the machine.        *)
ReleaseAfterManagement ==
    \A i \in Instances : pc[i] = "release" =>
        /\ Stored(i).life \in {"deleting", "gone"}
        /\ "management" \notin Stored(i).finalizers

(* Every claim in the inventory is one the instance's object leads to and    *)
(* still has the inventory finalizer for, so its deletion will find the host *)
(* and release it.                                                           *)
ClaimsAreRecorded ==
    \A i \in Instances, h \in Hosts : owner[h] = i =>
        /\ Exists(Stored(i))
        /\ Stored(i).host = h
        /\ "inventory" \in Stored(i).finalizers

(* ... when the cache is up to date, whatever fails (host_leak has it broken   *)
(* with an old cache).                                                        *)
ClaimsStayRecorded == lag = 0 => ClaimsAreRecorded

(* Every label of a host that is not persistent is one that the deletion of  *)
(* an instance that still exists will remove ...                             *)
LabelsAreRecorded ==
    \A h \in Hosts :
        \A k \in labels[h] \ UNION {PersistentLabels[j] : j \in Instances} :
            \E i \in Instances :
                /\ Stored(i).host = h
                /\ k \in InventoryLabels[i]
                /\ Exists(Stored(i))
                /\ "inventory" \in Stored(i).finalizers

(* The release of a host leaves it the labels the instance has in            *)
(* inventorypersistentlabels: they "will remain on the host after the        *)
(* BareMetalInstance is deleted".                                            *)
PersistentLabelsStay ==
    [][\A i \in Instances :
          pc[i] = "release" =>
             LET h == obj[i].host IN
             PersistentLabels[i] \intersect labels[h] \subseteq labels'[h]]_vars

(* An instance that is gone has left nothing claimed: handleDeletion "frees the *)
(* host in the inventory and removes the finalizer".                            *)
HostFreedOnDeletion ==
    \A i \in Instances :
        Stored(i).life = "gone" => \A h \in Hosts : owner[h] # i

(* Ready, an instance says so in its Allocated condition too. *)
ReadyIsAllocated ==
    \A i \in Instances :
        Stored(i).status.phase = "Ready" => Stored(i).status.allocated = "True"

(* No two instances have been allocated the same host. *)
NoDoubleBooking ==
    \A i, j \in Instances :
        /\ Exists(Stored(i)) /\ Stored(i).classed
        /\ Exists(Stored(j)) /\ Stored(j).classed
        /\ Stored(i).host = Stored(j).host
        => i = j

(* Whoever powers, restarts or provisions a host holds its claim. *)
ManagesOnlyOwnHost ==
    \A i \in Instances :
        pc[i] \in {"manage", "deprovision"} => owner[obj[i].host] = i

(* Deleted after it had chosen a host and before it was allocated it, an  *)
(* instance releases that host, whoever holds it.                          *)
DeletedWhileChoosing(i) ==
    /\ Stored(i).life \in {"deleting", "gone"}
    /\ Stored(i).host # NoHost
    /\ ~Stored(i).classed

(* The cache is up to date, no instance was deleted while choosing, and nothing *)
(* has failed: a release that is tried again also removes whatever claim it     *)
(* finds, and so does one that an old cache asks for.                           *)
Orderly == lag = 0 /\ faults = 0 /\ \A i \in Instances : ~DeletedWhileChoosing(i)

AtMostTwo ==
    \E i, j \in Instances :
        \A k \in Instances : Stored(k).life # "unborn" => k \in {i, j}

(* ... "these labels are non-persistent and will be removed when the          *)
(* BareMetalInstance is deleted", also when somebody else has released the    *)
(* host before, if the cache is up to date.  But when a third instance is     *)
(* then allocated the host, the first one clears its host and never comes     *)
(* back for its labels.                                                       *)
LabelsStayRecorded == lag = 0 /\ (Orderly \/ AtMostTwo) => LabelsAreRecorded

(* As long as that is so, no two instances have been allocated the same host *)
(* (double_booking has it broken by a deletion) ...                           *)
BookedOnce == Orderly => NoDoubleBooking

(* ... and a host is powered, restarted and provisioned for its holder only. *)
HolderManages == Orderly => ManagesOnlyOwnHost

Waiting(i) == Stored(i).life = "live" /\ ~Stored(i).classed

AllHostsInUse(i) ==
    \A h \in Matching : \E j \in Instances \ {i} :
        owner[h] = j /\ Stored(j).life = "live"

(* An instance that waits is allocated a host, is deleted, or keeps waiting  *)
(* only as long as instances nobody deletes hold every host: a lost race, a  *)
(* failed TryLock, an empty inventory or a crash never strands it.           *)
Served(i) == Waiting(i) ~> (~Waiting(i) \/ AllHostsInUse(i))

(* An instance that is being deleted is eventually gone. *)
DeletionEnds(i) == Stored(i).life = "deleting" ~> Stored(i).life = "gone"

(* The sequence of inventory calls under the lock works like the indivisible *)
(* claims of HostClaims.                                                      *)
Claims == INSTANCE HostClaims
    WITH Instances <- Instances, Hosts <- Hosts, NoInstance <- NoInstance, owner <- owner
ImplementsHostClaims == Claims!Spec
===============================================================================
