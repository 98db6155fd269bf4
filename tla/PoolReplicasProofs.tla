-------------------------- MODULE PoolReplicasProofs ---------------------------
(***************************************************************************)
(* What holds of PoolReplicas for every set of instances, host types and   *)
(* jobs, and in every environment, however far the caches are behind.      *)
(***************************************************************************)
EXTENDS PoolReplicas, FiniteSetTheorems, TLAPS

(* The parts of a status and of a pool, and what an assignment to one of them gives. *)
LEMMA StatusParts ==
    ASSUME NEW s \in Statuses
    PROVE  /\ s.phase \in {"", "Progressing", "Failed", "Ready", "Deleting"}
           /\ s.job \in JobStatuses
           /\ s.hosts \in [HostTypes -> Nat]
           /\ s.desired \in Versions
           /\ \A p \in {"", "Progressing", "Failed", "Ready", "Deleting"} :
                 [s EXCEPT !.phase = p] \in Statuses
           /\ \A h \in [HostTypes -> Nat] : [s EXCEPT !.hosts = h] \in Statuses
           /\ \A j \in JobStatuses : [s EXCEPT !.job = j] \in Statuses
           /\ \A v \in Versions : [s EXCEPT !.desired = v] \in Statuses
  BY DEF Statuses

LEMMA PoolParts ==
    ASSUME NEW p \in Pools
    PROVE  /\ p.status \in Statuses
           /\ p.replicas \in Replicas
           /\ p.finalizer \in BOOLEAN
           /\ p.life \in {"live", "deleting", "gone"}
           /\ \A s \in Statuses : [p EXCEPT !.status = s] \in Pools
           /\ \A f \in BOOLEAN : [p EXCEPT !.finalizer = f] \in Pools
           /\ \A r \in Replicas : [p EXCEPT !.replicas = r] \in Pools
           /\ \A l \in {"live", "deleting", "gone"} : [p EXCEPT !.life = l] \in Pools
           /\ Swept(p) \in Pools
  BY DEF Pools, Swept

LEMMA InstanceParts ==
    ASSUME NEW i \in InstanceStates
    PROVE  /\ i.life \in {"absent", "live", "deleting"}
           /\ \A l \in {"absent", "live", "deleting"} : [i EXCEPT !.life = l] \in InstanceStates
           /\ \A r \in BOOLEAN : [i EXCEPT !.ready = r] \in InstanceStates
  BY DEF InstanceStates

LEMMA ConstantTypes ==
    /\ NoReplicas \in Replicas
    /\ NoReplicas \in [HostTypes -> Nat]
    /\ Replicas \subseteq Versions /\ NoVersion \in Versions
    /\ NoJobStatus \in JobStatuses
    /\ EmptyStatus \in Statuses
    /\ NoPool \in Pools
    /\ Absent \in InstanceStates
    /\ Nobody \in [HostTypes -> SUBSET Instances]
  <1>1. NoReplicas \in Replicas /\ NoReplicas \in [HostTypes -> Nat]
    BY BoundsAssumption DEF NoReplicas, Replicas
  <1>2. NoJobStatus \in JobStatuses
    BY DEF NoJobStatus, JobStatuses, JobStates, Versions
  <1>3. EmptyStatus \in Statuses
    BY <1>1, <1>2 DEF EmptyStatus, Statuses, Versions
  <1>4. NoPool \in Pools
    BY <1>1, <1>3 DEF NoPool, Pools
  <1> QED
    BY <1>1, <1>2, <1>3, <1>4 DEF Versions, Absent, InstanceStates, Nobody

(* The environment's bounds are natural numbers. *)
LEMMA EnvironmentParts ==
    ASSUME TypeOK
    PROVE  /\ env.poolLag \in Nat /\ env.listLag \in Nat
           /\ env.edits \in Nat /\ env.failures \in Nat
           /\ env.specs \subseteq Replicas
           /\ env.configs \subseteq Configs
  BY EnvironmentsAssumption DEF TypeOK, Replicas

(* What the caches and the API server hold. *)
LEMMA VersionTypes ==
    ASSUME TypeOK
    PROVE  /\ Pool \in Pools /\ CachedPool \in Pools
           /\ List \in [Instances -> InstanceStates]
           /\ CachedList \in [Instances -> InstanceStates]
           /\ Len(pools) \in Nat \ {0} /\ Len(lists) \in Nat \ {0}
  <1>1. Len(pools) \in 1 .. env.poolLag + 1 /\ Len(lists) \in 1 .. env.listLag + 1
    BY DEF TypeOK
  <1>2. Len(pools) \in Nat \ {0} /\ Len(lists) \in Nat \ {0}
    BY <1>1, EnvironmentParts
  <1>3. pools \in Seq(Pools) /\ lists \in Seq([Instances -> InstanceStates])
    BY DEF TypeOK
  <1> QED
    BY <1>2, <1>3 DEF Pool, CachedPool, List, CachedList

(* A window of versions: what appending to it and forgetting its first version does. *)
LEMMA Window ==
    ASSUME NEW S, NEW s \in Seq(S), NEW lag \in Nat, Len(s) \in 1 .. lag + 1, NEW e \in S
    PROVE  /\ Written(s, e, lag) \in Seq(S)
           /\ Len(Written(s, e, lag)) \in 1 .. lag + 1
  BY DEF Written

LEMMA WindowLast ==
    ASSUME NEW S, NEW s \in Seq(S), NEW lag \in Nat, Len(s) \in 1 .. lag + 1, NEW e \in S
    PROVE  Written(s, e, lag)[Len(Written(s, e, lag))] = e
  BY DEF Written

LEMMA WindowMembers ==
    ASSUME NEW S, NEW s \in Seq(S), NEW lag \in Nat, Len(s) \in 1 .. lag + 1, NEW e \in S
    PROVE  \A n \in 1 .. Len(Written(s, e, lag)) :
              \/ Written(s, e, lag)[n] = e
              \/ \E m \in 1 .. Len(s) : Written(s, e, lag)[n] = s[m]
  <1> DEFINE a == Append(s, e)
             w == Written(s, e, lag)
  <1>1. /\ a \in Seq(S) /\ Len(a) = Len(s) + 1 /\ a[Len(a)] = e
        /\ \A n \in 1 .. Len(s) : a[n] = s[n]
    OBVIOUS
  <1>2. Len(s) \in Nat /\ Len(s) >= 1
    OBVIOUS
  <1>3. CASE Len(s) > lag
    <2>1. w = Tail(a)
      BY <1>3 DEF Written
    <2>2. Len(w) = Len(s) /\ \A n \in 1 .. Len(s) : w[n] = a[n + 1]
      BY <2>1, <1>1, <1>2
    <2> QED
      BY <2>2, <1>1, <1>2
  <1>4. CASE ~(Len(s) > lag)
    <2>1. w = a
      BY <1>4 DEF Written
    <2> QED
      BY <2>1, <1>1, <1>2
  <1> QED
    BY <1>3, <1>4

LEMMA Forgotten ==
    ASSUME NEW S, NEW s \in Seq(S), NEW lag \in Nat, Len(s) \in 2 .. lag + 1
    PROVE  /\ Tail(s) \in Seq(S) /\ Len(Tail(s)) \in 1 .. lag + 1
           /\ Tail(s)[Len(Tail(s))] = s[Len(s)]
           /\ \A n \in 1 .. Len(Tail(s)) : \E m \in 1 .. Len(s) : Tail(s)[n] = s[m]
  <1>1. /\ Tail(s) \in Seq(S) /\ Len(Tail(s)) = Len(s) - 1
        /\ \A n \in 1 .. Len(s) - 1 : Tail(s)[n] = s[n + 1]
    OBVIOUS
  <1> QED
    BY <1>1

(* A write of the pool: it is the stored version now, and the others were there before. *)
LEMMA WritePoolEffect ==
    ASSUME TypeOK, NEW p \in Pools, WritePool(p)
    PROVE  /\ pools' \in Seq(Pools) /\ Len(pools') \in 1 .. env.poolLag + 1
           /\ queued' \in BOOLEAN
           /\ Pool' = p
           /\ \A n \in 1 .. Len(pools') :
                 pools'[n] = p \/ \E m \in 1 .. Len(pools) : pools'[n] = pools[m]
  <1> DEFINE w == Written(pools, p, env.poolLag)
  <1>1. pools \in Seq(Pools) /\ Len(pools) \in 1 .. env.poolLag + 1 /\ env.poolLag \in Nat
    BY EnvironmentParts DEF TypeOK
  <1>2. w \in Seq(Pools) /\ Len(w) \in 1 .. env.poolLag + 1
    BY <1>1, Window
  <1>3. w[Len(w)] = p
    BY <1>1, WindowLast
  <1>4. \A n \in 1 .. Len(w) : w[n] = p \/ \E m \in 1 .. Len(pools) : w[n] = pools[m]
    BY <1>1, WindowMembers
  <1>5. pools' = w
    BY DEF WritePool
  <1> QED
    BY <1>2, <1>3, <1>4, <1>5 DEF Pool, WritePool, TypeOK

LEMMA WriteListEffect ==
    ASSUME TypeOK, NEW list \in [Instances -> InstanceStates], WriteList(list)
    PROVE  /\ lists' \in Seq([Instances -> InstanceStates])
           /\ Len(lists') \in 1 .. env.listLag + 1
           /\ queued' \in BOOLEAN
           /\ List' = list
  <1> DEFINE S == [Instances -> InstanceStates]
             w == Written(lists, list, env.listLag)
  <1>1. lists \in Seq(S) /\ Len(lists) \in 1 .. env.listLag + 1 /\ env.listLag \in Nat
    BY EnvironmentParts DEF TypeOK
  <1>2. w \in Seq(S) /\ Len(w) \in 1 .. env.listLag + 1
    BY <1>1, Window
  <1>3. w[Len(w)] = list
    BY <1>1, WindowLast
  <1>4. lists' = w
    BY DEF WriteList
  <1> QED
    BY <1>2, <1>3, <1>4 DEF List, WriteList, TypeOK

LEMMA SetInstanceEffect ==
    ASSUME TypeOK, NEW u \in Instances, NEW i \in InstanceStates, SetInstance(u, i)
    PROVE  /\ lists' \in Seq([Instances -> InstanceStates])
           /\ Len(lists') \in 1 .. env.listLag + 1
           /\ queued' \in BOOLEAN
           /\ List' = [List EXCEPT ![u] = i]
  <1>1. [List EXCEPT ![u] = i] \in [Instances -> InstanceStates]
    BY VersionTypes
  <1> QED
    BY <1>1, WriteListEffect DEF SetInstance

(* A delete leaves every instance that was not stored unstored. *)
LEMMA DeletedTypes ==
    ASSUME TypeOK, NEW u \in Instances, NEW i \in Deleted(u)
    PROVE  i \in InstanceStates /\ (i.life # "absent" => Exists(u))
  <1>1. List[u] \in InstanceStates /\ Absent \in InstanceStates
    BY VersionTypes, ConstantTypes
  <1>2. [List[u] EXCEPT !.life = "deleting"] \in InstanceStates
    BY <1>1, InstanceParts
  <1> QED
    BY <1>1, <1>2 DEF Deleted, Exists, Absent, InstanceStates

(* The numbers of instances that the worker counts. *)
LEMMA CountTypes ==
    ASSUME TypeOK
    PROVE  StatusHosts \in [HostTypes -> Nat]
  <1> SUFFICES ASSUME NEW t \in HostTypes
               PROVE  Count(t) \in Nat
    BY DEF StatusHosts
  <1>1. held[t] \subseteq Instances /\ made[t] \in Nat
    BY DEF TypeOK
  <1>2. Cardinality(held[t]) \in Nat
    BY <1>1, FiniteAssumption, FS_Subset, FS_CardinalityType
  <1> QED
    BY <1>1, <1>2 DEF Count

(* The budget of failures is never exceeded. *)
LEMMA FaultTypes ==
    ASSUME TypeOK, NEW kind, Fault(kind)
    PROVE  failures' \in 0 .. env.failures
  BY EnvironmentParts DEF TypeOK, Fault
--------------------------------------------------------------------------------
(* Every action keeps the types. *)

LEMMA BeginTypes ==
    ASSUME TypeOK, NEW phase \in {"", "Progressing", "Failed", "Ready", "Deleting"},
           NEW desired \in Versions,
           NEW next \in {"idle"} \union Calls \union Looks, next # "poll",
           NEW requeue \in BOOLEAN, Begin(phase, desired, next, requeue)
    PROVE  /\ pc' \in {"idle"} \union Calls \union Looks
           /\ pc' # "poll"
           /\ obj' \in Pools
           /\ current' \in BOOLEAN
           /\ oldstatus' \in Statuses
           /\ again' \in BOOLEAN
  <1>1. CachedPool \in Pools /\ CachedPool.status \in Statuses
    BY VersionTypes, PoolParts
  <1> DEFINE status == [CachedPool.status EXCEPT !.phase = phase]
  <1>2. status \in Statuses
    BY <1>1, StatusParts
  <1>3. [status EXCEPT !.desired = desired] \in Statuses
    BY <1>2, StatusParts
  <1>4. [CachedPool EXCEPT !.status = [status EXCEPT !.desired = desired]] \in Pools
    BY <1>1, <1>3, PoolParts
  <1>5. [CachedPool EXCEPT !.status.phase = phase, !.status.desired = desired]
           = [CachedPool EXCEPT !.status = [status EXCEPT !.desired = desired]]
    BY <1>1 DEF Pools
  <1> QED
    BY <1>1, <1>4, <1>5 DEF Begin

(* The versions that handleUpdate and handleDeletion begin with. *)
LEMMA BeginVersions ==
    ASSUME TypeOK
    PROVE  /\ CachedPool.replicas \in Versions
           /\ CachedPool.status.desired \in Versions
  BY VersionTypes, PoolParts, StatusParts, ConstantTypes

LEMMA CountListedTypes ==
    ASSUME TypeOK, CountListed
    PROVE  /\ held' \in [HostTypes -> SUBSET Instances]
           /\ made' \in [HostTypes -> Nat]
           /\ turn' \in HostTypes \union {NoType}
  BY ConstantTypes DEF CountListed, Live

LEMMA DequeueTypes ==
    ASSUME TypeOK, Dequeue
    PROVE  /\ env' \in Environments
           /\ config' \in Configs
           /\ pools' \in Seq(Pools) /\ Len(pools') \in 1 .. env'.poolLag + 1
           /\ lists' \in Seq([Instances -> InstanceStates])
           /\ Len(lists') \in 1 .. env'.listLag + 1
           /\ jobs' \in [Jobs -> JobStates]
           /\ queued' \in BOOLEAN /\ timer' \in BOOLEAN
           /\ edits' \in 0 .. env'.edits
           /\ failures' \in 0 .. env'.failures
  BY DEF TypeOK, Dequeue, cluster

LEMMA StartTypes ==
    ASSUME TypeOK, Start
    PROVE  TypeOK'
  <1> DEFINE PC == {"idle"} \union Calls \union Looks
  <1>1. InitialPhase \in {"", "Progressing", "Failed", "Ready", "Deleting"}
    BY VersionTypes, PoolParts, StatusParts DEF InitialPhase
  <1>2. {"status", "addFinalizer", "scale", "remove", "dropFinalizer", "teardown"} \subseteq PC
    BY DEF Calls, Looks
  <1>3. CASE ReconcileMissing
    BY <1>3, DequeueTypes DEF ReconcileMissing, TypeOK, worker, Job
  <1>4. CASE RefuseProfile
    <2>1. \E desired \in Versions : Begin("Failed", desired, "status", FALSE)
      BY <1>4, BeginVersions DEF RefuseProfile, BeginUpdate
    <2> QED
      BY <1>4, <2>1, <1>2, DequeueTypes, BeginTypes
      DEF RefuseProfile, TypeOK, CountNothing, counted
  <1>5. CASE NeedsFinalizer
    BY <1>5, <1>1, <1>2, DequeueTypes, BeginVersions, BeginTypes
    DEF NeedsFinalizer, BeginUpdate, TypeOK, CountNothing, counted
  <1>6. CASE HandleUpdate
    BY <1>6, <1>1, <1>2, DequeueTypes, BeginVersions, BeginTypes, CountListedTypes
    DEF HandleUpdate, BeginUpdate, TypeOK
  <1>7. CASE HandleDeletion
    <2>1. Dequeue /\ CountListed
      BY <1>7 DEF HandleDeletion
    <2>2. PICK phase \in {"Deleting", "Failed"}, requeue \in BOOLEAN,
               next \in {"status", "remove", "dropFinalizer", "teardown"} :
                  Begin(phase, CachedPool.status.desired, next, requeue)
      BY <1>7 DEF HandleDeletion, BeginDeletion
    <2>3. /\ pc' \in PC /\ pc' # "poll" /\ obj' \in Pools /\ current' \in BOOLEAN
          /\ oldstatus' \in Statuses /\ again' \in BOOLEAN
      BY <2>2, <1>2, BeginVersions, BeginTypes
    <2> QED
      BY <2>1, <2>3, DequeueTypes, CountListedTypes DEF TypeOK
  <1> QED
    BY <1>3, <1>4, <1>5, <1>6, <1>7 DEF Start

LEMMA RestTypes ==
    ASSUME TypeOK, Rest
    PROVE  /\ pc' \in {"idle"} \union Calls \union Looks
           /\ pc' # "poll"
           /\ obj' \in Pools
           /\ current' \in BOOLEAN
           /\ oldstatus' \in Statuses
           /\ again' \in BOOLEAN
           /\ held' \in [HostTypes -> SUBSET Instances]
           /\ made' \in [HostTypes -> Nat]
           /\ turn' \in HostTypes \union {NoType}
  BY ConstantTypes DEF Rest

LEMMA FailsTypes ==
    ASSUME TypeOK, Fails
    PROVE  /\ pc' \in {"idle"} \union Calls \union Looks
           /\ pc' # "poll"
           /\ obj' \in Pools
           /\ oldstatus' \in Statuses
           /\ again' \in BOOLEAN
           /\ held' \in [HostTypes -> SUBSET Instances]
           /\ made' \in [HostTypes -> Nat]
           /\ turn' \in HostTypes \union {NoType}
  <1>1. obj \in Pools /\ obj.status \in Statuses
    BY PoolParts DEF TypeOK
  <1>2. [obj.status EXCEPT !.phase = "Failed"] \in Statuses
    BY <1>1, StatusParts
  <1>3. [[obj.status EXCEPT !.phase = "Failed"] EXCEPT !.hosts = StatusHosts] \in Statuses
    BY <1>2, StatusParts, CountTypes
  <1>4. /\ [obj EXCEPT !.status = [obj.status EXCEPT !.phase = "Failed"]] \in Pools
        /\ [obj EXCEPT !.status = [[obj.status EXCEPT !.phase = "Failed"]
                                      EXCEPT !.hosts = StatusHosts]] \in Pools
    BY <1>1, <1>2, <1>3, PoolParts
  <1>5. /\ [obj EXCEPT !.status.phase = "Failed"] \in Pools
        /\ [obj EXCEPT !.status.phase = "Failed", !.status.hosts = StatusHosts] \in Pools
    BY <1>1, <1>4 DEF Pools
  <1>6. obj' \in Pools
    BY <1>1, <1>5 DEF Fails
  <1> QED
    BY <1>6 DEF Fails, Return, TypeOK, Calls, counted

(* What the calls that change the pool, the instances or the jobs do to their types. *)
ClusterTypes ==
    /\ env \in Environments
    /\ config \in Configs
    /\ pools \in Seq(Pools) /\ Len(pools) \in 1 .. env.poolLag + 1
    /\ lists \in Seq([Instances -> InstanceStates]) /\ Len(lists) \in 1 .. env.listLag + 1
    /\ jobs \in [Jobs -> JobStates]
    /\ queued \in BOOLEAN
    /\ edits \in 0 .. env.edits

LEMMA ClusterStutter ==
    ASSUME TypeOK, UNCHANGED <<cluster, pools, lists, queued>>
    PROVE  ClusterTypes' /\ env' = env
  BY DEF TypeOK, ClusterTypes, cluster

LEMMA PoolWriteTypes ==
    ASSUME TypeOK, NEW p \in Pools, WritePool(p), UNCHANGED <<cluster, lists>>
    PROVE  ClusterTypes' /\ env' = env
  BY WritePoolEffect DEF TypeOK, ClusterTypes, cluster

LEMMA InstanceWriteTypes ==
    ASSUME TypeOK, NEW u \in Instances, NEW i \in InstanceStates, SetInstance(u, i),
           UNCHANGED <<cluster, pools>>
    PROVE  ClusterTypes' /\ env' = env
  BY SetInstanceEffect DEF TypeOK, ClusterTypes, cluster

LEMMA StoreStatusTypes ==
    ASSUME TypeOK, StoreStatus
    PROVE  ClusterTypes' /\ env' = env
  <1>1. [Pool EXCEPT !.status = obj.status] \in Pools
    BY VersionTypes, PoolParts DEF TypeOK
  <1> QED
    BY <1>1, PoolWriteTypes, ClusterStutter DEF StoreStatus

LEMMA FinalizerWriteTypes ==
    ASSUME TypeOK, StoreFinalizer \/ RemoveFinalizer
    PROVE  ClusterTypes' /\ env' = env /\ timer' = timer
  <1>1. [Pool EXCEPT !.finalizer = TRUE] \in Pools
    BY VersionTypes, PoolParts
  <1>2. Swept([Pool EXCEPT !.finalizer = FALSE]) \in Pools
    BY VersionTypes, PoolParts
  <1> QED
    BY <1>1, <1>2, PoolWriteTypes DEF StoreFinalizer, RemoveFinalizer, cluster

LEMMA InstanceCallTypes ==
    ASSUME TypeOK, NEW t \in HostTypes, NEW u \in Instances,
           Create(t, u) \/ Delete(t, u) \/ Remove(t, u)
    PROVE  ClusterTypes' /\ env' = env /\ timer' = timer
  <1>1. CASE Create(t, u)
    <2>1. [life |-> "live", type |-> t, ready |-> FALSE] \in InstanceStates
      BY DEF InstanceStates
    <2> QED
      BY <2>1, <1>1, InstanceWriteTypes DEF Create
  <1>2. CASE Delete(t, u) \/ Remove(t, u)
    <2>1. /\ UNCHANGED <<cluster, pools, timer>>
          /\ UNCHANGED <<lists, queued>> \/ \E i \in Deleted(u) : SetInstance(u, i)
      BY <1>2 DEF Delete, Remove
    <2>2. CASE UNCHANGED <<lists, queued>>
      BY <2>1, <2>2, ClusterStutter
    <2>3. CASE \E i \in Deleted(u) : SetInstance(u, i)
      BY <2>1, <2>3, InstanceWriteTypes, DeletedTypes
    <2> QED
      BY <2>1, <2>2, <2>3
  <1> QED
    BY <1>1, <1>2

LEMMA StartJobTypes ==
    ASSUME TypeOK, NEW j \in Jobs, StartJob(j)
    PROVE  ClusterTypes' /\ env' = env /\ timer' = timer
  BY DEF TypeOK, ClusterTypes, StartJob, JobStates

LEMMA ScalingTypes ==
    ASSUME TypeOK, Rejected \/ AddFinalizer \/ Scaled
                     \/ \E t \in HostTypes, u \in Instances : ScaleUp(t, u) \/ ScaleDown(t, u)
    PROVE  TypeOK'
  <1>1. CASE Rejected
    BY <1>1, FailsTypes, ClusterStutter DEF Rejected, TypeOK, ClusterTypes
  <1>2. CASE AddFinalizer
    <2> DEFINE desired == IF Pool.status.desired = NoVersion THEN obj.status.desired
                          ELSE Pool.status.desired
               finalized == [obj EXCEPT !.finalizer = TRUE]
    <2>1. obj \in Pools /\ finalized \in Pools /\ finalized.status = obj.status
      BY PoolParts DEF TypeOK, Pools
    <2>2. desired \in Versions
      BY <2>1, VersionTypes, PoolParts, StatusParts
    <2>3. [obj.status EXCEPT !.desired = desired] \in Statuses
      BY <2>1, <2>2, PoolParts, StatusParts
    <2>4. [finalized EXCEPT !.status = [obj.status EXCEPT !.desired = desired]] \in Pools
      BY <2>1, <2>3, PoolParts
    <2>5. obj' = [finalized EXCEPT !.status = [obj.status EXCEPT !.desired = desired]]
      BY <1>2, <2>1 DEF AddFinalizer, Pools, Statuses
    <2> HIDE DEF desired, finalized
    <2> QED
      BY <1>2, <2>4, <2>5, FinalizerWriteTypes, CountListedTypes
      DEF AddFinalizer, Continue, TypeOK, ClusterTypes, StoreFinalizer, Calls
  <1>3. CASE Scaled
    <2>1. obj \in Pools /\ [obj.status EXCEPT !.hosts = StatusHosts] \in Statuses
      BY PoolParts, StatusParts, CountTypes DEF TypeOK
    <2>2. [obj EXCEPT !.status = [obj.status EXCEPT !.hosts = StatusHosts]] \in Pools
      BY <2>1, PoolParts
    <2>3. obj' \in Pools
      BY <1>3, <2>1, <2>2 DEF Scaled
    <2>4. pc' \in Looks
      BY <1>3 DEF Scaled, Continue, Looks
    <2> QED
      BY <1>3, <2>3, <2>4, ClusterStutter DEF Scaled, TypeOK, ClusterTypes, counted, Looks
  <1>4. ASSUME NEW t \in HostTypes, NEW u \in Instances, ScaleUp(t, u)
        PROVE  TypeOK'
    <2>1. pc' = "scale"
      BY <1>4 DEF ScaleUp, Create, Turn
    <2> QED
      BY <1>4, <2>1, InstanceCallTypes DEF ScaleUp, After, TypeOK, ClusterTypes
  <1>5. ASSUME NEW t \in HostTypes, NEW u \in Instances, ScaleDown(t, u)
        PROVE  TypeOK'
    <2>1. pc' = "scale"
      BY <1>5 DEF ScaleDown, Delete, Turn
    <2> QED
      BY <1>5, <2>1, InstanceCallTypes DEF ScaleDown, After, TypeOK, ClusterTypes
  <1> QED
    BY <1>1, <1>2, <1>3, <1>4, <1>5

LEMMA LocalTypes ==
    ASSUME TypeOK, Local, obj' \in Pools, again' \in BOOLEAN,
           pc' \in {"idle"} \union Calls \union Looks, pc' = "poll" => Job'.id \in Jobs
    PROVE  TypeOK'
  BY ClusterStutter DEF Local, counted, TypeOK, ClusterTypes

LEMMA ProvisioningTypes ==
    ASSUME TypeOK, Provision \/ Flush \/ Poll \/ \E j \in Jobs : Trigger(j)
    PROVE  TypeOK'
  <1>1. /\ obj \in Pools /\ obj.status \in Statuses /\ obj.status.job \in JobStatuses
        /\ obj.status.desired \in Versions /\ again \in BOOLEAN
    BY PoolParts, StatusParts DEF TypeOK
  <1>2. CASE Provision
    <2>1. obj' = obj /\ Local /\ again' \in BOOLEAN /\ pc' \in Calls \union Looks
      BY <1>1, <1>2 DEF Provision, Continue, Return, Calls, Looks
    <2>2. pc' = "poll" => Job.state = "running"
      BY <1>2 DEF Provision, Continue, Return
    <2>3. pc' = "poll" => Job'.id \in Jobs
      BY <1>1, <2>1, <2>2 DEF Job, JobStatuses
    <2> QED
      BY <1>1, <2>1, <2>3, LocalTypes
  <1>3. CASE Flush
    BY <1>1, <1>3, StoreStatusTypes
    DEF Flush, Return, TypeOK, ClusterTypes, counted, Calls
  <1>4. CASE Poll
    <2> DEFINE state == jobs[Job.id]
               phase == IF state = "failed" THEN "Failed" ELSE obj.status.phase
               status == [[obj.status EXCEPT !.job = [Job EXCEPT !.state = state]]
                             EXCEPT !.phase = phase]
    <2>1. state \in JobStates /\ Job.id \in Jobs
      BY <1>4 DEF Poll, TypeOK
    <2>2. [Job EXCEPT !.state = state] \in JobStatuses
      BY <1>1, <2>1 DEF Job, JobStatuses
    <2>3. [obj.status EXCEPT !.job = [Job EXCEPT !.state = state]] \in Statuses
      BY <1>1, <2>2, StatusParts
    <2>4. phase \in {"", "Progressing", "Failed", "Ready", "Deleting"}
      BY <1>1, StatusParts
    <2>5. status \in Statuses
      BY <2>3, <2>4, StatusParts
    <2>6. [obj EXCEPT !.status = status] \in Pools
      BY <1>1, <2>5, PoolParts
    <2>7. obj' = [obj EXCEPT !.status.job.state = state, !.status.phase = phase]
      BY <1>4 DEF Poll
    <2>8. obj' \in Pools
      BY <1>1, <2>6, <2>7 DEF Job
    <2>9. Local /\ again' \in BOOLEAN /\ pc' \in {"status", "readiness"}
      BY <1>1, <1>4 DEF Poll, Return, Continue
    <2> QED
      BY <2>8, <2>9, LocalTypes DEF Calls, Looks
  <1>5. ASSUME NEW j \in Jobs, Trigger(j)
        PROVE  TypeOK'
    <2>1. [id |-> j, state |-> "running", version |-> obj.status.desired] \in JobStatuses
      BY <1>1 DEF JobStatuses, JobStates
    <2>2. [obj EXCEPT !.status = [obj.status EXCEPT !.job =
              [id |-> j, state |-> "running", version |-> obj.status.desired]]] \in Pools
      BY <1>1, <2>1, StatusParts, PoolParts
    <2>3. obj' \in Pools
      BY <1>1, <1>5, <2>2 DEF Trigger
    <2> QED
      BY <1>1, <1>5, <2>3, StartJobTypes
      DEF Trigger, Continue, TypeOK, ClusterTypes, counted, Calls
  <1> QED
    BY <1>2, <1>3, <1>4, <1>5

LEMMA DeletionTypes ==
    ASSUME TypeOK, CheckReady \/ TeardownPending \/ TeardownDone \/ DropFinalizer
                     \/ \E t \in HostTypes, u \in Instances : RemoveInstance(t, u)
    PROVE  TypeOK'
  <1>1. /\ obj \in Pools /\ obj.status \in Statuses /\ again \in BOOLEAN
    BY PoolParts DEF TypeOK
  <1>2. CASE CheckReady
    <2> DEFINE phase == IF ListedReady THEN "Ready" ELSE "Progressing"
    <2>1. [obj EXCEPT !.status = [obj.status EXCEPT !.phase = phase]] \in Pools
      BY <1>1, StatusParts, PoolParts
    <2>2. obj' = [obj EXCEPT !.status.phase = phase]
      BY <1>2 DEF CheckReady, Phase
    <2>3. obj' \in Pools
      BY <1>1, <2>1, <2>2
    <2>4. Local /\ again' \in BOOLEAN /\ pc' = "status"
      BY <1>2 DEF CheckReady, Return, ListedReady
    <2> QED
      BY <2>3, <2>4, LocalTypes DEF Calls
  <1>3. CASE TeardownPending \/ TeardownDone
    <2>1. obj' = obj /\ Local /\ again' \in BOOLEAN /\ pc' \in {"status", "dropFinalizer"}
      BY <1>1, <1>3 DEF TeardownPending, TeardownDone, Return, Continue
    <2> QED
      BY <1>1, <2>1, LocalTypes DEF Calls
  <1>4. CASE DropFinalizer
    <2>1. [obj EXCEPT !.finalizer = FALSE] \in Pools
      BY <1>1, PoolParts
    <2> QED
      BY <1>4, <2>1, FinalizerWriteTypes
      DEF DropFinalizer, Return, TypeOK, ClusterTypes, counted, Calls
  <1>5. ASSUME NEW t \in HostTypes, NEW u \in Instances, RemoveInstance(t, u)
        PROVE  TypeOK'
    <2>1. pc' \in {"remove", "status"} /\ again' \in BOOLEAN
      BY <1>1, <1>5 DEF RemoveInstance, Remove, Return
    <2> QED
      BY <1>5, <2>1, InstanceCallTypes DEF RemoveInstance, TypeOK, ClusterTypes, Calls
  <1> QED
    BY <1>2, <1>3, <1>4, <1>5

LEMMA EndTypes ==
    ASSUME TypeOK, EndReconcile \/ UpdateStatus \/ StatusConflict
    PROVE  TypeOK'
  <1>1. Rest /\ failures' = failures
    BY DEF EndReconcile, UpdateStatus, StatusConflict, Finish
  <1>2. timer' \in BOOLEAN
    BY DEF EndReconcile, UpdateStatus, StatusConflict, Finish, TypeOK
  <1>3. ClusterTypes' /\ env' = env
    BY ClusterStutter, StoreStatusTypes DEF EndReconcile, UpdateStatus, StatusConflict
  <1> QED
    BY <1>1, <1>2, <1>3, RestTypes DEF TypeOK, ClusterTypes

LEMMA StepTypes ==
    ASSUME TypeOK, Step
    PROVE  TypeOK'
  BY ScalingTypes, ProvisioningTypes, DeletionTypes, EndTypes DEF Step

LEMMA FaultsTypes ==
    ASSUME TypeOK, Faults
    PROVE  TypeOK'
  <1>1. CASE RequestFails
    <2>1. failures' \in 0 .. env.failures
      BY <1>1, FaultTypes DEF RequestFails
    <2> QED
      BY <1>1, <2>1, FailsTypes, ClusterStutter DEF RequestFails, TypeOK, ClusterTypes
  <1>2. CASE StatusFails
    <2>1. failures' \in 0 .. env.failures /\ Rest /\ timer' \in BOOLEAN
      BY <1>2, FaultTypes DEF StatusFails, Finish, TypeOK
    <2>2. ClusterTypes' /\ env' = env
      BY <1>2, ClusterStutter, StoreStatusTypes DEF StatusFails
    <2> QED
      BY <2>1, <2>2, RestTypes DEF TypeOK, ClusterTypes
  <1>3. CASE ReplyLost
    <2>1. failures' \in 0 .. env.failures /\ Fails /\ current' \in BOOLEAN
      BY <1>3, FaultTypes DEF ReplyLost, TypeOK
    <2>2. ClusterTypes' /\ env' = env /\ timer' = timer
      BY <1>3, FinalizerWriteTypes, InstanceCallTypes, StartJobTypes, StoreStatusTypes
      DEF ReplyLost
    <2> QED
      BY <2>1, <2>2, FailsTypes DEF TypeOK, ClusterTypes
  <1>4. CASE Restart
    <2>1. failures' \in 0 .. env.failures /\ Rest /\ env' = env /\ jobs' = jobs
          /\ edits' = edits /\ queued' = TRUE /\ timer' = FALSE
          /\ pools' = <<Pool>> /\ lists' = <<List>>
      BY <1>4, FaultTypes DEF Restart
    <2>2. config' \in Configs
      BY <1>4, EnvironmentParts DEF Restart
    <2>3. pools' \in Seq(Pools) /\ Len(pools') \in 1 .. env.poolLag + 1
      BY <2>1, VersionTypes, EnvironmentParts
    <2>4. lists' \in Seq([Instances -> InstanceStates]) /\ Len(lists') \in 1 .. env.listLag + 1
      BY <2>1, VersionTypes, EnvironmentParts
    <2> QED
      BY <2>1, <2>2, <2>3, <2>4, RestTypes DEF TypeOK
  <1> QED
    BY <1>1, <1>2, <1>3, <1>4 DEF Faults

LEMMA DeliverTypes ==
    ASSUME TypeOK, Deliver \/ FireTimer
    PROVE  TypeOK'
  <1>1. CASE DeliverPool
    <2>1. pools \in Seq(Pools) /\ Len(pools) \in 2 .. env.poolLag + 1 /\ env.poolLag \in Nat
      BY <1>1, EnvironmentParts DEF DeliverPool, TypeOK
    <2>2. Tail(pools) \in Seq(Pools) /\ Len(Tail(pools)) \in 1 .. env.poolLag + 1
      BY <2>1, Forgotten
    <2> QED
      BY <1>1, <2>2 DEF DeliverPool, TypeOK, cluster, worker, Job
  <1>2. CASE DeliverList
    <2> DEFINE S == [Instances -> InstanceStates]
    <2>1. lists \in Seq(S) /\ Len(lists) \in 2 .. env.listLag + 1 /\ env.listLag \in Nat
      BY <1>2, EnvironmentParts DEF DeliverList, TypeOK
    <2>2. Tail(lists) \in Seq(S) /\ Len(Tail(lists)) \in 1 .. env.listLag + 1
      BY <2>1, Forgotten
    <2> QED
      BY <1>2, <2>2 DEF DeliverList, TypeOK, cluster, worker, Job
  <1>3. CASE FireTimer
    BY <1>3 DEF FireTimer, TypeOK, cluster, worker, Job
  <1> QED
    BY <1>1, <1>2, <1>3 DEF Deliver

LEMMA InstanceTypes ==
    ASSUME TypeOK, NEW u \in Instances,
           InstanceReady(u) \/ InstanceUnready(u) \/ InstanceGone(u)
             \/ DeleteByOther(u) \/ CollectGarbage(u)
    PROVE  TypeOK'
  <1>1. \E i \in InstanceStates : SetInstance(u, i)
    BY VersionTypes, InstanceParts, DeletedTypes, ConstantTypes
    DEF InstanceReady, InstanceUnready, InstanceGone, DeleteByOther, CollectGarbage
  <1>2. UNCHANGED <<cluster, pools, timer, worker>>
    BY DEF InstanceReady, InstanceUnready, InstanceGone, DeleteByOther, CollectGarbage
  <1>3. ClusterTypes' /\ env' = env
    BY <1>1, <1>2, InstanceWriteTypes
  <1>4. failures' \in 0 .. env.failures
    BY FaultTypes
    DEF InstanceReady, InstanceUnready, InstanceGone, DeleteByOther, CollectGarbage, TypeOK
  <1> QED
    BY <1>2, <1>3, <1>4 DEF TypeOK, ClusterTypes, worker, Job

LEMMA AroundTypes ==
    ASSUME TypeOK, Around
    PROVE  TypeOK'
  <1>1. CASE EditHostSets
    <2>1. PICK replicas \in env.specs : WritePool([Pool EXCEPT !.replicas = replicas])
      BY <1>1 DEF EditHostSets
    <2>2. [Pool EXCEPT !.replicas = replicas] \in Pools
      BY VersionTypes, PoolParts, EnvironmentParts
    <2>3. edits' \in 0 .. env.edits
      BY <1>1, EnvironmentParts DEF EditHostSets, TypeOK
    <2> QED
      BY <1>1, <2>1, <2>2, <2>3, WritePoolEffect DEF EditHostSets, TypeOK, counted, Job
  <1>2. CASE DeletePool
    <2>1. Swept([Pool EXCEPT !.life = "deleting"]) \in Pools
      BY VersionTypes, PoolParts
    <2> QED
      BY <1>2, <2>1, PoolWriteTypes DEF DeletePool, TypeOK, ClusterTypes, counted, Job
  <1>3. ASSUME NEW j \in Jobs, JobSucceeds(j) \/ JobFails(j)
        PROVE  TypeOK'
    <2>1. jobs' \in [Jobs -> JobStates]
      BY <1>3 DEF JobSucceeds, JobFails, EndJob, TypeOK, JobStates
    <2>2. failures' \in 0 .. env.failures
      BY <1>3, FaultTypes DEF JobSucceeds, JobFails, TypeOK
    <2>3. UNCHANGED <<env, config, edits, pools, lists, queued, timer, worker>>
      BY <1>3 DEF JobSucceeds, JobFails, EndJob
    <2> QED
      BY <2>1, <2>2, <2>3 DEF TypeOK, worker, Job
  <1> QED
    BY <1>1, <1>2, <1>3, InstanceTypes DEF Around

LEMMA InitTypes == Init => TypeOK
  <1> SUFFICES ASSUME Init
               PROVE  TypeOK
    OBVIOUS
  <1>1. PICK replicas \in env.specs :
           pools = <<[life |-> "live", replicas |-> replicas, finalizer |-> FALSE,
                      status |-> EmptyStatus]>>
    BY DEF Init
  <1>2. /\ env.specs \subseteq Replicas /\ env.configs \subseteq Configs
        /\ env.poolLag \in Nat /\ env.listLag \in Nat
        /\ env.edits \in Nat /\ env.failures \in Nat
    BY EnvironmentsAssumption DEF Init, Replicas
  <1>3. [life |-> "live", replicas |-> replicas, finalizer |-> FALSE,
         status |-> EmptyStatus] \in Pools
    BY <1>2, ConstantTypes DEF Pools
  <1>4. pools \in Seq(Pools) /\ Len(pools) = 1
    BY <1>1, <1>3
  <1>5. [u \in Instances |-> Absent] \in [Instances -> InstanceStates]
    BY ConstantTypes
  <1>6. lists \in Seq([Instances -> InstanceStates]) /\ Len(lists) = 1
    BY <1>5 DEF Init
  <1>7. jobs \in [Jobs -> JobStates]
    BY DEF Init, JobStates
  <1>8. 1 \in 1 .. env.poolLag + 1 /\ 1 \in 1 .. env.listLag + 1
        /\ 0 \in 0 .. env.edits /\ 0 \in 0 .. env.failures
    BY <1>2
  <1>9. /\ pc = "idle" /\ obj \in Pools /\ oldstatus \in Statuses
        /\ held \in [HostTypes -> SUBSET Instances] /\ made \in [HostTypes -> Nat]
    BY ConstantTypes DEF Init
  <1>10. /\ env \in Environments /\ config \in Configs /\ queued = TRUE /\ timer = FALSE
         /\ current = FALSE /\ again = FALSE /\ turn = NoType /\ edits = 0 /\ failures = 0
    BY <1>2 DEF Init
  <1> QED
    BY <1>4, <1>6, <1>7, <1>8, <1>9, <1>10 DEF TypeOK

LEMMA NextTypes == TypeOK /\ [Next]_vars => TypeOK'
  <1>1. ASSUME TypeOK, UNCHANGED vars
        PROVE  TypeOK'
    BY <1>1 DEF TypeOK, vars, worker, Job
  <1> QED
    BY <1>1, StartTypes, StepTypes, FaultsTypes, DeliverTypes, AroundTypes DEF Next

(* Every variable of the pool controller has its type at all times, whatever the   *)
(* bounds: in particular a poll always has a job to ask for.                       *)
THEOREM PoolTypeCorrect == Spec => []TypeOK
  BY InitTypes, NextTypes, PTL DEF Spec
--------------------------------------------------------------------------------
(* The finalizer is there before the first instance, and stays until the pool goes. *)

Kept == Pool.finalizer \/ Pool.life = "gone"

DeletionSteps == {"remove", "teardown", "dropFinalizer"}

(* A version that the cache may still show does not lose its finalizer, nor come back to *)
(* life; the worker scales and tears down only what it has seen in such a version.       *)
FinalizerInv ==
    /\ \A n \in 1 .. Len(pools) : /\ pools[n].finalizer => Kept
                                  /\ pools[n].life # "live" => Pool.life # "live"
    /\ pc = "scale" => Kept
    /\ pc \in DeletionSteps => Pool.life # "live"
    /\ InstancesUnderFinalizer

(* A step that leaves the pool alone, and creates an instance only when scaling. *)
LEMMA FinalizerSamePool ==
    ASSUME TypeOK, FinalizerInv, UNCHANGED pools,
           \A u \in Instances : Exists(u)' => Exists(u) \/ pc = "scale",
           pc' = "scale" => Kept,
           pc' \in DeletionSteps => Pool.life # "live"
    PROVE  FinalizerInv'
  <1>1. Pool' = Pool /\ Kept' = Kept
    BY DEF Pool, Kept
  <1>2. InstancesUnderFinalizer'
    BY <1>1 DEF FinalizerInv, InstancesUnderFinalizer, Kept
  <1> QED
    BY <1>1, <1>2 DEF FinalizerInv

(* A write of a pool that is not gone, and keeps the finalizer as long as it is there. *)
LEMMA FinalizerWritten ==
    ASSUME TypeOK, FinalizerInv, NEW p \in Pools, WritePool(p), UNCHANGED lists,
           Pool.life # "gone",
           Pool.finalizer => p.finalizer \/ p.life = "gone",
           Pool.life # "live" => p.life # "live",
           pc' = "scale" => pc = "scale" \/ p.finalizer,
           pc' \in DeletionSteps => pc \in DeletionSteps
    PROVE  FinalizerInv'
  <1>1. Pool' = p /\ Kept' = (p.finalizer \/ p.life = "gone")
    BY WritePoolEffect DEF Kept
  <1>2. Kept => Kept'
    BY <1>1 DEF Kept
  <1>3. ASSUME NEW n \in 1 .. Len(pools')
        PROVE  /\ pools'[n].finalizer => Kept'
               /\ pools'[n].life # "live" => Pool'.life # "live"
    <2>1. CASE pools'[n] = p
      BY <2>1, <1>1
    <2>2. ASSUME NEW m \in 1 .. Len(pools), pools'[n] = pools[m]
          PROVE  /\ pools'[n].finalizer => Kept'
                 /\ pools'[n].life # "live" => Pool'.life # "live"
      BY <2>2, <1>1, <1>2 DEF FinalizerInv
    <2> QED
      BY <2>1, <2>2, WritePoolEffect
  <1>4. \A u \in Instances : Exists(u)' <=> Exists(u)
    BY DEF Exists, List
  <1>5. InstancesUnderFinalizer'
    BY <1>1, <1>4 DEF FinalizerInv, InstancesUnderFinalizer
  <1> QED
    BY <1>1, <1>2, <1>3, <1>5 DEF FinalizerInv

(* What the cached pool shows binds the stored one. *)
LEMMA CachedPoolBinds ==
    ASSUME TypeOK, FinalizerInv
    PROVE  /\ CachedPool.finalizer => Kept
           /\ CachedPool.life # "live" => Pool.life # "live"
  <1>1. 1 \in 1 .. Len(pools)
    BY VersionTypes
  <1> QED
    BY <1>1 DEF FinalizerInv, CachedPool

LEMMA FinalizerStart ==
    ASSUME TypeOK, FinalizerInv, Start
    PROVE  FinalizerInv'
  <1>1. UNCHANGED <<pools, lists>>
    BY DEF Start, ReconcileMissing, RefuseProfile, NeedsFinalizer, HandleUpdate,
           HandleDeletion, Dequeue
  <1>2. \A u \in Instances : Exists(u)' <=> Exists(u)
    BY <1>1 DEF Exists, List
  <1>3. pc' = "scale" => Kept
    BY CachedPoolBinds
    DEF Start, ReconcileMissing, RefuseProfile, NeedsFinalizer, HandleUpdate,
        HandleDeletion, Dequeue, Begin, BeginUpdate, BeginDeletion, worker
  <1>4. pc' \in DeletionSteps => Pool.life # "live"
    BY CachedPoolBinds
    DEF Start, ReconcileMissing, RefuseProfile, NeedsFinalizer, HandleUpdate,
        HandleDeletion, Dequeue, Begin, BeginUpdate, BeginDeletion, worker, DeletionSteps
  <1> QED
    BY <1>1, <1>2, <1>3, <1>4, FinalizerSamePool

(* A write of the status keeps everything else. *)
LEMMA FinalizerStatus ==
    ASSUME TypeOK, FinalizerInv, StoreStatus, pc' \in {"idle", "status"}
    PROVE  FinalizerInv'
  <1>1. pc' # "scale" /\ pc' \notin DeletionSteps
    BY DEF DeletionSteps
  <1>2. CASE UNCHANGED <<pools, lists>>
    BY <1>1, <1>2, FinalizerSamePool DEF Exists, List
  <1>3. CASE WritePool([Pool EXCEPT !.status = obj.status])
    <2> DEFINE p == [Pool EXCEPT !.status = obj.status]
    <2>1. Pool \in Pools /\ p \in Pools
      BY VersionTypes, PoolParts DEF TypeOK
    <2>2. p.finalizer = Pool.finalizer /\ p.life = Pool.life
      BY <2>1 DEF Pools
    <2>3. Pool.life # "gone" /\ UNCHANGED lists
      BY DEF StoreStatus, Accepted
    <2> QED
      BY <1>1, <1>3, <2>1, <2>2, <2>3, FinalizerWritten
  <1> QED
    BY <1>2, <1>3 DEF StoreStatus

(* The calls that write the finalizer. *)
LEMMA FinalizerCalls ==
    ASSUME TypeOK, FinalizerInv, StoreFinalizer \/ RemoveFinalizer,
           pc' = "scale" => StoreFinalizer, pc' \notin DeletionSteps
    PROVE  FinalizerInv'
  <1>1. Pool \in Pools /\ Pool.life # "gone" /\ UNCHANGED lists
    BY VersionTypes DEF StoreFinalizer, RemoveFinalizer, Accepted
  <1>2. CASE StoreFinalizer
    <2> DEFINE p == [Pool EXCEPT !.finalizer = TRUE]
    <2>1. p \in Pools /\ p.finalizer /\ p.life = Pool.life /\ WritePool(p)
      BY <1>1, <1>2, PoolParts DEF Pools, StoreFinalizer
    <2> QED
      BY <1>1, <2>1, FinalizerWritten
  <1>3. CASE RemoveFinalizer /\ ~StoreFinalizer
    <2> DEFINE p == Swept([Pool EXCEPT !.finalizer = FALSE])
    <2>1. p \in Pools /\ WritePool(p)
      BY <1>1, <1>3, PoolParts DEF RemoveFinalizer
    <2>2. Pool.life # "live"
      BY <1>3 DEF RemoveFinalizer, FinalizerInv, DeletionSteps
    <2>3. p.life = "gone"
      BY <1>1, <2>2 DEF Swept, Pools
    <2> QED
      BY <1>1, <1>3, <2>1, <2>3, FinalizerWritten
  <1> QED
    BY <1>2, <1>3

(* The calls that write an instance: only scaling creates one. *)
LEMMA CallInstances ==
    ASSUME TypeOK, NEW t \in HostTypes, NEW u \in Instances,
           Create(t, u) \/ Delete(t, u) \/ Remove(t, u)
    PROVE  /\ UNCHANGED pools
           /\ \A v \in Instances : Exists(v)' => Exists(v) \/ pc = "scale"
           /\ pc \in {"scale", "remove"}
  <1>1. CASE Create(t, u)
    BY <1>1 DEF Create, Turn
  <1>2. CASE Delete(t, u) \/ Remove(t, u)
    <2>1. /\ UNCHANGED pools /\ pc \in {"scale", "remove"}
          /\ UNCHANGED lists \/ \E i \in Deleted(u) : SetInstance(u, i)
      BY <1>2 DEF Delete, Remove, Turn
    <2>2. ASSUME NEW i \in Deleted(u), SetInstance(u, i)
          PROVE  \A v \in Instances : Exists(v)' => Exists(v)
      <3>1. i \in InstanceStates /\ (i.life # "absent" => Exists(u))
        BY DeletedTypes
      <3>2. List' = [List EXCEPT ![u] = i] /\ List \in [Instances -> InstanceStates]
        BY <2>2, <3>1, SetInstanceEffect, VersionTypes
      <3> QED
        BY <3>1, <3>2 DEF Exists
    <2>3. CASE UNCHANGED lists
      BY <2>1, <2>3 DEF Exists, List
    <2> QED
      BY <2>1, <2>2, <2>3
  <1> QED
    BY <1>1, <1>2

(* The steps that only look at the pool or at its job. *)
LEMMA FinalizerLocal ==
    ASSUME TypeOK, FinalizerInv,
           Rejected \/ Scaled \/ Provision \/ Poll \/ CheckReady \/ TeardownPending
             \/ TeardownDone \/ EndReconcile \/ StatusConflict \/ RequestFails
             \/ \E j \in Jobs : Trigger(j)
    PROVE  FinalizerInv'
  <1>1. UNCHANGED <<pools, lists>>
    BY DEF Rejected, Scaled, Provision, Poll, CheckReady, TeardownPending, TeardownDone,
           EndReconcile, StatusConflict, RequestFails, Trigger, StartJob, Local
  <1>2. pc' # "scale"
    BY DEF Rejected, Scaled, Provision, Poll, CheckReady, TeardownPending, TeardownDone,
           EndReconcile, StatusConflict, RequestFails, Trigger, Fails, Return, Continue,
           Finish, Rest
  <1>3. pc' \in DeletionSteps => pc = "teardown"
    BY DEF Rejected, Scaled, Provision, Poll, CheckReady, TeardownPending, TeardownDone,
           EndReconcile, StatusConflict, RequestFails, Trigger, Fails, Return, Continue,
           Finish, Rest, DeletionSteps
  <1>4. pc' \in DeletionSteps => Pool.life # "live"
    BY <1>3 DEF FinalizerInv, DeletionSteps
  <1> QED
    BY <1>1, <1>2, <1>4, FinalizerSamePool DEF Exists, List

LEMMA FinalizerStep ==
    ASSUME TypeOK, FinalizerInv, Step
    PROVE  FinalizerInv'
  <1>1. CASE AddFinalizer
    BY <1>1, FinalizerCalls DEF AddFinalizer, Continue, DeletionSteps
  <1>2. CASE DropFinalizer
    BY <1>2, FinalizerCalls DEF DropFinalizer, Return, DeletionSteps
  <1>3. CASE Flush \/ UpdateStatus
    BY <1>3, FinalizerStatus DEF Flush, UpdateStatus, Return, Finish, Rest
  <1>4. ASSUME NEW t \in HostTypes, NEW u \in Instances,
               ScaleUp(t, u) \/ ScaleDown(t, u) \/ RemoveInstance(t, u)
        PROVE  FinalizerInv'
    <2>1. Create(t, u) \/ Delete(t, u) \/ Remove(t, u)
      BY <1>4 DEF ScaleUp, ScaleDown, RemoveInstance
    <2>2. pc' = pc \/ pc' = "status"
      BY <1>4 DEF ScaleUp, ScaleDown, RemoveInstance, Return
    <2>3. (pc' = "scale" => Kept) /\ (pc' \in DeletionSteps => Pool.life # "live")
      BY <2>2 DEF FinalizerInv, DeletionSteps
    <2> QED
      BY <2>1, <2>3, CallInstances, FinalizerSamePool
  <1>5. CASE ~(AddFinalizer \/ DropFinalizer \/ Flush \/ UpdateStatus)
             /\ ~\E t \in HostTypes, u \in Instances :
                    ScaleUp(t, u) \/ ScaleDown(t, u) \/ RemoveInstance(t, u)
    BY <1>5, FinalizerLocal DEF Step
  <1> QED
    BY <1>1, <1>2, <1>3, <1>4, <1>5

LEMMA FinalizerFaults ==
    ASSUME TypeOK, FinalizerInv, Faults
    PROVE  FinalizerInv'
  <1>1. CASE RequestFails
    BY <1>1, FinalizerLocal
  <1>2. CASE StatusFails
    <2>1. pc' = "idle"
      BY <1>2 DEF StatusFails, Finish, Rest
    <2>2. CASE StoreStatus
      BY <2>1, <2>2, FinalizerStatus
    <2>3. CASE UNCHANGED <<pools, lists>>
      BY <2>1, <2>3, FinalizerSamePool DEF DeletionSteps, Exists, List
    <2> QED
      BY <1>2, <2>2, <2>3 DEF StatusFails
  <1>3. CASE ReplyLost
    <2>1. pc' = "status"
      BY <1>3 DEF ReplyLost, Fails, Return
    <2>2. CASE StoreFinalizer \/ RemoveFinalizer
      BY <2>1, <2>2, FinalizerCalls DEF DeletionSteps
    <2>3. ASSUME NEW t \in HostTypes, NEW u \in Instances,
                 Create(t, u) \/ Delete(t, u) \/ Remove(t, u)
          PROVE  FinalizerInv'
      BY <2>1, <2>3, CallInstances, FinalizerSamePool DEF DeletionSteps
    <2>4. ASSUME NEW j \in Jobs, StartJob(j)
          PROVE  FinalizerInv'
      BY <2>1, <2>4, FinalizerSamePool DEF StartJob, DeletionSteps, Exists, List
    <2>5. CASE StoreStatus
      BY <2>1, <2>5, FinalizerStatus
    <2> QED
      BY <1>3, <2>2, <2>3, <2>4, <2>5 DEF ReplyLost
  <1>4. CASE Restart
    <2>1. pools' = <<Pool>> /\ lists' = <<List>> /\ pc' = "idle"
      BY <1>4 DEF Restart, Rest
    <2>2. Pool' = Pool /\ List' = List /\ Len(pools') = 1
      BY <2>1 DEF Pool, List
    <2>3. \A u \in Instances : Exists(u)' <=> Exists(u)
      BY <2>2 DEF Exists
    <2>4. InstancesUnderFinalizer'
      BY <2>2, <2>3 DEF FinalizerInv, InstancesUnderFinalizer
    <2>5. \A n \in 1 .. Len(pools') : pools'[n] = Pool
      BY <2>1, <2>2
    <2> QED
      BY <2>1, <2>2, <2>4, <2>5 DEF FinalizerInv, DeletionSteps, Kept
  <1> QED
    BY <1>1, <1>2, <1>3, <1>4 DEF Faults

LEMMA FinalizerDeliver ==
    ASSUME TypeOK, FinalizerInv, Deliver \/ FireTimer
    PROVE  FinalizerInv'
  <1>1. CASE DeliverPool
    <2>1. pools \in Seq(Pools) /\ Len(pools) \in 2 .. env.poolLag + 1 /\ env.poolLag \in Nat
      BY <1>1, EnvironmentParts DEF DeliverPool, TypeOK
    <2>2. pools' = Tail(pools) /\ pc' = pc /\ lists' = lists
      BY <1>1 DEF DeliverPool, worker
    <2>3. Tail(pools)[Len(Tail(pools))] = pools[Len(pools)]
      BY <2>1
    <2>4. \A n \in 1 .. Len(Tail(pools)) : \E m \in 1 .. Len(pools) : Tail(pools)[n] = pools[m]
      BY <2>1, Forgotten
    <2>5. Pool' = Pool /\ Kept' = Kept
      BY <2>2, <2>3 DEF Pool, Kept
    <2>6. \A u \in Instances : Exists(u)' <=> Exists(u)
      BY <2>2 DEF Exists, List
    <2>7. InstancesUnderFinalizer'
      BY <2>5, <2>6 DEF FinalizerInv, InstancesUnderFinalizer
    <2> QED
      BY <2>2, <2>4, <2>5, <2>7 DEF FinalizerInv
  <1>2. CASE DeliverList
    <2>1. lists \in Seq([Instances -> InstanceStates]) /\ Len(lists) \in 2 .. env.listLag + 1
          /\ env.listLag \in Nat
      BY <1>2, EnvironmentParts DEF DeliverList, TypeOK
    <2>2. lists' = Tail(lists) /\ Tail(lists)[Len(Tail(lists))] = lists[Len(lists)]
      BY <1>2, <2>1 DEF DeliverList
    <2>3. \A u \in Instances : Exists(u)' <=> Exists(u)
      BY <2>2 DEF Exists, List
    <2> QED
      BY <1>2, <2>3, FinalizerSamePool DEF DeliverList, worker, FinalizerInv
  <1>3. CASE FireTimer
    BY <1>3, FinalizerSamePool DEF FireTimer, worker, FinalizerInv, Exists, List
  <1> QED
    BY <1>1, <1>2, <1>3 DEF Deliver

LEMMA FinalizerInstances ==
    ASSUME TypeOK, FinalizerInv, NEW u \in Instances,
           InstanceReady(u) \/ InstanceUnready(u) \/ InstanceGone(u)
             \/ DeleteByOther(u) \/ CollectGarbage(u)
    PROVE  FinalizerInv'
  <1>1. Exists(u) /\ UNCHANGED pools /\ pc' = pc
    BY DEF InstanceReady, InstanceUnready, InstanceGone, DeleteByOther, CollectGarbage,
           Exists, worker
  <1>2. \E i \in InstanceStates : SetInstance(u, i)
    BY VersionTypes, InstanceParts, DeletedTypes, ConstantTypes
    DEF InstanceReady, InstanceUnready, InstanceGone, DeleteByOther, CollectGarbage
  <1>3. \E i \in InstanceStates : List' = [List EXCEPT ![u] = i]
    BY <1>2, SetInstanceEffect
  <1>4. \A v \in Instances : Exists(v)' => Exists(v)
    BY <1>1, <1>3, VersionTypes DEF Exists
  <1> QED
    BY <1>1, <1>4, FinalizerSamePool DEF FinalizerInv

LEMMA FinalizerAround ==
    ASSUME TypeOK, FinalizerInv, Around
    PROVE  FinalizerInv'
  <1>1. CASE EditHostSets
    <2>1. PICK replicas \in env.specs : WritePool([Pool EXCEPT !.replicas = replicas])
      BY <1>1 DEF EditHostSets
    <2> DEFINE p == [Pool EXCEPT !.replicas = replicas]
    <2>2. Pool \in Pools /\ p \in Pools
      BY VersionTypes, PoolParts, EnvironmentParts
    <2>3. p.finalizer = Pool.finalizer /\ p.life = Pool.life
      BY <2>2 DEF Pools
    <2>4. Pool.life = "live" /\ UNCHANGED <<lists, pc>>
      BY <1>1 DEF EditHostSets
    <2> QED
      BY <2>1, <2>2, <2>3, <2>4, FinalizerWritten
  <1>2. CASE DeletePool
    <2> DEFINE p == Swept([Pool EXCEPT !.life = "deleting"])
    <2>1. Pool \in Pools /\ p \in Pools
      BY VersionTypes, PoolParts
    <2>2. p.life # "live" /\ p.finalizer = Pool.finalizer
      BY <2>1 DEF Pools, Swept
    <2>3. Pool.life = "live" /\ UNCHANGED <<lists, pc>> /\ WritePool(p)
      BY <1>2 DEF DeletePool
    <2> QED
      BY <2>1, <2>2, <2>3, FinalizerWritten
  <1>3. ASSUME NEW j \in Jobs, JobSucceeds(j) \/ JobFails(j)
        PROVE  FinalizerInv'
    <2>1. UNCHANGED <<pools, lists, worker>>
      BY <1>3 DEF JobSucceeds, JobFails, EndJob
    <2> QED
      BY <2>1, FinalizerSamePool DEF worker, FinalizerInv, Exists, List
  <1> QED
    BY <1>1, <1>2, <1>3, FinalizerInstances DEF Around

LEMMA FinalizerInit == Init => FinalizerInv
  <1> SUFFICES ASSUME Init
               PROVE  FinalizerInv
    OBVIOUS
  <1>1. PICK replicas \in env.specs :
           pools = <<[life |-> "live", replicas |-> replicas, finalizer |-> FALSE,
                      status |-> EmptyStatus]>>
    BY DEF Init
  <1>2. Len(pools) = 1 /\ Pool = pools[1] /\ pools[1].life = "live" /\ ~pools[1].finalizer
    BY <1>1 DEF Pool
  <1>3. \A u \in Instances : ~Exists(u)
    BY DEF Init, Exists, List, Absent
  <1> QED
    BY <1>2, <1>3 DEF Init, FinalizerInv, InstancesUnderFinalizer, DeletionSteps

LEMMA FinalizerNext == TypeOK /\ FinalizerInv /\ [Next]_vars => FinalizerInv'
  <1>1. ASSUME TypeOK, FinalizerInv, UNCHANGED vars
        PROVE  FinalizerInv'
    BY <1>1, FinalizerSamePool DEF vars, worker, FinalizerInv, Exists, List
  <1> QED
    BY <1>1, FinalizerStart, FinalizerStep, FinalizerFaults, FinalizerDeliver,
       FinalizerAround
    DEF Next

(* A stored pool that has instances has its finalizer, however far the worker's      *)
(* caches are behind and whatever fails: only handleDeletion makes it disappear.     *)
THEOREM PoolInstancesUnderFinalizer == Spec => []InstancesUnderFinalizer
  <1>1. FinalizerInv => InstancesUnderFinalizer
    BY DEF FinalizerInv
  <1> QED
    BY <1>1, InitTypes, NextTypes, FinalizerInit, FinalizerNext, PTL DEF Spec
--------------------------------------------------------------------------------
(* The teardown comes last. *)

TeardownSteps == {"teardown", "dropFinalizer"}

(* Versions in a cache never come back to life; when the pool is gone, none is left that  *)
(* would let the worker scale; and a worker that deletes has seen the pool being deleted. *)
TeardownInv ==
    /\ \A m, n \in 1 .. Len(pools) :
          m <= n /\ pools[m].life # "live" => pools[n].life # "live"
    /\ Pool.life = "gone" =>
          \A n \in 1 .. Len(pools) : pools[n].life = "live" => ~pools[n].finalizer
    /\ pc = "scale" => Pool.life # "gone"
    /\ pc \in DeletionSteps => \A n \in 1 .. Len(pools) : pools[n].life # "live"
    /\ TeardownIsLast

(* A write keeps the order of the versions that stay. *)
LEMMA WindowOrder ==
    ASSUME NEW S, NEW s \in Seq(S), NEW lag \in Nat, Len(s) \in 1 .. lag + 1, NEW e \in S
    PROVE  \E d \in {0, 1} :
              /\ Len(Written(s, e, lag)) = Len(s) + 1 - d
              /\ \A n \in 1 .. Len(s) - d : Written(s, e, lag)[n] = s[n + d]
  <1> DEFINE a == Append(s, e)
             w == Written(s, e, lag)
  <1>1. /\ a \in Seq(S) /\ Len(a) = Len(s) + 1
        /\ \A n \in 1 .. Len(s) : a[n] = s[n]
    OBVIOUS
  <1>2. Len(s) \in Nat /\ Len(s) >= 1
    OBVIOUS
  <1>3. CASE Len(s) > lag
    <2>1. w = Tail(a)
      BY <1>3 DEF Written
    <2>2. Len(w) = Len(s) /\ \A n \in 1 .. Len(s) : w[n] = a[n + 1]
      BY <2>1, <1>1, <1>2
    <2> HIDE DEF a, w
    <2>3. Len(w) = Len(s) + 1 - 1 /\ \A n \in 1 .. Len(s) - 1 : w[n] = s[n + 1]
      BY <2>2, <1>1, <1>2
    <2> QED
      BY <2>3 DEF w
  <1>4. CASE ~(Len(s) > lag)
    <2>1. w = a
      BY <1>4 DEF Written
    <2> HIDE DEF a, w
    <2>2. Len(w) = Len(s) + 1 - 0 /\ \A n \in 1 .. Len(s) - 0 : w[n] = s[n + 0]
      BY <2>1, <1>1, <1>2
    <2> QED
      BY <2>2 DEF w
  <1> QED
    BY <1>3, <1>4

(* A step that leaves the pool alone. *)
LEMMA TeardownSamePool ==
    ASSUME TypeOK, FinalizerInv, TeardownInv, UNCHANGED <<pools, env>>,
           \A u \in Instances : Exists(u)' => Exists(u) \/ pc = "scale",
           pc' = "scale" => Pool.life # "gone",
           pc' \in DeletionSteps => \A n \in 1 .. Len(pools) : pools[n].life # "live",
           pc' \in TeardownSteps =>
              \/ pc \in TeardownSteps
              \/ env.listLag = 0 => \A u \in Instances : ~Exists(u)'
    PROVE  TeardownInv'
  <1>1. Pool' = Pool
    BY DEF Pool
  <1>2. ASSUME env.listLag = 0, Pool.life = "gone"
        PROVE  \A u \in Instances : ~Exists(u)'
    BY <1>2 DEF TeardownInv, TeardownIsLast
  <1>3. ASSUME env.listLag = 0, pc' \in TeardownSteps
        PROVE  \A u \in Instances : ~Exists(u)'
    BY <1>3 DEF TeardownInv, TeardownIsLast, TeardownSteps
  <1>4. TeardownIsLast'
    BY <1>1, <1>2, <1>3 DEF TeardownIsLast, TeardownSteps
  <1> QED
    BY <1>1, <1>4 DEF TeardownInv

(* A write of a pool that is not gone. *)
LEMMA TeardownWritten ==
    ASSUME TypeOK, FinalizerInv, TeardownInv, NEW p \in Pools, WritePool(p),
           UNCHANGED <<lists, env>>,
           Pool.life # "live" => p.life # "live",
           p.life = "gone" =>
              /\ \A n \in 1 .. Len(pools) : pools[n].life = "live" => ~pools[n].finalizer
              /\ env.listLag = 0 => \A u \in Instances : ~Exists(u)
              /\ pc' # "scale",
           pc' \in DeletionSteps => pc \in DeletionSteps,
           pc' \in TeardownSteps => pc \in TeardownSteps
    PROVE  TeardownInv'
  <1>1. pools \in Seq(Pools) /\ Len(pools) \in 1 .. env.poolLag + 1 /\ env.poolLag \in Nat
    BY EnvironmentParts DEF TypeOK
  <1>2. pools' = Written(pools, p, env.poolLag) /\ Pool' = p
    BY WritePoolEffect DEF WritePool
  <1>3. PICK d \in {0, 1} : /\ Len(pools') = Len(pools) + 1 - d
                            /\ \A n \in 1 .. Len(pools) - d : pools'[n] = pools[n + d]
    BY <1>1, <1>2, WindowOrder
  <1>4. Len(pools) \in Nat /\ Len(pools) >= 1 /\ pools'[Len(pools')] = p
    BY <1>1, <1>2 DEF Pool
  <1>5. \A n \in 1 .. Len(pools') :
           \/ pools'[n] = p /\ n = Len(pools')
           \/ n \in 1 .. Len(pools) - d /\ pools'[n] = pools[n + d]
                /\ n + d \in 1 .. Len(pools)
    BY <1>3, <1>4
  <1>6. \A n \in 1 .. Len(pools) : pools[n].life # "live" => p.life # "live"
    BY DEF FinalizerInv
  <1>7. \A m, n \in 1 .. Len(pools') :
           m <= n /\ pools'[m].life # "live" => pools'[n].life # "live"
    <2> SUFFICES ASSUME NEW m \in 1 .. Len(pools'), NEW n \in 1 .. Len(pools'),
                        m <= n, pools'[m].life # "live"
                 PROVE  pools'[n].life # "live"
      OBVIOUS
    <2>1. CASE n = Len(pools')
      BY <2>1, <1>4, <1>5, <1>6
    <2>2. CASE n # Len(pools')
      <3>1. /\ m + d \in 1 .. Len(pools) /\ pools'[m] = pools[m + d]
            /\ n + d \in 1 .. Len(pools) /\ pools'[n] = pools[n + d]
            /\ m + d <= n + d
        BY <2>2, <1>3, <1>4, <1>5
      <3> QED
        BY <3>1 DEF TeardownInv
    <2> QED
      BY <2>1, <2>2
  <1>8. \A u \in Instances : Exists(u)' <=> Exists(u)
    BY DEF Exists, List
  <1>9. TeardownIsLast'
    BY <1>2, <1>8 DEF TeardownInv, TeardownIsLast, TeardownSteps
  <1>10. pc' \in DeletionSteps => \A n \in 1 .. Len(pools') : pools'[n].life # "live"
    BY <1>5, <1>6, <1>4, VersionTypes DEF TeardownInv, Pool
  <1>11. Pool'.life = "gone" =>
            \A n \in 1 .. Len(pools') : pools'[n].life = "live" => ~pools'[n].finalizer
    BY <1>2, <1>5
  <1> QED
    BY <1>2, <1>7, <1>9, <1>10, <1>11 DEF TeardownInv

LEMMA TeardownStart ==
    ASSUME TypeOK, FinalizerInv, TeardownInv, Start
    PROVE  TeardownInv'
  <1>1. UNCHANGED <<pools, lists, env>>
    BY DEF Start, ReconcileMissing, RefuseProfile, NeedsFinalizer, HandleUpdate,
           HandleDeletion, Dequeue, cluster
  <1>2. \A u \in Instances : Exists(u)' <=> Exists(u)
    BY <1>1 DEF Exists, List
  <1>3. 1 \in 1 .. Len(pools) /\ \A n \in 1 .. Len(pools) : 1 <= n
    BY VersionTypes
  <1>4. pc' = "scale" => Pool.life # "gone"
    <2>1. pc' = "scale" => CachedPool.life = "live" /\ CachedPool.finalizer
      BY DEF Start, ReconcileMissing, RefuseProfile, NeedsFinalizer, HandleUpdate,
             HandleDeletion, Dequeue, Begin, BeginUpdate, BeginDeletion, worker
    <2> QED
      BY <1>3, <2>1 DEF TeardownInv, CachedPool
  <1>5. pc' \in DeletionSteps => CachedPool.life = "deleting" /\ HandleDeletion
    BY DEF Start, ReconcileMissing, RefuseProfile, NeedsFinalizer, HandleUpdate,
           HandleDeletion, Dequeue, Begin, BeginUpdate, BeginDeletion, worker, DeletionSteps
  <1>6. pc' \in DeletionSteps => \A n \in 1 .. Len(pools) : pools[n].life # "live"
    BY <1>3, <1>5 DEF TeardownInv, CachedPool
  <1>7. ASSUME pc' \in TeardownSteps, env.listLag = 0
        PROVE  \A u \in Instances : ~Exists(u)'
    <2>1. CachedList = List
      <3>1. Len(lists) \in 1 .. env.listLag + 1 /\ env.listLag = 0
        BY <1>7 DEF TypeOK
      <3>2. Len(lists) = 1
        BY <3>1
      <3> QED
        BY <3>2 DEF CachedList, List
    <2>2. ~AnyListed("live") /\ ~AnyListed("deleting")
      BY <1>5, <1>7 DEF HandleDeletion, BeginDeletion, Begin, TeardownSteps, DeletionSteps
    <2>3. \A u \in Instances : List[u].life \in {"absent", "live", "deleting"}
      BY VersionTypes, InstanceParts
    <2> QED
      BY <1>2, <2>1, <2>2, <2>3 DEF AnyListed, Exists
  <1> QED
    BY <1>1, <1>2, <1>4, <1>6, <1>7, TeardownSamePool

LEMMA TeardownStatus ==
    ASSUME TypeOK, FinalizerInv, TeardownInv, StoreStatus, pc' \in {"idle", "status"}
    PROVE  TeardownInv'
  <1>1. pc' # "scale" /\ pc' \notin DeletionSteps /\ pc' \notin TeardownSteps
    BY DEF DeletionSteps, TeardownSteps
  <1>2. CASE UNCHANGED <<pools, lists>>
    BY <1>1, <1>2, TeardownSamePool DEF Exists, List, StoreStatus, cluster
  <1>3. CASE WritePool([Pool EXCEPT !.status = obj.status])
    <2> DEFINE p == [Pool EXCEPT !.status = obj.status]
    <2>1. Pool \in Pools /\ p \in Pools
      BY VersionTypes, PoolParts DEF TypeOK
    <2>2. p.finalizer = Pool.finalizer /\ p.life = Pool.life
      BY <2>1 DEF Pools
    <2>3. Pool.life # "gone" /\ UNCHANGED <<lists, env>>
      BY DEF StoreStatus, Accepted, cluster
    <2> QED
      BY <1>1, <1>3, <2>1, <2>2, <2>3, TeardownWritten
  <1> QED
    BY <1>2, <1>3 DEF StoreStatus

LEMMA TeardownCalls ==
    ASSUME TypeOK, FinalizerInv, TeardownInv, StoreFinalizer \/ RemoveFinalizer,
           pc' = "scale" => StoreFinalizer, pc' \notin DeletionSteps
    PROVE  TeardownInv'
  <1>1. /\ Pool \in Pools /\ Pool.life # "gone" /\ UNCHANGED <<lists, env>>
        /\ pc' \notin TeardownSteps
    BY VersionTypes
    DEF StoreFinalizer, RemoveFinalizer, Accepted, cluster, DeletionSteps, TeardownSteps
  <1>2. CASE StoreFinalizer
    <2> DEFINE p == [Pool EXCEPT !.finalizer = TRUE]
    <2>1. p \in Pools /\ p.life = Pool.life /\ WritePool(p)
      BY <1>1, <1>2, PoolParts DEF Pools, StoreFinalizer
    <2> QED
      BY <1>1, <2>1, TeardownWritten
  <1>3. CASE RemoveFinalizer /\ ~StoreFinalizer
    <2> DEFINE p == Swept([Pool EXCEPT !.finalizer = FALSE])
    <2>1. p \in Pools /\ WritePool(p)
      BY <1>1, <1>3, PoolParts DEF RemoveFinalizer
    <2>2. \A n \in 1 .. Len(pools) : pools[n].life # "live"
      BY <1>3 DEF RemoveFinalizer, TeardownInv, DeletionSteps
    <2>3. env.listLag = 0 => \A u \in Instances : ~Exists(u)
      BY <1>3 DEF RemoveFinalizer, TeardownInv, TeardownIsLast
    <2>4. Pool.life # "live"
      BY <2>2, VersionTypes DEF Pool
    <2>5. p.life # "live"
      BY <1>1, <2>4 DEF Swept, Pools
    <2> QED
      BY <1>1, <1>3, <2>1, <2>2, <2>3, <2>5, TeardownWritten
  <1> QED
    BY <1>2, <1>3

LEMMA TeardownLocal ==
    ASSUME TypeOK, FinalizerInv, TeardownInv,
           Rejected \/ Scaled \/ Provision \/ Poll \/ CheckReady \/ TeardownPending
             \/ TeardownDone \/ EndReconcile \/ StatusConflict \/ RequestFails
             \/ \E j \in Jobs : Trigger(j)
    PROVE  TeardownInv'
  <1>1. UNCHANGED <<pools, lists, env>>
    BY DEF Rejected, Scaled, Provision, Poll, CheckReady, TeardownPending, TeardownDone,
           EndReconcile, StatusConflict, RequestFails, Trigger, StartJob, Local, cluster
  <1>2. pc' # "scale"
    BY DEF Rejected, Scaled, Provision, Poll, CheckReady, TeardownPending, TeardownDone,
           EndReconcile, StatusConflict, RequestFails, Trigger, Fails, Return, Continue,
           Finish, Rest
  <1>3. pc' \in DeletionSteps => pc = "teardown"
    BY DEF Rejected, Scaled, Provision, Poll, CheckReady, TeardownPending, TeardownDone,
           EndReconcile, StatusConflict, RequestFails, Trigger, Fails, Return, Continue,
           Finish, Rest, DeletionSteps
  <1>4. /\ pc' \in DeletionSteps => \A n \in 1 .. Len(pools) : pools[n].life # "live"
        /\ pc' \in TeardownSteps => pc \in TeardownSteps
    BY <1>3 DEF TeardownInv, DeletionSteps, TeardownSteps
  <1> QED
    BY <1>1, <1>2, <1>4, TeardownSamePool DEF Exists, List

LEMMA TeardownStep ==
    ASSUME TypeOK, FinalizerInv, TeardownInv, Step
    PROVE  TeardownInv'
  <1>1. CASE AddFinalizer
    BY <1>1, TeardownCalls DEF AddFinalizer, Continue, DeletionSteps
  <1>2. CASE DropFinalizer
    BY <1>2, TeardownCalls DEF DropFinalizer, Return, DeletionSteps
  <1>3. CASE Flush \/ UpdateStatus
    BY <1>3, TeardownStatus DEF Flush, UpdateStatus, Return, Finish, Rest
  <1>4. ASSUME NEW t \in HostTypes, NEW u \in Instances,
               ScaleUp(t, u) \/ ScaleDown(t, u) \/ RemoveInstance(t, u)
        PROVE  TeardownInv'
    <2>1. Create(t, u) \/ Delete(t, u) \/ Remove(t, u)
      BY <1>4 DEF ScaleUp, ScaleDown, RemoveInstance
    <2>2. (pc' = pc \/ pc' = "status") /\ env' = env
      BY <1>4
      DEF ScaleUp, ScaleDown, RemoveInstance, Return, Create, Delete, Remove, cluster
    <2>3. /\ pc' = "scale" => Pool.life # "gone"
          /\ pc' \in DeletionSteps => \A n \in 1 .. Len(pools) : pools[n].life # "live"
          /\ pc' \in TeardownSteps => pc \in TeardownSteps
      BY <2>2 DEF TeardownInv, DeletionSteps, TeardownSteps
    <2> QED
      BY <2>1, <2>2, <2>3, CallInstances, TeardownSamePool
  <1>5. CASE ~(AddFinalizer \/ DropFinalizer \/ Flush \/ UpdateStatus)
             /\ ~\E t \in HostTypes, u \in Instances :
                    ScaleUp(t, u) \/ ScaleDown(t, u) \/ RemoveInstance(t, u)
    BY <1>5, TeardownLocal DEF Step
  <1> QED
    BY <1>1, <1>2, <1>3, <1>4, <1>5

LEMMA TeardownFaults ==
    ASSUME TypeOK, FinalizerInv, TeardownInv, Faults
    PROVE  TeardownInv'
  <1>1. CASE RequestFails
    BY <1>1, TeardownLocal
  <1>2. CASE StatusFails
    <2>1. pc' = "idle"
      BY <1>2 DEF StatusFails, Finish, Rest
    <2>2. CASE StoreStatus
      BY <2>1, <2>2, TeardownStatus
    <2>3. CASE UNCHANGED <<cluster, pools, lists>>
      BY <2>1, <2>3, TeardownSamePool
      DEF DeletionSteps, TeardownSteps, Exists, List, cluster
    <2> QED
      BY <1>2, <2>2, <2>3 DEF StatusFails
  <1>3. CASE ReplyLost
    <2>1. pc' = "status" /\ pc' \notin DeletionSteps /\ pc' \notin TeardownSteps
      BY <1>3 DEF ReplyLost, Fails, Return, DeletionSteps, TeardownSteps
    <2>2. CASE StoreFinalizer \/ RemoveFinalizer
      BY <2>1, <2>2, TeardownCalls
    <2>3. ASSUME NEW t \in HostTypes, NEW u \in Instances,
                 Create(t, u) \/ Delete(t, u) \/ Remove(t, u)
          PROVE  TeardownInv'
      <3>1. env' = env
        BY <2>3 DEF Create, Delete, Remove, cluster
      <3> QED
        BY <2>1, <2>3, <3>1, CallInstances, TeardownSamePool
    <2>4. ASSUME NEW j \in Jobs, StartJob(j)
          PROVE  TeardownInv'
      BY <2>1, <2>4, TeardownSamePool DEF StartJob, Exists, List
    <2>5. CASE StoreStatus
      BY <2>1, <2>5, TeardownStatus
    <2> QED
      BY <1>3, <2>2, <2>3, <2>4, <2>5 DEF ReplyLost
  <1>4. CASE Restart
    <2>1. pools' = <<Pool>> /\ lists' = <<List>> /\ pc' = "idle" /\ env' = env
      BY <1>4 DEF Restart, Rest
    <2>2. Pool' = Pool /\ List' = List /\ Len(pools') = 1
      BY <2>1 DEF Pool, List
    <2>3. \A u \in Instances : Exists(u)' <=> Exists(u)
      BY <2>2 DEF Exists
    <2>4. TeardownIsLast'
      BY <2>1, <2>2, <2>3 DEF TeardownInv, TeardownIsLast
    <2>5. \A n \in 1 .. Len(pools') : pools'[n] = Pool
      BY <2>1, <2>2
    <2> QED
      BY <2>1, <2>2, <2>4, <2>5 DEF TeardownInv, DeletionSteps
  <1> QED
    BY <1>1, <1>2, <1>3, <1>4 DEF Faults

LEMMA TeardownDeliver ==
    ASSUME TypeOK, FinalizerInv, TeardownInv, Deliver \/ FireTimer
    PROVE  TeardownInv'
  <1>1. CASE DeliverPool
    <2>1. pools \in Seq(Pools) /\ Len(pools) \in 2 .. env.poolLag + 1 /\ env.poolLag \in Nat
      BY <1>1, EnvironmentParts DEF DeliverPool, TypeOK
    <2>2. pools' = Tail(pools) /\ pc' = pc /\ lists' = lists /\ env' = env
      BY <1>1 DEF DeliverPool, worker, cluster
    <2>3. /\ Len(pools') = Len(pools) - 1
          /\ \A n \in 1 .. Len(pools) - 1 : pools'[n] = pools[n + 1]
      BY <2>1, <2>2
    <2>4. Pool' = Pool
      BY <2>1, <2>3 DEF Pool
    <2>5. \A n \in 1 .. Len(pools') : pools'[n] = pools[n + 1] /\ n + 1 \in 1 .. Len(pools)
      BY <2>1, <2>3
    <2>6. \A u \in Instances : Exists(u)' <=> Exists(u)
      BY <2>2 DEF Exists, List
    <2>7. TeardownIsLast'
      BY <2>2, <2>4, <2>6 DEF TeardownInv, TeardownIsLast
    <2>8. \A m, n \in 1 .. Len(pools') :
             m <= n /\ pools'[m].life # "live" => pools'[n].life # "live"
      <3> TAKE m, n \in 1 .. Len(pools')
      <3> HAVE m <= n /\ pools'[m].life # "live"
      <3>1. m + 1 <= n + 1 /\ pools[m + 1].life # "live"
        BY <2>1, <2>5
      <3>2. pools[n + 1].life # "live"
        BY <2>5, <3>1 DEF TeardownInv
      <3> QED
        BY <2>5, <3>2
    <2>9. pc' \in DeletionSteps => \A n \in 1 .. Len(pools') : pools'[n].life # "live"
      BY <2>2, <2>5 DEF TeardownInv
    <2>10. Pool'.life = "gone" =>
              \A n \in 1 .. Len(pools') : pools'[n].life = "live" => ~pools'[n].finalizer
      BY <2>4, <2>5 DEF TeardownInv
    <2> QED
      BY <2>2, <2>4, <2>7, <2>8, <2>9, <2>10 DEF TeardownInv
  <1>2. CASE DeliverList
    <2>1. lists \in Seq([Instances -> InstanceStates]) /\ Len(lists) \in 2 .. env.listLag + 1
          /\ env.listLag \in Nat
      BY <1>2, EnvironmentParts DEF DeliverList, TypeOK
    <2>2. lists' = Tail(lists) /\ Tail(lists)[Len(Tail(lists))] = lists[Len(lists)]
      BY <1>2, <2>1 DEF DeliverList
    <2>3. \A u \in Instances : Exists(u)' <=> Exists(u)
      BY <2>2 DEF Exists, List
    <2>4. UNCHANGED <<pools, env, pc>>
      BY <1>2 DEF DeliverList, worker, cluster
    <2> QED
      BY <2>3, <2>4, TeardownSamePool DEF TeardownInv
  <1>3. CASE FireTimer
    BY <1>3, TeardownSamePool DEF FireTimer, worker, cluster, TeardownInv, Exists, List
  <1> QED
    BY <1>1, <1>2, <1>3 DEF Deliver

LEMMA TeardownInstances ==
    ASSUME TypeOK, FinalizerInv, TeardownInv, NEW u \in Instances,
           InstanceReady(u) \/ InstanceUnready(u) \/ InstanceGone(u)
             \/ DeleteByOther(u) \/ CollectGarbage(u)
    PROVE  TeardownInv'
  <1>1. Exists(u) /\ UNCHANGED <<pools, env, pc>>
    BY DEF InstanceReady, InstanceUnready, InstanceGone, DeleteByOther, CollectGarbage,
           Exists, worker, cluster
  <1>2. \E i \in InstanceStates : SetInstance(u, i)
    BY VersionTypes, InstanceParts, DeletedTypes, ConstantTypes
    DEF InstanceReady, InstanceUnready, InstanceGone, DeleteByOther, CollectGarbage
  <1>3. \E i \in InstanceStates : List' = [List EXCEPT ![u] = i]
    BY <1>2, SetInstanceEffect
  <1>4. \A v \in Instances : Exists(v)' => Exists(v)
    BY <1>1, <1>3, VersionTypes DEF Exists
  <1> QED
    BY <1>1, <1>4, TeardownSamePool DEF TeardownInv

LEMMA TeardownAround ==
    ASSUME TypeOK, FinalizerInv, TeardownInv, Around
    PROVE  TeardownInv'
  <1>1. CASE EditHostSets
    <2>1. PICK replicas \in env.specs : WritePool([Pool EXCEPT !.replicas = replicas])
      BY <1>1 DEF EditHostSets
    <2> DEFINE p == [Pool EXCEPT !.replicas = replicas]
    <2>2. Pool \in Pools /\ p \in Pools
      BY VersionTypes, PoolParts, EnvironmentParts
    <2>3. p.life = Pool.life
      BY <2>2 DEF Pools
    <2>4. Pool.life = "live" /\ UNCHANGED <<lists, pc, env>>
      BY <1>1 DEF EditHostSets
    <2> QED
      BY <2>1, <2>2, <2>3, <2>4, TeardownWritten
  <1>2. CASE DeletePool
    <2> DEFINE p == Swept([Pool EXCEPT !.life = "deleting"])
    <2>1. Pool \in Pools /\ p \in Pools
      BY VersionTypes, PoolParts
    <2>2. p.life # "live" /\ (p.life = "gone" => ~Pool.finalizer)
      BY <2>1 DEF Pools, Swept
    <2>3. Pool.life = "live" /\ UNCHANGED <<lists, pc, env>> /\ WritePool(p)
      BY <1>2 DEF DeletePool, cluster
    <2>4. ASSUME p.life = "gone"
          PROVE  /\ \A n \in 1 .. Len(pools) : ~pools[n].finalizer
                 /\ \A u \in Instances : ~Exists(u)
                 /\ pc # "scale"
      BY <2>2, <2>3, <2>4 DEF FinalizerInv, InstancesUnderFinalizer, Kept
    <2> QED
      BY <2>1, <2>2, <2>3, <2>4, TeardownWritten
  <1>3. ASSUME NEW j \in Jobs, JobSucceeds(j) \/ JobFails(j)
        PROVE  TeardownInv'
    <2>1. UNCHANGED <<pools, lists, worker, env>>
      BY <1>3 DEF JobSucceeds, JobFails, EndJob
    <2> QED
      BY <2>1, TeardownSamePool DEF worker, TeardownInv, Exists, List
  <1> QED
    BY <1>1, <1>2, <1>3, TeardownInstances DEF Around

LEMMA TeardownInit == Init => TeardownInv
  <1> SUFFICES ASSUME Init
               PROVE  TeardownInv
    OBVIOUS
  <1>1. PICK replicas \in env.specs :
           pools = <<[life |-> "live", replicas |-> replicas, finalizer |-> FALSE,
                      status |-> EmptyStatus]>>
    BY DEF Init
  <1>2. /\ Len(pools) = 1 /\ Pool.life = "live" /\ pc = "idle"
        /\ \A n \in 1 .. Len(pools) : pools[n].life = "live"
    BY <1>1 DEF Pool, Init
  <1> QED
    BY <1>2 DEF TeardownInv, TeardownIsLast, DeletionSteps

LEMMA TeardownNext == TypeOK /\ FinalizerInv /\ TeardownInv /\ [Next]_vars => TeardownInv'
  <1>1. ASSUME TypeOK, FinalizerInv, TeardownInv, UNCHANGED vars
        PROVE  TeardownInv'
    BY <1>1, TeardownSamePool DEF vars, worker, TeardownInv, Exists, List
  <1> QED
    BY <1>1, TeardownStart, TeardownStep, TeardownFaults, TeardownDeliver, TeardownAround
    DEF Next

(* Where the list of instances is up to date, the teardown starts, and the pool     *)
(* disappears, only when every instance has, however old the cached pool is.        *)
THEOREM PoolTeardownIsLast == Spec => []TeardownIsLast
  <1>1. TeardownInv => TeardownIsLast
    BY DEF TeardownInv
  <1> QED
    BY <1>1, InitTypes, NextTypes, FinalizerInit, FinalizerNext, TeardownInit, TeardownNext,
       PTL
    DEF Spec
================================================================================
