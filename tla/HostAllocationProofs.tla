------------------------- MODULE HostAllocationProofs -------------------------
(***************************************************************************)
(* What holds of HostAllocation for every set of instances and hosts, both *)
(* backends, and every lag, number of faults and number of workers.        *)
(***************************************************************************)
EXTENDS HostAllocation, SequenceTheorems, TLAPS

(* Where the worker's copy has a host. *)
HostSteps == {"select", "lockForClaim", "lockForRelease", "setClass", "clearHost"}
               \union ClaimSteps \union ReleaseSteps

WorkerHasHost == \A i \in Instances : pc[i] \in HostSteps => obj[i].host \in Hosts

(* The parts of an object, and what an assignment to one of them gives. *)
LEMMA StatusParts ==
    ASSUME NEW s \in Statuses, NEW p \in Phases
    PROVE  [s EXCEPT !.phase = p] \in Statuses
  BY DEF Statuses

LEMMA StatusConstants ==
    /\ EmptyStatus \in Statuses
    /\ [phase |-> "Allocating", allocated |-> "False"] \in Statuses
    /\ [phase |-> "Progressing", allocated |-> "True"] \in Statuses
    /\ {"Allocating", "Progressing", "Failed", "Ready", "Deleting"} \subseteq Phases
  BY DEF EmptyStatus, Statuses, Phases

LEMMA ObjectParts ==
    ASSUME NEW o \in Objects
    PROVE  /\ o.status \in Statuses
           /\ o.host \in Hosts \union {NoHost}
           /\ o.finalizers \subseteq Finalizers
           /\ \A s \in Statuses : [o EXCEPT !.status = s] \in Objects
           /\ \A h \in Hosts \union {NoHost} : [o EXCEPT !.host = h] \in Objects
           /\ \A l \in {"live", "deleting", "gone"} : [o EXCEPT !.life = l] \in Objects
           /\ \A f \in SUBSET Finalizers : [o EXCEPT !.finalizers = f] \in Objects
           /\ [o EXCEPT !.classed = TRUE] \in Objects
  BY DEF Objects

LEMMA NoObjectType == NoObject \in Objects
  BY StatusConstants DEF NoObject, Objects

(* A version list always has a cached and a stored version. *)
LEMMA VersionTypes ==
    ASSUME TypeOK, NEW i \in Instances
    PROVE  /\ Len(versions[i]) \in Nat \ {0}
           /\ Stored(i) \in Objects
           /\ Cached(i) \in Objects
  <1>1. versions[i] \in Seq(Objects) /\ versions[i] # <<>>
    BY DEF TypeOK
  <1> QED
    BY <1>1 DEF Stored, Cached

LEMMA TailNotEmpty ==
    ASSUME NEW S, NEW s \in Seq(S), Len(s) > 1
    PROVE  Tail(s) \in Seq(S) \ {<<>>}
  <1> DEFINE n == Len(s)
             m == Len(Tail(s))
  <1>1. n \in Nat /\ m = n - 1 /\ Tail(s) \in Seq(S)
    OBVIOUS
  <1>2. n > 1
    OBVIOUS
  <1> HIDE DEF n, m
  <1>3. m # 0
    BY <1>1, <1>2
  <1>4. Len(Tail(s)) # 0
    BY <1>3 DEF m
  <1> QED
    BY <1>1, <1>4, EmptySeq

(* Publishing keeps version lists well formed. *)
LEMMA PublishTypes ==
    ASSUME TypeOK, NEW i \in Instances, NEW o \in Objects, Publish(i, o)
    PROVE  versions' \in [Instances -> Seq(Objects) \ {<<>>}]
  <1>1. versions[i] \in Seq(Objects) /\ versions[i] # <<>>
    BY DEF TypeOK
  <1>2. Append(versions[i], o) \in Seq(Objects) \ {<<>>}
    BY <1>1
  <1>3. Append(Tail(versions[i]), o) \in Seq(Objects) \ {<<>>}
    BY <1>1
  <1> QED
    BY <1>2, <1>3 DEF TypeOK, Publish

(* The budget of faults is never exceeded. *)
LEMMA FaultTypes ==
    ASSUME TypeOK, faults < MaxFaults, faults' = faults + 1
    PROVE  faults' \in 0 .. MaxFaults
  <1>1. faults \in 0 .. MaxFaults
    BY DEF TypeOK
  <1> QED
    BY <1>1, BoundsAssumption

(* What the handlers' common endings do to the types. *)
LEMMA ReturnTypes ==
    ASSUME TypeOK, NEW i \in Instances, NEW status \in Statuses,
           NEW again \in BOOLEAN, Return(i, status, again)
    PROVE  /\ pc' \in [Instances -> ProgramPoints]
           /\ obj' \in [Instances -> Objects]
           /\ requeue' \in [Instances -> BOOLEAN]
           /\ timers' \subseteq Instances
           /\ oldstatus' \in [Instances -> Statuses]
  <1>1. obj[i] \in Objects
    BY DEF TypeOK
  <1>2. [obj[i] EXCEPT !.status = status] \in Objects
    BY <1>1, ObjectParts
  <1>3. obj' = [obj EXCEPT ![i] = [obj[i] EXCEPT !.status = status]]
    BY DEF Return
  <1> QED
    BY <1>2, <1>3 DEF TypeOK, Return, ProgramPoints

LEMMA DoneTypes ==
    ASSUME TypeOK, NEW i \in Instances, NEW again \in BOOLEAN, Done(i, again)
    PROVE  /\ pc' \in [Instances -> ProgramPoints]
           /\ obj' \in [Instances -> Objects]
           /\ current' \in [Instances -> BOOLEAN]
           /\ requeue' \in [Instances -> BOOLEAN]
           /\ timers' \subseteq Instances
           /\ oldstatus' \in [Instances -> Statuses]
           /\ hostLocks' \subseteq Hosts
           /\ owner' \in [Hosts -> Instances \union {NoInstance}]
           /\ bare' \subseteq Hosts
           /\ labels' \in [Hosts -> SUBSET Labels]
  BY NoObjectType, StatusConstants DEF TypeOK, Done, ProgramPoints, inventory

(* An accepted update stores an object, and its response gives a status. *)
LEMMA UpdateTypes ==
    ASSUME TypeOK, NEW i \in Instances, NEW step, NEW o \in Objects, Update(i, step, o)
    PROVE  /\ versions' \in [Instances -> Seq(Objects) \ {<<>>}]
           /\ queue' \subseteq Instances
           /\ current' \in [Instances -> BOOLEAN]
           /\ owner' \in [Hosts -> Instances \union {NoInstance}]
           /\ bare' \subseteq Hosts
           /\ labels' \in [Hosts -> SUBSET Labels]
           /\ faults' \in 0 .. MaxFaults
           /\ StatusAfterUpdate(i) \in Statuses
  <1>1. Stored(i) \in Objects /\ obj[i] \in Objects
    BY VersionTypes DEF TypeOK
  <1>2. Swept([o EXCEPT !.status = Stored(i).status]) \in Objects
    BY <1>1, ObjectParts DEF Swept
  <1>3. versions' \in [Instances -> Seq(Objects) \ {<<>>}]
    BY <1>2, PublishTypes DEF Update
  <1>4. StatusAfterUpdate(i) \in Statuses
    BY <1>1, ObjectParts DEF StatusAfterUpdate, Decoded, Statuses
  <1> QED
    BY <1>3, <1>4 DEF Update, Woken, TypeOK, inventory

LEMMA BeginTypes ==
    ASSUME TypeOK, UNCHANGED lag, NEW i \in Instances, NEW status \in Statuses,
           NEW next \in ProgramPoints, Dequeue(i), Begin(i, status, next)
    PROVE  TypeOK'
  <1>1. Cached(i) \in Objects
    BY VersionTypes
  <1>2. [Cached(i) EXCEPT !.status = status] \in Objects /\ Cached(i).status \in Statuses
    BY <1>1, ObjectParts
  <1> QED
    BY <1>2 DEF TypeOK, Begin, Dequeue, inventory

LEMMA AbortTypes ==
    ASSUME TypeOK, NEW i \in Instances, Abort(i)
    PROVE  /\ versions' = versions /\ queue' = queue /\ current' = current
           /\ pc' \in [Instances -> ProgramPoints]
           /\ obj' \in [Instances -> Objects]
           /\ requeue' \in [Instances -> BOOLEAN]
           /\ timers' \subseteq Instances
           /\ oldstatus' \in [Instances -> Statuses]
           /\ hostLocks' \subseteq Hosts
  <1> DEFINE status == [obj[i].status EXCEPT !.phase =
                           IF pc[i] \in {"addManagement", "manage"} THEN "Failed" ELSE @]
  <1>1. obj[i].status \in Statuses
    BY ObjectParts DEF TypeOK
  <1>2. status \in Statuses
    <2>1. CASE pc[i] \in {"addManagement", "manage"}
      BY <1>1, <2>1, StatusParts, StatusConstants
    <2>2. CASE pc[i] \notin {"addManagement", "manage"}
      BY <1>1, <2>2 DEF Statuses
    <2> QED
      BY <2>1, <2>2
  <1>3. Return(i, status, TRUE)
    BY DEF Abort
  <1>4. hostLocks' \subseteq Hosts
    BY DEF Abort, AfterUnlock, TypeOK
  <1> HIDE DEF status
  <1> QED
    BY <1>2, <1>3, <1>4, ReturnTypes DEF Abort

-------------------------------------------------------------------------------
(* Every step of the environment, of the informer and of a worker keeps the types. *)

LEMMA EnvironmentTypes ==
    ASSUME TypeOK, UNCHANGED lag, NEW i \in Instances, Environment(i) \/ Informer(i)
    PROVE  TypeOK'
  <1>0. Stored(i) \in Objects /\ versions[i] \in Seq(Objects) /\ versions[i] # <<>>
    BY VersionTypes DEF TypeOK
  <1>1. CASE Create(i)
    <2>1. [NoObject EXCEPT !.life = "live"] \in Objects
      BY NoObjectType, ObjectParts
    <2>2. versions' \in [Instances -> Seq(Objects) \ {<<>>}]
      BY <1>1, <2>1, PublishTypes DEF Create
    <2> QED
      BY <1>1, <2>2 DEF Create, TypeOK, Woken, worker, inventory
  <1>2. CASE Delete(i)
    <2>1. [Stored(i) EXCEPT !.life = IF Stored(i).finalizers = {} THEN "gone" ELSE "deleting"]
             \in Objects
      BY <1>0, ObjectParts DEF Finalizers
    <2>2. versions' \in [Instances -> Seq(Objects) \ {<<>>}]
      BY <1>2, <2>1, PublishTypes DEF Delete
    <2> QED
      BY <1>2, <2>2 DEF Delete, TypeOK, Woken, inventory
  <1>3. CASE EditByOther(i)
    <2>1. versions' \in [Instances -> Seq(Objects) \ {<<>>}]
      BY <1>0, <1>3, PublishTypes DEF EditByOther
    <2>2. faults' \in 0 .. MaxFaults
      BY <1>3, FaultTypes DEF EditByOther
    <2> QED
      BY <1>3, <2>1, <2>2 DEF EditByOther, TypeOK, Woken, inventory
  <1>4. CASE DeliverEvent(i)
    <2>1. Tail(versions[i]) \in Seq(Objects) \ {<<>>}
      BY <1>0, <1>4, TailNotEmpty DEF DeliverEvent
    <2> QED
      BY <1>4, <2>1 DEF DeliverEvent, TypeOK, worker, inventory
  <1>5. CASE FireTimer(i)
    BY <1>5 DEF FireTimer, TypeOK, worker, inventory
  <1> QED
    BY <1>1, <1>2, <1>3, <1>4, <1>5 DEF Environment, Informer

LEMMA StartTypes ==
    ASSUME TypeOK, UNCHANGED lag, NEW i \in Instances, Start(i)
    PROVE  TypeOK'
  <1>0. Cached(i) \in Objects /\ Cached(i).status \in Statuses
    BY VersionTypes, ObjectParts
  <1>1. CASE ReconcileMissing(i)
    BY <1>1 DEF ReconcileMissing, Dequeue, TypeOK, worker, inventory
  <1>2. CASE ReconcileInventory(i)
    BY <1>0, <1>2, BeginTypes, StatusConstants DEF ReconcileInventory, ProgramPoints, RemoteCalls, SpecUpdates
  <1>3. CASE ReconcileManagement(i)
    BY <1>0, <1>3, BeginTypes DEF ReconcileManagement, ProgramPoints, RemoteCalls, SpecUpdates
  <1>4. CASE HandleDeletion(i)
    <2>1. [Cached(i).status EXCEPT !.phase = "Deleting"] \in Statuses
      BY <1>0, StatusParts, StatusConstants
    <2> QED
      BY <1>0, <1>4, <2>1, BeginTypes
       DEF HandleDeletion, InventoryCleanup, ProgramPoints, RemoteCalls, SpecUpdates
  <1> QED
    BY <1>1, <1>2, <1>3, <1>4 DEF Start

(* The status a worker returns, and the object it updates, by action. *)
LEMMA ReturnPreservesTypes ==
    ASSUME TypeOK, UNCHANGED lag, NEW i \in Instances, NEW status \in Statuses,
           NEW again \in BOOLEAN, Return(i, status, again),
           UNCHANGED <<versions, queue, current, hostLocks, inventory, faults>>
    PROVE  TypeOK'
  BY ReturnTypes DEF TypeOK, inventory

LEMMA UpdatePreservesTypes ==
    ASSUME TypeOK, UNCHANGED lag, NEW i \in Instances, NEW step, NEW o \in Objects,
           NEW status \in Statuses, Update(i, step, o), Return(i, status, FALSE),
           hostLocks' \in {hostLocks, AfterUnlock(i)}
    PROVE  TypeOK'
  <1>1. hostLocks' \subseteq Hosts
    BY DEF AfterUnlock, TypeOK
  <1> QED
    BY <1>1, ReturnTypes, UpdateTypes DEF TypeOK

LEMMA StepTypes ==
    ASSUME TypeOK, UNCHANGED lag, WorkerHasHost, NEW i \in Instances, Step(i)
    PROVE  TypeOK'
  <1>0. /\ Stored(i) \in Objects /\ Stored(i).status \in Statuses
        /\ obj[i] \in Objects /\ obj[i].status \in Statuses
        /\ requeue[i] \in BOOLEAN
    BY VersionTypes, ObjectParts DEF TypeOK
  <1>1. CASE EndReconcile(i)
    BY <1>0, <1>1, DoneTypes DEF EndReconcile, TypeOK
  <1>2. CASE UpdateStatus(i)
    <2>1. [Stored(i) EXCEPT !.status = obj[i].status] \in Objects
      BY <1>0, ObjectParts DEF Finalizers
    <2>2. versions' \in [Instances -> Seq(Objects) \ {<<>>}]
      BY <1>2, <2>1, PublishTypes DEF UpdateStatus
    <2> QED
      BY <1>0, <1>2, <2>2, DoneTypes DEF UpdateStatus, Woken, TypeOK
  <1>3. CASE StatusConflict(i)
    BY <1>3, DoneTypes DEF StatusConflict, TypeOK
  <1>4. CASE UpdateRejected(i)
    BY <1>4, AbortTypes DEF UpdateRejected, TypeOK, inventory
  <1>5. CASE AddInventoryFinalizer(i)
    <2> DEFINE o == [obj[i] EXCEPT !.finalizers = @ \union {"inventory"}]
    <2>1. o \in Objects
      BY <1>0, ObjectParts DEF Finalizers
    <2>2. Update(i, "addInventory", o)
      BY <1>5 DEF AddInventoryFinalizer
    <2> HIDE DEF o
    <2>3. StatusAfterUpdate(i) \in Statuses
      BY <2>1, <2>2, UpdateTypes
    <2> QED
      BY <1>5, <2>1, <2>2, <2>3, UpdatePreservesTypes DEF AddInventoryFinalizer
  <1>6. CASE FindFreeHost(i)
    <2>1. PICK h \in Hosts : obj' = [obj EXCEPT ![i].host = h]
      BY <1>6, MatchingAssumption DEF FindFreeHost
    <2>2. [obj[i] EXCEPT !.host = h] \in Objects
      BY <1>0, ObjectParts
    <2>3. obj' \in [Instances -> Objects]
      BY <2>1, <2>2 DEF TypeOK
    <2> QED
      BY <1>6, <2>3 DEF FindFreeHost, TypeOK, inventory, ProgramPoints, RemoteCalls, SpecUpdates
  <1>7. CASE NoFreeHost(i)
    <2>1. [obj[i].status EXCEPT !.phase = "Failed"] \in Statuses
      BY <1>0, StatusParts, StatusConstants
    <2> QED
      BY <1>7, <2>1, ReturnPreservesTypes DEF NoFreeHost
  <1>8. CASE SelectHost(i)
    <2>1. Update(i, "select", obj[i])
      BY <1>8 DEF SelectHost
    <2>2. StatusAfterUpdate(i) \in Statuses
      BY <1>0, <2>1, UpdateTypes
    <2> QED
      BY <1>0, <1>8, <2>1, <2>2, UpdatePreservesTypes DEF SelectHost
  <1>9. CASE TryLock(i)
    <2>1. obj[i].host \in Hosts
      BY <1>9 DEF TryLock, WorkerHasHost, HostSteps
    <2> QED
      BY <1>9, <2>1 DEF TryLock, TypeOK, inventory, ProgramPoints, RemoteCalls,
                        ClaimSteps, ReleaseSteps
  <1>10. CASE TryLockFails(i)
    BY <1>0, <1>10, ReturnPreservesTypes DEF TryLockFails
  <1>11. CASE GetForClaim(i)
    BY <1>11 DEF GetForClaim, TypeOK, inventory, ProgramPoints, RemoteCalls,
                 ClaimSteps, SpecUpdates
  <1>12. CASE InitLabels(i)
    BY <1>12 DEF InitLabels, TypeOK, ProgramPoints, RemoteCalls, ClaimSteps
  <1>13. CASE Claim(i)
    BY <1>13, LabelsAssumption DEF Claim, Claimed, TypeOK, ProgramPoints, RemoteCalls, SpecUpdates
  <1>14. CASE SetHostClass(i)
    <2>1. [obj[i] EXCEPT !.classed = TRUE] \in Objects
      BY <1>0, ObjectParts
    <2> QED
      BY <1>14, <2>1, StatusConstants, UpdatePreservesTypes DEF SetHostClass
  <1>15. CASE ClearHost(i)
    <2>1. [obj[i] EXCEPT !.host = NoHost] \in Objects
      BY <1>0, ObjectParts
    <2>2. StatusAfterUpdate(i) \in Statuses
      BY <1>15, <2>1, UpdateTypes DEF ClearHost
    <2> QED
      BY <1>15, <2>1, <2>2, UpdatePreservesTypes DEF ClearHost
  <1>16. CASE AddManagementFinalizer(i)
    <2> DEFINE o == [obj[i] EXCEPT !.finalizers = @ \union {"management"}]
    <2>1. o \in Objects
      BY <1>0, ObjectParts DEF Finalizers
    <2>2. Update(i, "addManagement", o)
      BY <1>16 DEF AddManagementFinalizer
    <2> HIDE DEF o
    <2>3. [StatusAfterUpdate(i) EXCEPT !.phase = "Progressing"] \in Statuses
      BY <2>1, <2>2, UpdateTypes, StatusParts, StatusConstants
    <2> QED
      BY <1>16, <2>1, <2>2, <2>3, UpdatePreservesTypes DEF AddManagementFinalizer
  <1>17. CASE ManageHost(i)
    <2>1. PICK phase \in {"Ready", "Progressing", "Failed"}, again \in BOOLEAN :
             Return(i, [obj[i].status EXCEPT !.phase = phase], again)
      BY <1>17 DEF ManageHost
    <2>2. [obj[i].status EXCEPT !.phase = phase] \in Statuses
      BY <1>0, StatusParts, StatusConstants
    <2> QED
      BY <1>17, <2>1, <2>2, ReturnPreservesTypes DEF ManageHost
  <1>18. CASE DeprovisionPending(i)
    BY <1>0, <1>18, ReturnPreservesTypes DEF DeprovisionPending
  <1>19. CASE DeprovisionDone(i)
    BY <1>19 DEF DeprovisionDone, TypeOK, inventory, ProgramPoints, RemoteCalls, SpecUpdates
  <1>20. CASE DropManagementFinalizer(i)
    <2> DEFINE o == [obj[i] EXCEPT !.finalizers = @ \ {"management"}]
    <2>1. o \in Objects
      BY <1>0, ObjectParts DEF Finalizers
    <2>2. /\ Update(i, "dropManagement", o)
          /\ obj' = [obj EXCEPT ![i] = [o EXCEPT !.status = StatusAfterUpdate(i)]]
          /\ pc' = [pc EXCEPT ![i] = InventoryCleanup(o)]
          /\ UNCHANGED <<timers, oldstatus, requeue, hostLocks>>
      BY <1>20 DEF DropManagementFinalizer
    <2> HIDE DEF o
    <2>3. [o EXCEPT !.status = StatusAfterUpdate(i)] \in Objects
      BY <2>1, <2>2, UpdateTypes, ObjectParts
    <2>4. InventoryCleanup(o) \in ProgramPoints
      BY DEF InventoryCleanup, ProgramPoints, RemoteCalls, SpecUpdates
    <2> QED
      BY <2>1, <2>2, <2>3, <2>4, UpdateTypes DEF TypeOK
  <1>21. CASE GetForRelease(i)
    BY <1>21 DEF GetForRelease, TypeOK, inventory, ProgramPoints, RemoteCalls,
                 ReleaseSteps, SpecUpdates
  <1>22. CASE Release(i)
    BY <1>22 DEF Release, Released, TypeOK, ProgramPoints, RemoteCalls, SpecUpdates
  <1>23. CASE DropInventoryFinalizer(i)
    <2> DEFINE o == [obj[i] EXCEPT !.finalizers = @ \ {"inventory"}]
    <2>1. o \in Objects
      BY <1>0, ObjectParts DEF Finalizers
    <2>2. Update(i, "dropInventory", o)
      BY <1>23 DEF DropInventoryFinalizer
    <2> HIDE DEF o
    <2>3. StatusAfterUpdate(i) \in Statuses
      BY <2>1, <2>2, UpdateTypes
    <2> QED
      BY <1>23, <2>1, <2>2, <2>3, UpdatePreservesTypes DEF DropInventoryFinalizer
  <1> QED
    BY <1>1, <1>2, <1>3, <1>4, <1>5, <1>6, <1>7, <1>8, <1>9, <1>10, <1>11, <1>12,
       <1>13, <1>14, <1>15, <1>16, <1>17, <1>18, <1>19, <1>20, <1>21, <1>22, <1>23
       DEF Step

LEMMA FaultStepTypes ==
    ASSUME TypeOK, UNCHANGED lag, NEW i \in Instances, Fault(i)
    PROVE  TypeOK'
  <1>1. CASE RequestFails(i)
    BY <1>1, AbortTypes, FaultTypes DEF RequestFails, TypeOK, inventory
  <1>2. CASE StatusRequestFails(i)
    BY <1>2, DoneTypes, FaultTypes DEF StatusRequestFails, TypeOK
  <1>3. CASE ClaimConflict(i)
    <2>1. faults' \in 0 .. MaxFaults
      BY <1>3, FaultTypes DEF ClaimConflict, TypeOK
    <2> QED
      BY <1>3, <2>1, AbortTypes DEF ClaimConflict, TypeOK, inventory
  <1>4. CASE ClaimReplyLost(i)
    BY <1>4, AbortTypes, FaultTypes, LabelsAssumption DEF ClaimReplyLost, Claimed, TypeOK
  <1>5. CASE ReleaseReplyLost(i)
    BY <1>5, AbortTypes, FaultTypes DEF ReleaseReplyLost, Released, TypeOK
  <1>6. CASE Reconnect(i)
    <2>1. /\ owner' \in [Hosts -> Instances \union {NoInstance}]
          /\ bare' \subseteq Hosts
          /\ labels' \in [Hosts -> SUBSET Labels]
      <3>1. CASE UNCHANGED inventory
        BY <3>1 DEF inventory, TypeOK
      <3>2. CASE Claimed(i) /\ UNCHANGED bare
        BY <3>2, LabelsAssumption DEF Claimed, TypeOK
      <3>3. CASE Released(i)
        BY <3>3 DEF Released, TypeOK
      <3> QED
        BY <1>6, <3>1, <3>2, <3>3 DEF Reconnect
    <2>2. pc' \in [Instances -> ProgramPoints]
      BY <1>6 DEF Reconnect, TypeOK, ProgramPoints, RemoteCalls, ClaimSteps, ReleaseSteps
    <2> QED
      BY <1>6, <2>1, <2>2, FaultTypes DEF Reconnect, TypeOK
  <1> QED
    BY <1>1, <1>2, <1>3, <1>4, <1>5, <1>6 DEF Fault

LEMMA RestartTypes ==
    ASSUME TypeOK, UNCHANGED lag, Restart
    PROVE  TypeOK'
  <1>1. \A j \in Instances : <<Stored(j)>> \in Seq(Objects) \ {<<>>}
    BY VersionTypes
  <1>2. faults' \in 0 .. MaxFaults
    BY FaultTypes DEF Restart
  <1> QED
    BY <1>1, <1>2, NoObjectType, StatusConstants
    DEF Restart, TypeOK, inventory, ProgramPoints
-------------------------------------------------------------------------------
(***************************************************************************)
(* The lock discipline: a worker inside its critical section has a host,   *)
(* that host is locked, and nobody else's critical section has it.         *)
(***************************************************************************)
LockedIsHeld == \A i \in Instances : Locked(i) => obj[i].host \in hostLocks

LockInv == WorkerHasHost /\ LockedIsHeld /\ LockExclusion /\ NoLockLeak

LockSteps == ClaimSteps \union ReleaseSteps \union {"setClass", "clearHost"}

(* A step that touches neither workers nor locks. *)
LEMMA LockFrame ==
    ASSUME LockInv, UNCHANGED <<pc, obj, hostLocks>>
    PROVE  LockInv'
  BY DEF LockInv, WorkerHasHost, LockedIsHeld, LockExclusion, NoLockLeak, Locked

(* A worker that ends up outside its critical section, having run the       *)
(* deferred Unlock if it was inside.                                        *)
LEMMA LockLeave ==
    ASSUME TypeOK, LockInv, NEW i \in Instances,
           pc'[i] \in ProgramPoints, pc'[i] \notin LockSteps,
           pc'[i] = "dropInventory" => obj'[i].host = NoHost,
           pc'[i] \in HostSteps => obj'[i].host \in Hosts,
           \A j \in Instances \ {i} : pc'[j] = pc[j] /\ obj'[j] = obj[j],
           hostLocks' = AfterUnlock(i)
    PROVE  LockInv'
  <1>1. ~Locked(i)'
    BY DEF Locked, LockSteps
  <1>2. \A j \in Instances \ {i} : Locked(j)' = Locked(j)
    BY DEF Locked
  <1>3. WorkerHasHost'
    BY DEF WorkerHasHost, LockInv
  <1>4. LockExclusion'
    BY <1>1, <1>2 DEF LockExclusion, LockInv
  <1>5. LockedIsHeld'
    BY <1>1, <1>2 DEF LockedIsHeld, LockExclusion, LockInv, AfterUnlock
  <1>6. NoLockLeak'
    BY <1>2 DEF NoLockLeak, LockInv, AfterUnlock
  <1> QED
    BY <1>3, <1>4, <1>5, <1>6 DEF LockInv

(* A worker that goes on inside its critical section. *)
LEMMA LockStay ==
    ASSUME LockInv, NEW i \in Instances, Locked(i), Locked(i)',
           obj'[i].host = obj[i].host, obj[i].host \in Hosts,
           \A j \in Instances \ {i} : pc'[j] = pc[j] /\ obj'[j] = obj[j],
           hostLocks' = hostLocks
    PROVE  LockInv'
  <1>1. \A j \in Instances : Locked(j)' = Locked(j) /\ obj'[j].host = obj[j].host
    BY DEF Locked
  <1>2. WorkerHasHost'
    BY <1>1 DEF WorkerHasHost, LockInv
  <1>3. LockExclusion' /\ LockedIsHeld' /\ NoLockLeak'
    BY <1>1 DEF LockExclusion, LockedIsHeld, NoLockLeak, LockInv
  <1> QED
    BY <1>2, <1>3 DEF LockInv

(* TryLock. *)
LEMMA LockEnter ==
    ASSUME TypeOK, LockInv, NEW i \in Instances, TryLock(i)
    PROVE  LockInv'
  <1>1. /\ ~Locked(i) /\ Locked(i)' /\ obj' = obj /\ obj[i].host \in Hosts
        /\ obj[i].host \notin hostLocks /\ hostLocks' = hostLocks \union {obj[i].host}
    BY DEF TryLock, Locked, TypeOK, LockInv, WorkerHasHost, HostSteps, ClaimSteps, ReleaseSteps
  <1>2. \A j \in Instances \ {i} : Locked(j)' = Locked(j) /\ pc'[j] = pc[j]
    BY <1>1 DEF TryLock, Locked, TypeOK
  <1>3. WorkerHasHost'
    BY <1>1, <1>2 DEF WorkerHasHost, LockInv
  <1>4. LockExclusion'
    BY <1>1, <1>2 DEF LockExclusion, LockedIsHeld, LockInv
  <1>5. LockedIsHeld'
    BY <1>1, <1>2 DEF LockedIsHeld, LockInv
  <1>6. NoLockLeak'
    BY <1>1, <1>2 DEF NoLockLeak, LockInv
  <1> QED
    BY <1>3, <1>4, <1>5, <1>6 DEF LockInv

(* The beginning and the ends of a reconcile. *)
LEMMA LockBegin ==
    ASSUME TypeOK, LockInv, NEW i \in Instances, NEW status, NEW next,
           Dequeue(i), Begin(i, status, next),
           next \in ProgramPoints, next \notin LockSteps,
           next = "dropInventory" => Cached(i).host = NoHost,
           next \in HostSteps => Cached(i).host \in Hosts
    PROVE  LockInv'
  <1>1. obj'[i].host = Cached(i).host
    <2>1. Cached(i) \in Objects
      BY VersionTypes
    <2>2. [Cached(i) EXCEPT !.status = status].host = Cached(i).host
      BY <2>1 DEF Objects
    <2> QED
      BY <2>2 DEF Begin, TypeOK
  <1>2. pc'[i] = next /\ hostLocks' = AfterUnlock(i)
    BY DEF Begin, Dequeue, TypeOK, AfterUnlock, Locked, ClaimSteps, ReleaseSteps
  <1>3. \A j \in Instances \ {i} : pc'[j] = pc[j] /\ obj'[j] = obj[j]
    BY DEF Begin, TypeOK
  <1> QED
    BY <1>1, <1>2, <1>3, LockLeave

LEMMA LockReturn ==
    ASSUME TypeOK, LockInv, NEW i \in Instances, NEW status, NEW again,
           Return(i, status, again), hostLocks' = AfterUnlock(i)
    PROVE  LockInv'
  <1>1. pc'[i] = "status" /\ \A j \in Instances \ {i} : pc'[j] = pc[j] /\ obj'[j] = obj[j]
    BY DEF Return, TypeOK
  <1>2. /\ "status" \in ProgramPoints
        /\ "status" \notin LockSteps
        /\ "status" \notin HostSteps
    BY DEF ProgramPoints, LockSteps, HostSteps, ClaimSteps, ReleaseSteps
  <1> QED
    BY <1>1, <1>2, LockLeave

LEMMA LockReturnOutside ==
    ASSUME TypeOK, LockInv, NEW i \in Instances, NEW status, NEW again,
           Return(i, status, again), UNCHANGED hostLocks, ~Locked(i)
    PROVE  LockInv'
  BY LockReturn DEF AfterUnlock

LEMMA LockDone ==
    ASSUME TypeOK, LockInv, NEW i \in Instances, NEW again,
           pc[i] = "status", Done(i, again)
    PROVE  LockInv'
  <1>1. pc'[i] = "idle" /\ \A j \in Instances \ {i} : pc'[j] = pc[j] /\ obj'[j] = obj[j]
    BY DEF Done, TypeOK
  <1>2. "idle" \in ProgramPoints /\ "idle" \notin LockSteps /\ "idle" \notin HostSteps
    BY DEF ProgramPoints, LockSteps, HostSteps, ClaimSteps, ReleaseSteps
  <1>3. hostLocks' = AfterUnlock(i)
    BY DEF Done, AfterUnlock, Locked, ClaimSteps, ReleaseSteps
  <1> QED
    BY <1>1, <1>2, <1>3, LockLeave

LEMMA LockAbort ==
    ASSUME TypeOK, LockInv, NEW i \in Instances, Abort(i)
    PROVE  LockInv'
  BY LockReturn DEF Abort

(* A step within the critical section that moves only the program point. *)
LEMMA LockGoOn ==
    ASSUME TypeOK, LockInv, NEW i \in Instances, NEW next,
           pc[i] \in ClaimSteps \union ReleaseSteps,
           next \in LockSteps \union {"dropInventory"},
           pc' = [pc EXCEPT ![i] = next], obj' = obj, hostLocks' = hostLocks
    PROVE  LockInv'
  <1>1. obj[i].host \in Hosts
    BY DEF LockInv, WorkerHasHost, HostSteps
  <1>2. Locked(i) /\ Locked(i)'
    BY <1>1, NoHostAssumption DEF Locked, TypeOK, LockSteps
  <1>3. \A j \in Instances \ {i} : pc'[j] = pc[j] /\ obj'[j] = obj[j]
    BY DEF TypeOK
  <1> QED
    BY <1>1, <1>2, <1>3, LockStay

LEMMA LockStart ==
    ASSUME TypeOK, LockInv, NEW i \in Instances, Start(i)
    PROVE  LockInv'
  <1> USE DEF ProgramPoints, RemoteCalls, SpecUpdates, LockSteps, HostSteps,
              ClaimSteps, ReleaseSteps
  <1>0. Cached(i).host \in Hosts \union {NoHost}
    BY VersionTypes, ObjectParts
  <1>1. CASE ReconcileMissing(i)
    BY <1>1, LockFrame DEF ReconcileMissing, Dequeue, worker
  <1>2. CASE ReconcileInventory(i)
    BY <1>0, <1>2, LockBegin DEF ReconcileInventory
  <1>3. CASE ReconcileManagement(i)
    BY <1>0, <1>3, LockBegin DEF ReconcileManagement
  <1>4. CASE HandleDeletion(i)
    BY <1>0, <1>4, LockBegin DEF HandleDeletion, InventoryCleanup
  <1> QED
    BY <1>1, <1>2, <1>3, <1>4 DEF Start

LEMMA LockStep ==
    ASSUME TypeOK, LockInv, NEW i \in Instances, Step(i)
    PROVE  LockInv'
  <1>1. CASE EndReconcile(i) \/ UpdateStatus(i) \/ StatusConflict(i)
    BY <1>1, LockDone DEF EndReconcile, UpdateStatus, StatusConflict
  <1>2. CASE UpdateRejected(i)
    BY <1>2, LockAbort DEF UpdateRejected
  <1>3. CASE AddInventoryFinalizer(i)
    BY <1>3, LockReturnOutside
       DEF AddInventoryFinalizer, Update, Locked, ClaimSteps, ReleaseSteps
  <1>4. CASE FindFreeHost(i)
    <2>1. PICK h \in Hosts : obj' = [obj EXCEPT ![i].host = h]
      BY <1>4, MatchingAssumption DEF FindFreeHost
    <2>2. obj[i] \in Objects /\ pc'[i] = "select"
      BY <1>4 DEF FindFreeHost, TypeOK
    <2>3. obj'[i].host \in Hosts
      BY <2>1, <2>2 DEF TypeOK, Objects
    <2>4. \A j \in Instances \ {i} : pc'[j] = pc[j] /\ obj'[j] = obj[j]
      BY <1>4, <2>1 DEF FindFreeHost, TypeOK
    <2>5. hostLocks' = AfterUnlock(i)
      BY <1>4 DEF FindFreeHost, AfterUnlock, Locked, ClaimSteps, ReleaseSteps
    <2> QED
      BY <2>2, <2>3, <2>4, <2>5, LockLeave
      DEF ProgramPoints, RemoteCalls, SpecUpdates, LockSteps, ClaimSteps, ReleaseSteps
  <1>5. CASE NoFreeHost(i)
    BY <1>5, LockReturnOutside DEF NoFreeHost, Locked, ClaimSteps, ReleaseSteps
  <1>6. CASE SelectHost(i)
    BY <1>6, LockReturnOutside DEF SelectHost, Update, Locked, ClaimSteps, ReleaseSteps
  <1>7. CASE TryLock(i)
    BY <1>7, LockEnter
  <1>8. CASE TryLockFails(i)
    BY <1>8, LockReturnOutside DEF TryLockFails, Locked, ClaimSteps, ReleaseSteps
  <1>9. CASE GetForClaim(i)
    BY <1>9, LockGoOn DEF GetForClaim, LockSteps, ClaimSteps
  <1>10. CASE InitLabels(i)
    BY <1>10, LockGoOn DEF InitLabels, LockSteps, ClaimSteps
  <1>11. CASE Claim(i)
    BY <1>11, LockGoOn DEF Claim, LockSteps, ClaimSteps
  <1>12. CASE SetHostClass(i) \/ ClearHost(i)
    BY <1>12, LockReturn DEF SetHostClass, ClearHost
  <1>13. CASE AddManagementFinalizer(i)
    BY <1>13, LockReturnOutside
       DEF AddManagementFinalizer, Update, Locked, ClaimSteps, ReleaseSteps
  <1>14. CASE ManageHost(i) \/ DeprovisionPending(i)
    BY <1>14, LockReturnOutside
       DEF ManageHost, DeprovisionPending, Locked, ClaimSteps, ReleaseSteps
  <1>15. CASE DeprovisionDone(i)
    <2>1. /\ pc'[i] = "dropManagement" /\ obj' = obj
          /\ \A j \in Instances \ {i} : pc'[j] = pc[j]
          /\ hostLocks' = AfterUnlock(i)
      BY <1>15 DEF DeprovisionDone, TypeOK, AfterUnlock, Locked, ClaimSteps, ReleaseSteps
    <2> QED
      BY <2>1, LockLeave
      DEF ProgramPoints, RemoteCalls, SpecUpdates, LockSteps, HostSteps, ClaimSteps, ReleaseSteps
  <1>16. CASE DropManagementFinalizer(i)
    <2> DEFINE o == [obj[i] EXCEPT !.finalizers = @ \ {"management"}]
               p == [o EXCEPT !.status = StatusAfterUpdate(i)]
    <2>1. obj[i] \in Objects
      BY DEF TypeOK
    <2>2. o.host = obj[i].host /\ p.host = obj[i].host /\ o.host \in Hosts \union {NoHost}
      BY <2>1 DEF Objects
    <2>3. obj' = [obj EXCEPT ![i] = p] /\ pc' = [pc EXCEPT ![i] = InventoryCleanup(o)]
      BY <1>16 DEF DropManagementFinalizer
    <2> HIDE DEF o, p
    <2>4. hostLocks' = AfterUnlock(i)
      BY <1>16 DEF DropManagementFinalizer, Update, AfterUnlock, Locked, ClaimSteps, ReleaseSteps
    <2>5. /\ pc'[i] = InventoryCleanup(o) /\ obj'[i].host = o.host
          /\ \A j \in Instances \ {i} : pc'[j] = pc[j] /\ obj'[j] = obj[j]
      BY <2>2, <2>3 DEF TypeOK
    <2>6. /\ pc'[i] \in ProgramPoints /\ pc'[i] \notin LockSteps
          /\ pc'[i] = "dropInventory" => obj'[i].host = NoHost
          /\ pc'[i] \in HostSteps => obj'[i].host \in Hosts
      BY <2>2, <2>5 DEF InventoryCleanup, ProgramPoints, RemoteCalls, SpecUpdates,
                        LockSteps, HostSteps, ClaimSteps, ReleaseSteps
    <2> QED
      BY <2>4, <2>5, <2>6, LockLeave
  <1>17. CASE GetForRelease(i)
    BY <1>17, LockGoOn DEF GetForRelease, LockSteps, ReleaseSteps
  <1>18. CASE Release(i)
    BY <1>18, LockGoOn DEF Release, Released, LockSteps, ReleaseSteps
  <1>19. CASE DropInventoryFinalizer(i)
    BY <1>19, LockReturn DEF DropInventoryFinalizer
  <1> QED
    BY <1>1, <1>2, <1>3, <1>4, <1>5, <1>6, <1>7, <1>8, <1>9, <1>10, <1>11, <1>12,
       <1>13, <1>14, <1>15, <1>16, <1>17, <1>18, <1>19
       DEF Step

LEMMA LockFault ==
    ASSUME TypeOK, LockInv, NEW i \in Instances, Fault(i)
    PROVE  LockInv'
  <1>1. CASE Reconnect(i)
    <2>1. PICK next \in LockSteps : pc' = [pc EXCEPT ![i] = next]
      BY <1>1 DEF Reconnect, LockSteps, ClaimSteps, ReleaseSteps
    <2> QED
      BY <1>1, <2>1, LockGoOn DEF Reconnect
  <1>2. CASE ~Reconnect(i)
    BY <1>2, LockAbort, LockDone
       DEF Fault, RequestFails, StatusRequestFails, ClaimConflict, ClaimReplyLost,
           ReleaseReplyLost
  <1> QED
    BY <1>1, <1>2

LEMMA LockRestart ==
    ASSUME Restart
    PROVE  LockInv'
  BY DEF Restart, LockInv, WorkerHasHost, LockedIsHeld, LockExclusion, NoLockLeak,
         Locked, HostSteps, ClaimSteps, ReleaseSteps
-------------------------------------------------------------------------------
(***************************************************************************)
(* What a worker read of its host stays true until it writes: only the     *)
(* holder of a host's lock writes that host.                               *)
(***************************************************************************)
BareIsFree == \A h \in bare : owner[h] = NoInstance

ClaimIsLabelled == \A i \in Instances : pc[i] = "claim" => obj[i].host \notin bare

ClaimInv == ClaimStillFree /\ BareIsFree /\ ClaimIsLabelled

IInv == TypeOK /\ LockInv /\ ClaimInv

(* A step that leaves the inventory alone and takes nobody into a claim. *)
LEMMA ClaimFrame ==
    ASSUME ClaimInv, UNCHANGED inventory,
           \A j \in Instances :
              \/ pc'[j] = pc[j] /\ obj'[j] = obj[j]
              \/ pc'[j] \notin {"initLabels", "claim"}
    PROVE  ClaimInv'
  BY DEF ClaimInv, ClaimStillFree, BareIsFree, ClaimIsLabelled, inventory

(* A write to the host of a worker that holds its lock, which leaves the host *)
(* claimed by that worker's instance or by nobody.                            *)
LEMMA ClaimWrite ==
    ASSUME TypeOK, LockInv, ClaimInv, NEW i \in Instances, Locked(i),
           NEW w \in {NoInstance, i},
           owner' = [owner EXCEPT ![obj[i].host] = w],
           bare' \subseteq bare,
           w = i => obj[i].host \notin bare',
           pc'[i] = "claim" => obj'[i].host = obj[i].host /\ obj[i].host \notin bare',
           pc'[i] # "initLabels",
           \A j \in Instances \ {i} : pc'[j] = pc[j] /\ obj'[j] = obj[j]
    PROVE  ClaimInv'
  <1>1. \A h \in Hosts : h # obj[i].host => owner'[h] = owner[h]
    BY DEF TypeOK
  <1>2. obj[i].host \in Hosts => owner'[obj[i].host] = w
    BY DEF TypeOK
  <1>3. \A j \in Instances \ {i} : pc[j] \in {"initLabels", "claim"} =>
           obj[j].host \in Hosts /\ obj[j].host # obj[i].host
    BY DEF LockInv, LockExclusion, WorkerHasHost, HostSteps, Locked, ClaimSteps
  <1>4. ClaimStillFree'
    <2> SUFFICES ASSUME NEW j \in Instances
                 PROVE  /\ pc'[j] = "initLabels" => owner'[obj'[j].host] = NoInstance
                        /\ pc'[j] = "claim" => owner'[obj'[j].host] \in {NoInstance, j}
      BY DEF ClaimStillFree
    <2>1. CASE j = i
      <3>1. obj[i].host \in Hosts \union {NoHost}
        BY ObjectParts DEF TypeOK
      <3>2. obj[i].host \in Hosts
        BY DEF LockInv, WorkerHasHost, LockedIsHeld, TypeOK
      <3> QED
        BY <1>2, <2>1, <3>2
    <2>2. CASE j # i
      BY <1>1, <1>3, <2>2 DEF ClaimInv, ClaimStillFree
    <2> QED
      BY <2>1, <2>2
  <1>5. BareIsFree'
    <2> SUFFICES ASSUME NEW h \in bare' PROVE owner'[h] = NoInstance
      BY DEF BareIsFree
    <2>1. h \in bare /\ h \in Hosts /\ owner[h] = NoInstance
      BY DEF TypeOK, ClaimInv, BareIsFree
    <2> QED
      BY <1>1, <1>2, <2>1
  <1>6. ClaimIsLabelled'
    BY DEF ClaimIsLabelled, ClaimInv
  <1> QED
    BY <1>4, <1>5, <1>6 DEF ClaimInv

LEMMA ClaimStart ==
    ASSUME TypeOK, ClaimInv, NEW i \in Instances, Start(i)
    PROVE  ClaimInv'
  <1>1. UNCHANGED inventory
    BY DEF Start, ReconcileMissing, ReconcileInventory, ReconcileManagement,
           HandleDeletion, Dequeue
  <1>2. CASE ReconcileMissing(i)
    BY <1>1, <1>2, ClaimFrame DEF ReconcileMissing, worker
  <1>3. CASE ~ReconcileMissing(i)
    <2>1. /\ pc'[i] \notin {"initLabels", "claim"}
          /\ \A j \in Instances \ {i} : pc'[j] = pc[j] /\ obj'[j] = obj[j]
      BY <1>3 DEF Start, ReconcileInventory, ReconcileManagement, HandleDeletion,
                  Begin, InventoryCleanup, TypeOK
    <2> QED
      BY <1>1, <2>1, ClaimFrame
  <1> QED
    BY <1>2, <1>3

(* The worker stops: it returns, or its reconcile is over. *)
LEMMA ClaimReturn ==
    ASSUME TypeOK, ClaimInv, NEW i \in Instances, NEW status, NEW again,
           Return(i, status, again) \/ Done(i, again), UNCHANGED inventory
    PROVE  ClaimInv'
  <1>1. /\ pc'[i] \notin {"initLabels", "claim"}
        /\ \A j \in Instances \ {i} : pc'[j] = pc[j] /\ obj'[j] = obj[j]
    BY DEF Return, Done, TypeOK
  <1> QED
    BY <1>1, ClaimFrame

(* The worker moves on, to a step that is not a write of a claim. *)
LEMMA ClaimMove ==
    ASSUME TypeOK, ClaimInv, NEW i \in Instances, NEW next, NEW o,
           next \notin {"initLabels", "claim"},
           pc' = [pc EXCEPT ![i] = next], obj' = [obj EXCEPT ![i] = o],
           UNCHANGED inventory
    PROVE  ClaimInv'
  <1>1. /\ pc'[i] \notin {"initLabels", "claim"}
        /\ \A j \in Instances \ {i} : pc'[j] = pc[j] /\ obj'[j] = obj[j]
    BY DEF TypeOK
  <1> QED
    BY <1>1, ClaimFrame

LEMMA ClaimStep ==
    ASSUME TypeOK, LockInv, ClaimInv, NEW i \in Instances, Step(i)
    PROVE  ClaimInv'
  <1>0. obj = [obj EXCEPT ![i] = obj[i]]
    BY DEF TypeOK
  <1>1. CASE EndReconcile(i) \/ UpdateStatus(i) \/ StatusConflict(i)
    <2>1. UNCHANGED inventory
      BY <1>1 DEF EndReconcile, UpdateStatus, StatusConflict, Done
    <2> QED
      BY <1>1, <2>1, ClaimReturn DEF EndReconcile, UpdateStatus, StatusConflict
  <1>2. CASE UpdateRejected(i)
    BY <1>2, ClaimReturn DEF UpdateRejected, Abort
  <1>3. CASE AddInventoryFinalizer(i) \/ SelectHost(i) \/ SetHostClass(i) \/ ClearHost(i)
             \/ AddManagementFinalizer(i) \/ DropInventoryFinalizer(i)
    <2>1. UNCHANGED inventory
      BY <1>3 DEF AddInventoryFinalizer, SelectHost, SetHostClass, ClearHost,
                  AddManagementFinalizer, DropInventoryFinalizer, Update
    <2> QED
      BY <1>3, <2>1, ClaimReturn
         DEF AddInventoryFinalizer, SelectHost, SetHostClass, ClearHost,
             AddManagementFinalizer, DropInventoryFinalizer
  <1>4. CASE NoFreeHost(i) \/ TryLockFails(i) \/ ManageHost(i) \/ DeprovisionPending(i)
    BY <1>4, ClaimReturn DEF NoFreeHost, TryLockFails, ManageHost, DeprovisionPending
  <1>5. CASE FindFreeHost(i)
    <2>1. PICK h \in Hosts : obj' = [obj EXCEPT ![i] = [obj[i] EXCEPT !.host = h]]
      BY <1>5, MatchingAssumption DEF FindFreeHost
    <2> QED
      BY <1>5, <2>1, ClaimMove DEF FindFreeHost
  <1>6. CASE TryLock(i)
    <2>1. pc' = [pc EXCEPT ![i] = IF pc[i] = "lockForClaim" THEN "getForClaim" ELSE "getForRelease"]
      BY <1>6 DEF TryLock
    <2> QED
      BY <1>0, <1>6, <2>1, ClaimMove DEF TryLock
  <1>7. CASE GetForClaim(i)
    <2>1. /\ UNCHANGED inventory /\ obj' = obj
          /\ \A j \in Instances \ {i} : pc'[j] = pc[j]
          /\ pc'[i] = IF owner[obj[i].host] \notin {NoInstance, i} THEN "clearHost"
                      ELSE IF obj[i].host \in bare THEN "initLabels" ELSE "claim"
      BY <1>7 DEF GetForClaim, TypeOK
    <2>2. ClaimStillFree'
      BY <2>1 DEF ClaimStillFree, ClaimInv, BareIsFree, inventory
    <2> QED
      BY <2>1, <2>2 DEF ClaimInv, BareIsFree, ClaimIsLabelled, inventory
  <1>8. CASE InitLabels(i)
    <2>1. Locked(i) /\ pc'[i] = "claim" /\ obj' = obj
          /\ \A j \in Instances \ {i} : pc'[j] = pc[j]
      BY <1>8 DEF InitLabels, Locked, ClaimSteps, TypeOK
    <2>2. owner' = [owner EXCEPT ![obj[i].host] = NoInstance] /\ bare' = bare \ {obj[i].host}
      BY <1>8 DEF InitLabels
    <2> QED
      BY <2>1, <2>2, ClaimWrite
  <1>9. CASE Claim(i)
    <2>1. Locked(i) /\ pc'[i] = "setClass" /\ obj' = obj
          /\ \A j \in Instances \ {i} : pc'[j] = pc[j]
      BY <1>9 DEF Claim, Locked, ClaimSteps, TypeOK
    <2>2. owner' = [owner EXCEPT ![obj[i].host] = i] /\ bare' = bare /\ obj[i].host \notin bare
      BY <1>9 DEF Claim, Claimed, ClaimInv, ClaimIsLabelled
    <2> QED
      BY <2>1, <2>2, ClaimWrite
  <1>10. CASE DeprovisionDone(i)
    BY <1>0, <1>10, ClaimMove DEF DeprovisionDone
  <1>11. CASE DropManagementFinalizer(i)
    <2>1. UNCHANGED inventory
      BY <1>11 DEF DropManagementFinalizer, Update
    <2> QED
      BY <1>11, <2>1, ClaimMove DEF DropManagementFinalizer, InventoryCleanup
  <1>12. CASE GetForRelease(i)
    BY <1>0, <1>12, ClaimMove DEF GetForRelease
  <1>13. CASE Release(i)
    <2>1. Locked(i) /\ pc'[i] = "dropInventory" /\ obj' = obj
          /\ \A j \in Instances \ {i} : pc'[j] = pc[j]
      BY <1>13 DEF Release, Released, Locked, ReleaseSteps, TypeOK
    <2>2. owner' = [owner EXCEPT ![obj[i].host] = NoInstance] /\ bare' = bare
      BY <1>13 DEF Release, Released
    <2> QED
      BY <2>1, <2>2, NoInstanceAssumption, ClaimWrite
  <1> QED
    BY <1>1, <1>2, <1>3, <1>4, <1>5, <1>6, <1>7, <1>8, <1>9, <1>10, <1>11, <1>12, <1>13
       DEF Step

LEMMA ClaimFault ==
    ASSUME TypeOK, LockInv, ClaimInv, NEW i \in Instances, Fault(i)
    PROVE  ClaimInv'
  <1>1. CASE RequestFails(i) \/ ClaimConflict(i)
    BY <1>1, ClaimReturn DEF RequestFails, ClaimConflict, Abort
  <1>2. CASE StatusRequestFails(i)
    <2>1. UNCHANGED inventory
      BY <1>2 DEF StatusRequestFails, Done
    <2> QED
      BY <1>2, <2>1, ClaimReturn DEF StatusRequestFails
  <1>3. CASE ClaimReplyLost(i)
    <2>1. Locked(i) /\ pc'[i] = "status"
          /\ \A j \in Instances \ {i} : pc'[j] = pc[j] /\ obj'[j] = obj[j]
      BY <1>3 DEF ClaimReplyLost, Abort, Return, Locked, ClaimSteps, TypeOK
    <2>2. owner' = [owner EXCEPT ![obj[i].host] = i] /\ bare' = bare /\ obj[i].host \notin bare
      BY <1>3 DEF ClaimReplyLost, Claimed, ClaimInv, ClaimIsLabelled
    <2> QED
      BY <2>1, <2>2, ClaimWrite
  <1>4. CASE ReleaseReplyLost(i)
    <2>1. Locked(i) /\ pc'[i] = "status"
          /\ \A j \in Instances \ {i} : pc'[j] = pc[j] /\ obj'[j] = obj[j]
      BY <1>4 DEF ReleaseReplyLost, Released, Abort, Return, Locked, ReleaseSteps, TypeOK
    <2>2. owner' = [owner EXCEPT ![obj[i].host] = NoInstance] /\ bare' = bare
      BY <1>4 DEF ReleaseReplyLost, Released
    <2> QED
      BY <2>1, <2>2, NoInstanceAssumption, ClaimWrite
  <1>5. CASE Reconnect(i)
    <2>1. /\ Locked(i) /\ pc'[i] \in {"getForClaim", "getForRelease"}
          /\ \A j \in Instances \ {i} : pc'[j] = pc[j] /\ obj'[j] = obj[j]
      BY <1>5 DEF Reconnect, Locked, TypeOK
    <2>2. CASE UNCHANGED inventory
      BY <2>1, <2>2, ClaimFrame
    <2>3. CASE pc[i] = "claim" /\ Claimed(i) /\ UNCHANGED bare
      <3>1. owner' = [owner EXCEPT ![obj[i].host] = i] /\ bare' = bare /\ obj[i].host \notin bare
        BY <2>3 DEF Claimed, ClaimInv, ClaimIsLabelled
      <3> QED
        BY <2>1, <3>1, ClaimWrite
    <2>4. CASE Released(i)
      <3>1. owner' = [owner EXCEPT ![obj[i].host] = NoInstance] /\ bare' = bare
        BY <2>4 DEF Released
      <3> QED
        BY <2>1, <3>1, NoInstanceAssumption, ClaimWrite
    <2> QED
      BY <1>5, <2>2, <2>3, <2>4 DEF Reconnect
  <1> QED
    BY <1>1, <1>2, <1>3, <1>4, <1>5 DEF Fault

LEMMA ClaimRestart ==
    ASSUME ClaimInv, Restart
    PROVE  ClaimInv'
  BY ClaimFrame DEF Restart
-------------------------------------------------------------------------------
(***************************************************************************)
(* The inductive invariant: types, locks and claims together.              *)
(***************************************************************************)

LEMMA InitInv ==
    ASSUME Init
    PROVE  IInv
  <1>1. TypeOK
    <2>1. <<NoObject>> \in Seq(Objects) \ {<<>>}
      BY NoObjectType
    <2>2. 0 \in 0 .. MaxFaults /\ lag \in 0 .. MaxLag
      BY BoundsAssumption DEF Init
    <2>3. versions \in [Instances -> Seq(Objects) \ {<<>>}]
      BY <2>1 DEF Init
    <2>4. bare \subseteq Hosts
      BY DEF Init
    <2> QED
      BY <2>2, <2>3, <2>4, NoObjectType, StatusConstants DEF Init, TypeOK, ProgramPoints
  <1>2. LockInv
    BY DEF Init, LockInv, WorkerHasHost, LockedIsHeld, LockExclusion, NoLockLeak,
           Locked, HostSteps, ClaimSteps, ReleaseSteps
  <1>3. ClaimInv
    <2>1. \A i \in Instances : pc[i] = "idle"
      BY DEF Init
    <2>2. \A h \in Hosts : owner[h] = NoInstance
      BY DEF Init
    <2> QED
      BY <1>1, <2>1, <2>2 DEF ClaimInv, ClaimStillFree, BareIsFree, ClaimIsLabelled, TypeOK
  <1> QED
    BY <1>1, <1>2, <1>3 DEF IInv

LEMMA EnvironmentInv ==
    ASSUME IInv, UNCHANGED lag, NEW i \in Instances, Environment(i) \/ Informer(i)
    PROVE  IInv'
  <1>1. UNCHANGED <<pc, obj, hostLocks, inventory>>
    BY DEF Environment, Informer, Create, Delete, EditByOther, DeliverEvent, FireTimer, worker
  <1>2. TypeOK'
    BY EnvironmentTypes DEF IInv
  <1>3. LockInv' /\ ClaimInv'
    BY <1>1, LockFrame, ClaimFrame DEF IInv
  <1> QED
    BY <1>2, <1>3 DEF IInv

(* Every step, or no step, keeps the invariant. *)
LEMMA InductiveInv ==
    ASSUME IInv, [Next]_vars
    PROVE  IInv'
  <1> USE DEF IInv
  <1>0. UNCHANGED lag
    BY DEF Next, vars
  <1>1. CASE Restart
    BY <1>0, <1>1, RestartTypes, LockRestart, ClaimRestart
  <1>2. ASSUME NEW i \in Instances, Environment(i) \/ Informer(i)
        PROVE  IInv'
    BY <1>0, <1>2, EnvironmentInv
  <1>3. ASSUME NEW i \in Instances, Start(i)
        PROVE  IInv'
    BY <1>0, <1>3, StartTypes, LockStart, ClaimStart
  <1>4. ASSUME NEW i \in Instances, Step(i)
        PROVE  IInv'
    BY <1>0, <1>4, StepTypes, LockStep, ClaimStep DEF LockInv
  <1>5. ASSUME NEW i \in Instances, Fault(i)
        PROVE  IInv'
    BY <1>0, <1>5, FaultStepTypes, LockFault, ClaimFault
  <1>6. CASE UNCHANGED vars
    <2>1. UNCHANGED <<pc, obj, hostLocks, inventory>>
      BY <1>6 DEF vars, inventory
    <2>2. TypeOK'
      BY <1>6 DEF vars, TypeOK
    <2> QED
      BY <2>1, <2>2, LockFrame, ClaimFrame
  <1> HIDE DEF IInv
  <1> QED
    BY <1>1, <1>2, <1>3, <1>4, <1>5, <1>6 DEF Next

(* The invariant holds in every reachable state of the operator. *)
THEOREM Invariant == Spec => []IInv
  <1>1. Init => IInv
    BY InitInv
  <1>2. IInv /\ [Next]_vars => IInv'
    BY InductiveInv
  <1> QED
    BY <1>1, <1>2, PTL DEF Spec

(* Every variable keeps its type; the budget of faults is not exceeded. *)
THEOREM TypeCorrect == Spec => []TypeOK
  <1>1. IInv => TypeOK
    BY DEF IInv
  <1> QED
    BY <1>1, Invariant, PTL

(* lock.go: two workers are never between TryLock and Unlock of one host. *)
THEOREM LockExclusionHolds == Spec => []LockExclusion
  <1>1. IInv => LockExclusion
    BY DEF IInv, LockInv
  <1> QED
    BY <1>1, Invariant, PTL

(* Every early return after TryLock, and every error, unlocks the host again. *)
THEOREM NoLockLeakHolds == Spec => []NoLockLeak
  <1>1. IInv => NoLockLeak
    BY DEF IInv, LockInv
  <1> QED
    BY <1>1, Invariant, PTL

(* What AssignHost read of the host still holds when it patches it. *)
THEOREM ClaimStillFreeHolds == Spec => []ClaimStillFree
  <1>1. IInv => ClaimStillFree
    BY DEF IInv, ClaimInv
  <1> QED
    BY <1>1, Invariant, PTL
-------------------------------------------------------------------------------
(***************************************************************************)
(* HostAllocation implements HostClaims.  A write of a claim finds the     *)
(* host free, or already the instance's own, and a write that empties the  *)
(* labels finds it free: both are a claim or change nothing.               *)
(***************************************************************************)

(* What one write to a locked host is in HostClaims. *)
LEMMA WriteIsClaim ==
    ASSUME TypeOK, NEW i \in Instances, NEW h \in Hosts, NEW w \in {NoInstance, i},
           owner' = [owner EXCEPT ![h] = w],
           w = i => owner[h] \in {NoInstance, i}
    PROVE  [Claims!Next]_owner
  <1>1. owner \in [Hosts -> Instances \union {NoInstance}]
    BY DEF TypeOK
  <1>2. CASE owner[h] = w
    <2>1. owner' = owner
      BY <1>1, <1>2
    <2> QED
      BY <2>1
  <1>3. CASE w = NoInstance /\ owner[h] # NoInstance
    <2>1. Claims!Release(h)
      BY <1>3 DEF Claims!Release
    <2> QED
      BY <2>1 DEF Claims!Next
  <1>4. CASE w = i /\ owner[h] = NoInstance
    <2>1. Claims!Claim(i, h)
      BY <1>4 DEF Claims!Claim
    <2> QED
      BY <2>1 DEF Claims!Next
  <1> QED
    BY <1>2, <1>3, <1>4

LEMMA StepIsClaim ==
    ASSUME IInv, NEW i \in Instances, Step(i) \/ Fault(i)
    PROVE  [Claims!Next]_owner
  <1> DEFINE h == obj[i].host
  <1>0. TypeOK /\ WorkerHasHost /\ ClaimStillFree
    BY DEF IInv, LockInv, ClaimInv
  <1>1. pc[i] \in ClaimSteps \union ReleaseSteps => h \in Hosts
    BY <1>0 DEF WorkerHasHost, HostSteps
  <1>2. CASE InitLabels(i)
    <2>1. h \in Hosts /\ owner' = [owner EXCEPT ![h] = NoInstance]
      BY <1>1, <1>2 DEF InitLabels, ClaimSteps
    <2> HIDE DEF h
    <2> QED
      BY <1>0, <2>1, NoInstanceAssumption, WriteIsClaim
  <1>3. CASE pc[i] = "claim" /\ Claimed(i)
    <2>1. pc[i] = "claim" /\ owner' = [owner EXCEPT ![h] = i]
      BY <1>3 DEF Claimed
    <2>2. owner[h] \in {NoInstance, i} /\ h \in Hosts
      BY <1>0, <1>1, <2>1 DEF ClaimStillFree, ClaimSteps
    <2> HIDE DEF h
    <2> QED
      BY <1>0, <2>1, <2>2, WriteIsClaim
  <1>4. CASE Released(i)
    <2>1. h \in Hosts /\ owner' = [owner EXCEPT ![h] = NoInstance]
      BY <1>1, <1>4 DEF Released, ReleaseSteps
    <2> HIDE DEF h
    <2> QED
      BY <1>0, <2>1, NoInstanceAssumption, WriteIsClaim
  <1>5. CASE ~(InitLabels(i) \/ (pc[i] = "claim" /\ Claimed(i)) \/ Released(i))
    <2>1. UNCHANGED inventory
      BY <1>5 DEF Step, Fault, EndReconcile, UpdateStatus, StatusConflict, Done,
         UpdateRejected, RequestFails, StatusRequestFails, ClaimConflict,
         ClaimReplyLost, ReleaseReplyLost, Reconnect,
         AddInventoryFinalizer, FindFreeHost, NoFreeHost, SelectHost, TryLock,
         TryLockFails, GetForClaim, Claim, SetHostClass, ClearHost,
         AddManagementFinalizer, ManageHost, DeprovisionPending, DeprovisionDone,
         DropManagementFinalizer, GetForRelease, Release, DropInventoryFinalizer, Update
    <2> QED
      BY <2>1 DEF inventory
  <1> QED
    BY <1>2, <1>3, <1>4, <1>5

LEMMA NextIsClaim ==
    ASSUME IInv, [Next]_vars
    PROVE  [Claims!Next]_owner
  <1>1. CASE Restart \/ UNCHANGED vars
    BY <1>1 DEF Restart, vars, inventory
  <1>2. ASSUME NEW i \in Instances, Environment(i) \/ Informer(i) \/ Start(i)
        PROVE  UNCHANGED owner
    BY <1>2 DEF Environment, Informer, Create, Delete, EditByOther, DeliverEvent,
       FireTimer, Start, ReconcileMissing, ReconcileInventory, ReconcileManagement,
       HandleDeletion, Dequeue, inventory
  <1>3. ASSUME NEW i \in Instances, Step(i) \/ Fault(i)
        PROVE  [Claims!Next]_owner
    BY <1>3, StepIsClaim
  <1> QED
    BY <1>1, <1>2, <1>3 DEF Next

(* The calls AssignHost and UnassignHost make, with everything that can come  *)
(* between them, give and take hosts as HostClaims does.                      *)
THEOREM HostClaimsImplemented == Spec => ImplementsHostClaims
  <1>1. Init => Claims!Init
    BY DEF Init, Claims!Init
  <1>2. IInv /\ [Next]_vars => [Claims!Next]_owner
    BY NextIsClaim
  <1> QED
    BY <1>1, <1>2, Invariant, PTL DEF Spec, ImplementsHostClaims, Claims!Spec
===============================================================================
