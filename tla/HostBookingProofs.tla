--------------------------- MODULE HostBookingProofs ---------------------------
(***************************************************************************)
(* A host is allocated to one instance at a time, and managed for it only, *)
(* as long as the cache is up to date, nothing has failed, and nobody has  *)
(* deleted an instance that had chosen a host and not been allocated it;   *)
(* for any number of instances, hosts and workers.  So are the labels of   *)
(* the hosts recorded, and for two instances whatever fails.               *)
(***************************************************************************)
EXTENDS HostRecordProofs

(* The handlers for an instance without a host class end before reconcileManagement. *)
ClassedSteps == {"addManagement", "manage"}

ManagedSteps == {"manage", "deprovision", "dropManagement"}

(* What an object says of its host class: it comes with a host, and the management *)
(* finalizer comes after it.                                                        *)
ClassOK(o) ==
    /\ o.classed => o.host \in Hosts
    /\ "management" \in o.finalizers => o.classed

(* Only its worker gives an instance its host class, so the copy has the stored one. *)
WorkerClass(i) ==
    /\ pc[i] \in LiveSteps \union DeletingSteps => obj[i].classed = Stored(i).classed
    /\ pc[i] \in LiveSteps => (obj[i].classed <=> pc[i] \in ClassedSteps)
    /\ pc[i] \in ManagedSteps => "management" \in obj[i].finalizers

ClassInv == \A i \in Instances : ClassOK(Stored(i)) /\ WorkerClass(i)

LEMMA ClassIdle ==
    ASSUME NEW i \in Instances, pc[i] \in {"idle", "status"}
    PROVE  WorkerClass(i)
  BY DEF WorkerClass, ManagedSteps, LiveSteps, DeletingSteps, CleanupSteps, ClaimSteps,
         ReleaseSteps

LEMMA ClassFrame ==
    ASSUME ClassInv, NEW i \in Instances, ClassOK(Stored(i)'), WorkerClass(i)',
           \A j \in Instances \ {i} :
              pc'[j] = pc[j] /\ obj'[j] = obj[j] /\ versions'[j] = versions[j]
    PROVE  ClassInv'
  <1>1. \A j \in Instances \ {i} : Stored(j)' = Stored(j)
    BY DEF Stored
  <1>2. \A j \in Instances \ {i} : ClassOK(Stored(j)') /\ WorkerClass(j)'
    BY <1>1 DEF ClassInv, ClassOK, WorkerClass
  <1> QED
    BY <1>2 DEF ClassInv, ClassOK

(* No object is written, and the handler ends. *)
LEMMA ClassReturn ==
    ASSUME TypeOK, ClassInv, NEW i \in Instances, NEW status, NEW again,
           Return(i, status, again) \/ Done(i, again), UNCHANGED versions
    PROVE  ClassInv'
  <1>1. /\ pc'[i] \in {"idle", "status"}
        /\ \A j \in Instances \ {i} : pc'[j] = pc[j] /\ obj'[j] = obj[j]
    BY DEF Return, Done, TypeOK
  <1>2. WorkerClass(i)'
    BY <1>1 DEF WorkerClass, ManagedSteps, LiveSteps, DeletingSteps, CleanupSteps,
                ClaimSteps, ReleaseSteps
  <1>3. ClassOK(Stored(i)')
    BY DEF ClassInv, Stored
  <1> QED
    BY <1>1, <1>2, <1>3, ClassFrame

(* No object is written, and the handler goes on. *)
LEMMA ClassGoOn ==
    ASSUME TypeOK, ClassInv, NEW i \in Instances, NEW next,
           pc' = [pc EXCEPT ![i] = next], UNCHANGED versions,
           obj'[i].classed = obj[i].classed, obj'[i].finalizers = obj[i].finalizers,
           \A j \in Instances \ {i} : obj'[j] = obj[j],
           \/ pc[i] \in LiveSteps \ ClassedSteps /\ next \in LiveSteps \ ClassedSteps
           \/ pc[i] \in CleanupSteps /\ next \in CleanupSteps
           \/ pc[i] = "deprovision" /\ next = "dropManagement"
    PROVE  ClassInv'
  <1>1. pc'[i] = next /\ \A j \in Instances \ {i} : pc'[j] = pc[j]
    BY DEF TypeOK
  <1>2. Stored(i)' = Stored(i) /\ \A j \in Instances : versions'[j] = versions[j]
    BY DEF Stored
  <1>3. WorkerClass(i)
    BY DEF ClassInv
  <1>4. WorkerClass(i)'
    BY <1>1, <1>2, <1>3 DEF WorkerClass, ManagedSteps, ClassedSteps, LiveSteps,
       DeletingSteps, CleanupSteps, ClaimSteps, ReleaseSteps
  <1>5. ClassOK(Stored(i)')
    BY <1>2 DEF ClassInv
  <1> QED
    BY <1>1, <1>2, <1>4, <1>5, ClassFrame

(* What an update stores. *)
LEMMA UpdateStores ==
    ASSUME TypeOK, NEW i \in Instances, NEW step, NEW o \in Objects, Update(i, step, o)
    PROVE  /\ Stored(i)' \in Objects
           /\ Stored(i)'.host = o.host /\ Stored(i)'.classed = o.classed
           /\ Stored(i)'.finalizers = o.finalizers
           /\ Stored(i)'.life = IF o.life = "deleting" /\ o.finalizers = {} THEN "gone" ELSE o.life
           /\ \A j \in Instances \ {i} : versions'[j] = versions[j]
           /\ owner' = owner /\ faults' = faults /\ current' = current
           /\ current[i] /\ Exists(Stored(i)) /\ pc[i] = step
  <1> DEFINE q == [o EXCEPT !.status = Stored(i).status]
             p == Swept(q)
  <1>1. Stored(i) \in Objects /\ Stored(i).status \in Statuses
    BY VersionTypes, ObjectParts
  <1>2. /\ q \in Objects /\ q.life = o.life /\ q.host = o.host /\ q.finalizers = o.finalizers
        /\ q.classed = o.classed
    BY <1>1, ObjectParts DEF Objects
  <1>3. Publish(i, p) /\ owner' = owner /\ faults' = faults /\ current' = current
        /\ current[i] /\ Exists(Stored(i)) /\ pc[i] = step
    BY DEF Update, inventory, Accepted
  <1> HIDE DEF q
  <1>4. /\ p \in Objects /\ p.host = o.host /\ p.finalizers = o.finalizers
        /\ p.classed = o.classed
        /\ p.life = IF o.life = "deleting" /\ o.finalizers = {} THEN "gone" ELSE o.life
    <2>1. CASE q.life = "deleting" /\ q.finalizers = {}
      <3>1. p = [q EXCEPT !.life = "gone"]
        BY <2>1 DEF Swept
      <3> HIDE DEF p
      <3>2. p \in Objects
        BY <1>2, <3>1, ObjectParts
      <3>3. /\ p.host = q.host /\ p.finalizers = q.finalizers /\ p.classed = q.classed
            /\ p.life = "gone"
        BY <1>2, <3>1 DEF Objects
      <3> QED
        BY <1>2, <2>1, <3>2, <3>3
    <2>2. CASE ~(q.life = "deleting" /\ q.finalizers = {})
      BY <1>2, <2>2 DEF Swept
    <2> QED
      BY <2>1, <2>2
  <1> HIDE DEF p
  <1> QED
    BY <1>3, <1>4, Published

LEMMA ClassUpdateReturn ==
    ASSUME TypeOK, ClassInv, NEW i \in Instances, NEW step, NEW o \in Objects, NEW status,
           Update(i, step, o), Return(i, status, FALSE), ClassOK(o)
    PROVE  ClassInv'
  <1>1. /\ pc'[i] = "status"
        /\ \A j \in Instances \ {i} : pc'[j] = pc[j] /\ obj'[j] = obj[j]
    BY DEF Return, TypeOK
  <1>2. WorkerClass(i)'
    BY <1>1 DEF WorkerClass, ManagedSteps, LiveSteps, DeletingSteps, CleanupSteps,
                ClaimSteps, ReleaseSteps
  <1>3. /\ Stored(i)'.host = o.host /\ Stored(i)'.classed = o.classed
        /\ Stored(i)'.finalizers = o.finalizers
        /\ \A j \in Instances \ {i} : versions'[j] = versions[j]
    BY UpdateStores
  <1>4. ClassOK(Stored(i)')
    BY <1>3 DEF ClassOK
  <1> QED
    BY <1>1, <1>2, <1>3, <1>4, ClassFrame

(* Somebody writes the object and leaves its host, its host class and its finalizers. *)
LEMMA ClassWrite ==
    ASSUME TypeOK, ClassInv, NEW i \in Instances, NEW o \in Objects, Publish(i, o),
           \A j \in Instances \ {i} : pc'[j] = pc[j] /\ obj'[j] = obj[j],
           o.host = Stored(i).host, o.classed = Stored(i).classed,
           o.finalizers = Stored(i).finalizers,
           pc'[i] \in {"idle", "status"} \/ (pc'[i] = pc[i] /\ obj'[i] = obj[i])
    PROVE  ClassInv'
  <1>1. Stored(i)' = o /\ \A j \in Instances \ {i} : versions'[j] = versions[j]
    BY Published
  <1>2. ClassOK(Stored(i)) /\ WorkerClass(i)
    BY DEF ClassInv
  <1>3. ClassOK(Stored(i)')
    BY <1>1, <1>2 DEF ClassOK
  <1>4. CASE pc'[i] \in {"idle", "status"}
    <2>1. WorkerClass(i)'
      BY <1>4 DEF WorkerClass, ManagedSteps, LiveSteps, DeletingSteps, CleanupSteps,
                  ClaimSteps, ReleaseSteps
    <2> QED
      BY <1>1, <1>3, <2>1, ClassFrame
  <1>5. CASE pc'[i] = pc[i] /\ obj'[i] = obj[i]
    <2>1. WorkerClass(i)'
      BY <1>1, <1>2, <1>5 DEF WorkerClass
    <2> QED
      BY <1>1, <1>3, <2>1, ClassFrame
  <1> QED
    BY <1>4, <1>5
-------------------------------------------------------------------------------
(* The environment and the informer write no host, class or finalizer. *)
LEMMA ClassEnvironment ==
    ASSUME TypeOK, RecordInv, ClassInv, NEW i \in Instances, Environment(i) \/ Informer(i)
    PROVE  ClassInv'
  <1>0. Stored(i) \in Objects
    BY VersionTypes
  <1>1. CASE Create(i)
    <2> DEFINE o == [NoObject EXCEPT !.life = "live"]
    <2>1. /\ o \in Objects /\ Publish(i, o) /\ UNCHANGED <<pc, obj>> /\ ClassOK(o)
      BY <1>1, NoObjectType, ObjectParts DEF Create, NoObject, ClassOK, worker
    <2> HIDE DEF o
    <2>2. Stored(i)' = o /\ \A j \in Instances \ {i} : versions'[j] = versions[j]
      BY <2>1, Published
    <2>3. pc[i] \notin LiveSteps \union DeletingSteps
      BY <1>1 DEF Create, RecordInv, WorkersRecord, WorkerRecords
    <2>4. WorkerClass(i)'
      BY <2>1, <2>3 DEF WorkerClass, ManagedSteps, LiveSteps, DeletingSteps
    <2> QED
      BY <2>1, <2>2, <2>4, ClassFrame
  <1>2. CASE Delete(i)
    <2> DEFINE o == [Stored(i) EXCEPT !.life =
                        IF Stored(i).finalizers = {} THEN "gone" ELSE "deleting"]
    <2>1. o \in Objects /\ Publish(i, o) /\ UNCHANGED <<pc, obj>>
      BY <1>0, <1>2, ObjectParts DEF Delete
    <2>2. /\ o.host = Stored(i).host /\ o.finalizers = Stored(i).finalizers
          /\ o.classed = Stored(i).classed
      BY <1>0 DEF Objects
    <2> HIDE DEF o
    <2> QED
      BY <2>1, <2>2, ClassWrite
  <1>3. CASE EditByOther(i)
    BY <1>0, <1>3, ClassWrite DEF EditByOther
  <1>4. CASE DeliverEvent(i)
    <2>1. Len(versions[i]) > 1 /\ Len(versions[i]) = 1
      BY <1>4 DEF DeliverEvent, RecordInv, Prompt
    <2>2. ~(1 > 1)
      OBVIOUS
    <2> QED
      BY <2>1, <2>2
  <1>5. CASE FireTimer(i)
    BY <1>5 DEF FireTimer, worker, ClassInv, ClassOK, WorkerClass, Stored
  <1> QED
    BY <1>1, <1>2, <1>3, <1>4, <1>5 DEF Environment, Informer

(* A reconcile begins with the stored object. *)
LEMMA ClassStart ==
    ASSUME TypeOK, RecordInv, ClassInv, NEW i \in Instances, Start(i)
    PROVE  ClassInv'
  <1>0. Cached(i) = Stored(i) /\ Stored(i) \in Objects /\ ClassOK(Stored(i))
    BY VersionTypes DEF RecordInv, Prompt, Cached, Stored, ClassInv
  <1>1. UNCHANGED versions
    BY DEF Start, ReconcileMissing, ReconcileInventory, ReconcileManagement, HandleDeletion,
           Dequeue
  <1>2. CASE ReconcileMissing(i)
    BY <1>1, <1>2 DEF ReconcileMissing, worker, ClassInv, ClassOK, WorkerClass, Stored
  <1>3. ASSUME NEW status, NEW next, Begin(i, status, next),
               next \in LiveSteps => (Stored(i).classed <=> next \in ClassedSteps),
               next \in ManagedSteps => "management" \in Stored(i).finalizers
        PROVE  ClassInv'
    <2>1. /\ obj'[i] = [Stored(i) EXCEPT !.status = status] /\ pc'[i] = next
          /\ \A j \in Instances \ {i} : pc'[j] = pc[j] /\ obj'[j] = obj[j]
      BY <1>0, <1>3 DEF Begin, TypeOK
    <2>2. obj'[i].finalizers = Stored(i).finalizers /\ obj'[i].classed = Stored(i).classed
      BY <1>0, <2>1 DEF Objects
    <2>3. Stored(i)' = Stored(i)
      BY <1>1 DEF Stored
    <2>4. WorkerClass(i)'
      BY <1>3, <2>1, <2>2, <2>3 DEF WorkerClass
    <2> QED
      BY <1>0, <1>1, <2>1, <2>3, <2>4, ClassFrame
  <1>4. CASE ReconcileInventory(i)
    BY <1>0, <1>3, <1>4 DEF ReconcileInventory, ManagedSteps, ClassedSteps
  <1>5. CASE ReconcileManagement(i)
    BY <1>0, <1>3, <1>5 DEF ReconcileManagement, ManagedSteps, ClassedSteps
  <1>6. CASE HandleDeletion(i)
    <2> USE DEF LiveSteps, ManagedSteps, ClaimSteps
    <2>1. CASE "management" \in Cached(i).finalizers
      BY <1>0, <1>3, <1>6, <2>1 DEF HandleDeletion
    <2>2. CASE "management" \notin Cached(i).finalizers
      BY <1>0, <1>3, <1>6, <2>2 DEF HandleDeletion, InventoryCleanup
    <2> QED
      BY <2>1, <2>2
  <1> QED
    BY <1>2, <1>4, <1>5, <1>6 DEF Start

LEMMA ClassStep ==
    ASSUME TypeOK, LockInv, RecordInv, ClassInv, NEW i \in Instances, Step(i)
    PROVE  ClassInv'
  <1> USE DEF LiveSteps, DeletingSteps, CleanupSteps, ClaimSteps, ReleaseSteps, ClassedSteps
  <1>0. /\ obj[i] \in Objects /\ Stored(i) \in Objects
        /\ WorkerRecords(i) /\ WorkerClass(i) /\ ClassOK(Stored(i))
    BY VersionTypes DEF TypeOK, RecordInv, WorkersRecord, ClassInv
  <1>a. pc[i] \in LiveSteps \union DeletingSteps /\ pc[i] # "select" => ClassOK(obj[i])
    BY <1>0 DEF WorkerRecords, WorkerClass, ClassOK
  <1>1. CASE EndReconcile(i) \/ StatusConflict(i) \/ NoFreeHost(i) \/ TryLockFails(i)
             \/ ManageHost(i) \/ DeprovisionPending(i) \/ UpdateRejected(i)
    BY <1>1, ClassReturn DEF EndReconcile, StatusConflict, NoFreeHost, TryLockFails,
       ManageHost, DeprovisionPending, UpdateRejected, Abort
  <1>2. CASE UpdateStatus(i)
    <2> DEFINE o == [Stored(i) EXCEPT !.status = obj[i].status]
    <2>1. /\ o \in Objects /\ Publish(i, o) /\ o.classed = Stored(i).classed
          /\ o.finalizers = Stored(i).finalizers /\ o.host = Stored(i).host
      BY <1>0, <1>2, ObjectParts DEF UpdateStatus, Objects
    <2> HIDE DEF o
    <2>2. /\ pc'[i] = "idle"
          /\ \A j \in Instances \ {i} : pc'[j] = pc[j] /\ obj'[j] = obj[j]
      BY <1>2 DEF UpdateStatus, Done, TypeOK
    <2> QED
      BY <2>1, <2>2, ClassWrite
  <1>3. CASE AddInventoryFinalizer(i)
    <2> DEFINE o == [obj[i] EXCEPT !.finalizers = @ \union {"inventory"}]
    <2>1. o \in Objects /\ Update(i, "addInventory", o) /\ pc[i] = "addInventory"
      BY <1>0, <1>3, ObjectParts DEF Finalizers, AddInventoryFinalizer, Update
    <2>2. ClassOK(o)
      BY <1>0, <1>a, <2>1 DEF ClassOK, Objects
    <2> HIDE DEF o
    <2> QED
      BY <1>3, <2>1, <2>2, ClassUpdateReturn DEF AddInventoryFinalizer
  <1>4. CASE FindFreeHost(i)
    <2>1. PICK h \in Hosts : obj' = [obj EXCEPT ![i] = [obj[i] EXCEPT !.host = h]]
      BY <1>4, MatchingAssumption DEF FindFreeHost
    <2>2. /\ obj'[i].finalizers = obj[i].finalizers /\ obj'[i].classed = obj[i].classed
          /\ \A j \in Instances \ {i} : obj'[j] = obj[j]
      BY <1>0, <2>1 DEF TypeOK, Objects
    <2>3. pc[i] = "find" /\ pc' = [pc EXCEPT ![i] = "select"] /\ UNCHANGED versions
      BY <1>4 DEF FindFreeHost
    <2> QED
      BY <2>2, <2>3, ClassGoOn
  <1>5. CASE SelectHost(i)
    <2>1. Update(i, "select", obj[i]) /\ pc[i] = "select"
      BY <1>5 DEF SelectHost, Update
    <2>2. ClassOK(obj[i])
      BY <1>0, <2>1 DEF WorkerRecords, WorkerClass, ClassOK
    <2> QED
      BY <1>0, <1>5, <2>1, <2>2, ClassUpdateReturn DEF SelectHost
  <1>6. CASE TryLock(i)
    <2>1. /\ \/ pc[i] = "lockForClaim" /\ pc' = [pc EXCEPT ![i] = "getForClaim"]
             \/ pc[i] = "lockForRelease" /\ pc' = [pc EXCEPT ![i] = "getForRelease"]
          /\ UNCHANGED <<versions, obj>>
      BY <1>6 DEF TryLock
    <2> QED
      BY <2>1, ClassGoOn
  <1>7. CASE GetForClaim(i)
    <2>1. PICK next \in {"clearHost", "initLabels", "claim"} : pc' = [pc EXCEPT ![i] = next]
      BY <1>7 DEF GetForClaim
    <2>2. pc[i] = "getForClaim" /\ UNCHANGED <<versions, obj>>
      BY <1>7 DEF GetForClaim
    <2> QED
      BY <2>1, <2>2, ClassGoOn
  <1>8. CASE InitLabels(i) \/ Claim(i)
    <2>1. PICK next \in {"claim", "setClass"} : pc' = [pc EXCEPT ![i] = next]
      BY <1>8 DEF InitLabels, Claim
    <2>2. pc[i] \in {"initLabels", "claim"} /\ UNCHANGED <<versions, obj>>
      BY <1>8 DEF InitLabels, Claim
    <2> QED
      BY <2>1, <2>2, ClassGoOn
  <1>9. CASE SetHostClass(i)
    <2> DEFINE o == [obj[i] EXCEPT !.classed = TRUE]
    <2>1. o \in Objects /\ Update(i, "setClass", o) /\ pc[i] = "setClass"
      BY <1>0, <1>9, ObjectParts DEF SetHostClass, Update
    <2>2. ClassOK(o)
      BY <1>0, <2>1 DEF ClassOK, Objects, LockInv, WorkerHasHost, HostSteps
    <2> HIDE DEF o
    <2> QED
      BY <1>9, <2>1, <2>2, ClassUpdateReturn DEF SetHostClass
  <1>10. CASE ClearHost(i)
    <2> DEFINE o == [obj[i] EXCEPT !.host = NoHost]
    <2>1. o \in Objects /\ Update(i, "clearHost", o) /\ pc[i] = "clearHost"
      BY <1>0, <1>10, ObjectParts DEF ClearHost, Update
    <2>2. o.classed = obj[i].classed /\ o.finalizers = obj[i].finalizers
      BY <1>0 DEF Objects
    <2>3. ClassOK(o)
      BY <1>0, <1>a, <2>1, <2>2 DEF ClassOK, WorkerClass
    <2> HIDE DEF o
    <2> QED
      BY <1>10, <2>1, <2>3, ClassUpdateReturn DEF ClearHost
  <1>11. CASE AddManagementFinalizer(i)
    <2> DEFINE o == [obj[i] EXCEPT !.finalizers = @ \union {"management"}]
    <2>1. o \in Objects /\ Update(i, "addManagement", o) /\ pc[i] = "addManagement"
      BY <1>0, <1>11, ObjectParts DEF Finalizers, AddManagementFinalizer, Update
    <2>2. ClassOK(o)
      BY <1>0, <1>a, <2>1 DEF ClassOK, Objects, WorkerClass
    <2> HIDE DEF o
    <2> QED
      BY <1>11, <2>1, <2>2, ClassUpdateReturn DEF AddManagementFinalizer
  <1>12. CASE DeprovisionDone(i)
    BY <1>12, ClassGoOn DEF DeprovisionDone
  <1>13. CASE DropManagementFinalizer(i)
    <2> DEFINE o == [obj[i] EXCEPT !.finalizers = @ \ {"management"}]
               p == [o EXCEPT !.status = StatusAfterUpdate(i)]
    <2>1. /\ o \in Objects /\ Update(i, "dropManagement", o) /\ pc[i] = "dropManagement"
          /\ obj' = [obj EXCEPT ![i] = p] /\ pc' = [pc EXCEPT ![i] = InventoryCleanup(o)]
      BY <1>0, <1>13, ObjectParts DEF DropManagementFinalizer, Finalizers, Update
    <2>2. /\ ClassOK(o)
          /\ p.host = o.host /\ p.finalizers = o.finalizers /\ p.classed = o.classed
      BY <1>0, <1>a, <2>1 DEF ClassOK, Objects
    <2>3. InventoryCleanup(o) \in {"status", "dropInventory", "lockForRelease"}
      BY DEF InventoryCleanup
    <2> HIDE DEF o, p
    <2>4. /\ Stored(i)'.host = o.host /\ Stored(i)'.classed = o.classed
          /\ Stored(i)'.finalizers = o.finalizers
          /\ \A j \in Instances \ {i} : versions'[j] = versions[j]
      BY <2>1, UpdateStores
    <2>5. /\ obj'[i] = p /\ pc'[i] = InventoryCleanup(o)
          /\ \A j \in Instances \ {i} : pc'[j] = pc[j] /\ obj'[j] = obj[j]
      BY <2>1 DEF TypeOK
    <2>6. WorkerClass(i)'
      BY <2>2, <2>3, <2>4, <2>5 DEF WorkerClass, ManagedSteps
    <2>7. ClassOK(Stored(i)')
      BY <2>2, <2>4 DEF ClassOK
    <2> QED
      BY <2>4, <2>5, <2>6, <2>7, ClassFrame
  <1>14. CASE GetForRelease(i) \/ Release(i)
    <2>1. PICK next \in {"dropInventory", "release"} : pc' = [pc EXCEPT ![i] = next]
      BY <1>14 DEF GetForRelease, Release
    <2>2. pc[i] \in {"getForRelease", "release"} /\ UNCHANGED <<versions, obj>>
      BY <1>14 DEF GetForRelease, Release, Released
    <2> QED
      BY <2>1, <2>2, ClassGoOn
  <1>15. CASE DropInventoryFinalizer(i)
    <2> DEFINE o == [obj[i] EXCEPT !.finalizers = @ \ {"inventory"}]
    <2>1. o \in Objects /\ Update(i, "dropInventory", o) /\ pc[i] = "dropInventory"
      BY <1>0, <1>15, ObjectParts DEF DropInventoryFinalizer, Finalizers, Update
    <2>2. ClassOK(o)
      BY <1>0, <1>a, <2>1 DEF ClassOK, Objects
    <2> HIDE DEF o
    <2> QED
      BY <1>15, <2>1, <2>2, ClassUpdateReturn DEF DropInventoryFinalizer
  <1> QED
    BY <1>1, <1>2, <1>3, <1>4, <1>5, <1>6, <1>7, <1>8, <1>9, <1>10, <1>11, <1>12,
       <1>13, <1>14, <1>15 DEF Step

(* A failure writes no object. *)
LEMMA ClassFault ==
    ASSUME TypeOK, ClassInv, NEW i \in Instances, Fault(i)
    PROVE  ClassInv'
  <1>1. CASE Reconnect(i)
    <2>1. PICK next \in {"getForClaim", "getForRelease"} :
             /\ pc' = [pc EXCEPT ![i] = next]
             /\ next = "getForClaim" <=> pc[i] \in ClaimSteps
      BY <1>1 DEF Reconnect
    <2>2. pc[i] \in ClaimSteps \union ReleaseSteps /\ UNCHANGED <<versions, obj>>
      BY <1>1 DEF Reconnect
    <2> QED
      BY <2>1, <2>2, ClassGoOn DEF LiveSteps, ClassedSteps, CleanupSteps, ClaimSteps, ReleaseSteps
  <1>2. CASE ~Reconnect(i)
    BY <1>2, ClassReturn DEF Fault, RequestFails, StatusRequestFails, ClaimConflict,
       ClaimReplyLost, ReleaseReplyLost, Abort
  <1> QED
    BY <1>1, <1>2

LEMMA ClassRestart ==
    ASSUME ClassInv, Restart
    PROVE  ClassInv'
  <1>1. \A j \in Instances : versions'[j] = <<Stored(j)>> /\ pc'[j] = "idle"
    BY DEF Restart
  <1>2. \A j \in Instances : Stored(j)' = Stored(j)
    BY <1>1, OneVersion DEF Stored
  <1>3. \A j \in Instances : WorkerClass(j)'
    BY <1>1, ClassIdle DEF WorkerClass, ManagedSteps, LiveSteps, DeletingSteps,
       CleanupSteps, ClaimSteps, ReleaseSteps
  <1> QED
    BY <1>2, <1>3 DEF ClassInv, ClassOK

LEMMA ClassInductive ==
    ASSUME IInv, RecordInv, ClassInv, [Next]_vars
    PROVE  ClassInv'
  <1>0. TypeOK /\ LockInv
    BY DEF IInv
  <1>1. CASE UNCHANGED vars
    BY <1>1 DEF ClassInv, ClassOK, WorkerClass, Stored, vars
  <1>2. CASE Next
    BY <1>0, <1>2, ClassRestart, ClassEnvironment, ClassStart, ClassStep, ClassFault DEF Next
  <1> QED
    BY <1>1, <1>2
-------------------------------------------------------------------------------
(* Orderly, once lost, is lost for good. *)

LEMMA FaultsGrow ==
    ASSUME TypeOK, [Next]_vars
    PROVE  faults' \in {faults, faults + 1}
  <1>1. ASSUME NEW i \in Instances, Environment(i) \/ Informer(i) \/ Start(i)
        PROVE  faults' \in {faults, faults + 1}
    BY <1>1 DEF Environment, Informer, Start, Create, Delete, EditByOther, DeliverEvent,
       FireTimer, ReconcileMissing, ReconcileInventory, ReconcileManagement,
       HandleDeletion, Dequeue
  <1>2. ASSUME NEW i \in Instances, Step(i)
        PROVE  faults' \in {faults, faults + 1}
    BY <1>2 DEF Step, EndReconcile, UpdateStatus, StatusConflict, UpdateRejected,
       AddInventoryFinalizer, FindFreeHost, NoFreeHost, SelectHost, TryLock, TryLockFails,
       GetForClaim, InitLabels, Claim, SetHostClass, ClearHost, AddManagementFinalizer,
       ManageHost, DeprovisionPending, DeprovisionDone, DropManagementFinalizer,
       GetForRelease, Release, DropInventoryFinalizer, Update
  <1>3. ASSUME NEW i \in Instances, Fault(i)
        PROVE  faults' \in {faults, faults + 1}
    BY <1>3 DEF Fault, RequestFails, StatusRequestFails, ClaimConflict, ClaimReplyLost,
       ReleaseReplyLost, Reconnect
  <1>4. CASE Restart
    BY <1>4 DEF Restart
  <1>5. CASE UNCHANGED vars
    BY <1>5 DEF vars
  <1> QED
    BY <1>1, <1>2, <1>3, <1>4, <1>5 DEF Next

(* A failure other than a conflict of a claim counts as one. *)
LEMMA FaultsCount ==
    ASSUME TypeOK, faults = 0, faults' = 0, NEW i \in Instances, Fault(i)
    PROVE  ClaimConflict(i)
  BY DEF Fault, RequestFails, StatusRequestFails, ClaimReplyLost, ReleaseReplyLost, Reconnect

(* The worker of an instance that was deleted keeps its host and its lack of a class. *)
LEMMA ChoosingUpdate ==
    ASSUME TypeOK, ReleaseInv, RecordInv, ClassInv, NEW i \in Instances,
           NEW step \in LiveSteps \union DeletingSteps, NEW o \in Objects,
           Update(i, step, o), o.life = obj[i].life, o.classed # obj[i].classed => step \in LiveSteps,
           o.host # obj[i].host => step \in LiveSteps,
           DeletedWhileChoosing(i)
    PROVE  DeletedWhileChoosing(i)'
  <1>1. /\ Stored(i)'.host = o.host /\ Stored(i)'.classed = o.classed
        /\ Stored(i)'.life = IF o.life = "deleting" /\ o.finalizers = {} THEN "gone" ELSE o.life
        /\ current[i] /\ pc[i] = step /\ Exists(Stored(i))
    BY UpdateStores
  <1>2. WorkerOK(i) /\ WorkerRecords(i) /\ WorkerClass(i)
    BY DEF ReleaseInv, WorkersOK, RecordInv, WorkersRecord, ClassInv
  <1>3. obj[i].life = Stored(i).life /\ Stored(i).life = "deleting"
    BY <1>1, <1>2 DEF WorkerOK, DeletedWhileChoosing, Exists
  <1>4. step \notin LiveSteps
    BY <1>1, <1>2, <1>3 DEF WorkerOK
  <1>5. step # "select"
    BY <1>4 DEF LiveSteps
  <1>6. o.host = Stored(i).host /\ o.classed = Stored(i).classed
    BY <1>1, <1>2, <1>4, <1>5 DEF WorkerRecords, WorkerClass
  <1> QED
    BY <1>1, <1>3, <1>6 DEF DeletedWhileChoosing

(* A step of one instance leaves the objects and the workers of the others alone. *)
LEMMA OthersStay ==
    ASSUME TypeOK, NEW i \in Instances, NEW j \in Instances \ {i},
           Environment(i) \/ Informer(i) \/ Start(i) \/ Step(i) \/ Fault(i)
    PROVE  /\ versions'[j] = versions[j]
           /\ pc'[j] = pc[j] /\ obj'[j] = obj[j] /\ current'[j] = current[j]
  <1> USE DEF TypeOK, worker
  <1>1. CASE Environment(i) \/ Informer(i)
    BY <1>1 DEF Environment, Informer, Create, Delete, EditByOther, DeliverEvent, FireTimer,
       Publish
  <1>2. CASE Start(i)
    BY <1>2 DEF Start, ReconcileMissing, ReconcileInventory, ReconcileManagement,
       HandleDeletion, Dequeue, Begin
  <1>3. CASE Fault(i)
    BY <1>3 DEF Fault, RequestFails, StatusRequestFails, ClaimConflict, ClaimReplyLost,
       ReleaseReplyLost, Reconnect, Abort, Return, Done
  <1>4. CASE Step(i)
    <2>1. CASE EndReconcile(i) \/ UpdateStatus(i) \/ StatusConflict(i) \/ UpdateRejected(i)
      BY <2>1 DEF EndReconcile, UpdateStatus, StatusConflict, UpdateRejected, Done, Abort,
         Return, Publish
    <2>2. CASE \/ AddInventoryFinalizer(i) \/ SelectHost(i) \/ SetHostClass(i)
               \/ ClearHost(i) \/ AddManagementFinalizer(i) \/ DropInventoryFinalizer(i)
      BY <2>2 DEF AddInventoryFinalizer, SelectHost, SetHostClass, ClearHost,
         AddManagementFinalizer, DropInventoryFinalizer, Update, Return, Publish
    <2>3. CASE DropManagementFinalizer(i)
      BY <2>3 DEF DropManagementFinalizer, Update, Publish
    <2>4. CASE \/ FindFreeHost(i) \/ NoFreeHost(i) \/ TryLock(i) \/ TryLockFails(i)
               \/ GetForClaim(i) \/ InitLabels(i) \/ Claim(i) \/ ManageHost(i)
               \/ DeprovisionPending(i) \/ DeprovisionDone(i) \/ GetForRelease(i)
               \/ Release(i)
      BY <2>4 DEF FindFreeHost, NoFreeHost, TryLock, TryLockFails, GetForClaim, InitLabels,
         Claim, ManageHost, DeprovisionPending, DeprovisionDone, GetForRelease, Release,
         Return
    <2> QED
      BY <1>4, <2>1, <2>2, <2>3, <2>4 DEF Step
  <1> QED
    BY <1>1, <1>2, <1>3, <1>4

LEMMA ChoosingStays ==
    ASSUME TypeOK, ReleaseInv, RecordInv, ClassInv, [Next]_vars,
           NEW j \in Instances, DeletedWhileChoosing(j)
    PROVE  DeletedWhileChoosing(j)'
  <1>0. /\ Stored(j) \in Objects /\ obj[j] \in Objects
        /\ Stored(j).life \in {"deleting", "gone"}
    BY VersionTypes DEF DeletedWhileChoosing, TypeOK
  <1>1. ASSUME Stored(j)' = Stored(j)
        PROVE  DeletedWhileChoosing(j)'
    BY <1>1 DEF DeletedWhileChoosing
  <1>2. ASSUME versions'[j] = versions[j]
        PROVE  DeletedWhileChoosing(j)'
    BY <1>1, <1>2 DEF Stored
  <1>3. CASE UNCHANGED vars
    BY <1>2, <1>3 DEF vars
  <1>4. CASE Restart
    <2>1. versions'[j] = <<Stored(j)>>
      BY <1>4 DEF Restart
    <2> QED
      BY <1>1, <2>1, OneVersion DEF Stored
  <1>5. ASSUME NEW i \in Instances \ {j},
               Environment(i) \/ Informer(i) \/ Start(i) \/ Step(i) \/ Fault(i)
        PROVE  DeletedWhileChoosing(j)'
    BY <1>2, <1>5, OthersStay
  <1>6. CASE Environment(j) \/ Informer(j)
    <2>1. CASE EditByOther(j)
      <3>1. Publish(j, Stored(j))
        BY <2>1 DEF EditByOther
      <3> QED
        BY <1>0, <1>1, <3>1, Published
    <2>2. CASE DeliverEvent(j)
      <3>1. Len(versions[j]) > 1 /\ Len(versions[j]) = 1
        BY <2>2 DEF DeliverEvent, RecordInv, Prompt
      <3>2. ~(1 > 1)
        OBVIOUS
      <3> QED
        BY <3>1, <3>2
    <2>3. CASE FireTimer(j)
      BY <1>2, <2>3 DEF FireTimer
    <2> QED
      BY <1>0, <1>6, <2>1, <2>2, <2>3 DEF Environment, Informer, Create, Delete
  <1>7. CASE Start(j) \/ Fault(j)
    <2>1. UNCHANGED versions
      BY <1>7 DEF Start, ReconcileMissing, ReconcileInventory, ReconcileManagement,
         HandleDeletion, Dequeue, Fault, RequestFails, StatusRequestFails, ClaimConflict,
         ClaimReplyLost, ReleaseReplyLost, Reconnect, Abort
    <2> QED
      BY <1>2, <2>1
  <1>8. CASE Step(j)
    <2> USE DEF LiveSteps, DeletingSteps, CleanupSteps
    <2>1. CASE \/ EndReconcile(j) \/ StatusConflict(j) \/ UpdateRejected(j)
               \/ FindFreeHost(j) \/ NoFreeHost(j) \/ TryLock(j) \/ TryLockFails(j)
               \/ GetForClaim(j) \/ InitLabels(j) \/ Claim(j) \/ ManageHost(j)
               \/ DeprovisionPending(j) \/ DeprovisionDone(j) \/ GetForRelease(j)
               \/ Release(j)
      <3>1. UNCHANGED versions
        BY <2>1 DEF EndReconcile, StatusConflict, UpdateRejected, Abort, FindFreeHost,
           NoFreeHost, TryLock, TryLockFails, GetForClaim, InitLabels, Claim, ManageHost,
           DeprovisionPending, DeprovisionDone, GetForRelease, Release
      <3> QED
        BY <1>2, <3>1
    <2>2. CASE UpdateStatus(j)
      <3> DEFINE o == [Stored(j) EXCEPT !.status = obj[j].status]
      <3>1. /\ o \in Objects /\ Publish(j, o) /\ o.classed = Stored(j).classed
            /\ o.life = Stored(j).life /\ o.host = Stored(j).host
        BY <1>0, <2>2, ObjectParts DEF UpdateStatus, Objects
      <3> HIDE DEF o
      <3>2. Stored(j)' = o
        BY <3>1, Published
      <3> QED
        BY <3>1, <3>2 DEF DeletedWhileChoosing
    <2>3. CASE SelectHost(j)
      BY <1>0, <2>3, ChoosingUpdate DEF SelectHost
    <2>4. CASE AddInventoryFinalizer(j) \/ AddManagementFinalizer(j)
      <3>1. PICK f \in Finalizers, step \in {"addInventory", "addManagement"} :
               Update(j, step, [obj[j] EXCEPT !.finalizers = @ \union {f}])
        BY <2>4 DEF AddInventoryFinalizer, AddManagementFinalizer, Finalizers
      <3> DEFINE o == [obj[j] EXCEPT !.finalizers = @ \union {f}]
      <3>2. o \in Objects /\ o.life = obj[j].life
        <4>1. obj[j].finalizers \union {f} \in SUBSET Finalizers
          BY <1>0, ObjectParts
        <4>2. o \in Objects
          BY <1>0, <4>1, ObjectParts
        <4>3. o.life = obj[j].life
          BY <1>0 DEF Objects
        <4> QED
          BY <4>2, <4>3
      <3>3. step \in LiveSteps
        OBVIOUS
      <3> HIDE DEF o
      <3> QED
        BY <3>1, <3>2, <3>3, ChoosingUpdate DEF o
    <2>5. CASE SetHostClass(j)
      <3> DEFINE o == [obj[j] EXCEPT !.classed = TRUE]
      <3>1. Update(j, "setClass", o) /\ o \in Objects /\ o.life = obj[j].life
        BY <1>0, <2>5, ObjectParts DEF SetHostClass, Objects
      <3> HIDE DEF o
      <3> QED
        BY <3>1, ChoosingUpdate
    <2>6. CASE ClearHost(j)
      <3> DEFINE o == [obj[j] EXCEPT !.host = NoHost]
      <3>1. Update(j, "clearHost", o) /\ o \in Objects /\ o.life = obj[j].life
        BY <1>0, <2>6, ObjectParts DEF ClearHost, Objects
      <3> HIDE DEF o
      <3> QED
        BY <3>1, ChoosingUpdate
    <2>7. CASE DropManagementFinalizer(j) \/ DropInventoryFinalizer(j)
      <3>1. PICK f \in Finalizers, step \in {"dropManagement", "dropInventory"} :
               Update(j, step, [obj[j] EXCEPT !.finalizers = @ \ {f}])
        BY <2>7 DEF DropManagementFinalizer, DropInventoryFinalizer, Finalizers
      <3> DEFINE o == [obj[j] EXCEPT !.finalizers = @ \ {f}]
      <3>2. /\ o \in Objects /\ o.life = obj[j].life /\ o.host = obj[j].host
            /\ o.classed = obj[j].classed
        <4>1. obj[j].finalizers \ {f} \in SUBSET Finalizers
          BY <1>0, ObjectParts
        <4>2. o \in Objects
          BY <1>0, <4>1, ObjectParts
        <4>3. o.life = obj[j].life /\ o.host = obj[j].host /\ o.classed = obj[j].classed
          BY <1>0 DEF Objects
        <4> QED
          BY <4>2, <4>3
      <3>3. step \in DeletingSteps
        OBVIOUS
      <3> HIDE DEF o
      <3> QED
        BY <3>1, <3>2, <3>3, ChoosingUpdate DEF o
    <2> QED
      BY <1>8, <2>1, <2>2, <2>3, <2>4, <2>5, <2>6, <2>7 DEF Step
  <1> QED
    BY <1>3, <1>4, <1>5, <1>6, <1>7, <1>8 DEF Next

LEMMA OrderlyBefore ==
    ASSUME TypeOK, ReleaseInv, RecordInv, ClassInv, [Next]_vars, Orderly'
    PROVE  Orderly /\ faults = 0 /\ faults' = 0
  <1>1. lag' = lag
    BY DEF Next, vars
  <1>2. faults \in Nat /\ faults' = 0 /\ lag' = 0
    BY DEF TypeOK, Orderly
  <1>3. faults = 0
    BY <1>2, FaultsGrow
  <1>4. \A j \in Instances : ~DeletedWhileChoosing(j)
    BY ChoosingStays DEF Orderly
  <1> QED
    BY <1>1, <1>2, <1>3, <1>4 DEF Orderly
-------------------------------------------------------------------------------
(* An instance that has been allocated a host holds its claim, until its worker   *)
(* has released it and has only to drop the finalizer, under the host's lock.     *)
Holds(i) ==
    Exists(Stored(i)) /\ Stored(i).classed =>
        LET holder == owner[Stored(i).host] IN
        holder = i \/ (holder = NoInstance /\ pc[i] = "dropInventory")

(* A deletion meets no conflict, and the host class is stored for a claim that is  *)
(* still there.                                                                    *)
WorkerHolds(i) ==
    /\ pc[i] \in DeletingSteps => current[i]
    /\ pc[i] = "setClass" => owner[obj[i].host] = i

BookingInv == \A i \in Instances : Holds(i) /\ WorkerHolds(i)

(* A step of i changes only the owner of the host it has locked, if that is free or *)
(* its own: the other instances keep what they hold.                                 *)
LEMMA BookingFrame ==
    ASSUME TypeOK, LockInv, RecordInv, ClassInv, BookingInv, NEW i \in Instances,
           Holds(i)', WorkerHolds(i)',
           \A j \in Instances \ {i} :
              /\ versions'[j] = versions[j]
              /\ pc'[j] = pc[j] /\ obj'[j] = obj[j] /\ current'[j] = current[j],
           \A h \in Hosts : owner'[h] # owner[h] =>
              owner[h] \in {NoInstance, i} /\ Locked(i) /\ obj[i].host = h
    PROVE  BookingInv'
  <1> SUFFICES ASSUME NEW j \in Instances \ {i}
               PROVE  Holds(j)' /\ WorkerHolds(j)'
    BY DEF BookingInv
  <1>1. Stored(j)' = Stored(j)
    BY DEF Stored
  <1>2. Holds(j) /\ WorkerHolds(j) /\ ClassOK(Stored(j)) /\ WorkerRecords(j)
    BY DEF BookingInv, ClassInv, RecordInv, WorkersRecord
  <1>3. ASSUME NEW h \in Hosts, owner[h] = j
        PROVE  owner'[h] = j
    BY <1>3, NoInstanceAssumption
  <1>4. Holds(j)'
    <2> SUFFICES ASSUME Exists(Stored(j)), Stored(j).classed
                 PROVE  \/ owner'[Stored(j).host] = j
                        \/ owner'[Stored(j).host] = NoInstance /\ pc[j] = "dropInventory"
      BY <1>1 DEF Holds, Exists
    <2> DEFINE h == Stored(j).host
    <2>1. h \in Hosts
      BY <1>2 DEF ClassOK
    <2>2. CASE owner[h] = j
      BY <1>3, <2>1, <2>2
    <2>3. CASE owner[h] = NoInstance /\ pc[j] = "dropInventory"
      <3>1. obj[j].host = h
        BY <1>2, <2>3 DEF WorkerRecords, DeletingSteps, CleanupSteps
      <3>2. Locked(j)
        BY <2>1, <2>3, <3>1, NoHostAssumption DEF Locked
      <3>3. ~(Locked(i) /\ obj[i].host = h)
        BY <3>1, <3>2 DEF LockInv, LockExclusion
      <3> QED
        BY <2>1, <2>3, <3>3
    <2> QED
      BY <1>2, <2>2, <2>3 DEF Holds
  <1>5. WorkerHolds(j)'
    <2>1. pc[j] = "setClass" => obj[j].host \in Hosts
      BY DEF LockInv, WorkerHasHost, HostSteps
    <2> QED
      BY <1>2, <1>3, <2>1 DEF WorkerHolds
  <1> QED
    BY <1>4, <1>5

(* The handler ends, and no object is written. *)
LEMMA BookingReturn ==
    ASSUME TypeOK, LockInv, RecordInv, ClassInv, BookingInv, NEW i \in Instances,
           NEW status, NEW again,
           \/ Return(i, status, again) /\ UNCHANGED current
           \/ Done(i, again),
           pc[i] # "dropInventory", UNCHANGED <<versions, owner>>
    PROVE  BookingInv'
  <1>1. /\ pc'[i] \in {"idle", "status"}
        /\ \A j \in Instances \ {i} :
              pc'[j] = pc[j] /\ obj'[j] = obj[j] /\ current'[j] = current[j]
    BY DEF Return, Done, TypeOK
  <1>2. WorkerHolds(i)'
    BY <1>1 DEF WorkerHolds, DeletingSteps, CleanupSteps, ReleaseSteps
  <1>3. Holds(i)'
    BY DEF BookingInv, Holds, Stored
  <1> QED
    BY <1>1, <1>2, <1>3, BookingFrame

(* It goes on, and no object and no claim is written. *)
LEMMA BookingGoOn ==
    ASSUME TypeOK, LockInv, RecordInv, ClassInv, BookingInv, NEW i \in Instances, NEW next,
           pc' = [pc EXCEPT ![i] = next], UNCHANGED <<versions, current, owner>>,
           \A j \in Instances \ {i} : obj'[j] = obj[j],
           pc[i] # "dropInventory", next # "setClass",
           next \in DeletingSteps => pc[i] \in DeletingSteps
    PROVE  BookingInv'
  <1>1. pc'[i] = next /\ \A j \in Instances \ {i} : pc'[j] = pc[j]
    BY DEF TypeOK
  <1>2. Holds(i)' /\ WorkerHolds(i)'
    BY <1>1 DEF BookingInv, Holds, WorkerHolds, Stored
  <1> QED
    BY <1>1, <1>2, BookingFrame

(* It updates the object, which keeps what it was allocated, or has been allocated *)
(* a host whose claim it holds.                                                     *)
LEMMA BookingUpdate ==
    ASSUME TypeOK, BookingInv, NEW i \in Instances,
           NEW step \in LiveSteps \union DeletingSteps, NEW o \in Objects, Update(i, step, o),
           step # "dropInventory",
           o.classed => \/ o.host = Stored(i).host /\ Stored(i).classed
                        \/ owner[o.host] = i
    PROVE  Holds(i)' /\ owner' = owner
  <1>1. /\ Stored(i)'.host = o.host /\ Stored(i)'.classed = o.classed
        /\ owner' = owner /\ pc[i] = step /\ Exists(Stored(i))
    BY UpdateStores
  <1>2. CASE Stored(i).classed /\ o.host = Stored(i).host
    BY <1>1, <1>2 DEF BookingInv, Holds
  <1>3. CASE owner[o.host] = i
    BY <1>1, <1>3 DEF Holds
  <1>4. CASE ~o.classed
    BY <1>1, <1>4 DEF Holds
  <1> QED
    BY <1>1, <1>2, <1>3, <1>4

LEMMA BookingUpdateReturn ==
    ASSUME TypeOK, LockInv, RecordInv, ClassInv, BookingInv, NEW i \in Instances,
           NEW step \in LiveSteps \union DeletingSteps, NEW o \in Objects, NEW status,
           Update(i, step, o), Return(i, status, FALSE), step # "dropInventory",
           o.classed => \/ o.host = Stored(i).host /\ Stored(i).classed
                        \/ owner[o.host] = i
    PROVE  BookingInv'
  <1>1. Holds(i)' /\ owner' = owner
    BY BookingUpdate
  <1>2. current' = current /\ \A j \in Instances \ {i} : versions'[j] = versions[j]
    BY UpdateStores
  <1>3. /\ pc'[i] = "status"
        /\ \A j \in Instances \ {i} : pc'[j] = pc[j] /\ obj'[j] = obj[j]
    BY DEF Return, TypeOK
  <1>4. WorkerHolds(i)'
    BY <1>3 DEF WorkerHolds, DeletingSteps, CleanupSteps, ReleaseSteps
  <1> QED
    BY <1>1, <1>2, <1>3, <1>4, BookingFrame

LEMMA BookingEnvironment ==
    ASSUME TypeOK, LockInv, ReleaseInv, RecordInv, ClassInv, BookingInv,
           faults = 0, faults' = 0, NEW i \in Instances, Environment(i) \/ Informer(i)
    PROVE  BookingInv'
  <1>0. /\ Stored(i) \in Objects /\ Holds(i) /\ WorkerHolds(i) /\ WorkerOK(i)
        /\ \A j \in Instances \ {i} :
              /\ versions'[j] = versions[j]
              /\ pc'[j] = pc[j] /\ obj'[j] = obj[j] /\ current'[j] = current[j]
    BY VersionTypes, OthersStay DEF BookingInv, ReleaseInv, WorkersOK
  <1>1. CASE Create(i)
    <2> DEFINE o == [NoObject EXCEPT !.life = "live"]
    <2>1. /\ o \in Objects /\ Publish(i, o) /\ UNCHANGED <<worker, owner>> /\ ~o.classed
      BY <1>1, NoObjectType, ObjectParts DEF Create, NoObject, inventory
    <2> HIDE DEF o
    <2>2. Stored(i)' = o
      BY <2>1, Published
    <2>3. Holds(i)' /\ WorkerHolds(i)'
      BY <1>0, <2>1, <2>2 DEF Holds, WorkerHolds, worker
    <2> QED
      BY <1>0, <2>1, <2>3, BookingFrame
  <1>2. CASE Delete(i)
    <2> DEFINE o == [Stored(i) EXCEPT !.life =
                        IF Stored(i).finalizers = {} THEN "gone" ELSE "deleting"]
    <2>1. /\ o \in Objects /\ Publish(i, o) /\ UNCHANGED <<pc, obj, owner>>
          /\ o.host = Stored(i).host /\ o.classed = Stored(i).classed
          /\ Stored(i).life = "live"
      BY <1>0, <1>2, ObjectParts DEF Delete, inventory, Objects
    <2> HIDE DEF o
    <2>2. Stored(i)' = o
      BY <2>1, Published
    <2>3. pc[i] \notin DeletingSteps
      BY <1>0, <2>1 DEF WorkerOK, WorkerHolds
    <2>4. Holds(i)' /\ WorkerHolds(i)'
      BY <1>0, <2>1, <2>2, <2>3 DEF Holds, WorkerHolds, Exists
    <2> QED
      BY <1>0, <2>1, <2>4, BookingFrame
  <1>3. ~EditByOther(i)
    BY DEF EditByOther
  <1>4. ~DeliverEvent(i)
    <2>1. Len(versions[i]) = 1 /\ ~(1 > 1)
      BY DEF RecordInv, Prompt
    <2> QED
      BY <2>1 DEF DeliverEvent
  <1>5. CASE FireTimer(i)
    <2>1. UNCHANGED <<versions, worker, owner>>
      BY <1>5 DEF FireTimer, inventory
    <2> QED
      BY <2>1 DEF BookingInv, Holds, WorkerHolds, Stored, worker
  <1> QED
    BY <1>1, <1>2, <1>3, <1>4, <1>5 DEF Environment, Informer

(* A reconcile begins with the object that is stored. *)
LEMMA BookingStart ==
    ASSUME TypeOK, LockInv, RecordInv, ClassInv, BookingInv, NEW i \in Instances, Start(i)
    PROVE  BookingInv'
  <1>0. \A j \in Instances \ {i} :
           /\ versions'[j] = versions[j]
           /\ pc'[j] = pc[j] /\ obj'[j] = obj[j] /\ current'[j] = current[j]
    BY OthersStay
  <1>1. UNCHANGED <<versions, owner>> /\ pc[i] = "idle"
    BY DEF Start, ReconcileMissing, ReconcileInventory, ReconcileManagement, HandleDeletion,
           Dequeue, inventory
  <1>2. Holds(i)'
    BY <1>1 DEF BookingInv, Holds, Stored
  <1>3. WorkerHolds(i)'
    <2>1. CASE ReconcileMissing(i)
      BY <1>1, <2>1 DEF ReconcileMissing, worker, BookingInv, WorkerHolds
    <2>2. ASSUME NEW status, NEW next, Begin(i, status, next), next # "setClass"
          PROVE  WorkerHolds(i)'
      <3>1. pc'[i] = next /\ current'[i]
        BY <2>2 DEF Begin, TypeOK, RecordInv, Prompt
      <3> QED
        BY <2>2, <3>1 DEF WorkerHolds
    <2>3. CASE ReconcileInventory(i) \/ ReconcileManagement(i) \/ HandleDeletion(i)
      BY <2>2, <2>3 DEF ReconcileInventory, ReconcileManagement, HandleDeletion,
         InventoryCleanup
    <2> QED
      BY <2>1, <2>3 DEF Start
  <1> QED
    BY <1>0, <1>1, <1>2, <1>3, BookingFrame

LEMMA BookingStep ==
    ASSUME TypeOK, LockInv, ClaimInv, ReleaseInv, RecordInv, ClassInv, BookingInv, Orderly,
           NEW i \in Instances, Step(i)
    PROVE  BookingInv'
  <1> USE DEF LiveSteps, DeletingSteps, CleanupSteps, ClaimSteps, ReleaseSteps, ClassedSteps
  <1>0. /\ obj[i] \in Objects /\ Stored(i) \in Objects /\ ClassOK(Stored(i))
        /\ WorkerRecords(i) /\ WorkerClass(i) /\ WorkerOK(i) /\ Holds(i) /\ WorkerHolds(i)
    BY VersionTypes DEF TypeOK, RecordInv, WorkersRecord, ClassInv, ReleaseInv, WorkersOK,
       BookingInv
  <1>a. \A j \in Instances \ {i} :
           /\ versions'[j] = versions[j]
           /\ pc'[j] = pc[j] /\ obj'[j] = obj[j] /\ current'[j] = current[j]
    BY OthersStay
  <1>b. pc[i] \in DeletingSteps => current[i] /\ Stored(i).life = "deleting"
    BY <1>0 DEF WorkerHolds, WorkerOK
  <1>1. CASE EndReconcile(i) \/ StatusConflict(i) \/ NoFreeHost(i) \/ TryLockFails(i)
             \/ ManageHost(i) \/ DeprovisionPending(i)
    BY <1>1, BookingReturn DEF EndReconcile, StatusConflict, NoFreeHost, TryLockFails,
       ManageHost, DeprovisionPending, Done, inventory
  <1>2. CASE UpdateRejected(i)
    <2>1. pc[i] # "dropInventory"
      BY <1>2, <1>b DEF UpdateRejected, Accepted, Exists
    <2> QED
      BY <1>2, <2>1, BookingReturn DEF UpdateRejected, Abort, inventory
  <1>3. CASE UpdateStatus(i)
    <2> DEFINE o == [Stored(i) EXCEPT !.status = obj[i].status]
    <2>1. /\ o \in Objects /\ Publish(i, o) /\ o.classed = Stored(i).classed
          /\ o.life = Stored(i).life /\ o.host = Stored(i).host
      BY <1>0, <1>3, ObjectParts DEF UpdateStatus, Objects
    <2> HIDE DEF o
    <2>2. pc[i] = "status" /\ pc'[i] = "idle" /\ owner' = owner
      BY <1>3 DEF UpdateStatus, Done, TypeOK, inventory
    <2>3. Stored(i)' = o
      BY <2>1, Published
    <2>4. Holds(i)' /\ WorkerHolds(i)'
      BY <1>0, <2>1, <2>2, <2>3 DEF Holds, WorkerHolds, Exists
    <2> QED
      BY <1>a, <2>2, <2>4, BookingFrame
  <1>4. CASE AddInventoryFinalizer(i) \/ AddManagementFinalizer(i)
    <2>1. PICK f, step, status :
             /\ f \in Finalizers /\ step \in {"addInventory", "addManagement"}
             /\ Update(i, step, [obj[i] EXCEPT !.finalizers = @ \union {f}])
             /\ Return(i, status, FALSE)
      BY <1>4 DEF AddInventoryFinalizer, AddManagementFinalizer, Finalizers
    <2> DEFINE o == [obj[i] EXCEPT !.finalizers = @ \union {f}]
    <2>2. o \in Objects /\ o.host = obj[i].host /\ o.classed = obj[i].classed
      <3>1. obj[i].finalizers \union {f} \in SUBSET Finalizers
        BY <1>0, <2>1, ObjectParts
      <3>2. o \in Objects
        BY <1>0, <3>1, ObjectParts
      <3>3. o.host = obj[i].host /\ o.classed = obj[i].classed
        BY <1>0 DEF Objects
      <3> QED
        BY <3>2, <3>3
    <2>3. pc[i] = step /\ step \in {"addInventory", "addManagement"}
      BY <2>1 DEF Update
    <2>4. o.host = Stored(i).host /\ o.classed = Stored(i).classed
      BY <1>0, <2>2, <2>3 DEF WorkerRecords, WorkerClass
    <2>5. /\ Update(i, step, o) /\ Return(i, status, FALSE)
          /\ step \in LiveSteps /\ step # "dropInventory"
      BY <2>1
    <2> HIDE DEF o
    <2> QED
      BY <2>2, <2>4, <2>5, BookingUpdateReturn
  <1>5. CASE FindFreeHost(i)
    <2>1. \A j \in Instances \ {i} : obj'[j] = obj[j]
      BY <1>5 DEF FindFreeHost, TypeOK
    <2> QED
      BY <1>5, <2>1, BookingGoOn DEF FindFreeHost, inventory
  <1>6. CASE SelectHost(i)
    <2>1. Update(i, "select", obj[i]) /\ pc[i] = "select"
      BY <1>6 DEF SelectHost, Update
    <2>2. ~obj[i].classed
      BY <1>0, <2>1 DEF WorkerClass
    <2> QED
      BY <1>0, <1>6, <2>1, <2>2, BookingUpdateReturn DEF SelectHost
  <1>7. CASE TryLock(i)
    <2>1. /\ \/ pc[i] = "lockForClaim" /\ pc' = [pc EXCEPT ![i] = "getForClaim"]
             \/ pc[i] = "lockForRelease" /\ pc' = [pc EXCEPT ![i] = "getForRelease"]
          /\ UNCHANGED <<versions, obj, current, owner>>
      BY <1>7 DEF TryLock, inventory
    <2> QED
      BY <2>1, BookingGoOn
  <1>8. CASE GetForClaim(i)
    <2>1. PICK next \in {"clearHost", "initLabels", "claim"} : pc' = [pc EXCEPT ![i] = next]
      BY <1>8 DEF GetForClaim
    <2>2. pc[i] = "getForClaim" /\ UNCHANGED <<versions, obj, current, owner>>
      BY <1>8 DEF GetForClaim, inventory
    <2> QED
      BY <2>1, <2>2, BookingGoOn
  <1>9. CASE InitLabels(i)
    <2>1. /\ pc[i] = "initLabels" /\ pc' = [pc EXCEPT ![i] = "claim"]
          /\ owner' = [owner EXCEPT ![obj[i].host] = NoInstance]
          /\ UNCHANGED <<versions, obj, current>>
      BY <1>9 DEF InitLabels
    <2>2. owner[obj[i].host] = NoInstance
      BY <2>1 DEF ClaimInv, ClaimStillFree
    <2>3. owner' = owner
      BY <2>1, <2>2 DEF TypeOK
    <2> QED
      BY <2>1, <2>3, BookingGoOn
  <1>10. CASE Claim(i)
    <2>1. /\ pc[i] = "claim" /\ pc'[i] = "setClass" /\ obj[i].host \in Hosts
          /\ owner' = [owner EXCEPT ![obj[i].host] = i]
          /\ UNCHANGED <<versions, obj, current>>
      BY <1>10 DEF Claim, Claimed, TypeOK, LockInv, WorkerHasHost, HostSteps
    <2>2. owner[obj[i].host] \in {NoInstance, i} /\ Locked(i)
      BY <2>1 DEF ClaimInv, ClaimStillFree, Locked
    <2>3. \A h \in Hosts : owner'[h] = IF h = obj[i].host THEN i ELSE owner[h]
      BY <2>1 DEF TypeOK
    <2>4. \A h \in Hosts : owner'[h] # owner[h] =>
             owner[h] \in {NoInstance, i} /\ Locked(i) /\ obj[i].host = h
      BY <2>2, <2>3
    <2>5. ~Stored(i).classed /\ Stored(i)' = Stored(i)
      BY <1>0, <2>1 DEF WorkerClass, Stored
    <2>6. Holds(i)' /\ WorkerHolds(i)'
      BY <2>1, <2>3, <2>5 DEF Holds, WorkerHolds
    <2> QED
      BY <1>a, <2>4, <2>6, BookingFrame
  <1>11. CASE SetHostClass(i)
    <2> DEFINE o == [obj[i] EXCEPT !.classed = TRUE]
    <2>1. /\ o \in Objects /\ Update(i, "setClass", o) /\ pc[i] = "setClass"
          /\ o.host = obj[i].host
      BY <1>0, <1>11, ObjectParts DEF SetHostClass, Update, Objects
    <2>2. owner[o.host] = i
      BY <1>0, <2>1 DEF WorkerHolds
    <2> HIDE DEF o
    <2> QED
      BY <1>11, <2>1, <2>2, BookingUpdateReturn DEF SetHostClass
  <1>12. CASE ClearHost(i)
    <2> DEFINE o == [obj[i] EXCEPT !.host = NoHost]
    <2>1. /\ o \in Objects /\ Update(i, "clearHost", o) /\ pc[i] = "clearHost"
          /\ o.classed = obj[i].classed
      BY <1>0, <1>12, ObjectParts DEF ClearHost, Update, Objects
    <2>2. ~o.classed
      BY <1>0, <2>1 DEF WorkerClass
    <2> HIDE DEF o
    <2> QED
      BY <1>12, <2>1, <2>2, BookingUpdateReturn DEF ClearHost
  <1>13. CASE DeprovisionDone(i)
    BY <1>13, BookingGoOn DEF DeprovisionDone, inventory
  <1>14. CASE DropManagementFinalizer(i)
    <2> DEFINE o == [obj[i] EXCEPT !.finalizers = @ \ {"management"}]
    <2>1. /\ o \in Objects /\ Update(i, "dropManagement", o) /\ pc[i] = "dropManagement"
          /\ pc' = [pc EXCEPT ![i] = InventoryCleanup(o)]
      BY <1>0, <1>14, ObjectParts DEF DropManagementFinalizer, Finalizers, Update
    <2>2. o.host = Stored(i).host /\ o.classed = Stored(i).classed
      BY <1>0, <2>1 DEF WorkerRecords, WorkerClass, Objects
    <2>3. InventoryCleanup(o) # "setClass"
      BY DEF InventoryCleanup
    <2> HIDE DEF o
    <2>4. Holds(i)' /\ owner' = owner
      BY <2>1, <2>2, BookingUpdate
    <2>5. current' = current /\ current[i]
      BY <2>1, UpdateStores
    <2>6. WorkerHolds(i)'
      BY <2>1, <2>3, <2>5 DEF WorkerHolds, TypeOK
    <2> QED
      BY <1>a, <2>4, <2>6, BookingFrame
  <1>15. CASE GetForRelease(i)
    <2>1. PICK next \in {"dropInventory", "release"} : pc' = [pc EXCEPT ![i] = next]
      BY <1>15 DEF GetForRelease
    <2>2. pc[i] = "getForRelease" /\ UNCHANGED <<versions, obj, current, owner>>
      BY <1>15 DEF GetForRelease, inventory
    <2> QED
      BY <2>1, <2>2, BookingGoOn
  <1>16. CASE Release(i)
    <2>1. /\ pc[i] = "release" /\ pc'[i] = "dropInventory" /\ obj[i].host \in Hosts
          /\ owner' = [owner EXCEPT ![obj[i].host] = NoInstance]
          /\ UNCHANGED <<versions, obj, current>>
      BY <1>16 DEF Release, Released, TypeOK, LockInv, WorkerHasHost, HostSteps
    <2>2. obj[i].host = Stored(i).host /\ Stored(i).life = "deleting" /\ current[i]
      BY <1>0, <1>b, <2>1 DEF WorkerRecords
    <2>3. Stored(i).classed
      BY <2>1, <2>2, NoHostAssumption DEF Orderly, DeletedWhileChoosing
    <2>4. owner[obj[i].host] = i /\ Locked(i)
      BY <1>0, <2>1, <2>2, <2>3 DEF Holds, Exists, Locked
    <2>5. \A h \in Hosts : owner'[h] = IF h = obj[i].host THEN NoInstance ELSE owner[h]
      BY <2>1 DEF TypeOK
    <2>6. \A h \in Hosts : owner'[h] # owner[h] =>
             owner[h] \in {NoInstance, i} /\ Locked(i) /\ obj[i].host = h
      BY <2>4, <2>5
    <2>7. Stored(i)' = Stored(i)
      BY <2>1 DEF Stored
    <2>8. Holds(i)' /\ WorkerHolds(i)'
      BY <2>1, <2>2, <2>5, <2>7 DEF Holds, WorkerHolds
    <2> QED
      BY <1>a, <2>6, <2>8, BookingFrame
  <1>17. CASE DropInventoryFinalizer(i)
    <2> DEFINE o == [obj[i] EXCEPT !.finalizers = @ \ {"inventory"}]
    <2>1. /\ o \in Objects /\ Update(i, "dropInventory", o) /\ pc[i] = "dropInventory"
      BY <1>0, <1>17, ObjectParts DEF DropInventoryFinalizer, Finalizers, Update
    <2>2. o.life = "deleting" /\ o.finalizers = {}
      BY <1>0, <2>1 DEF Objects, WorkerOK, Over, Finalizers
    <2> HIDE DEF o
    <2>3. Stored(i)'.life = "gone" /\ owner' = owner
      BY <2>1, <2>2, UpdateStores
    <2>4. pc'[i] = "status"
      BY <1>17 DEF DropInventoryFinalizer, Return, TypeOK
    <2>5. Holds(i)' /\ WorkerHolds(i)'
      BY <2>3, <2>4 DEF Holds, WorkerHolds, Exists
    <2> QED
      BY <1>a, <2>3, <2>5, BookingFrame
  <1> QED
    BY <1>1, <1>2, <1>3, <1>4, <1>5, <1>6, <1>7, <1>8, <1>9, <1>10, <1>11, <1>12,
       <1>13, <1>14, <1>15, <1>16, <1>17 DEF Step

LEMMA BookingInductive ==
    ASSUME IInv, ReleaseInv, RecordInv, ClassInv, BookingInv, [Next]_vars, Orderly'
    PROVE  BookingInv'
  <1>0. /\ TypeOK /\ LockInv /\ ClaimInv
        /\ Orderly /\ faults = 0 /\ faults' = 0
    BY OrderlyBefore DEF IInv
  <1>1. CASE UNCHANGED vars
    BY <1>1 DEF vars, BookingInv, Holds, WorkerHolds, Stored
  <1>2. CASE Restart
    BY <1>0, <1>2 DEF Restart
  <1>3. ASSUME NEW i \in Instances, Environment(i) \/ Informer(i) \/ Start(i) \/ Step(i)
        PROVE  BookingInv'
    BY <1>0, <1>3, BookingEnvironment, BookingStart, BookingStep
  <1>4. ASSUME NEW i \in Instances, Fault(i)
        PROVE  BookingInv'
    <2>1. ClaimConflict(i)
      BY <1>0, <1>4, FaultsCount
    <2> QED
      BY <1>0, <2>1, BookingReturn DEF ClaimConflict, Abort, inventory
  <1> QED
    BY <1>1, <1>2, <1>3, <1>4 DEF Next

(* Two holders of one host are one, and two that have just released it have both *)
(* locked it.                                                                     *)
LEMMA BookingIsSafe ==
    ASSUME TypeOK, LockInv, RecordInv, ClassInv, BookingInv
    PROVE  NoDoubleBooking /\ ManagesOnlyOwnHost
  <1>1. NoDoubleBooking
    <2> SUFFICES ASSUME NEW i \in Instances, NEW j \in Instances,
                        Exists(Stored(i)), Stored(i).classed,
                        Exists(Stored(j)), Stored(j).classed,
                        Stored(i).host = Stored(j).host
                 PROVE  i = j
      BY DEF NoDoubleBooking
    <2>1. /\ Holds(i) /\ Holds(j) /\ Stored(i).host \in Hosts
          /\ WorkerRecords(i) /\ WorkerRecords(j)
      BY DEF BookingInv, ClassInv, ClassOK, RecordInv, WorkersRecord
    <2>2. CASE owner[Stored(i).host] # NoInstance
      BY <2>1, <2>2 DEF Holds
    <2>3. CASE owner[Stored(i).host] = NoInstance
      <3>1. pc[i] = "dropInventory" /\ pc[j] = "dropInventory"
        BY <2>1, <2>3, NoInstanceAssumption DEF Holds
      <3>2. obj[i].host = Stored(i).host /\ obj[j].host = Stored(i).host
        BY <2>1, <3>1 DEF WorkerRecords, DeletingSteps, CleanupSteps
      <3>3. Locked(i) /\ Locked(j)
        BY <2>1, <3>1, <3>2, NoHostAssumption DEF Locked
      <3> QED
        BY <3>2, <3>3 DEF LockInv, LockExclusion
    <2> QED
      BY <2>2, <2>3
  <1>2. ManagesOnlyOwnHost
    <2> SUFFICES ASSUME NEW i \in Instances, pc[i] \in {"manage", "deprovision"}
                 PROVE  owner[obj[i].host] = i
      BY DEF ManagesOnlyOwnHost
    <2>1. /\ Holds(i) /\ WorkerRecords(i) /\ WorkerClass(i) /\ ClassOK(Stored(i))
          /\ Stored(i) \in Objects
      BY VersionTypes DEF BookingInv, ClassInv, RecordInv, WorkersRecord
    <2>2. /\ Stored(i).life # "unborn" /\ obj[i].host = Stored(i).host
          /\ "management" \in Stored(i).finalizers
      BY <2>1 DEF WorkerRecords, WorkerClass, ManagedSteps, LiveSteps, DeletingSteps
    <2>3. Exists(Stored(i))
      BY <2>1, <2>2 DEF RecordInv, GoneIsEmpty, Exists, Objects
    <2> QED
      BY <2>1, <2>2, <2>3 DEF Holds, ClassOK
  <1> QED
    BY <1>1, <1>2

THEOREM BookingInvariant ==
    Spec => []((lag = 0 => ClassInv) /\ (Orderly => BookingInv))
  <1>1. Init => ClassInv /\ BookingInv
    <2> SUFFICES ASSUME Init PROVE ClassInv /\ BookingInv
      OBVIOUS
    <2>1. \A j \in Instances : versions[j] = <<NoObject>> /\ pc[j] = "idle"
      BY DEF Init
    <2>2. \A j \in Instances : Stored(j) = NoObject
      BY <2>1, OneVersion DEF Stored
    <2>3. \A j \in Instances : WorkerClass(j)
      BY <2>1, ClassIdle
    <2>4. ClassInv
      BY <2>2, <2>3 DEF ClassInv, ClassOK, NoObject
    <2>5. BookingInv
      BY <2>1, <2>2 DEF BookingInv, Holds, WorkerHolds, Exists, NoObject, DeletingSteps,
         CleanupSteps, ReleaseSteps
    <2> QED
      BY <2>4, <2>5
  <1>2. IInv /\ ReleaseInv /\ (lag = 0 => RecordInv) /\ (lag = 0 => ClassInv)
          /\ (Orderly => BookingInv) /\ [Next]_vars
        => (lag = 0 => ClassInv)' /\ (Orderly => BookingInv)'
    <2> SUFFICES ASSUME IInv, ReleaseInv, lag = 0 => RecordInv, lag = 0 => ClassInv,
                        Orderly => BookingInv, [Next]_vars
                 PROVE  (lag = 0 => ClassInv)' /\ (Orderly => BookingInv)'
      OBVIOUS
    <2>1. lag' = lag /\ TypeOK
      BY DEF Next, vars, IInv
    <2>2. (lag = 0 => ClassInv)'
      BY <2>1, ClassInductive
    <2>3. ASSUME Orderly'
          PROVE  BookingInv'
      <3>1. lag = 0
        BY <2>1, <2>3 DEF Orderly
      <3>2. Orderly
        BY <2>1, <2>3, <3>1, OrderlyBefore
      <3> QED
        BY <2>3, <3>1, <3>2, BookingInductive
    <2> QED
      BY <2>2, <2>3
  <1> QED
    BY <1>1, <1>2, Invariant, ReleaseInvariant, RecordInvariant, PTL DEF Spec

LEMMA OrderlyIsSafe ==
    ASSUME IInv, lag = 0 => RecordInv, lag = 0 => ClassInv, Orderly => BookingInv
    PROVE  BookedOnce /\ HolderManages
  <1>1. Orderly => lag = 0
    BY DEF Orderly
  <1> QED
    BY <1>1, BookingIsSafe DEF IInv, BookedOnce, HolderManages

(* metal3.go:244 says the claim "prevents double-booking", and it does: however   *)
(* many instances choose one host, however many workers handle them, one of them *)
(* is allocated it until it has released it.                                      *)
THEOREM BookedOnceHolds == Spec => []BookedOnce
  <1>1. IInv /\ (lag = 0 => RecordInv) /\ (lag = 0 => ClassInv) /\ (Orderly => BookingInv)
        => BookedOnce
    BY OrderlyIsSafe
  <1> QED
    BY <1>1, Invariant, RecordInvariant, BookingInvariant, PTL

(* reconcileManagement and the deprovisioning act on the host of externalHostID: *)
(* it is claimed by the instance they act for.                                   *)
THEOREM HolderManagesHolds == Spec => []HolderManages
  <1>1. IInv /\ (lag = 0 => RecordInv) /\ (lag = 0 => ClassInv) /\ (Orderly => BookingInv)
        => HolderManages
    BY OrderlyIsSafe
  <1> QED
    BY <1>1, Invariant, RecordInvariant, BookingInvariant, PTL
-------------------------------------------------------------------------------
(* Labels.  What a step may do to the stored object of an instance: it is never    *)
(* revived, disappears with its last finalizer, and only its worker takes its      *)
(* host, in clearHost, or its inventory finalizer, in dropInventory.               *)
Evolves(o, p, step) ==
    /\ o.life # "unborn" => p.life \in {"live", "deleting", "gone"}
    /\ o.life \in {"deleting", "gone"} => p.life \in {"deleting", "gone"}
    /\ p.life = "gone" => o.life = "gone" \/ p.finalizers = {}
    /\ Exists(o) => p.host = o.host \/ step \in {"select", "clearHost"}
    /\ Exists(o) /\ "inventory" \in o.finalizers =>
          "inventory" \in p.finalizers \/ step = "dropInventory"

LEMMA UpdateEvolves ==
    ASSUME TypeOK, ReleaseInv, RecordInv, NEW i \in Instances,
           NEW step \in LiveSteps \union DeletingSteps, NEW o \in Objects,
           Update(i, step, o), o.life = obj[i].life,
           o.host # obj[i].host => step = "clearHost",
           "inventory" \in obj[i].finalizers =>
              "inventory" \in o.finalizers \/ step = "dropInventory"
    PROVE  Evolves(Stored(i), Stored(i)', pc[i])
  <1>1. /\ Stored(i)'.host = o.host /\ Stored(i)'.finalizers = o.finalizers
        /\ Stored(i)'.life = IF o.life = "deleting" /\ o.finalizers = {} THEN "gone" ELSE o.life
        /\ current[i] /\ pc[i] = step /\ Exists(Stored(i))
    BY UpdateStores
  <1>2. WorkerOK(i) /\ WorkerRecords(i)
    BY DEF ReleaseInv, WorkersOK, RecordInv, WorkersRecord
  <1>3. obj[i].life = Stored(i).life /\ obj[i].finalizers = Stored(i).finalizers
    BY <1>1, <1>2 DEF WorkerOK
  <1>4. step # "select" => obj[i].host = Stored(i).host
    BY <1>1, <1>2 DEF WorkerRecords
  <1> QED
    BY <1>1, <1>3, <1>4 DEF Evolves, Exists

LEMMA StepEvolves ==
    ASSUME TypeOK, ReleaseInv, RecordInv, NEW i \in Instances, Step(i)
    PROVE  Evolves(Stored(i), Stored(i)', pc[i])
  <1> USE DEF LiveSteps, DeletingSteps, CleanupSteps
  <1>0. Stored(i) \in Objects /\ obj[i] \in Objects
    BY VersionTypes DEF TypeOK
  <1>1. CASE \/ EndReconcile(i) \/ StatusConflict(i) \/ UpdateRejected(i)
             \/ FindFreeHost(i) \/ NoFreeHost(i) \/ TryLock(i) \/ TryLockFails(i)
             \/ GetForClaim(i) \/ InitLabels(i) \/ Claim(i) \/ ManageHost(i)
             \/ DeprovisionPending(i) \/ DeprovisionDone(i) \/ GetForRelease(i)
             \/ Release(i)
    <2>1. UNCHANGED versions
      BY <1>1 DEF EndReconcile, StatusConflict, UpdateRejected, Abort, FindFreeHost,
         NoFreeHost, TryLock, TryLockFails, GetForClaim, InitLabels, Claim, ManageHost,
         DeprovisionPending, DeprovisionDone, GetForRelease, Release
    <2>2. Stored(i)' = Stored(i)
      BY <2>1 DEF Stored
    <2> QED
      BY <1>0, <2>2 DEF Evolves, Objects
  <1>2. CASE UpdateStatus(i)
    <2> DEFINE o == [Stored(i) EXCEPT !.status = obj[i].status]
    <2>1. /\ o \in Objects /\ Publish(i, o) /\ o.finalizers = Stored(i).finalizers
          /\ o.life = Stored(i).life /\ o.host = Stored(i).host
      BY <1>0, <1>2, ObjectParts DEF UpdateStatus, Objects
    <2> HIDE DEF o
    <2>2. Stored(i)' = o
      BY <2>1, Published
    <2> QED
      BY <1>0, <2>1, <2>2 DEF Evolves, Objects
  <1>3. CASE SelectHost(i)
    BY <1>0, <1>3, UpdateEvolves DEF SelectHost
  <1>4. CASE AddInventoryFinalizer(i) \/ AddManagementFinalizer(i)
    <2>1. PICK f \in Finalizers, step \in {"addInventory", "addManagement"} :
             Update(i, step, [obj[i] EXCEPT !.finalizers = @ \union {f}])
      BY <1>4 DEF AddInventoryFinalizer, AddManagementFinalizer, Finalizers
    <2> DEFINE o == [obj[i] EXCEPT !.finalizers = @ \union {f}]
    <2>2. obj[i].finalizers \union {f} \in SUBSET Finalizers
      BY <1>0, ObjectParts
    <2>3. o \in Objects
      BY <1>0, <2>2, ObjectParts
    <2>4. /\ o.life = obj[i].life /\ o.host = obj[i].host
          /\ o.finalizers = obj[i].finalizers \union {f}
      BY <1>0 DEF Objects
    <2>5. Update(i, step, o) /\ step \in LiveSteps
      BY <2>1
    <2> HIDE DEF o
    <2> QED
      BY <2>3, <2>4, <2>5, UpdateEvolves
  <1>5. CASE SetHostClass(i)
    <2> DEFINE o == [obj[i] EXCEPT !.classed = TRUE]
    <2>1. /\ Update(i, "setClass", o) /\ o \in Objects /\ o.life = obj[i].life
          /\ o.host = obj[i].host /\ o.finalizers = obj[i].finalizers
      BY <1>0, <1>5, ObjectParts DEF SetHostClass, Objects
    <2> HIDE DEF o
    <2> QED
      BY <2>1, UpdateEvolves
  <1>6. CASE ClearHost(i)
    <2> DEFINE o == [obj[i] EXCEPT !.host = NoHost]
    <2>1. /\ Update(i, "clearHost", o) /\ o \in Objects /\ o.life = obj[i].life
          /\ o.finalizers = obj[i].finalizers
      BY <1>0, <1>6, ObjectParts DEF ClearHost, Objects
    <2> HIDE DEF o
    <2> QED
      BY <2>1, UpdateEvolves
  <1>7. CASE DropManagementFinalizer(i) \/ DropInventoryFinalizer(i)
    <2>1. PICK f \in Finalizers, step \in {"dropManagement", "dropInventory"} :
             /\ Update(i, step, [obj[i] EXCEPT !.finalizers = @ \ {f}])
             /\ f = "inventory" => step = "dropInventory"
      BY <1>7 DEF DropManagementFinalizer, DropInventoryFinalizer, Finalizers
    <2> DEFINE o == [obj[i] EXCEPT !.finalizers = @ \ {f}]
    <2>2. obj[i].finalizers \ {f} \in SUBSET Finalizers
      BY <1>0, ObjectParts
    <2>3. o \in Objects
      BY <1>0, <2>2, ObjectParts
    <2>4. /\ o.life = obj[i].life /\ o.host = obj[i].host
          /\ o.finalizers = obj[i].finalizers \ {f}
      BY <1>0 DEF Objects
    <2>5. Update(i, step, o) /\ step \in DeletingSteps
      BY <2>1
    <2> HIDE DEF o
    <2> QED
      BY <2>1, <2>3, <2>4, <2>5, UpdateEvolves
  <1> QED
    BY <1>1, <1>2, <1>3, <1>4, <1>5, <1>6, <1>7 DEF Step

LEMMA ObjectEvolves ==
    ASSUME TypeOK, ReleaseInv, RecordInv, [Next]_vars, NEW j \in Instances
    PROVE  Evolves(Stored(j), Stored(j)', pc[j])
  <1>0. Stored(j) \in Objects
    BY VersionTypes
  <1>1. ASSUME Stored(j)' = Stored(j)
        PROVE  Evolves(Stored(j), Stored(j)', pc[j])
    BY <1>0, <1>1 DEF Evolves, Objects
  <1>2. ASSUME versions'[j] = versions[j]
        PROVE  Evolves(Stored(j), Stored(j)', pc[j])
    BY <1>1, <1>2 DEF Stored
  <1>3. CASE UNCHANGED vars
    BY <1>2, <1>3 DEF vars
  <1>4. CASE Restart
    <2>1. versions'[j] = <<Stored(j)>>
      BY <1>4 DEF Restart
    <2> QED
      BY <1>1, <2>1, OneVersion DEF Stored
  <1>5. ASSUME NEW i \in Instances \ {j},
               Environment(i) \/ Informer(i) \/ Start(i) \/ Step(i) \/ Fault(i)
        PROVE  Evolves(Stored(j), Stored(j)', pc[j])
    BY <1>2, <1>5, OthersStay
  <1>6. CASE Environment(j) \/ Informer(j)
    <2>1. CASE Create(j)
      <3> DEFINE o == [NoObject EXCEPT !.life = "live"]
      <3>1. o \in Objects /\ Publish(j, o) /\ o.life = "live" /\ Stored(j).life = "unborn"
        BY <2>1, NoObjectType, ObjectParts DEF Create, NoObject
      <3> HIDE DEF o
      <3>2. Stored(j)' = o
        BY <3>1, Published
      <3> QED
        BY <3>1, <3>2 DEF Evolves, Exists
    <2>2. CASE Delete(j)
      <3> DEFINE o == [Stored(j) EXCEPT !.life =
                          IF Stored(j).finalizers = {} THEN "gone" ELSE "deleting"]
      <3>1. o \in Objects /\ Publish(j, o)
        BY <1>0, <2>2, ObjectParts DEF Delete
      <3>2. /\ o.host = Stored(j).host /\ o.finalizers = Stored(j).finalizers
            /\ o.life \in {"deleting", "gone"} /\ (o.life = "gone" => o.finalizers = {})
        BY <1>0 DEF Objects
      <3> HIDE DEF o
      <3>3. Stored(j)' = o
        BY <3>1, Published
      <3> QED
        BY <3>2, <3>3 DEF Evolves
    <2>3. CASE EditByOther(j)
      <3>1. Publish(j, Stored(j))
        BY <2>3 DEF EditByOther
      <3> QED
        BY <1>0, <1>1, <3>1, Published
    <2>4. CASE DeliverEvent(j)
      <3>1. Len(versions[j]) > 1 /\ Len(versions[j]) = 1
        BY <2>4 DEF DeliverEvent, RecordInv, Prompt
      <3>2. ~(1 > 1)
        OBVIOUS
      <3> QED
        BY <3>1, <3>2
    <2>5. CASE FireTimer(j)
      BY <1>2, <2>5 DEF FireTimer
    <2> QED
      BY <1>6, <2>1, <2>2, <2>3, <2>4, <2>5 DEF Environment, Informer
  <1>7. CASE Start(j) \/ Fault(j)
    <2>1. UNCHANGED versions
      BY <1>7 DEF Start, ReconcileMissing, ReconcileInventory, ReconcileManagement,
         HandleDeletion, Dequeue, Fault, RequestFails, StatusRequestFails, ClaimConflict,
         ClaimReplyLost, ReleaseReplyLost, Reconnect, Abort
    <2> QED
      BY <1>2, <2>1
  <1>8. CASE Step(j)
    BY <1>8, StepEvolves
  <1> QED
    BY <1>3, <1>4, <1>5, <1>6, <1>7, <1>8 DEF Next

(* An instance whose deletion has begun and whose worker knows, or is not at work: *)
(* it claims nothing any more.                                                      *)
Past(j) == Stored(j).life \in {"deleting", "gone"} /\ pc[j] \notin LiveSteps

LEMMA LiveBefore ==
    ASSUME TypeOK, RecordInv, [Next]_vars, NEW j \in Instances, pc'[j] \in LiveSteps
    PROVE  pc[j] \in LiveSteps \/ Stored(j).life = "live"
  <1> USE DEF TypeOK, LiveSteps, CleanupSteps, ClaimSteps, ReleaseSteps
  <1>1. CASE UNCHANGED vars
    BY <1>1 DEF vars
  <1>2. CASE Restart
    BY <1>2 DEF Restart
  <1>3. ASSUME NEW i \in Instances \ {j},
               Environment(i) \/ Informer(i) \/ Start(i) \/ Step(i) \/ Fault(i)
        PROVE  pc'[j] = pc[j]
    BY <1>3, OthersStay
  <1>4. CASE Environment(j) \/ Informer(j)
    BY <1>4 DEF Environment, Informer, Create, Delete, EditByOther, DeliverEvent, FireTimer,
       worker
  <1>5. CASE Start(j)
    <2>1. Cached(j) = Stored(j)
      BY DEF RecordInv, Prompt, Cached, Stored
    <2>2. CASE HandleDeletion(j)
      BY <2>2 DEF HandleDeletion, Begin, InventoryCleanup
    <2>3. CASE ReconcileMissing(j)
      BY <2>3 DEF ReconcileMissing, worker
    <2> QED
      BY <1>5, <2>1, <2>2, <2>3 DEF Start, ReconcileInventory, ReconcileManagement
  <1>6. CASE Fault(j)
    BY <1>6 DEF Fault, RequestFails, StatusRequestFails, ClaimConflict, ClaimReplyLost,
       ReleaseReplyLost, Reconnect, Abort, Return, Done
  <1>7. CASE Step(j)
    <2>1. CASE \/ EndReconcile(j) \/ UpdateStatus(j) \/ StatusConflict(j)
               \/ UpdateRejected(j) \/ NoFreeHost(j) \/ TryLockFails(j) \/ ManageHost(j)
               \/ DeprovisionPending(j) \/ AddInventoryFinalizer(j) \/ SelectHost(j)
               \/ SetHostClass(j) \/ ClearHost(j) \/ AddManagementFinalizer(j)
               \/ DropInventoryFinalizer(j)
      BY <2>1 DEF EndReconcile, UpdateStatus, StatusConflict, UpdateRejected, NoFreeHost,
         TryLockFails, ManageHost, DeprovisionPending, AddInventoryFinalizer, SelectHost,
         SetHostClass, ClearHost, AddManagementFinalizer, DropInventoryFinalizer,
         Done, Abort, Return
    <2>2. CASE \/ FindFreeHost(j) \/ TryLock(j) \/ GetForClaim(j) \/ InitLabels(j)
               \/ Claim(j) \/ DeprovisionDone(j) \/ GetForRelease(j) \/ Release(j)
      BY <2>2 DEF FindFreeHost, TryLock, GetForClaim, InitLabels, Claim, DeprovisionDone,
         GetForRelease, Release
    <2>3. CASE DropManagementFinalizer(j)
      BY <2>3 DEF DropManagementFinalizer, InventoryCleanup
    <2> QED
      BY <1>7, <2>1, <2>2, <2>3 DEF Step
  <1> QED
    BY <1>1, <1>2, <1>3, <1>4, <1>5, <1>6, <1>7 DEF Next

LEMMA PastStays ==
    ASSUME TypeOK, ReleaseInv, RecordInv, [Next]_vars, NEW j \in Instances, Past(j)
    PROVE  Past(j)'
  <1>1. Evolves(Stored(j), Stored(j)', pc[j])
    BY ObjectEvolves
  <1>2. pc'[j] \notin LiveSteps
    BY LiveBefore DEF Past
  <1> QED
    BY <1>1, <1>2 DEF Evolves, Past

(* A worker writes the inventory under the lock of its host, and writes no object *)
(* in that step.                                                                    *)
LEMMA WorkerWrites ==
    ASSUME IInv, NEW i \in Instances, Step(i) \/ Fault(i)
    PROVE  \/ UNCHANGED <<owner, labels>>
           \/ /\ Locked(i) /\ obj[i].host \in Hosts /\ UNCHANGED versions
              /\ \/ InitLabels(i)
                 \/ pc[i] = "claim" /\ Claimed(i)
                 \/ Released(i)
  <1> USE DEF ClaimSteps, ReleaseSteps
  <1>0. pc[i] \in {"initLabels", "claim", "release"} => Locked(i) /\ obj[i].host \in Hosts
    BY DEF IInv, LockInv, WorkerHasHost, HostSteps, Locked
  <1>1. CASE InitLabels(i)
    BY <1>0, <1>1 DEF InitLabels
  <1>2. CASE pc[i] = "claim" /\ Claimed(i)
    <2>1. UNCHANGED versions
      BY <1>2 DEF Step, Fault, EndReconcile, UpdateStatus, StatusConflict,
         UpdateRejected, RequestFails, StatusRequestFails, ClaimConflict, Abort,
         ClaimReplyLost, ReleaseReplyLost, Reconnect, AddInventoryFinalizer, FindFreeHost,
         NoFreeHost, SelectHost, TryLock, TryLockFails, GetForClaim, InitLabels, Claim,
         SetHostClass, ClearHost, AddManagementFinalizer, ManageHost, DeprovisionPending,
         DeprovisionDone, DropManagementFinalizer, GetForRelease, Release,
         DropInventoryFinalizer, Update
    <2> QED
      BY <1>0, <1>2, <2>1
  <1>3. CASE Released(i)
    <2>1. pc[i] = "release"
      BY <1>3 DEF Released
    <2>2. UNCHANGED versions
      BY <2>1 DEF Step, Fault, EndReconcile, UpdateStatus, StatusConflict,
         UpdateRejected, RequestFails, StatusRequestFails, ClaimConflict, Abort,
         ClaimReplyLost, ReleaseReplyLost, Reconnect, AddInventoryFinalizer, FindFreeHost,
         NoFreeHost, SelectHost, TryLock, TryLockFails, GetForClaim, InitLabels, Claim,
         SetHostClass, ClearHost, AddManagementFinalizer, ManageHost, DeprovisionPending,
         DeprovisionDone, DropManagementFinalizer, GetForRelease, Release,
         DropInventoryFinalizer, Update
    <2> QED
      BY <1>0, <1>3, <2>1, <2>2
  <1>4. CASE ~(InitLabels(i) \/ (pc[i] = "claim" /\ Claimed(i)) \/ Released(i))
    BY <1>4 DEF Step, Fault, EndReconcile, UpdateStatus, StatusConflict, Done,
       UpdateRejected, RequestFails, StatusRequestFails, ClaimConflict,
       ClaimReplyLost, ReleaseReplyLost, Reconnect,
       AddInventoryFinalizer, FindFreeHost, NoFreeHost, SelectHost, TryLock,
       TryLockFails, GetForClaim, Claim, SetHostClass, ClearHost,
       AddManagementFinalizer, ManageHost, DeprovisionPending, DeprovisionDone,
       DropManagementFinalizer, GetForRelease, Release, DropInventoryFinalizer, Update,
       inventory
  <1> QED
    BY <1>1, <1>2, <1>3, <1>4

LEMMA OnlyLockedChanges ==
    ASSUME IInv, NEW i \in Instances,
           Environment(i) \/ Informer(i) \/ Start(i) \/ Step(i) \/ Fault(i),
           NEW h \in Hosts, ~(Locked(i) /\ obj[i].host = h)
    PROVE  owner'[h] = owner[h] /\ labels'[h] = labels[h]
  <1>0. TypeOK
    BY DEF IInv
  <1>1. CASE Environment(i) \/ Informer(i) \/ Start(i)
    BY <1>1 DEF Environment, Informer, Create, Delete, EditByOther, DeliverEvent, FireTimer,
       Start, ReconcileMissing, ReconcileInventory, ReconcileManagement, HandleDeletion,
       Dequeue, inventory
  <1>2. CASE Step(i) \/ Fault(i)
    <2>1. CASE UNCHANGED <<owner, labels>>
      BY <2>1
    <2>2. CASE ~UNCHANGED <<owner, labels>>
      <3>1. /\ Locked(i)
            /\ InitLabels(i) \/ (pc[i] = "claim" /\ Claimed(i)) \/ Released(i)
        BY <1>2, <2>2, WorkerWrites
      <3>2. obj[i].host # h
        BY <3>1
      <3> QED
        BY <1>0, <3>1, <3>2 DEF InitLabels, Claimed, Released, TypeOK
    <2> QED
      BY <2>1, <2>2
  <1> QED
    BY <1>1, <1>2

(* A host is given up for another one's claim on it, and the inventory finalizer of *)
(* an instance with a host is dropped when its labels are gone.                      *)
GivesUp(i) ==
    /\ pc[i] = "clearHost" => owner[obj[i].host] \notin {NoInstance, i}
    /\ pc[i] = "dropInventory" /\ obj[i].host # NoHost =>
          labels[obj[i].host] \intersect InventoryLabels[i] = {}

GivingUp == \A i \in Instances : GivesUp(i)

LEMMA GivesUpStep ==
    ASSUME IInv, NEW i \in Instances, Step(i)
    PROVE  GivesUp(i)'
  <1> USE DEF GivesUp
  <1>0. TypeOK
    BY DEF IInv
  <1>1. CASE \/ EndReconcile(i) \/ UpdateStatus(i) \/ StatusConflict(i)
             \/ UpdateRejected(i) \/ NoFreeHost(i) \/ TryLockFails(i) \/ ManageHost(i)
             \/ DeprovisionPending(i) \/ AddInventoryFinalizer(i) \/ SelectHost(i)
             \/ SetHostClass(i) \/ ClearHost(i) \/ AddManagementFinalizer(i)
             \/ DropInventoryFinalizer(i)
    <2>1. pc'[i] \in {"idle", "status"}
      BY <1>0, <1>1 DEF EndReconcile, UpdateStatus, StatusConflict, UpdateRejected, NoFreeHost,
         TryLockFails, ManageHost, DeprovisionPending, AddInventoryFinalizer, SelectHost,
         SetHostClass, ClearHost, AddManagementFinalizer, DropInventoryFinalizer,
         Done, Abort, Return, TypeOK
    <2> QED
      BY <2>1
  <1>2. CASE \/ FindFreeHost(i) \/ TryLock(i) \/ InitLabels(i) \/ Claim(i)
             \/ DeprovisionDone(i)
    <2>1. pc'[i] \notin {"clearHost", "dropInventory"}
      BY <1>0, <1>2 DEF FindFreeHost, TryLock, InitLabels, Claim, DeprovisionDone, TypeOK
    <2> QED
      BY <2>1
  <1>3. CASE GetForClaim(i)
    <2>1. /\ UNCHANGED <<obj, owner>> /\ pc'[i] # "dropInventory"
          /\ pc'[i] = "clearHost" => owner[obj[i].host] \notin {NoInstance, i}
      BY <1>0, <1>3 DEF GetForClaim, inventory, TypeOK
    <2> QED
      BY <2>1
  <1>4. CASE DropManagementFinalizer(i)
    <2> DEFINE o == [obj[i] EXCEPT !.finalizers = @ \ {"management"}]
    <2>1. /\ pc'[i] = InventoryCleanup(o)
          /\ obj'[i] = [o EXCEPT !.status = StatusAfterUpdate(i)]
      BY <1>0, <1>4 DEF DropManagementFinalizer, TypeOK
    <2>2. obj'[i].host = o.host
      BY <1>0, <2>1 DEF TypeOK, Objects
    <2>3. pc'[i] # "clearHost" /\ (pc'[i] = "dropInventory" => o.host = NoHost)
      BY <2>1 DEF InventoryCleanup
    <2> QED
      BY <2>2, <2>3
  <1>5. CASE GetForRelease(i)
    <2>1. /\ UNCHANGED <<obj, labels>> /\ pc'[i] # "clearHost"
          /\ pc'[i] = "dropInventory" => labels[obj[i].host] \intersect InventoryLabels[i] = {}
      BY <1>0, <1>5 DEF GetForRelease, inventory, TypeOK
    <2> QED
      BY <2>1
  <1>6. CASE Release(i)
    <2>1. /\ UNCHANGED obj /\ pc'[i] = "dropInventory" /\ obj[i].host \in Hosts
          /\ labels' = [labels EXCEPT ![obj[i].host] = @ \ InventoryLabels[i]]
      BY <1>0, <1>6 DEF Release, Released, TypeOK, IInv, LockInv, WorkerHasHost, HostSteps,
         ReleaseSteps
    <2>2. labels'[obj[i].host] \intersect InventoryLabels[i] = {}
      BY <1>0, <2>1 DEF TypeOK
    <2> QED
      BY <2>1, <2>2
  <1> QED
    BY <1>1, <1>2, <1>3, <1>4, <1>5, <1>6 DEF Step

LEMMA GivingUpInductive ==
    ASSUME IInv, GivingUp, [Next]_vars
    PROVE  GivingUp'
  <1>0. TypeOK
    BY DEF IInv
  <1>1. CASE UNCHANGED vars
    BY <1>1 DEF vars, GivingUp, GivesUp
  <1>2. CASE Restart
    BY <1>2 DEF Restart, GivingUp, GivesUp
  <1>3. ASSUME NEW i \in Instances,
               Environment(i) \/ Informer(i) \/ Start(i) \/ Step(i) \/ Fault(i)
        PROVE  GivingUp'
    <2>1. ASSUME NEW j \in Instances \ {i}
          PROVE  GivesUp(j)'
      <3>1. pc'[j] = pc[j] /\ obj'[j] = obj[j]
        BY <1>0, <1>3, OthersStay
      <3>2. CASE pc[j] \in {"clearHost", "dropInventory"} /\ obj[j].host \in Hosts
        <4> DEFINE h == obj[j].host
        <4>1. Locked(j)
          BY <3>2, NoHostAssumption DEF Locked
        <4>2. ~(Locked(i) /\ obj[i].host = h)
          BY <4>1 DEF IInv, LockInv, LockExclusion
        <4>3. h \in Hosts
          BY <3>2
        <4> HIDE DEF h
        <4>4. owner'[h] = owner[h] /\ labels'[h] = labels[h]
          BY <1>3, <4>2, <4>3, OnlyLockedChanges
        <4> QED
          BY <3>1, <4>4 DEF GivingUp, GivesUp, h
      <3>3. CASE ~(pc[j] \in {"clearHost", "dropInventory"} /\ obj[j].host \in Hosts)
        <4>1. pc[j] = "clearHost" => obj[j].host \in Hosts
          BY DEF IInv, LockInv, WorkerHasHost, HostSteps
        <4>2. obj[j].host \in Hosts \union {NoHost}
          BY <1>0 DEF TypeOK, Objects
        <4> QED
          BY <3>1, <3>3, <4>1, <4>2 DEF GivesUp
      <3> QED
        BY <3>2, <3>3
    <2>2. CASE Environment(i) \/ Informer(i)
      <3>1. UNCHANGED <<pc, obj, owner, labels>>
        BY <2>2 DEF Environment, Informer, Create, Delete, EditByOther, DeliverEvent,
           FireTimer, worker, inventory
      <3> QED
        BY <3>1 DEF GivingUp, GivesUp
    <2>3. CASE Start(i)
      <3>1. CASE ReconcileMissing(i)
        BY <3>1 DEF ReconcileMissing, Dequeue, worker, inventory, GivingUp, GivesUp
      <3>2. ASSUME NEW status, NEW next, Begin(i, status, next), next # "clearHost",
                   next = "dropInventory" => Cached(i).host = NoHost
            PROVE  GivesUp(i)'
        <4>1. pc'[i] = next /\ obj'[i] = [Cached(i) EXCEPT !.status = status]
          BY <1>0, <3>2 DEF Begin, TypeOK
        <4>2. Cached(i) \in Objects
          BY <1>0, VersionTypes
        <4>3. obj'[i].host = Cached(i).host
          BY <4>1, <4>2 DEF Objects
        <4> QED
          BY <3>2, <4>1, <4>3 DEF GivesUp
      <3>3. CASE ReconcileInventory(i) \/ ReconcileManagement(i)
        BY <2>1, <3>2, <3>3 DEF ReconcileInventory, ReconcileManagement, GivingUp
      <3>4. CASE HandleDeletion(i)
        <4>1. GivesUp(i)'
          BY <3>2, <3>4 DEF HandleDeletion, InventoryCleanup
        <4> QED
          BY <2>1, <4>1 DEF GivingUp
      <3> QED
        BY <2>3, <3>1, <3>3, <3>4 DEF Start
    <2>4. CASE Step(i)
      BY <2>1, <2>4, GivesUpStep DEF GivingUp
    <2>5. CASE Fault(i)
      <3>1. pc'[i] \in {"idle", "status", "getForClaim", "getForRelease"}
        BY <1>0, <2>5 DEF Fault, RequestFails, StatusRequestFails, ClaimConflict,
           ClaimReplyLost, ReleaseReplyLost, Reconnect, Abort, Return, Done, TypeOK
      <3>2. GivesUp(i)'
        BY <3>1 DEF GivesUp
      <3> QED
        BY <2>1, <3>2 DEF GivingUp
    <2> QED
      BY <1>3, <2>2, <2>3, <2>4, <2>5
  <1> QED
    BY <1>1, <1>2, <1>3 DEF Next
-------------------------------------------------------------------------------
Kept == UNION {PersistentLabels[j] : j \in Instances}

(* Every other instance ever created is past claiming h, and there is one: it has *)
(* released the host of i.                                                          *)
Bereft(i, h) ==
    /\ \E j \in Instances \ {i} : Stored(j).life # "unborn"
    /\ \A j \in Instances \ {i} : owner[h] # j /\ (Stored(j).life = "unborn" \/ Past(j))

(* The deletion of i will release h: i holds it and nobody can take it away, or the *)
(* only other instance has released it and will not claim it again.                  *)
Keeps(i, h) ==
    /\ Exists(Stored(i)) /\ Stored(i).host = h /\ "inventory" \in Stored(i).finalizers
    /\ owner[h] = i \/ (~Orderly /\ Bereft(i, h))

Traced(h, k) == \E i \in Instances : k \in InventoryLabels[i] /\ Keeps(i, h)

LabelInv == \A h \in Hosts : \A k \in labels[h] \ Kept : Traced(h, k)

(* AtMostTwo, once lost, is lost for good too. *)
LEMMA TwoBefore ==
    ASSUME TypeOK, ReleaseInv, RecordInv, [Next]_vars, AtMostTwo'
    PROVE  AtMostTwo
  <1>1. PICK i \in Instances, j \in Instances :
           \A k \in Instances : Stored(k)'.life # "unborn" => k \in {i, j}
    BY DEF AtMostTwo
  <1>2. \A k \in Instances : Stored(k).life # "unborn" => Stored(k)'.life # "unborn"
    BY ObjectEvolves DEF Evolves
  <1> QED
    BY <1>1, <1>2 DEF AtMostTwo

(* After a step that leaves at most two, a third instance has not been created. *)
LEMMA NoThird ==
    ASSUME AtMostTwo', NEW i \in Instances, NEW j \in Instances \ {i},
           NEW k \in Instances \ {i, j},
           Stored(i)'.life # "unborn", Stored(j)'.life # "unborn"
    PROVE  Stored(k)'.life = "unborn"
  <1>1. PICK x \in Instances, y \in Instances :
           \A z \in Instances : Stored(z)'.life # "unborn" => z \in {x, y}
    BY DEF AtMostTwo
  <1> QED
    BY <1>1

LEMMA BereftStays ==
    ASSUME TypeOK, ReleaseInv, RecordInv, [Next]_vars, AtMostTwo',
           NEW i \in Instances, NEW h \in Hosts, owner'[h] \in {owner[h], NoInstance},
           Exists(Stored(i)), Bereft(i, h)
    PROVE  Bereft(i, h)'
  <1>1. \A k \in Instances : Stored(k).life # "unborn" => Stored(k)'.life # "unborn"
    BY ObjectEvolves DEF Evolves
  <1>2. PICK j \in Instances \ {i} : Stored(j).life # "unborn"
    BY DEF Bereft
  <1>3. Stored(i)'.life # "unborn" /\ Stored(j)'.life # "unborn"
    BY <1>1, <1>2 DEF Exists
  <1>4. ASSUME NEW k \in Instances \ {i}
        PROVE  owner'[h] # k /\ (Stored(k)'.life = "unborn" \/ Past(k)')
    <2>1. owner'[h] # k
      BY <1>4, NoInstanceAssumption DEF Bereft
    <2>2. CASE Past(k)
      BY <2>1, <2>2, PastStays
    <2>3. CASE ~Past(k)
      <3>1. Stored(k).life = "unborn"
        BY <2>3 DEF Bereft
      <3>2. k \in Instances \ {i, j}
        BY <1>2, <3>1
      <3>3. Stored(k)'.life = "unborn"
        BY <1>3, <3>2, NoThird
      <3> QED
        BY <2>1, <3>3
    <2> QED
      BY <2>2, <2>3
  <1> QED
    BY <1>3, <1>4 DEF Bereft

(* A host whose owner stays keeps its record: an instance that gives it up has    *)
(* lost it to another one, and one that drops its finalizer has left no label.     *)
LEMMA KeepsStays ==
    ASSUME TypeOK, LockInv, ReleaseInv, RecordInv, ClassInv, GivingUp, [Next]_vars,
           (Orderly \/ AtMostTwo)',
           NEW h \in Hosts, owner'[h] = owner[h], NEW i \in Instances,
           NEW k \in labels[h] \intersect InventoryLabels[i], Keeps(i, h)
    PROVE  Keeps(i, h)'
  <1>1. /\ Exists(Stored(i)) /\ Stored(i).host = h /\ "inventory" \in Stored(i).finalizers
        /\ owner[h] = i \/ (~Orderly /\ Bereft(i, h))
        /\ h # NoHost
    BY NoHostAssumption DEF Keeps
  <1>2. Evolves(Stored(i), Stored(i)', pc[i]) /\ WorkerRecords(i) /\ GivesUp(i)
    BY ObjectEvolves DEF RecordInv, WorkersRecord, GivingUp
  <1>3. pc[i] # "select"
    BY <1>1, <1>2 DEF WorkerRecords, LiveSteps
  <1>4. pc[i] # "clearHost"
    <2>1. SUFFICES ASSUME pc[i] = "clearHost" PROVE FALSE
      OBVIOUS
    <2>2. obj[i].host = h
      BY <1>1, <1>2, <2>1 DEF WorkerRecords, LiveSteps
    <2>3. owner[h] # NoInstance /\ owner[h] # i
      BY <1>2, <2>1, <2>2 DEF GivesUp
    <2>4. owner[h] \in Instances \ {i}
      BY <2>3 DEF TypeOK
    <2> QED
      BY <1>1, <2>3, <2>4 DEF Bereft
  <1>5. pc[i] # "dropInventory"
    <2>1. SUFFICES ASSUME pc[i] = "dropInventory" PROVE FALSE
      OBVIOUS
    <2>2. obj[i].host = h
      BY <1>1, <1>2, <2>1 DEF WorkerRecords, DeletingSteps, CleanupSteps
    <2> QED
      BY <1>1, <1>2, <2>1, <2>2 DEF GivesUp
  <1>6. Stored(i)'.host = h /\ "inventory" \in Stored(i)'.finalizers
    BY <1>1, <1>2, <1>3, <1>4, <1>5 DEF Evolves
  <1>7. Exists(Stored(i)')
    <2>1. Stored(i)'.finalizers # {} /\ Stored(i).life \in {"live", "deleting"}
      BY <1>1, <1>6 DEF Exists
    <2> QED
      BY <1>2, <2>1 DEF Evolves, Exists
  <1>8. ASSUME ~Orderly, Bereft(i, h)
        PROVE  ~Orderly' /\ Bereft(i, h)'
    <2>1. ~Orderly'
      BY <1>8, OrderlyBefore
    <2> QED
      BY <1>1, <1>8, <2>1, BereftStays
  <1> QED
    BY <1>1, <1>6, <1>7, <1>8 DEF Keeps, Exists

(* A claim: the labels of the host are now the claimer's, or those it had before,   *)
(* when it was the claimer's already or free; and a host that was kept for another  *)
(* instance cannot be claimed.                                                       *)
LEMMA ClaimTraced ==
    ASSUME TypeOK, LockInv, ClaimInv, ReleaseInv, RecordInv, UNCHANGED versions,
           NEW a \in Instances, pc[a] = "claim", Claimed(a),
           NEW h \in Hosts, obj[a].host = h, NEW k \in labels'[h] \ Kept,
           k \in labels[h] => Traced(h, k)
    PROVE  Traced(h, k)'
  <1>1. /\ owner'[h] = a
        /\ labels'[h] = labels[h] \union InventoryLabels[a] \union PersistentLabels[a]
    BY DEF Claimed, TypeOK
  <1>2. k \notin PersistentLabels[a]
    BY DEF Kept
  <1>3. /\ Stored(a).life # "unborn" /\ Stored(a).host = h
        /\ "inventory" \in Stored(a).finalizers
    BY DEF RecordInv, WorkersRecord, WorkerRecords, LiveSteps, ClaimSteps
  <1>4. Exists(Stored(a))
    BY <1>3, VersionTypes DEF RecordInv, GoneIsEmpty, Exists, Objects
  <1>5. k \in InventoryLabels[a]
    <2>1. SUFFICES ASSUME k \notin InventoryLabels[a] PROVE FALSE
      OBVIOUS
    <2>2. PICK i \in Instances : k \in InventoryLabels[i] /\ Keeps(i, h)
      BY <1>1, <1>2, <2>1 DEF Traced
    <2>3. i # a
      BY <2>1, <2>2
    <2>4. owner[h] # i
      BY <2>3, NoInstanceAssumption DEF ClaimInv, ClaimStillFree
    <2>5. Past(a)
      BY <1>3, <2>2, <2>3, <2>4 DEF Keeps, Bereft
    <2> QED
      BY <2>5 DEF Past, LiveSteps, ClaimSteps
  <1>6. Stored(a)' = Stored(a)
    BY DEF Stored
  <1>7. Keeps(a, h)'
    BY <1>1, <1>3, <1>4, <1>6 DEF Keeps
  <1> QED
    BY <1>5, <1>7 DEF Traced

(* A release: a label it leaves is another instance's, which does not hold the host *)
(* any more, but has nobody to lose it to.                                           *)
LEMMA ReleaseTraced ==
    ASSUME TypeOK, LockInv, ReleaseInv, RecordInv, ClassInv, Orderly => BookingInv,
           [Next]_vars, (Orderly \/ AtMostTwo)', UNCHANGED versions,
           NEW a \in Instances, pc[a] = "release", Released(a), pc'[a] \notin LiveSteps,
           NEW h \in Hosts, obj[a].host = h, NEW k \in labels'[h] \ Kept,
           Traced(h, k)
    PROVE  Traced(h, k)'
  <1>1. owner'[h] = NoInstance /\ k \notin InventoryLabels[a]
    BY DEF Released, TypeOK
  <1>2. PICK i \in Instances : k \in InventoryLabels[i] /\ Keeps(i, h)
    BY DEF Traced
  <1>3. i # a
    BY <1>1, <1>2
  <1>4. \A j \in Instances : Stored(j)' = Stored(j)
    BY DEF Stored
  <1>5. WorkerOK(a) /\ WorkerRecords(a) /\ WorkerClass(a)
    BY DEF ReleaseInv, WorkersOK, RecordInv, WorkersRecord, ClassInv
  <1>6. Stored(a).life \in {"deleting", "gone"} /\ Stored(a).host = h
    BY <1>5 DEF WorkerOK, WorkerRecords, DeletingSteps, CleanupSteps, ReleaseSteps, Over
  <1>7. CASE owner[h] = i
    <2>1. ~Orderly'
      <3>1. SUFFICES ASSUME Orderly' PROVE FALSE
        OBVIOUS
      <3>2. Orderly /\ BookingInv
        BY <3>1, OrderlyBefore
      <3>3. Stored(a).classed
        BY <1>6, <3>2, NoHostAssumption DEF Orderly, DeletedWhileChoosing
      <3>4. current[a] /\ Holds(a)
        BY <3>2 DEF BookingInv, WorkerHolds, DeletingSteps, CleanupSteps, ReleaseSteps
      <3>5. Stored(a).life = "deleting"
        BY <1>5, <3>4 DEF WorkerOK, DeletingSteps, CleanupSteps, ReleaseSteps
      <3>6. owner[h] \in {a, NoInstance}
        BY <1>6, <3>3, <3>4, <3>5 DEF Holds, Exists
      <3> QED
        BY <1>3, <1>7, <3>6, NoInstanceAssumption
    <2>2. AtMostTwo'
      BY <2>1
    <2>3. Stored(i)'.life # "unborn" /\ Stored(a)'.life # "unborn"
      BY <1>2, <1>4, <1>6 DEF Keeps, Exists
    <2>4. Past(a)'
      BY <1>4, <1>6 DEF Past
    <2>5. ASSUME NEW j \in Instances \ {i}
          PROVE  owner'[h] # j /\ (Stored(j)'.life = "unborn" \/ Past(j)')
      <3>1. owner'[h] # j
        BY <1>1, NoInstanceAssumption
      <3>2. CASE j = a
        BY <2>4, <3>1, <3>2
      <3>3. CASE j # a
        <4>1. j \in Instances \ {i, a} /\ a \in Instances \ {i}
          BY <1>3, <3>3
        <4>2. Stored(j)'.life = "unborn"
          BY <2>2, <2>3, <4>1, NoThird
        <4> QED
          BY <3>1, <4>2
      <3> QED
        BY <3>2, <3>3
    <2>6. Bereft(i, h)'
      BY <1>3, <2>3, <2>5 DEF Bereft
    <2>7. Keeps(i, h)'
      BY <1>2, <1>4, <2>1, <2>6 DEF Keeps
    <2> QED
      BY <1>2, <2>7 DEF Traced
  <1>8. CASE owner[h] # i
    <2>1. ~Orderly /\ Bereft(i, h)
      BY <1>2, <1>8 DEF Keeps
    <2>2. ~Orderly'
      BY <2>1, OrderlyBefore
    <2>3. Exists(Stored(i))
      BY <1>2 DEF Keeps
    <2>4. Bereft(i, h)'
      BY <1>1, <2>1, <2>2, <2>3, BereftStays
    <2>5. Keeps(i, h)'
      BY <1>2, <1>4, <2>2, <2>4 DEF Keeps
    <2> QED
      BY <1>2, <2>5 DEF Traced
  <1> QED
    BY <1>7, <1>8

LEMMA LabelInductive ==
    ASSUME IInv, ReleaseInv, RecordInv, ClassInv, Orderly => BookingInv, GivingUp,
           LabelInv, [Next]_vars, (Orderly \/ AtMostTwo)'
    PROVE  LabelInv'
  <1>0. TypeOK /\ LockInv /\ ClaimInv
    BY DEF IInv
  <1> SUFFICES ASSUME NEW h \in Hosts, NEW k \in labels'[h] \ Kept
               PROVE  Traced(h, k)'
    BY DEF LabelInv, Kept
  <1>1. ASSUME owner'[h] = owner[h], k \in labels[h]
        PROVE  Traced(h, k)'
    <2>1. PICK i \in Instances : k \in InventoryLabels[i] /\ Keeps(i, h)
      BY <1>1 DEF LabelInv, Traced
    <2>2. k \in labels[h] \intersect InventoryLabels[i]
      BY <1>1, <2>1
    <2>3. Keeps(i, h)'
      BY <1>0, <1>1, <2>1, <2>2, KeepsStays
    <2> QED
      BY <2>1, <2>3 DEF Traced
  <1>2. ASSUME UNCHANGED <<owner, labels>>
        PROVE  Traced(h, k)'
    BY <1>1, <1>2
  <1>3. CASE UNCHANGED vars \/ Restart
    BY <1>2, <1>3 DEF vars, Restart, inventory
  <1>4. ASSUME NEW a \in Instances, Environment(a) \/ Informer(a) \/ Start(a)
        PROVE  Traced(h, k)'
    <2>1. UNCHANGED <<owner, labels>>
      BY <1>4 DEF Environment, Informer, Create, Delete, EditByOther, DeliverEvent, FireTimer,
         Start, ReconcileMissing, ReconcileInventory, ReconcileManagement, HandleDeletion,
         Dequeue, inventory
    <2> QED
      BY <1>2, <2>1
  <1>5. ASSUME NEW a \in Instances, Step(a) \/ Fault(a)
        PROVE  Traced(h, k)'
    <2>1. CASE ~(Locked(a) /\ obj[a].host = h)
      <3>1. owner'[h] = owner[h] /\ labels'[h] = labels[h]
        BY <1>5, <2>1, OnlyLockedChanges
      <3> QED
        BY <1>1, <3>1
    <2>2. CASE UNCHANGED <<owner, labels>>
      BY <1>2, <2>2
    <2>3. CASE obj[a].host = h /\ InitLabels(a)
      BY <1>0, <2>3 DEF InitLabels, TypeOK
    <2>4. CASE obj[a].host = h /\ pc[a] = "claim" /\ Claimed(a) /\ UNCHANGED versions
      <3>1. k \in labels[h] => Traced(h, k)
        BY DEF LabelInv
      <3> QED
        BY <1>0, <2>4, <3>1, ClaimTraced
    <2>5. CASE obj[a].host = h /\ Released(a) /\ UNCHANGED versions
      <3>1. pc[a] = "release" /\ k \in labels[h]
        BY <1>0, <2>5 DEF Released, TypeOK
      <3>2. Traced(h, k)
        BY <3>1 DEF LabelInv
      <3>3. Stored(a).life \in {"deleting", "gone"}
        BY <3>1 DEF ReleaseInv, WorkersOK, WorkerOK, CleanupSteps, ReleaseSteps, Over
      <3>4. Past(a)
        BY <3>1, <3>3 DEF Past, LiveSteps, ClaimSteps
      <3>5. pc'[a] \notin LiveSteps
        BY <1>0, <3>4, PastStays DEF Past
      <3> QED
        BY <1>0, <2>5, <3>1, <3>2, <3>5, ReleaseTraced
    <2> QED
      BY <1>5, <2>1, <2>2, <2>3, <2>4, <2>5, WorkerWrites
  <1> QED
    BY <1>3, <1>4, <1>5 DEF Next

THEOREM LabelInvariant ==
    Spec => [](GivingUp /\ (lag = 0 /\ (Orderly \/ AtMostTwo) => LabelInv))
  <1>1. Init => GivingUp /\ LabelInv
    BY DEF Init, GivingUp, GivesUp, LabelInv
  <1>2. IInv /\ ReleaseInv /\ (lag = 0 => RecordInv) /\ (lag = 0 => ClassInv)
          /\ (Orderly => BookingInv) /\ GivingUp
          /\ (lag = 0 /\ (Orderly \/ AtMostTwo) => LabelInv) /\ [Next]_vars
        => GivingUp' /\ (lag = 0 /\ (Orderly \/ AtMostTwo) => LabelInv)'
    <2> SUFFICES ASSUME IInv, ReleaseInv, lag = 0 => RecordInv, lag = 0 => ClassInv,
                        Orderly => BookingInv, GivingUp,
                        lag = 0 /\ (Orderly \/ AtMostTwo) => LabelInv, [Next]_vars
                 PROVE  GivingUp' /\ (lag = 0 /\ (Orderly \/ AtMostTwo) => LabelInv)'
      OBVIOUS
    <2>1. lag' = lag /\ TypeOK
      BY DEF Next, vars, IInv
    <2>2. GivingUp'
      BY GivingUpInductive
    <2>3. ASSUME lag' = 0, (Orderly \/ AtMostTwo)'
          PROVE  LabelInv'
      <3>1. RecordInv /\ ClassInv /\ lag = 0
        BY <2>1, <2>3
      <3>2. Orderly \/ AtMostTwo
        BY <2>1, <2>3, <3>1, OrderlyBefore, TwoBefore
      <3> QED
        BY <2>3, <3>1, <3>2, LabelInductive
    <2> QED
      BY <2>2, <2>3
  <1> QED
    BY <1>1, <1>2, Invariant, ReleaseInvariant, RecordInvariant, BookingInvariant, PTL DEF Spec

(* UnassignHost, of both inventories, removes the labels of inventorylabels also  *)
(* from a host that somebody else has released.  So every label that is not       *)
(* persistent belongs to an instance whose deletion will remove it: as long as    *)
(* everything is in order, and also after failures and early deletions when there *)
(* is no third instance for somebody to lose a host to.                            *)
THEOREM LabelsStayRecordedHolds == Spec => []LabelsStayRecorded
  <1>1. (lag = 0 /\ (Orderly \/ AtMostTwo) => LabelInv) => LabelsStayRecorded
    BY DEF LabelInv, Traced, Keeps, Kept, LabelsStayRecorded, LabelsAreRecorded
  <1> QED
    BY <1>1, LabelInvariant, PTL
===============================================================================
