-------------------------- MODULE HostReleaseProofs ---------------------------
(***************************************************************************)
(* Two promises about the release of a host, for every lag of the cache,   *)
(* number of faults and number of workers: it comes after the teardown of  *)
(* the instance, and it leaves the persistent labels where they are.       *)
(***************************************************************************)
EXTENDS HostAllocationProofs

(* A version whose deletion has begun and whose teardown is over. *)
Over(o) == o.life \in {"deleting", "gone"} /\ "management" \notin o.finalizers

(* A teardown that was over in some version still in the informer's way is over *)
(* in the stored one: what the cache says of it may be believed.                 *)
OverForGood ==
    \A i \in Instances : \A n \in 1 .. Len(versions[i]) :
        Over(versions[i][n]) => Over(Stored(i))

LiveSteps == {"addInventory", "find", "select", "lockForClaim", "setClass", "clearHost",
              "addManagement", "manage"} \union ClaimSteps

CleanupSteps == {"lockForRelease", "dropInventory"} \union ReleaseSteps

DeletingSteps == {"deprovision", "dropManagement"} \union CleanupSteps

(* What a worker's place in the handlers says of its copy, and what a copy that *)
(* is current says of the stored object.                                         *)
WorkerOK(i) ==
    /\ pc[i] \in LiveSteps => obj[i].life = "live"
    /\ pc[i] \in DeletingSteps => obj[i].life = "deleting"
    /\ pc[i] \in CleanupSteps => Over(obj[i]) /\ Over(Stored(i))
    /\ pc[i] \in LiveSteps \union DeletingSteps /\ current[i] =>
          obj[i].life = Stored(i).life /\ obj[i].finalizers = Stored(i).finalizers

WorkersOK == \A i \in Instances : WorkerOK(i)

ReleaseInv == OverForGood /\ WorkersOK

(* Steps outside the two branches need nothing. *)
LEMMA IdleIsOK ==
    ASSUME NEW i \in Instances, pc[i] \in {"idle", "status"}
    PROVE  WorkerOK(i)
  BY DEF WorkerOK, LiveSteps, DeletingSteps, CleanupSteps, ClaimSteps, ReleaseSteps

LEMMA OnlyWorker ==
    ASSUME WorkersOK, NEW i \in Instances, WorkerOK(i)',
           \A j \in Instances \ {i} :
              /\ pc'[j] = pc[j] /\ obj'[j] = obj[j] /\ current'[j] = current[j]
              /\ versions'[j] = versions[j]
    PROVE  WorkersOK'
  BY DEF WorkersOK, WorkerOK, Stored

LEMMA SameVersions ==
    ASSUME OverForGood, UNCHANGED versions
    PROVE  OverForGood' /\ \A j \in Instances : Stored(j)' = Stored(j)
  BY DEF OverForGood, Stored
-------------------------------------------------------------------------------
(* What a write at the API server does to the list of versions. *)
LEMMA Published ==
    ASSUME TypeOK, NEW i \in Instances, NEW o \in Objects, Publish(i, o)
    PROVE  /\ Stored(i)' = o
           /\ \A j \in Instances \ {i} : versions'[j] = versions[j]
           /\ \A n \in 1 .. Len(versions'[i]) :
                 \/ versions'[i][n] = o
                 \/ \E m \in 1 .. Len(versions[i]) : versions'[i][n] = versions[i][m]
  <1> DEFINE v == versions[i]
  <1>1. v \in Seq(Objects) /\ v # <<>> /\ Len(v) \in Nat \ {0}
    BY VersionTypes DEF TypeOK
  <1>2. /\ versions' = [versions EXCEPT ![i] = versions'[i]]
        /\ versions'[i] = IF Len(v) > lag THEN Append(Tail(v), o) ELSE Append(v, o)
    BY DEF Publish, TypeOK
  <1>3. CASE versions'[i] = Append(v, o)
    <2>1. Len(Append(v, o)) = Len(v) + 1 /\ Append(v, o)[Len(v) + 1] = o
          /\ \A n \in 1 .. Len(v) : Append(v, o)[n] = v[n]
      BY <1>1
    <2>2. Stored(i)' = o
      BY <1>3, <2>1 DEF Stored
    <2> QED
      BY <1>1, <1>2, <1>3, <2>1, <2>2 DEF TypeOK
  <1>4. CASE versions'[i] = Append(Tail(v), o)
    <2> DEFINE t == Tail(v)
    <2>1. t \in Seq(Objects) /\ Len(t) = Len(v) - 1 /\ \A n \in 1 .. Len(t) : t[n] = v[n + 1]
      BY <1>1
    <2> HIDE DEF t
    <2>2. Len(Append(t, o)) = Len(t) + 1 /\ Append(t, o)[Len(t) + 1] = o
          /\ \A n \in 1 .. Len(t) : Append(t, o)[n] = t[n]
      BY <2>1
    <2>3. versions'[i] = Append(t, o)
      BY <1>4 DEF t
    <2>4. Stored(i)' = o
      BY <2>2, <2>3 DEF Stored
    <2>5. \A n \in 1 .. Len(t) : n + 1 \in 1 .. Len(v) /\ Append(t, o)[n] = v[n + 1]
      BY <1>1, <2>1, <2>2
    <2>6. \A n \in 1 .. Len(versions'[i]) : n \in 1 .. Len(t) \/ n = Len(t) + 1
      BY <1>1, <2>1, <2>2, <2>3
    <2> QED
      BY <1>2, <2>2, <2>3, <2>4, <2>5, <2>6 DEF TypeOK
  <1> QED
    BY <1>2, <1>3, <1>4

(* A write that ends no teardown, or after which it is over. *)
LEMMA PublishedOver ==
    ASSUME TypeOK, OverForGood, NEW i \in Instances, NEW o \in Objects, Publish(i, o),
           Over(Stored(i)) => Over(o)
    PROVE  OverForGood'
  <1> SUFFICES ASSUME NEW j \in Instances, NEW n \in 1 .. Len(versions'[j]),
                      Over(versions'[j][n])
               PROVE  Over(Stored(j)')
    BY DEF OverForGood, Over
  <1>1. CASE j # i
    <2>1. versions'[j] = versions[j]
      BY <1>1, Published
    <2> QED
      BY <2>1 DEF OverForGood, Stored
  <1>2. CASE j = i
    <2>1. Stored(j)' = o
      BY <1>2, Published
    <2>2. CASE versions'[i][n] = o
      BY <1>2, <2>1, <2>2
    <2>3. CASE \E m \in 1 .. Len(versions[i]) : versions'[i][n] = versions[i][m]
      BY <1>2, <2>1, <2>3 DEF OverForGood
    <2> QED
      BY <1>2, <2>2, <2>3, Published
  <1> QED
    BY <1>1, <1>2
-------------------------------------------------------------------------------
(* The environment and the informer. *)
LEMMA ReleaseEnvironment ==
    ASSUME TypeOK, ReleaseInv, NEW i \in Instances, Environment(i) \/ Informer(i)
    PROVE  ReleaseInv'
  <1>0. /\ Stored(i) \in Objects /\ versions[i] \in Seq(Objects)
        /\ Len(versions[i]) \in Nat \ {0} /\ OverForGood /\ WorkersOK /\ WorkerOK(i)
    BY VersionTypes DEF TypeOK, ReleaseInv, WorkersOK
  <1>1. CASE Create(i)
    <2> DEFINE o == [NoObject EXCEPT !.life = "live"]
    <2>1. o \in Objects /\ Publish(i, o) /\ UNCHANGED worker
      BY <1>1, NoObjectType, ObjectParts DEF Create
    <2>2. ~Over(Stored(i)) /\ Stored(i).life = "unborn"
      BY <1>1 DEF Create, Over
    <2> HIDE DEF o
    <2>3. OverForGood'
      BY <1>0, <2>1, <2>2, PublishedOver
    <2>4. WorkerOK(i)'
      BY <1>0, <2>1, <2>2 DEF WorkerOK, Over, worker, DeletingSteps
    <2> QED
      BY <1>0, <2>1, <2>3, <2>4, Published, OnlyWorker DEF ReleaseInv, worker
  <1>2. CASE Delete(i)
    <2> DEFINE o == [Stored(i) EXCEPT !.life =
                        IF Stored(i).finalizers = {} THEN "gone" ELSE "deleting"]
    <2>1. o \in Objects /\ Publish(i, o)
      BY <1>0, <1>2, ObjectParts DEF Delete
    <2>2. ~Over(Stored(i)) /\ UNCHANGED <<pc, obj>> /\ current' = [current EXCEPT ![i] = FALSE]
      BY <1>2 DEF Delete, Over
    <2> HIDE DEF o
    <2>3. OverForGood'
      BY <1>0, <2>1, <2>2, PublishedOver
    <2>4. WorkerOK(i)'
      BY <1>0, <2>2 DEF WorkerOK, TypeOK
    <2> QED
      BY <1>0, <2>1, <2>2, <2>3, <2>4, Published, OnlyWorker DEF ReleaseInv, TypeOK
  <1>3. CASE EditByOther(i)
    <2>1. Publish(i, Stored(i)) /\ UNCHANGED <<pc, obj>>
          /\ current' = [current EXCEPT ![i] = FALSE]
      BY <1>3 DEF EditByOther
    <2>2. OverForGood'
      BY <1>0, <2>1, PublishedOver
    <2>3. WorkerOK(i)'
      BY <1>0, <2>1, Published DEF WorkerOK, TypeOK
    <2> QED
      BY <1>0, <2>1, <2>2, <2>3, Published, OnlyWorker DEF ReleaseInv, TypeOK
  <1>4. CASE DeliverEvent(i)
    <2> DEFINE v == versions[i]
               t == Tail(v)
    <2>1. v \in Seq(Objects) /\ Len(v) \in Nat /\ Len(v) > 1
      BY <1>0, <1>4 DEF DeliverEvent
    <2>2. t \in Seq(Objects) /\ Len(t) = Len(v) - 1 /\ \A n \in 1 .. Len(t) : t[n] = v[n + 1]
      BY <2>1
    <2>3. versions' = [versions EXCEPT ![i] = t] /\ UNCHANGED worker
      BY <1>4 DEF DeliverEvent
    <2>4. versions'[i] = t /\ \A j \in Instances \ {i} : versions'[j] = versions[j]
      BY <2>3 DEF TypeOK
    <2> HIDE DEF t
    <2>5. t[Len(t)] = v[Len(v)]
      BY <2>1, <2>2
    <2>6. \A j \in Instances : Stored(j)' = Stored(j)
      BY <2>4, <2>5 DEF Stored
    <2>7. \A n \in 1 .. Len(t) : n + 1 \in 1 .. Len(v) /\ t[n] = v[n + 1]
      BY <2>1, <2>2
    <2>8. OverForGood'
      <3> SUFFICES ASSUME NEW j \in Instances, NEW n \in 1 .. Len(versions'[j]),
                          Over(versions'[j][n])
                   PROVE  Over(Stored(j)')
        BY DEF OverForGood, Over
      <3>1. CASE j = i
        <4>1. n + 1 \in 1 .. Len(v) /\ Over(v[n + 1])
          BY <2>4, <2>7, <3>1
        <4> QED
          BY <1>0, <2>6, <3>1, <4>1 DEF OverForGood
      <3>2. CASE j # i
        BY <1>0, <2>4, <2>6, <3>2 DEF OverForGood
      <3> QED
        BY <3>1, <3>2
    <2>9. WorkersOK'
      BY <1>0, <2>3, <2>6 DEF WorkersOK, WorkerOK, worker
    <2> QED
      BY <2>8, <2>9 DEF ReleaseInv
  <1>5. CASE FireTimer(i)
    <2>1. UNCHANGED <<versions, worker>>
      BY <1>5 DEF FireTimer
    <2> QED
      BY <2>1, SameVersions DEF ReleaseInv, WorkersOK, WorkerOK, worker
  <1> QED
    BY <1>1, <1>2, <1>3, <1>4, <1>5 DEF Environment, Informer

(* The beginning of a reconcile: a copy that shows the teardown over comes from *)
(* a version that does.                                                          *)
LEMMA ReleaseStart ==
    ASSUME TypeOK, ReleaseInv, NEW i \in Instances, Start(i)
    PROVE  ReleaseInv'
  <1> USE DEF LiveSteps, DeletingSteps, CleanupSteps, ClaimSteps, ReleaseSteps
  <1>0. /\ Cached(i) \in Objects /\ OverForGood /\ WorkersOK
        /\ Len(versions[i]) \in Nat \ {0}
        /\ Over(Cached(i)) => Over(Stored(i))
        /\ Len(versions[i]) = 1 => Cached(i) = Stored(i)
    BY VersionTypes DEF ReleaseInv, OverForGood, Cached, Stored
  <1>1. UNCHANGED versions
    BY DEF Start, ReconcileMissing, ReconcileInventory, ReconcileManagement, HandleDeletion,
           Dequeue
  <1>2. OverForGood' /\ \A j \in Instances : Stored(j)' = Stored(j)
    BY <1>0, <1>1, SameVersions
  <1>3. CASE ReconcileMissing(i)
    BY <1>0, <1>2, <1>3 DEF ReconcileMissing, ReleaseInv, WorkersOK, WorkerOK, worker
  <1>4. ASSUME NEW status, NEW next, Begin(i, status, next),
               next \in LiveSteps => Cached(i).life = "live",
               next \in DeletingSteps => Cached(i).life = "deleting",
               next \in CleanupSteps => Over(Cached(i))
        PROVE  ReleaseInv'
    <2>1. /\ obj'[i] = [Cached(i) EXCEPT !.status = status] /\ pc'[i] = next
          /\ current'[i] = (Len(versions[i]) = 1)
          /\ \A j \in Instances \ {i} :
                pc'[j] = pc[j] /\ obj'[j] = obj[j] /\ current'[j] = current[j]
      BY <1>4 DEF Begin, TypeOK
    <2>2. obj'[i].life = Cached(i).life /\ obj'[i].finalizers = Cached(i).finalizers
      BY <1>0, <2>1 DEF Objects
    <2>3. WorkerOK(i)'
      <3>1. pc'[i] = next /\ Stored(i)' = Stored(i)
        BY <1>2, <2>1
      <3>2. next \in LiveSteps => obj'[i].life = "live"
        BY <1>4, <2>2
      <3>3. next \in DeletingSteps => obj'[i].life = "deleting"
        BY <1>4, <2>2
      <3>4. next \in CleanupSteps => Over(obj'[i]) /\ Over(Stored(i))
        BY <1>0, <1>4, <2>2 DEF Over
      <3>5. current'[i] => obj'[i].life = Stored(i).life
                           /\ obj'[i].finalizers = Stored(i).finalizers
        BY <1>0, <2>1, <2>2
      <3> QED
        BY <3>1, <3>2, <3>3, <3>4, <3>5 DEF WorkerOK
    <2> QED
      BY <1>0, <1>1, <1>2, <2>1, <2>3, OnlyWorker DEF ReleaseInv
  <1>5. CASE ReconcileInventory(i)
    BY <1>4, <1>5 DEF ReconcileInventory
  <1>6. CASE ReconcileManagement(i)
    BY <1>4, <1>6 DEF ReconcileManagement
  <1>7. CASE HandleDeletion(i)
    <2>1. CASE "management" \in Cached(i).finalizers
      BY <1>4, <1>7, <2>1 DEF HandleDeletion
    <2>2. CASE "management" \notin Cached(i).finalizers
      BY <1>4, <1>7, <2>2 DEF HandleDeletion, InventoryCleanup, Over
    <2> QED
      BY <2>1, <2>2
  <1> QED
    BY <1>3, <1>5, <1>6, <1>7 DEF Start
-------------------------------------------------------------------------------
(* The shapes of a worker's steps. *)

(* It returns, or its reconcile ends, and no object is written. *)
LEMMA ReleaseReturn ==
    ASSUME TypeOK, ReleaseInv, NEW i \in Instances, NEW status, NEW again,
           \/ Return(i, status, again) /\ UNCHANGED current
           \/ Done(i, again),
           UNCHANGED versions
    PROVE  ReleaseInv'
  <1>1. /\ pc'[i] \in {"idle", "status"}
        /\ \A j \in Instances \ {i} :
              pc'[j] = pc[j] /\ obj'[j] = obj[j] /\ current'[j] = current[j]
    BY DEF Return, Done, TypeOK
  <1>2. WorkerOK(i)'
    BY <1>1 DEF WorkerOK, LiveSteps, DeletingSteps, CleanupSteps, ClaimSteps, ReleaseSteps
  <1> QED
    BY <1>1, <1>2, SameVersions, OnlyWorker DEF ReleaseInv

LEMMA ReleaseAbort ==
    ASSUME TypeOK, ReleaseInv, NEW i \in Instances, Abort(i)
    PROVE  ReleaseInv'
  BY ReleaseReturn DEF Abort

(* It goes on in the same branch, and no object is written. *)
LEMMA ReleaseGoOn ==
    ASSUME TypeOK, ReleaseInv, NEW i \in Instances, NEW next,
           \/ pc[i] \in LiveSteps /\ next \in LiveSteps
           \/ pc[i] \in CleanupSteps /\ next \in CleanupSteps
           \/ pc[i] = "deprovision" /\ next = "dropManagement",
           pc' = [pc EXCEPT ![i] = next],
           \A j \in Instances \ {i} : obj'[j] = obj[j],
           obj'[i].life = obj[i].life, obj'[i].finalizers = obj[i].finalizers,
           UNCHANGED <<versions, current>>
    PROVE  ReleaseInv'
  <1>1. pc'[i] = next /\ \A j \in Instances \ {i} : pc'[j] = pc[j]
    BY DEF TypeOK
  <1>2. OverForGood' /\ Stored(i)' = Stored(i)
    BY SameVersions DEF ReleaseInv
  <1>3. WorkerOK(i)
    BY DEF ReleaseInv, WorkersOK
  <1>4. WorkerOK(i)'
    BY <1>1, <1>2, <1>3
    DEF WorkerOK, Over, LiveSteps, DeletingSteps, CleanupSteps, ClaimSteps, ReleaseSteps
  <1> QED
    BY <1>1, <1>2, <1>4, OnlyWorker DEF ReleaseInv

(* It updates the object: the version it replaces is its own, so one that ends *)
(* no teardown, or one whose teardown stays over.                               *)
LEMMA ReleaseUpdate ==
    ASSUME TypeOK, ReleaseInv, NEW i \in Instances, NEW step, NEW o \in Objects,
           Update(i, step, o), Over(obj[i]) => Over(o),
           step \in LiveSteps \union DeletingSteps
    PROVE  /\ OverForGood'
           /\ Stored(i)' = Swept([o EXCEPT !.status = Stored(i).status])
           /\ \A j \in Instances \ {i} : versions'[j] = versions[j]
  <1> DEFINE p == Swept([o EXCEPT !.status = Stored(i).status])
  <1>1. Stored(i) \in Objects /\ Stored(i).status \in Statuses
    BY VersionTypes, ObjectParts
  <1>2. p \in Objects
    BY <1>1, ObjectParts DEF Swept
  <1>3. Over(o) => Over(p)
    BY <1>1 DEF Over, Swept, Objects
  <1>4. obj[i].life = Stored(i).life /\ obj[i].finalizers = Stored(i).finalizers
    BY DEF Update, Accepted, ReleaseInv, WorkersOK, WorkerOK
  <1>5. Over(Stored(i)) => Over(p)
    BY <1>3, <1>4 DEF Over
  <1>6. Publish(i, p)
    BY DEF Update
  <1> HIDE DEF p
  <1>7. OverForGood'
    BY <1>2, <1>5, <1>6, PublishedOver DEF ReleaseInv
  <1> QED
    BY <1>2, <1>6, <1>7, Published DEF p

LEMMA ReleaseUpdateReturn ==
    ASSUME TypeOK, ReleaseInv, NEW i \in Instances, NEW step, NEW o \in Objects,
           NEW status, Update(i, step, o), Return(i, status, FALSE),
           Over(obj[i]) => Over(o), step \in LiveSteps \union DeletingSteps
    PROVE  ReleaseInv'
  <1>1. /\ pc'[i] = "status" /\ UNCHANGED current
        /\ \A j \in Instances \ {i} : pc'[j] = pc[j] /\ obj'[j] = obj[j]
    BY DEF Return, Update, TypeOK
  <1>2. WorkerOK(i)'
    BY <1>1 DEF WorkerOK, LiveSteps, DeletingSteps, CleanupSteps, ClaimSteps, ReleaseSteps
  <1>3. OverForGood' /\ \A j \in Instances \ {i} : versions'[j] = versions[j]
    BY ReleaseUpdate
  <1> QED
    BY <1>1, <1>2, <1>3, OnlyWorker DEF ReleaseInv
-------------------------------------------------------------------------------
LEMMA ReleaseStep ==
    ASSUME TypeOK, ReleaseInv, NEW i \in Instances, Step(i)
    PROVE  ReleaseInv'
  <1>0. /\ obj[i] \in Objects /\ Stored(i) \in Objects /\ WorkerOK(i)
        /\ obj = [obj EXCEPT ![i] = obj[i]]
    BY VersionTypes DEF TypeOK, ReleaseInv, WorkersOK
  <1>1. CASE EndReconcile(i) \/ StatusConflict(i)
    BY <1>1, ReleaseReturn DEF EndReconcile, StatusConflict
  <1>2. CASE UpdateStatus(i)
    <2> DEFINE o == [Stored(i) EXCEPT !.status = obj[i].status]
    <2>1. /\ o \in Objects /\ Publish(i, o)
          /\ o.life = Stored(i).life /\ o.finalizers = Stored(i).finalizers
      BY <1>0, <1>2, ObjectParts DEF UpdateStatus, Objects
    <2> HIDE DEF o
    <2>2. OverForGood' /\ \A j \in Instances \ {i} : versions'[j] = versions[j]
      BY <2>1, PublishedOver, Published DEF ReleaseInv, Over
    <2>3. /\ pc'[i] = "idle"
          /\ \A j \in Instances \ {i} :
                pc'[j] = pc[j] /\ obj'[j] = obj[j] /\ current'[j] = current[j]
      BY <1>2 DEF UpdateStatus, Done, TypeOK
    <2>4. WorkerOK(i)'
      BY <2>3 DEF WorkerOK, LiveSteps, DeletingSteps, CleanupSteps, ClaimSteps, ReleaseSteps
    <2> QED
      BY <2>2, <2>3, <2>4, OnlyWorker DEF ReleaseInv
  <1>3. CASE UpdateRejected(i)
    BY <1>3, ReleaseAbort DEF UpdateRejected
  <1>4. CASE AddInventoryFinalizer(i)
    <2> DEFINE o == [obj[i] EXCEPT !.finalizers = @ \union {"inventory"}]
    <2>1. o \in Objects /\ Update(i, "addInventory", o)
      BY <1>0, <1>4, ObjectParts DEF Finalizers, AddInventoryFinalizer
    <2>2. pc[i] = "addInventory" /\ obj[i].life = "live"
      BY <1>0, <2>1 DEF Update, WorkerOK, LiveSteps
    <2> HIDE DEF o
    <2> QED
      BY <1>4, <2>1, <2>2, ReleaseUpdateReturn DEF AddInventoryFinalizer, Over, LiveSteps
  <1>5. CASE FindFreeHost(i)
    <2>1. PICK h \in Hosts : obj' = [obj EXCEPT ![i] = [obj[i] EXCEPT !.host = h]]
      BY <1>5, MatchingAssumption DEF FindFreeHost
    <2>2. /\ obj'[i].life = obj[i].life /\ obj'[i].finalizers = obj[i].finalizers
          /\ \A j \in Instances \ {i} : obj'[j] = obj[j]
      BY <1>0, <2>1 DEF TypeOK, Objects
    <2> QED
      BY <1>5, <2>2, ReleaseGoOn DEF FindFreeHost, LiveSteps
  <1>6. CASE NoFreeHost(i) \/ TryLockFails(i) \/ ManageHost(i) \/ DeprovisionPending(i)
    BY <1>6, ReleaseReturn DEF NoFreeHost, TryLockFails, ManageHost, DeprovisionPending
  <1>7. CASE SelectHost(i)
    BY <1>0, <1>7, ReleaseUpdateReturn DEF SelectHost, LiveSteps
  <1>8. CASE TryLock(i)
    <2>1. /\ \/ pc[i] = "lockForClaim" /\ pc' = [pc EXCEPT ![i] = "getForClaim"]
             \/ pc[i] = "lockForRelease" /\ pc' = [pc EXCEPT ![i] = "getForRelease"]
          /\ UNCHANGED <<versions, obj, current>>
      BY <1>8 DEF TryLock
    <2> QED
      BY <2>1, ReleaseGoOn DEF LiveSteps, CleanupSteps, ClaimSteps, ReleaseSteps
  <1>9. CASE GetForClaim(i)
    <2>1. PICK next \in {"clearHost", "initLabels", "claim"} : pc' = [pc EXCEPT ![i] = next]
      BY <1>9 DEF GetForClaim
    <2> QED
      BY <1>9, <2>1, ReleaseGoOn DEF GetForClaim, LiveSteps, ClaimSteps
  <1>10. CASE InitLabels(i)
    BY <1>10, ReleaseGoOn DEF InitLabels, LiveSteps, ClaimSteps
  <1>11. CASE Claim(i)
    BY <1>11, ReleaseGoOn DEF Claim, LiveSteps, ClaimSteps
  <1>12. CASE SetHostClass(i)
    <2>1. [obj[i] EXCEPT !.classed = TRUE] \in Objects
      BY <1>0, ObjectParts
    <2>2. pc[i] = "setClass" /\ obj[i].life = "live"
      BY <1>0, <1>12 DEF SetHostClass, Update, WorkerOK, LiveSteps
    <2> QED
      BY <1>12, <2>1, <2>2, ReleaseUpdateReturn DEF SetHostClass, Over, LiveSteps
  <1>13. CASE ClearHost(i)
    <2>1. [obj[i] EXCEPT !.host = NoHost] \in Objects
      BY <1>0, ObjectParts
    <2>2. pc[i] = "clearHost" /\ obj[i].life = "live"
      BY <1>0, <1>13 DEF ClearHost, Update, WorkerOK, LiveSteps
    <2> QED
      BY <1>13, <2>1, <2>2, ReleaseUpdateReturn DEF ClearHost, Over, LiveSteps
  <1>14. CASE AddManagementFinalizer(i)
    <2> DEFINE o == [obj[i] EXCEPT !.finalizers = @ \union {"management"}]
    <2>1. o \in Objects /\ Update(i, "addManagement", o)
      BY <1>0, <1>14, ObjectParts DEF Finalizers, AddManagementFinalizer
    <2>2. pc[i] = "addManagement" /\ obj[i].life = "live"
      BY <1>0, <2>1 DEF Update, WorkerOK, LiveSteps
    <2> HIDE DEF o
    <2> QED
      BY <1>14, <2>1, <2>2, ReleaseUpdateReturn DEF AddManagementFinalizer, Over, LiveSteps
  <1>15. CASE DeprovisionDone(i)
    BY <1>15, ReleaseGoOn DEF DeprovisionDone
  <1>16. CASE DropManagementFinalizer(i)
    <2> DEFINE o == [obj[i] EXCEPT !.finalizers = @ \ {"management"}]
               p == [o EXCEPT !.status = StatusAfterUpdate(i)]
    <2>1. /\ o \in Objects /\ Update(i, "dropManagement", o)
          /\ obj' = [obj EXCEPT ![i] = p] /\ pc' = [pc EXCEPT ![i] = InventoryCleanup(o)]
      BY <1>0, <1>16, ObjectParts DEF DropManagementFinalizer, Finalizers
    <2>2. pc[i] = "dropManagement" /\ obj[i].life = "deleting"
      BY <1>0, <2>1 DEF Update, WorkerOK, DeletingSteps
    <2>3. /\ o.life = "deleting" /\ "management" \notin o.finalizers
          /\ p.life = o.life /\ p.finalizers = o.finalizers
      BY <1>0, <2>2 DEF Objects
    <2>4. o.status \in Statuses /\ Stored(i).status \in Statuses
      BY <1>0, <2>1, ObjectParts
    <2> HIDE DEF o, p
    <2>5. /\ OverForGood' /\ \A j \in Instances \ {i} : versions'[j] = versions[j]
          /\ Stored(i)' = Swept([o EXCEPT !.status = Stored(i).status])
      BY <2>1, <2>2, <2>3, ReleaseUpdate DEF Over, DeletingSteps
    <2>6. Over(Stored(i)') /\ Stored(i)'.finalizers = o.finalizers
      BY <2>1, <2>3, <2>5 DEF Swept, Over, Objects
    <2>7. "inventory" \in o.finalizers => Stored(i)'.life = o.life
      BY <2>1, <2>5 DEF Swept, Objects
    <2>8. /\ obj'[i] = p /\ pc'[i] = InventoryCleanup(o) /\ UNCHANGED current
          /\ \A j \in Instances \ {i} : pc'[j] = pc[j] /\ obj'[j] = obj[j]
      BY <2>1 DEF TypeOK, Update
    <2>9. WorkerOK(i)'
      <3>1. CASE "inventory" \notin o.finalizers
        BY <2>8, <3>1 DEF InventoryCleanup, WorkerOK, LiveSteps, DeletingSteps,
                          CleanupSteps, ClaimSteps, ReleaseSteps
      <3>2. CASE "inventory" \in o.finalizers
        <4>1. pc'[i] \in CleanupSteps
          BY <2>8, <3>2 DEF InventoryCleanup, CleanupSteps
        <4>2. pc'[i] \notin LiveSteps
          BY <2>8, <3>2 DEF InventoryCleanup, LiveSteps, ClaimSteps
        <4> QED
          BY <2>3, <2>6, <2>7, <2>8, <3>2, <4>1, <4>2 DEF WorkerOK, Over
      <3> QED
        BY <3>1, <3>2
    <2> QED
      BY <2>5, <2>8, <2>9, OnlyWorker DEF ReleaseInv
  <1>17. CASE GetForRelease(i)
    <2>1. PICK next \in {"dropInventory", "release"} : pc' = [pc EXCEPT ![i] = next]
      BY <1>17 DEF GetForRelease
    <2> QED
      BY <1>17, <2>1, ReleaseGoOn DEF GetForRelease, CleanupSteps, ReleaseSteps
  <1>18. CASE Release(i)
    BY <1>18, ReleaseGoOn DEF Release, Released, CleanupSteps, ReleaseSteps
  <1>19. CASE DropInventoryFinalizer(i)
    <2> DEFINE o == [obj[i] EXCEPT !.finalizers = @ \ {"inventory"}]
    <2>1. o \in Objects /\ Update(i, "dropInventory", o)
      BY <1>0, <1>19, ObjectParts DEF Finalizers, DropInventoryFinalizer
    <2>2. Over(obj[i]) => Over(o)
      BY <1>0 DEF Over, Objects
    <2> HIDE DEF o
    <2> QED
      BY <1>19, <2>1, <2>2, ReleaseUpdateReturn
         DEF DropInventoryFinalizer, DeletingSteps, CleanupSteps
  <1> QED
    BY <1>1, <1>2, <1>3, <1>4, <1>5, <1>6, <1>7, <1>8, <1>9, <1>10, <1>11, <1>12,
       <1>13, <1>14, <1>15, <1>16, <1>17, <1>18, <1>19 DEF Step

LEMMA ReleaseFault ==
    ASSUME TypeOK, ReleaseInv, NEW i \in Instances, Fault(i)
    PROVE  ReleaseInv'
  <1>1. CASE Reconnect(i)
    <2>1. /\ \/ pc[i] \in ClaimSteps /\ pc' = [pc EXCEPT ![i] = "getForClaim"]
             \/ pc[i] \in ReleaseSteps /\ pc' = [pc EXCEPT ![i] = "getForRelease"]
          /\ UNCHANGED <<versions, obj, current>>
      BY <1>1 DEF Reconnect
    <2> QED
      BY <2>1, ReleaseGoOn DEF LiveSteps, CleanupSteps, ClaimSteps, ReleaseSteps
  <1>2. CASE ~Reconnect(i)
    BY <1>2, ReleaseAbort, ReleaseReturn
       DEF Fault, RequestFails, StatusRequestFails, ClaimConflict, ClaimReplyLost,
           ReleaseReplyLost
  <1> QED
    BY <1>1, <1>2

(* A list of one version. *)
LEMMA OneVersion ==
    ASSUME NEW v, NEW o, v = <<o>>
    PROVE  Len(v) = 1 /\ v[1] = o /\ v[Len(v)] = o /\ \A n \in 1 .. Len(v) : v[n] = o
  OBVIOUS

(* The new process starts from what is stored. *)
LEMMA ReleaseRestart ==
    ASSUME TypeOK, ReleaseInv, Restart
    PROVE  ReleaseInv'
  <1>1. \A j \in Instances : versions'[j] = <<Stored(j)>> /\ pc'[j] = "idle"
    BY DEF Restart
  <1>2. \A j \in Instances :
           /\ Stored(j)' = Stored(j)
           /\ \A n \in 1 .. Len(versions'[j]) : versions'[j][n] = Stored(j)
    BY <1>1, OneVersion DEF Stored
  <1>3. OverForGood'
    <2> SUFFICES ASSUME NEW j \in Instances, NEW n \in 1 .. Len(versions'[j]),
                        Over(versions'[j][n])
                 PROVE  Over(Stored(j)')
      BY DEF OverForGood, Over
    <2> QED
      BY <1>2
  <1>4. WorkersOK'
    BY <1>1 DEF WorkersOK, WorkerOK, LiveSteps, DeletingSteps, CleanupSteps, ClaimSteps,
                ReleaseSteps
  <1> QED
    BY <1>3, <1>4 DEF ReleaseInv

LEMMA ReleaseInductive ==
    ASSUME IInv, ReleaseInv, [Next]_vars
    PROVE  ReleaseInv'
  <1>0. TypeOK
    BY DEF IInv
  <1>1. CASE UNCHANGED vars
    BY <1>1, SameVersions DEF ReleaseInv, WorkersOK, WorkerOK, vars
  <1>2. CASE Next
    BY <1>0, <1>2, ReleaseRestart, ReleaseEnvironment, ReleaseStart, ReleaseStep, ReleaseFault
       DEF Next
  <1> QED
    BY <1>1, <1>2

(* Nothing a worker has read of a finished teardown is taken back: the invariant *)
(* the release of a host, and the record of its claim, rest on.                   *)
THEOREM ReleaseInvariant == Spec => []ReleaseInv
  <1>1. Init => ReleaseInv
    <2> SUFFICES ASSUME Init PROVE ReleaseInv
      OBVIOUS
    <2>1. \A j \in Instances : versions[j] = <<NoObject>> /\ pc[j] = "idle"
      BY DEF Init
    <2>2. \A j \in Instances :
             /\ Stored(j) = NoObject
             /\ \A n \in 1 .. Len(versions[j]) : versions[j][n] = NoObject
      BY <2>1, OneVersion DEF Stored
    <2>3. OverForGood
      BY <2>2 DEF OverForGood
    <2>4. WorkersOK
      BY <2>1, IdleIsOK DEF WorkersOK
    <2> QED
      BY <2>3, <2>4 DEF ReleaseInv
  <1>2. IInv /\ ReleaseInv /\ [Next]_vars => ReleaseInv'
    BY ReleaseInductive
  <1> QED
    BY <1>1, <1>2, Invariant, PTL DEF Spec

(* handleDeletion 714-773: however old the object it was called with, a worker *)
(* is about to release a host only when the API server has the instance being  *)
(* deleted and without its management finalizer, its teardown being over.       *)
THEOREM ReleaseAfterManagementHolds == Spec => []ReleaseAfterManagement
  <1>1. ReleaseInv => ReleaseAfterManagement
    BY DEF ReleaseInv, WorkersOK, WorkerOK, Over, ReleaseAfterManagement, CleanupSteps,
           ReleaseSteps
  <1> QED
    BY <1>1, ReleaseInvariant, PTL
-------------------------------------------------------------------------------
(***************************************************************************)
(* Labels.  While a worker is about to release a host nobody else writes   *)
(* it, so the only labels it can lose are those the release removes.       *)
(***************************************************************************)
NoOverlap == \A i \in Instances : InventoryLabels[i] \intersect PersistentLabels[i] = {}

(* A worker that is about to write a host's labels has another host. *)
LEMMA OthersLabels ==
    ASSUME LockInv, NEW i \in Instances, NEW j \in Instances \ {i},
           pc[i] = "release",
           pc[j] \in {"initLabels", "claim", "release"}
    PROVE  obj[j].host # obj[i].host
  BY DEF LockInv, LockExclusion, Locked, ClaimSteps, ReleaseSteps

LEMMA LabelsOfStep ==
    ASSUME IInv, NoOverlap, NEW i \in Instances, pc[i] = "release", Next
    PROVE  PersistentLabels[i] \intersect labels[obj[i].host] \subseteq labels'[obj[i].host]
  <1> DEFINE h == obj[i].host
  <1>0. /\ TypeOK /\ LockInv /\ h \in Hosts
        /\ labels \in [Hosts -> SUBSET Labels]
    BY DEF IInv, LockInv, WorkerHasHost, HostSteps, ReleaseSteps, TypeOK
  <1>1. CASE Restart
    BY <1>1 DEF Restart, inventory
  <1>2. ASSUME NEW j \in Instances, Environment(j) \/ Informer(j) \/ Start(j)
        PROVE  UNCHANGED labels
    BY <1>2 DEF Environment, Informer, Create, Delete, EditByOther, DeliverEvent, FireTimer,
       Start, ReconcileMissing, ReconcileInventory, ReconcileManagement, HandleDeletion,
       Dequeue, inventory
  <1>3. ASSUME NEW j \in Instances,
               Released(j)
        PROVE  PersistentLabels[i] \intersect labels[h] \subseteq labels'[h]
    <2>1. pc[j] = "release" /\ labels' = [labels EXCEPT ![obj[j].host] = @ \ InventoryLabels[j]]
      BY <1>3 DEF Released
    <2>2. CASE j = i
      BY <1>0, <2>1, <2>2 DEF NoOverlap
    <2>3. CASE j # i
      <3>1. obj[j].host # h
        BY <1>0, <2>1, <2>3, OthersLabels
      <3> QED
        BY <1>0, <2>1, <3>1
    <2> QED
      BY <2>2, <2>3
  <1>4. ASSUME NEW j \in Instances, InitLabels(j) \/ (pc[j] = "claim" /\ Claimed(j))
        PROVE  labels'[h] = labels[h]
    <2>1. pc[j] \in {"initLabels", "claim"} /\ j # i
      BY <1>4 DEF InitLabels
    <2>2. obj[j].host # h
      BY <1>0, <2>1, OthersLabels
    <2> QED
      BY <1>0, <1>4, <2>2 DEF InitLabels, Claimed
  <1>5. ASSUME NEW j \in Instances, Step(j) \/ Fault(j),
               ~Released(j), ~InitLabels(j), ~(pc[j] = "claim" /\ Claimed(j))
        PROVE  UNCHANGED labels
    BY <1>5 DEF Step, Fault, EndReconcile, UpdateStatus, StatusConflict, Done,
       UpdateRejected, RequestFails, StatusRequestFails, ClaimConflict, ClaimReplyLost,
       ReleaseReplyLost, Reconnect, AddInventoryFinalizer, FindFreeHost, NoFreeHost, SelectHost, TryLock,
       TryLockFails, GetForClaim, Claim, SetHostClass, ClearHost, AddManagementFinalizer,
       ManageHost, DeprovisionPending, DeprovisionDone, DropManagementFinalizer,
       GetForRelease, Release, DropInventoryFinalizer, Update, inventory
  <1> QED
    BY <1>1, <1>2, <1>3, <1>4, <1>5 DEF Next

(* handleDeletion 756-768: if no key is in both of an instance's label maps, the *)
(* release of its host leaves all its persistent labels there, whatever other    *)
(* workers do meanwhile.                                                          *)
THEOREM PersistentLabelsKept == NoOverlap => (Spec => PersistentLabelsStay)
  <1>1. ASSUME NoOverlap
        PROVE  Spec => PersistentLabelsStay
    <2>1. IInv /\ [Next]_vars =>
             [\A i \in Instances :
                 pc[i] = "release" =>
                    LET h == obj[i].host IN
                    PersistentLabels[i] \intersect labels[h] \subseteq labels'[h]]_vars
      BY <1>1, LabelsOfStep
    <2> QED
      BY <2>1, Invariant, PTL DEF Spec, PersistentLabelsStay
  <1> QED
    BY <1>1
===============================================================================
