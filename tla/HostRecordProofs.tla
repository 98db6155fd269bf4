--------------------------- MODULE HostRecordProofs ---------------------------
(***************************************************************************)
(* When the informer cache is up to date, every claim in the inventory is  *)
(* recorded in the object of the instance that made it, for any number of  *)
(* instances, hosts, workers and faults.  (With an old cache it is not:    *)
(* run host_leak.)                                                         *)
(***************************************************************************)
EXTENDS HostReleaseProofs

Prompt == \A i \in Instances : Len(versions[i]) = 1

GoneIsEmpty ==
    \A i \in Instances : Stored(i).life = "gone" => Stored(i).finalizers = {}

ClaimsNothing(i) == \A h \in Hosts : owner[h] # i

(* The worker's copy agrees with the stored object on the host and the          *)
(* finalizers, also when somebody has deleted or edited the object since: only  *)
(* this worker writes them.                                                      *)
WorkerRecords(i) ==
    pc[i] \in LiveSteps \union DeletingSteps =>
        /\ Stored(i).life # "unborn"
        /\ obj[i].finalizers = Stored(i).finalizers
        /\ pc[i] # "select" => obj[i].host = Stored(i).host
        /\ pc[i] \in {"find", "select"} => Stored(i).host = NoHost
        /\ pc[i] \in {"find", "select", "lockForClaim", "setClass", "clearHost"}
                        \union ClaimSteps => "inventory" \in obj[i].finalizers
        /\ pc[i] \in {"clearHost", "dropInventory"} => ClaimsNothing(i)

WorkersRecord == \A i \in Instances : WorkerRecords(i)

RecordInv == Prompt /\ GoneIsEmpty /\ ClaimsAreRecorded /\ WorkersRecord

(* An instance without a host has claimed none. *)
LEMMA NoHostNoClaim ==
    ASSUME ClaimsAreRecorded, NEW i \in Instances, Stored(i).host = NoHost
    PROVE  ClaimsNothing(i)
  BY NoHostAssumption DEF ClaimsAreRecorded, ClaimsNothing

(* A step of the worker of i that leaves the other objects alone, and in the    *)
(* inventory takes claims away or makes one for i.                               *)
LEMMA RecordFrame ==
    ASSUME TypeOK, RecordInv, NEW i \in Instances, WorkerRecords(i)',
           Len(versions'[i]) = 1,
           Stored(i)'.life = "gone" => Stored(i)'.finalizers = {},
           \A j \in Instances \ {i} :
              pc'[j] = pc[j] /\ obj'[j] = obj[j] /\ versions'[j] = versions[j],
           \A h \in Hosts : owner'[h] \in {owner[h], NoInstance, i},
           \A h \in Hosts : owner'[h] = i =>
              /\ Exists(Stored(i)') /\ Stored(i)'.host = h
              /\ "inventory" \in Stored(i)'.finalizers
    PROVE  RecordInv'
  <1>1. \A j \in Instances \ {i} : Stored(j)' = Stored(j)
    BY DEF Stored
  <1>2. Prompt' /\ GoneIsEmpty'
    BY <1>1 DEF RecordInv, Prompt, GoneIsEmpty
  <1>3. ClaimsAreRecorded'
    <2> SUFFICES ASSUME NEW j \in Instances, NEW h \in Hosts, owner'[h] = j
                 PROVE  /\ Exists(Stored(j)') /\ Stored(j)'.host = h
                        /\ "inventory" \in Stored(j)'.finalizers
      BY DEF ClaimsAreRecorded, Exists
    <2>1. CASE j = i
      BY <2>1
    <2>2. CASE j # i
      <3>1. owner[h] = j
        BY <2>2, NoInstanceAssumption
      <3> QED
        BY <1>1, <2>2, <3>1 DEF RecordInv, ClaimsAreRecorded
    <2> QED
      BY <2>1, <2>2
  <1>4. ASSUME NEW j \in Instances \ {i}
        PROVE  WorkerRecords(j)'
    <2>1. ClaimsNothing(j) => ClaimsNothing(j)'
      BY NoInstanceAssumption DEF ClaimsNothing
    <2> QED
      BY <1>1, <2>1 DEF RecordInv, WorkersRecord, WorkerRecords
  <1>5. WorkersRecord'
    BY <1>4 DEF WorkersRecord
  <1> QED
    BY <1>2, <1>3, <1>5 DEF RecordInv

LEMMA RecordIdle ==
    ASSUME NEW i \in Instances, pc[i] \in {"idle", "status"}
    PROVE  WorkerRecords(i)
  BY DEF WorkerRecords, LiveSteps, DeletingSteps, CleanupSteps, ClaimSteps, ReleaseSteps

(* A write when the cache is up to date. *)
LEMMA PromptPublish ==
    ASSUME TypeOK, RecordInv, lag = 0, NEW i \in Instances, NEW o \in Objects,
           Publish(i, o)
    PROVE  /\ Len(versions'[i]) = 1 /\ Stored(i)' = o
           /\ \A j \in Instances \ {i} : versions'[j] = versions[j]
  <1> DEFINE v == versions[i]
  <1>1. v \in Seq(Objects) /\ Len(v) = 1
    BY DEF TypeOK, RecordInv, Prompt
  <1>2. versions' = [versions EXCEPT ![i] = Append(Tail(v), o)]
    BY <1>1 DEF Publish
  <1>3. Len(Append(Tail(v), o)) = 1
    BY <1>1
  <1>4. versions'[i] = Append(Tail(v), o)
    BY <1>2 DEF TypeOK
  <1> QED
    BY <1>3, <1>4, Published

(* The shapes of a worker's steps. *)
LEMMA RecordReturn ==
    ASSUME TypeOK, RecordInv, NEW i \in Instances, NEW status, NEW again,
           Return(i, status, again) \/ Done(i, again),
           UNCHANGED <<versions, owner>>
    PROVE  RecordInv'
  <1>1. /\ pc'[i] \in {"idle", "status"}
        /\ \A j \in Instances \ {i} : pc'[j] = pc[j] /\ obj'[j] = obj[j]
    BY DEF Return, Done, TypeOK
  <1>2. WorkerRecords(i)'
    BY <1>1 DEF WorkerRecords, LiveSteps, DeletingSteps, CleanupSteps, ClaimSteps, ReleaseSteps
  <1>3. Stored(i)' = Stored(i)
    BY DEF Stored
  <1> QED
    BY <1>1, <1>2, <1>3, RecordFrame DEF RecordInv, Prompt, GoneIsEmpty, ClaimsAreRecorded

(* An update: it keeps the instance's record, or there is nothing to record. *)
LEMMA RecordUpdate ==
    ASSUME TypeOK, ReleaseInv, RecordInv, lag = 0,
           NEW i \in Instances, NEW step \in LiveSteps \union DeletingSteps,
           NEW o \in Objects, Update(i, step, o), o.life = obj[i].life,
           \/ ClaimsNothing(i)
           \/ /\ o.host = Stored(i).host
              /\ "inventory" \in obj[i].finalizers => "inventory" \in o.finalizers
    PROVE  /\ Len(versions'[i]) = 1
           /\ Stored(i)'.life # "unborn"
           /\ Stored(i)'.life = "gone" => Stored(i)'.finalizers = {}
           /\ Stored(i)'.host = o.host /\ Stored(i)'.finalizers = o.finalizers
           /\ \A j \in Instances \ {i} : versions'[j] = versions[j]
           /\ owner' = owner
           /\ \A h \in Hosts : owner'[h] = i =>
                 /\ Exists(Stored(i)') /\ Stored(i)'.host = h
                 /\ "inventory" \in Stored(i)'.finalizers
  <1> DEFINE q == [o EXCEPT !.status = Stored(i).status]
             p == Swept(q)
  <1>1. Stored(i) \in Objects /\ Stored(i).status \in Statuses
    BY VersionTypes, ObjectParts
  <1>2. q \in Objects /\ q.life = o.life /\ q.host = o.host /\ q.finalizers = o.finalizers
    BY <1>1, ObjectParts DEF Objects
  <1>3. /\ obj[i].life = Stored(i).life /\ obj[i].finalizers = Stored(i).finalizers
        /\ Stored(i).life \in {"live", "deleting"}
    BY DEF Update, Accepted, Exists, ReleaseInv, WorkersOK, WorkerOK
  <1> HIDE DEF q
  <1>4. /\ p \in Objects /\ p.host = o.host /\ p.finalizers = o.finalizers
        /\ p.life \in {"live", "deleting", "gone"}
        /\ p.life = "gone" => p.finalizers = {}
        /\ p.finalizers # {} => p.life = o.life
    BY <1>2, <1>3, ObjectParts DEF Swept, Objects
  <1>5. Publish(i, p) /\ owner' = owner
    BY DEF Update, inventory, q
  <1> HIDE DEF p
  <1>6. Len(versions'[i]) = 1 /\ Stored(i)' = p /\ \A j \in Instances \ {i} : versions'[j] = versions[j]
    BY <1>4, <1>5, PromptPublish
  <1>7. ASSUME NEW h \in Hosts, owner[h] = i
        PROVE  Exists(p) /\ p.host = h /\ "inventory" \in p.finalizers
    <2>1. Stored(i).host = h /\ "inventory" \in Stored(i).finalizers
      BY <1>7 DEF RecordInv, ClaimsAreRecorded
    <2>2. o.host = h /\ "inventory" \in o.finalizers
      BY <1>3, <1>7, <2>1 DEF ClaimsNothing
    <2> QED
      BY <1>3, <1>4, <2>2 DEF Exists
  <1> QED
    BY <1>4, <1>5, <1>6, <1>7

LEMMA RecordUpdateReturn ==
    ASSUME TypeOK, ReleaseInv, RecordInv, lag = 0,
           NEW i \in Instances, NEW step \in LiveSteps \union DeletingSteps,
           NEW o \in Objects, NEW status, Update(i, step, o), Return(i, status, FALSE),
           o.life = obj[i].life,
           \/ ClaimsNothing(i)
           \/ /\ o.host = Stored(i).host
              /\ "inventory" \in obj[i].finalizers => "inventory" \in o.finalizers
    PROVE  RecordInv'
  <1>1. /\ pc'[i] = "status"
        /\ \A j \in Instances \ {i} : pc'[j] = pc[j] /\ obj'[j] = obj[j]
    BY DEF Return, TypeOK
  <1>2. WorkerRecords(i)'
    BY <1>1 DEF WorkerRecords, LiveSteps, DeletingSteps, CleanupSteps, ClaimSteps, ReleaseSteps
  <1> QED
    BY <1>1, <1>2, RecordUpdate, RecordFrame

(* A step that writes no object: the worker's place and the inventory change. *)
LEMMA RecordMove ==
    ASSUME TypeOK, RecordInv, NEW i \in Instances, UNCHANGED versions,
           \A j \in Instances \ {i} : pc'[j] = pc[j] /\ obj'[j] = obj[j],
           WorkerRecords(i)',
           \A h \in Hosts : owner'[h] \in {owner[h], NoInstance, i},
           \A h \in Hosts : owner'[h] = i /\ owner[h] # i =>
              /\ Exists(Stored(i)) /\ Stored(i).host = h
              /\ "inventory" \in Stored(i).finalizers
    PROVE  RecordInv'
  <1>1. Stored(i)' = Stored(i)
    BY DEF Stored
  <1>2. \A h \in Hosts : owner'[h] = i =>
           /\ Exists(Stored(i)) /\ Stored(i).host = h /\ "inventory" \in Stored(i).finalizers
    BY DEF RecordInv, ClaimsAreRecorded
  <1> QED
    BY <1>1, <1>2, RecordFrame DEF RecordInv, Prompt, GoneIsEmpty
-------------------------------------------------------------------------------
(* Somebody else writes the object: its host and its finalizers stay. *)
LEMMA RecordWrite ==
    ASSUME TypeOK, RecordInv, lag = 0, NEW i \in Instances, NEW o \in Objects,
           Publish(i, o), UNCHANGED <<obj, owner>>,
           o.host = Stored(i).host, o.finalizers = Stored(i).finalizers,
           o.life = "unborn" => Stored(i).life = "unborn",
           o.life = "gone" => o.finalizers = {},
           pc'[i] = pc[i] \/ pc'[i] \in {"idle", "status"},
           \A j \in Instances \ {i} : pc'[j] = pc[j]
    PROVE  RecordInv'
  <1>1. /\ Len(versions'[i]) = 1 /\ Stored(i)' = o
        /\ \A j \in Instances \ {i} : versions'[j] = versions[j]
    BY PromptPublish
  <1>2. WorkerRecords(i)
    BY DEF RecordInv, WorkersRecord
  <1>3. WorkerRecords(i)'
    <2>1. CASE pc'[i] \in {"idle", "status"}
      BY <2>1 DEF WorkerRecords, LiveSteps, DeletingSteps, CleanupSteps, ClaimSteps, ReleaseSteps
    <2>2. CASE pc'[i] = pc[i]
      <3>1. ClaimsNothing(i) => ClaimsNothing(i)'
        BY DEF ClaimsNothing
      <3> QED
        BY <1>1, <1>2, <2>2, <3>1 DEF WorkerRecords
    <2> QED
      BY <2>1, <2>2
  <1>4. \A h \in Hosts : owner'[h] = i =>
           Exists(o) /\ o.host = h /\ "inventory" \in o.finalizers
    BY DEF RecordInv, ClaimsAreRecorded, Exists, Objects
  <1> QED
    BY <1>1, <1>3, <1>4, RecordFrame

LEMMA RecordEnvironment ==
    ASSUME TypeOK, RecordInv, lag = 0, NEW i \in Instances, Environment(i) \/ Informer(i)
    PROVE  RecordInv'
  <1>0. Stored(i) \in Objects
    BY VersionTypes
  <1>1. CASE Create(i)
    <2> DEFINE o == [NoObject EXCEPT !.life = "live"]
    <2>1. /\ o \in Objects /\ Publish(i, o) /\ UNCHANGED <<worker, owner>>
          /\ o.life = "live"
      BY <1>1, NoObjectType, ObjectParts DEF Create, inventory, NoObject
    <2>2. Stored(i).life = "unborn"
      BY <1>1 DEF Create
    <2> HIDE DEF o
    <2>3. ClaimsNothing(i)
      BY <2>2 DEF RecordInv, ClaimsAreRecorded, ClaimsNothing, Exists
    <2>4. pc[i] \notin LiveSteps \union DeletingSteps
      BY <2>2 DEF RecordInv, WorkersRecord, WorkerRecords
    <2>5. WorkerRecords(i)'
      BY <2>1, <2>4 DEF WorkerRecords, worker
    <2> QED
      BY <2>1, <2>3, <2>5, PromptPublish, RecordFrame DEF ClaimsNothing, worker
  <1>2. CASE Delete(i)
    <2> DEFINE o == [Stored(i) EXCEPT !.life =
                        IF Stored(i).finalizers = {} THEN "gone" ELSE "deleting"]
    <2>1. o \in Objects /\ Publish(i, o) /\ UNCHANGED <<pc, obj, owner>>
      BY <1>0, <1>2, ObjectParts DEF Delete, inventory
    <2>2. /\ o.host = Stored(i).host /\ o.finalizers = Stored(i).finalizers
          /\ o.life # "unborn" /\ (o.life = "gone" => o.finalizers = {})
      BY <1>0 DEF Objects
    <2> HIDE DEF o
    <2> QED
      BY <2>1, <2>2, RecordWrite
  <1>3. CASE EditByOther(i)
    <2> DEFINE o == Stored(i)
    <2>1. o \in Objects /\ Publish(i, o) /\ UNCHANGED <<pc, obj, owner>>
      BY <1>0, <1>3 DEF EditByOther, inventory
    <2>2. /\ o.host = Stored(i).host /\ o.finalizers = Stored(i).finalizers
          /\ o.life # "unborn" /\ (o.life = "gone" => o.finalizers = {})
      BY <1>3 DEF EditByOther, Exists
    <2> HIDE DEF o
    <2> QED
      BY <2>1, <2>2, RecordWrite
  <1>4. CASE DeliverEvent(i)
    <2>1. Len(versions[i]) > 1
      BY <1>4 DEF DeliverEvent
    <2>2. Len(versions[i]) = 1
      BY DEF RecordInv, Prompt
    <2>3. ~(1 > 1)
      OBVIOUS
    <2> QED
      BY <2>1, <2>2, <2>3
  <1>5. CASE FireTimer(i)
    <2>1. UNCHANGED <<versions, worker, owner>>
      BY <1>5 DEF FireTimer, inventory
    <2> QED
      BY <2>1 DEF RecordInv, Prompt, GoneIsEmpty, ClaimsAreRecorded, WorkersRecord,
                  WorkerRecords, ClaimsNothing, Stored, worker
  <1> QED
    BY <1>1, <1>2, <1>3, <1>4, <1>5 DEF Environment, Informer

(* A reconcile begins with the stored object. *)
LEMMA RecordStart ==
    ASSUME TypeOK, RecordInv, NEW i \in Instances, Start(i)
    PROVE  RecordInv'
  <1>0. /\ Cached(i) = Stored(i) /\ Stored(i) \in Objects
        /\ Stored(i).host = NoHost => ClaimsNothing(i)
    BY VersionTypes, NoHostNoClaim DEF RecordInv, Prompt, Cached, Stored
  <1>1. UNCHANGED <<versions, owner>>
    BY DEF Start, ReconcileMissing, ReconcileInventory, ReconcileManagement, HandleDeletion,
           Dequeue, inventory
  <1>2. CASE ReconcileMissing(i)
    BY <1>1, <1>2 DEF ReconcileMissing, RecordInv, Prompt, GoneIsEmpty, ClaimsAreRecorded,
       WorkersRecord, WorkerRecords, ClaimsNothing, Stored, worker
  <1>3. ASSUME NEW status, NEW next, Begin(i, status, next),
               Stored(i).life \in {"live", "deleting"},
               next \notin ClaimSteps \union {"select", "setClass", "clearHost"},
               next = "find" => Stored(i).host = NoHost,
               next = "dropInventory" => Stored(i).host = NoHost,
               next \in {"find", "lockForClaim"} => "inventory" \in Stored(i).finalizers
        PROVE  RecordInv'
    <2>1. /\ obj'[i] = [Stored(i) EXCEPT !.status = status] /\ pc'[i] = next
          /\ \A j \in Instances \ {i} : pc'[j] = pc[j] /\ obj'[j] = obj[j]
      BY <1>0, <1>3 DEF Begin, TypeOK
    <2>2. /\ obj'[i].finalizers = Stored(i).finalizers
          /\ obj'[i].host = Stored(i).host
      BY <1>0, <2>1 DEF Objects
    <2>3. Stored(i)' = Stored(i) /\ (ClaimsNothing(i) => ClaimsNothing(i)')
      BY <1>1 DEF Stored, ClaimsNothing
    <2>4. WorkerRecords(i)'
      BY <1>0, <1>3, <2>1, <2>2, <2>3 DEF WorkerRecords
    <2> QED
      BY <1>1, <2>1, <2>4, RecordMove
  <1>4. CASE ReconcileInventory(i)
    BY <1>0, <1>3, <1>4 DEF ReconcileInventory, ClaimSteps
  <1>5. CASE ReconcileManagement(i)
    BY <1>0, <1>3, <1>5 DEF ReconcileManagement, ClaimSteps
  <1>6. CASE HandleDeletion(i)
    <2>1. CASE "management" \in Cached(i).finalizers
      BY <1>0, <1>3, <1>6, <2>1 DEF HandleDeletion, ClaimSteps
    <2>2. CASE "management" \notin Cached(i).finalizers
      BY <1>0, <1>3, <1>6, <2>2 DEF HandleDeletion, InventoryCleanup, ClaimSteps
    <2> QED
      BY <2>1, <2>2
  <1> QED
    BY <1>2, <1>4, <1>5, <1>6 DEF Start
-------------------------------------------------------------------------------
(* A worker's steps. *)

(* The parts of an inventory call that are only a change of place. *)
LEMMA RecordGoOn ==
    ASSUME TypeOK, RecordInv, NEW i \in Instances, NEW next,
           pc[i] \in LiveSteps \union DeletingSteps, pc[i] # "select",
           next # "find" /\ next # "select",
           pc' = [pc EXCEPT ![i] = next], UNCHANGED <<versions, obj>>,
           next \in {"lockForClaim", "setClass", "clearHost"} \union ClaimSteps =>
              "inventory" \in obj[i].finalizers,
           next \in {"clearHost", "dropInventory"} => ClaimsNothing(i)',
           \A h \in Hosts : owner'[h] \in {owner[h], NoInstance, i},
           \A h \in Hosts : owner'[h] = i /\ owner[h] # i =>
              h = obj[i].host /\ "inventory" \in obj[i].finalizers
    PROVE  RecordInv'
  <1>1. pc'[i] = next /\ \A j \in Instances \ {i} : pc'[j] = pc[j]
    BY DEF TypeOK
  <1>2. Stored(i)' = Stored(i)
    BY DEF Stored
  <1>3. /\ Stored(i).life # "unborn" /\ obj[i].finalizers = Stored(i).finalizers
        /\ obj[i].host = Stored(i).host
    BY DEF RecordInv, WorkersRecord, WorkerRecords
  <1>4. WorkerRecords(i)'
    BY <1>1, <1>2, <1>3 DEF WorkerRecords
  <1>5. "inventory" \in obj[i].finalizers => Exists(Stored(i))
    <2>1. Stored(i) \in Objects
      BY VersionTypes
    <2> QED
      BY <1>3, <2>1 DEF RecordInv, GoneIsEmpty, Exists, Objects
  <1> QED
    BY <1>1, <1>3, <1>4, <1>5, RecordMove

LEMMA RecordStep ==
    ASSUME TypeOK, LockInv, ReleaseInv, RecordInv, lag = 0, NEW i \in Instances, Step(i)
    PROVE  RecordInv'
  <1> USE DEF LiveSteps, DeletingSteps, CleanupSteps, ClaimSteps, ReleaseSteps
  <1>0. /\ obj[i] \in Objects /\ Stored(i) \in Objects /\ WorkerRecords(i)
        /\ obj = [obj EXCEPT ![i] = obj[i]]
    BY VersionTypes DEF TypeOK, RecordInv, WorkersRecord
  <1>1. CASE EndReconcile(i) \/ StatusConflict(i)
    BY <1>1, RecordReturn DEF EndReconcile, StatusConflict, Done, inventory
  <1>2. CASE UpdateStatus(i)
    <2> DEFINE o == [Stored(i) EXCEPT !.status = obj[i].status]
    <2>1. /\ o \in Objects /\ Publish(i, o) /\ o.life = Stored(i).life
          /\ o.finalizers = Stored(i).finalizers /\ o.host = Stored(i).host
      BY <1>0, <1>2, ObjectParts DEF UpdateStatus, Objects
    <2> HIDE DEF o
    <2>2. /\ pc'[i] = "idle" /\ owner' = owner
          /\ \A j \in Instances \ {i} : pc'[j] = pc[j] /\ obj'[j] = obj[j]
      BY <1>2 DEF UpdateStatus, Done, TypeOK, inventory
    <2>3. /\ Len(versions'[i]) = 1 /\ Stored(i)' = o
          /\ \A j \in Instances \ {i} : versions'[j] = versions[j]
      BY <2>1, PromptPublish
    <2>4. WorkerRecords(i)'
      BY <2>2 DEF WorkerRecords
    <2> QED
      BY <2>1, <2>2, <2>3, <2>4, RecordFrame
      DEF RecordInv, GoneIsEmpty, ClaimsAreRecorded, Exists
  <1>3. CASE UpdateRejected(i)
    BY <1>3, RecordReturn DEF UpdateRejected, Abort, inventory
  <1>4. CASE AddInventoryFinalizer(i)
    <2> DEFINE o == [obj[i] EXCEPT !.finalizers = @ \union {"inventory"}]
    <2>1. o \in Objects /\ Update(i, "addInventory", o) /\ pc[i] = "addInventory"
      BY <1>0, <1>4, ObjectParts DEF Finalizers, AddInventoryFinalizer, Update
    <2>2. /\ o.life = obj[i].life /\ o.host = Stored(i).host
          /\ "inventory" \in o.finalizers
      BY <1>0, <2>1 DEF WorkerRecords, Objects
    <2> HIDE DEF o
    <2> QED
      BY <1>4, <2>1, <2>2, RecordUpdateReturn DEF AddInventoryFinalizer
  <1>5. CASE FindFreeHost(i)
    <2>1. PICK h \in Hosts : obj' = [obj EXCEPT ![i] = [obj[i] EXCEPT !.host = h]]
      BY <1>5, MatchingAssumption DEF FindFreeHost
    <2>2. /\ obj'[i].finalizers = obj[i].finalizers
          /\ pc'[i] = "select" /\ pc[i] = "find" /\ UNCHANGED <<versions, owner>>
          /\ \A j \in Instances \ {i} : pc'[j] = pc[j] /\ obj'[j] = obj[j]
      BY <1>0, <1>5, <2>1 DEF TypeOK, Objects, FindFreeHost, inventory
    <2>3. WorkerRecords(i)'
      BY <1>0, <2>2 DEF WorkerRecords, Stored
    <2> QED
      BY <2>2, <2>3, RecordMove
  <1>6. CASE NoFreeHost(i) \/ TryLockFails(i) \/ ManageHost(i) \/ DeprovisionPending(i)
    BY <1>6, RecordReturn DEF NoFreeHost, TryLockFails, ManageHost, DeprovisionPending, inventory
  <1>7. CASE SelectHost(i)
    <2>1. Update(i, "select", obj[i]) /\ pc[i] = "select"
      BY <1>7 DEF SelectHost, Update
    <2>2. ClaimsNothing(i)
      BY <1>0, <2>1, NoHostNoClaim DEF WorkerRecords, RecordInv
    <2> QED
      BY <1>0, <1>7, <2>1, <2>2, RecordUpdateReturn DEF SelectHost
  <1>8. CASE TryLock(i)
    <2>1. /\ \/ pc[i] = "lockForClaim" /\ pc' = [pc EXCEPT ![i] = "getForClaim"]
             \/ pc[i] = "lockForRelease" /\ pc' = [pc EXCEPT ![i] = "getForRelease"]
          /\ UNCHANGED <<versions, obj, owner>>
      BY <1>8 DEF TryLock, inventory
    <2> QED
      BY <1>0, <2>1, RecordGoOn DEF WorkerRecords
  <1>9. CASE GetForClaim(i)
    <2>1. /\ pc[i] = "getForClaim" /\ UNCHANGED <<versions, obj, owner>>
          /\ "inventory" \in obj[i].finalizers /\ obj[i].host = Stored(i).host
      BY <1>0, <1>9 DEF GetForClaim, inventory, WorkerRecords
    <2>2. CASE owner[obj[i].host] \notin {NoInstance, i}
      <3>1. ClaimsNothing(i)'
        BY <2>1, <2>2 DEF RecordInv, ClaimsAreRecorded, ClaimsNothing
      <3>2. pc' = [pc EXCEPT ![i] = "clearHost"]
        BY <1>9, <2>2 DEF GetForClaim
      <3> QED
        BY <2>1, <3>1, <3>2, RecordGoOn
    <2>3. CASE owner[obj[i].host] \in {NoInstance, i}
      <3>1. PICK next \in {"initLabels", "claim"} : pc' = [pc EXCEPT ![i] = next]
        BY <1>9, <2>3 DEF GetForClaim
      <3> QED
        BY <2>1, <3>1, RecordGoOn
    <2> QED
      BY <2>2, <2>3
  <1>10. CASE InitLabels(i)
    <2>1. /\ pc[i] = "initLabels" /\ "inventory" \in obj[i].finalizers
          /\ owner' = [owner EXCEPT ![obj[i].host] = NoInstance]
      BY <1>0, <1>10 DEF InitLabels, WorkerRecords
    <2>2. \A h \in Hosts : owner'[h] \in {owner[h], NoInstance}
      BY <2>1 DEF TypeOK
    <2>3. pc' = [pc EXCEPT ![i] = "claim"] /\ UNCHANGED <<versions, obj>>
      BY <1>10 DEF InitLabels
    <2>4. \A h \in Hosts : owner'[h] \in {owner[h], NoInstance, i} /\ (owner'[h] = i => owner[h] = i)
      BY <2>2, NoInstanceAssumption
    <2>5. pc[i] \in LiveSteps \union DeletingSteps /\ pc[i] # "select"
      BY <2>1
    <2>6. "claim" \notin {"clearHost", "dropInventory"}
      OBVIOUS
    <2> HIDE DEF LiveSteps, DeletingSteps, CleanupSteps, ClaimSteps, ReleaseSteps
    <2> QED
      BY <2>1, <2>3, <2>4, <2>5, <2>6, RecordGoOn
  <1>11. CASE Claim(i)
    <2>1. /\ pc[i] = "claim" /\ "inventory" \in obj[i].finalizers
          /\ owner' = [owner EXCEPT ![obj[i].host] = i]
      BY <1>0, <1>11 DEF Claim, Claimed, WorkerRecords
    <2>2. \A h \in Hosts : owner'[h] = owner[h] \/ (owner'[h] = i /\ h = obj[i].host)
      BY <2>1 DEF TypeOK
    <2>3. pc' = [pc EXCEPT ![i] = "setClass"] /\ UNCHANGED <<versions, obj>>
      BY <1>11 DEF Claim
    <2>4. /\ \A h \in Hosts : owner'[h] \in {owner[h], NoInstance, i}
          /\ \A h \in Hosts : owner'[h] = i /\ owner[h] # i => h = obj[i].host
      BY <2>2
    <2>5. pc[i] \in LiveSteps \union DeletingSteps /\ pc[i] # "select"
      BY <2>1
    <2>6. "setClass" \notin {"clearHost", "dropInventory"}
      OBVIOUS
    <2> HIDE DEF LiveSteps, DeletingSteps, CleanupSteps, ClaimSteps, ReleaseSteps
    <2> QED
      BY <2>1, <2>3, <2>4, <2>5, <2>6, RecordGoOn
  <1>12. CASE SetHostClass(i)
    <2> DEFINE o == [obj[i] EXCEPT !.classed = TRUE]
    <2>1. o \in Objects /\ Update(i, "setClass", o) /\ pc[i] = "setClass"
      BY <1>0, <1>12, ObjectParts DEF SetHostClass, Update
    <2>2. o.life = obj[i].life /\ o.host = Stored(i).host /\ o.finalizers = obj[i].finalizers
      BY <1>0, <2>1 DEF WorkerRecords, Objects
    <2> HIDE DEF o
    <2> QED
      BY <1>12, <2>1, <2>2, RecordUpdateReturn DEF SetHostClass
  <1>13. CASE ClearHost(i)
    <2> DEFINE o == [obj[i] EXCEPT !.host = NoHost]
    <2>1. /\ o \in Objects /\ Update(i, "clearHost", o) /\ pc[i] = "clearHost"
          /\ o.life = obj[i].life
      BY <1>0, <1>13, ObjectParts DEF ClearHost, Update, Objects
    <2>2. ClaimsNothing(i)
      BY <1>0, <2>1 DEF WorkerRecords
    <2> HIDE DEF o
    <2> QED
      BY <1>13, <2>1, <2>2, RecordUpdateReturn DEF ClearHost
  <1>14. CASE AddManagementFinalizer(i)
    <2> DEFINE o == [obj[i] EXCEPT !.finalizers = @ \union {"management"}]
    <2>1. o \in Objects /\ Update(i, "addManagement", o) /\ pc[i] = "addManagement"
      BY <1>0, <1>14, ObjectParts DEF Finalizers, AddManagementFinalizer, Update
    <2>2. /\ o.life = obj[i].life /\ o.host = Stored(i).host
          /\ "inventory" \in obj[i].finalizers => "inventory" \in o.finalizers
      BY <1>0, <2>1 DEF WorkerRecords, Objects
    <2> HIDE DEF o
    <2> QED
      BY <1>14, <2>1, <2>2, RecordUpdateReturn DEF AddManagementFinalizer
  <1>15. CASE DeprovisionDone(i)
    BY <1>15, RecordGoOn DEF DeprovisionDone, inventory
  <1>16. CASE DropManagementFinalizer(i)
    <2> DEFINE o == [obj[i] EXCEPT !.finalizers = @ \ {"management"}]
               p == [o EXCEPT !.status = StatusAfterUpdate(i)]
    <2>1. /\ o \in Objects /\ Update(i, "dropManagement", o) /\ pc[i] = "dropManagement"
          /\ obj' = [obj EXCEPT ![i] = p] /\ pc' = [pc EXCEPT ![i] = InventoryCleanup(o)]
      BY <1>0, <1>16, ObjectParts DEF DropManagementFinalizer, Finalizers, Update
    <2>2. /\ o.life = obj[i].life /\ o.host = Stored(i).host
          /\ "inventory" \in obj[i].finalizers => "inventory" \in o.finalizers
          /\ p.host = o.host /\ p.finalizers = o.finalizers
      BY <1>0, <2>1 DEF WorkerRecords, Objects
    <2> HIDE DEF o, p
    <2>3. /\ Len(versions'[i]) = 1
          /\ Stored(i)'.life # "unborn"
          /\ Stored(i)'.life = "gone" => Stored(i)'.finalizers = {}
          /\ Stored(i)'.host = o.host /\ Stored(i)'.finalizers = o.finalizers
          /\ \A j \in Instances \ {i} : versions'[j] = versions[j]
          /\ owner' = owner
          /\ \A h \in Hosts : owner'[h] = i =>
                /\ Exists(Stored(i)') /\ Stored(i)'.host = h
                /\ "inventory" \in Stored(i)'.finalizers
      BY <2>1, <2>2, RecordUpdate
    <2>4. /\ obj'[i] = p /\ pc'[i] = InventoryCleanup(o)
          /\ \A j \in Instances \ {i} : pc'[j] = pc[j] /\ obj'[j] = obj[j]
      BY <2>1 DEF TypeOK
    <2>5. o.host = NoHost => ClaimsNothing(i)'
      BY <2>2, <2>3, NoHostNoClaim DEF RecordInv, ClaimsNothing
    <2>6. pc'[i] \in {"status", "dropInventory", "lockForRelease"}
          /\ (pc'[i] = "dropInventory" => o.host = NoHost)
      BY <2>4 DEF InventoryCleanup
    <2>7. WorkerRecords(i)'
      BY <2>2, <2>3, <2>4, <2>5, <2>6 DEF WorkerRecords
    <2> QED
      BY <2>3, <2>4, <2>7, RecordFrame
  <1>17. CASE GetForRelease(i)
    <2>1. /\ pc[i] = "getForRelease" /\ UNCHANGED <<versions, obj, owner>>
          /\ obj[i].host = Stored(i).host
      BY <1>0, <1>17 DEF GetForRelease, inventory, WorkerRecords
    <2>2. CASE owner[obj[i].host] = NoInstance
      <3>1. ClaimsNothing(i)'
        BY <2>1, <2>2, NoInstanceAssumption DEF RecordInv, ClaimsAreRecorded, ClaimsNothing
      <3>2. PICK next \in {"dropInventory", "release"} : pc' = [pc EXCEPT ![i] = next]
        BY <1>17 DEF GetForRelease
      <3> QED
        BY <2>1, <3>1, <3>2, RecordGoOn
    <2>3. CASE owner[obj[i].host] # NoInstance
      <3>1. pc' = [pc EXCEPT ![i] = "release"]
        BY <1>17, <2>3 DEF GetForRelease
      <3> QED
        BY <2>1, <3>1, RecordGoOn
    <2> QED
      BY <2>2, <2>3
  <1>18. CASE Release(i)
    <2>1. /\ pc[i] = "release" /\ obj[i].host = Stored(i).host /\ obj[i].host \in Hosts
          /\ owner' = [owner EXCEPT ![obj[i].host] = NoInstance]
      BY <1>0, <1>18 DEF Release, Released, WorkerRecords, LockInv, WorkerHasHost, HostSteps
    <2>2. \A h \in Hosts : owner'[h] = IF h = obj[i].host THEN NoInstance ELSE owner[h]
      BY <2>1 DEF TypeOK
    <2>3. ClaimsNothing(i)'
      BY <2>1, <2>2, NoInstanceAssumption DEF RecordInv, ClaimsAreRecorded, ClaimsNothing
    <2>4. pc' = [pc EXCEPT ![i] = "dropInventory"] /\ UNCHANGED <<versions, obj>>
      BY <1>18 DEF Release
    <2>5. /\ \A h \in Hosts : owner'[h] \in {owner[h], NoInstance, i}
          /\ \A h \in Hosts : owner'[h] # i
      BY <2>2, <2>3, NoInstanceAssumption DEF ClaimsNothing
    <2>6. /\ pc[i] \in LiveSteps \union DeletingSteps /\ pc[i] # "select"
          /\ "dropInventory" \notin {"lockForClaim", "setClass", "clearHost"} \union ClaimSteps
      BY <2>1
    <2> HIDE DEF LiveSteps, DeletingSteps, CleanupSteps, ClaimSteps, ReleaseSteps
    <2> QED
      BY <2>3, <2>4, <2>5, <2>6, RecordGoOn
  <1>19. CASE DropInventoryFinalizer(i)
    <2> DEFINE o == [obj[i] EXCEPT !.finalizers = @ \ {"inventory"}]
    <2>1. /\ o \in Objects /\ Update(i, "dropInventory", o) /\ pc[i] = "dropInventory"
          /\ o.life = obj[i].life
      <3>1. Update(i, "dropInventory", o)
        BY <1>19 DEF DropInventoryFinalizer
      <3>2. pc[i] = "dropInventory"
        BY <3>1 DEF Update
      <3>3. obj[i] \in Objects /\ obj[i].finalizers \ {"inventory"} \subseteq Finalizers
        BY <1>0, ObjectParts
      <3>4. o \in Objects
        BY <3>3, ObjectParts
      <3>5. o.life = obj[i].life
        BY <3>3 DEF Objects
      <3> QED
        BY <3>1, <3>2, <3>4, <3>5
    <2>2. ClaimsNothing(i)
      BY <1>0, <2>1 DEF WorkerRecords
    <2> HIDE DEF o
    <2> QED
      BY <1>19, <2>1, <2>2, RecordUpdateReturn DEF DropInventoryFinalizer
  <1> QED
    BY <1>1, <1>2, <1>3, <1>4, <1>5, <1>6, <1>7, <1>8, <1>9, <1>10, <1>11, <1>12,
       <1>13, <1>14, <1>15, <1>16, <1>17, <1>18, <1>19 DEF Step

(* A failure: a reply that is lost leaves the claim or the release written. *)
LEMMA RecordFault ==
    ASSUME TypeOK, RecordInv, NEW i \in Instances, Fault(i)
    PROVE  RecordInv'
  <1>1. CASE RequestFails(i) \/ StatusRequestFails(i) \/ ClaimConflict(i)
    BY <1>1, RecordReturn DEF RequestFails, StatusRequestFails, ClaimConflict, Abort, Done,
                              inventory
  <1>2. CASE ClaimReplyLost(i) \/ ReleaseReplyLost(i)
    <2>1. /\ UNCHANGED versions /\ pc'[i] = "status"
          /\ \A j \in Instances \ {i} : pc'[j] = pc[j] /\ obj'[j] = obj[j]
      BY <1>2 DEF ClaimReplyLost, ReleaseReplyLost, Abort, Return, TypeOK
    <2>2. WorkerRecords(i)'
      BY <2>1, RecordIdle DEF WorkerRecords, LiveSteps, DeletingSteps, CleanupSteps,
                              ClaimSteps, ReleaseSteps
    <2>3. CASE ReleaseReplyLost(i)
      <3>1. \A h \in Hosts : owner'[h] \in {owner[h], NoInstance}
        BY <2>3 DEF ReleaseReplyLost, Released, TypeOK
      <3> QED
        BY <2>1, <2>2, <3>1, NoInstanceAssumption, RecordMove
    <2>4. CASE ClaimReplyLost(i)
      <3>1. /\ pc[i] = "claim" /\ "inventory" \in obj[i].finalizers
            /\ obj[i].finalizers = Stored(i).finalizers /\ obj[i].host = Stored(i).host
            /\ Stored(i).life # "unborn"
        BY <2>4 DEF ClaimReplyLost, RecordInv, WorkersRecord, WorkerRecords, LiveSteps, ClaimSteps
      <3>2. \A h \in Hosts : owner'[h] = owner[h] \/ (owner'[h] = i /\ h = obj[i].host)
        BY <2>4 DEF ClaimReplyLost, Claimed, TypeOK
      <3>3. Exists(Stored(i))
        BY <3>1, VersionTypes DEF RecordInv, GoneIsEmpty, Exists, Objects
      <3> QED
        BY <2>1, <2>2, <3>1, <3>2, <3>3, RecordMove
    <2> QED
      BY <1>2, <2>3, <2>4
  <1>3. CASE Reconnect(i)
    <2>1. PICK next \in {"getForClaim", "getForRelease"} :
             /\ pc' = [pc EXCEPT ![i] = next]
             /\ next = "getForClaim" => pc[i] \in ClaimSteps
      BY <1>3 DEF Reconnect
    <2>2. /\ pc[i] \in LiveSteps \union DeletingSteps /\ pc[i] # "select"
          /\ UNCHANGED <<versions, obj>>
          /\ pc[i] \in ClaimSteps => "inventory" \in obj[i].finalizers
      BY <1>3 DEF Reconnect, RecordInv, WorkersRecord, WorkerRecords, LiveSteps, DeletingSteps,
                  CleanupSteps, ClaimSteps, ReleaseSteps
    <2>3. /\ \A h \in Hosts : owner'[h] \in {owner[h], NoInstance, i}
          /\ \A h \in Hosts : owner'[h] = i /\ owner[h] # i =>
                h = obj[i].host /\ pc[i] = "claim"
      BY <1>3, NoInstanceAssumption DEF Reconnect, Claimed, Released, inventory, TypeOK
    <2> QED
      BY <2>1, <2>2, <2>3, RecordGoOn DEF ClaimSteps
  <1> QED
    BY <1>1, <1>2, <1>3 DEF Fault

LEMMA RecordRestart ==
    ASSUME RecordInv, Restart
    PROVE  RecordInv'
  <1>1. /\ \A j \in Instances : versions'[j] = <<Stored(j)>> /\ pc'[j] = "idle"
        /\ owner' = owner
    BY DEF Restart, inventory
  <1>2. \A j \in Instances : Stored(j)' = Stored(j) /\ Len(versions'[j]) = 1
    BY <1>1, OneVersion DEF Stored
  <1>3. WorkersRecord'
    BY <1>1 DEF WorkersRecord, WorkerRecords, LiveSteps, DeletingSteps, CleanupSteps,
                ClaimSteps, ReleaseSteps
  <1> QED
    BY <1>1, <1>2, <1>3 DEF RecordInv, Prompt, GoneIsEmpty, ClaimsAreRecorded, Exists

LEMMA RecordInductive ==
    ASSUME IInv, ReleaseInv, RecordInv, lag = 0, [Next]_vars
    PROVE  RecordInv'
  <1>0. TypeOK /\ LockInv
    BY DEF IInv
  <1>1. CASE UNCHANGED vars
    BY <1>1 DEF RecordInv, Prompt, GoneIsEmpty, ClaimsAreRecorded, WorkersRecord,
                WorkerRecords, ClaimsNothing, Stored, vars
  <1>2. CASE Next
    BY <1>0, <1>2, RecordRestart, RecordEnvironment, RecordStart, RecordStep, RecordFault
       DEF Next
  <1> QED
    BY <1>1, <1>2

(* With an up-to-date cache the invariant holds in every reachable state. *)
THEOREM RecordInvariant == Spec => [](lag = 0 => RecordInv)
  <1>1. Init => RecordInv
    <2> SUFFICES ASSUME Init PROVE RecordInv
      OBVIOUS
    <2>1. \A j \in Instances : versions[j] = <<NoObject>> /\ pc[j] = "idle"
      BY DEF Init
    <2>2. \A j \in Instances : Stored(j) = NoObject /\ Len(versions[j]) = 1
      BY <2>1, OneVersion DEF Stored
    <2>3. WorkersRecord
      BY <2>1, RecordIdle DEF WorkersRecord
    <2>4. ClaimsAreRecorded
      BY NoInstanceAssumption DEF Init, ClaimsAreRecorded
    <2> QED
      BY <2>2, <2>3, <2>4 DEF RecordInv, Prompt, GoneIsEmpty, NoObject
  <1>2. IInv /\ ReleaseInv /\ (lag = 0 => RecordInv) /\ [Next]_vars => (lag = 0 => RecordInv)'
    <2>1. [Next]_vars => lag' = lag
      BY DEF Next, vars
    <2> QED
      BY <2>1, RecordInductive
  <1> QED
    BY <1>1, <1>2, Invariant, ReleaseInvariant, PTL DEF Spec

(* reconcileInventory 226-296 stores externalHostID before it claims the host,  *)
(* and handleDeletion drops the inventory finalizer after the release: with a   *)
(* cache that is up to date no claim is ever left behind, whatever requests     *)
(* fail, replies are lost or processes die.                                      *)
THEOREM ClaimsRecorded == Spec => []ClaimsStayRecorded
  <1>1. (lag = 0 => RecordInv) => ClaimsStayRecorded
    BY DEF RecordInv, ClaimsStayRecorded
  <1> QED
    BY <1>1, RecordInvariant, PTL
===============================================================================
