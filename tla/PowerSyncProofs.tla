--------------------------- MODULE PowerSyncProofs ---------------------------
(***************************************************************************)
(* What holds of PowerSync for both backends and every lag, number of      *)
(* faults and number of edits.                                             *)
(***************************************************************************)
EXTENDS PowerSync, SequenceTheorems, TLAPS

(* The parts of objects and hosts. *)
LEMMA StatusParts ==
    ASSUME NEW s \in Statuses
    PROVE  /\ s.trigger \in Triggers
           /\ \A c \in Conditions : [s EXCEPT !.synced = c] \in Statuses
           /\ \A t \in Triggers : [s EXCEPT !.trigger = t] \in Statuses
           /\ \A r \in {"", "Always", "Halted"} : [s EXCEPT !.run = r] \in Statuses
           /\ \A p \in {"Progressing", "Failed", "Ready"} :
                 [s EXCEPT !.phase = p] \in Statuses
  BY DEF Statuses

LEMMA ObjectParts ==
    ASSUME NEW o \in Objects
    PROVE  /\ o.status \in Statuses
           /\ o.run \in {"", "Always", "Halted"}
           /\ o.trigger \in Triggers
           /\ \A s \in Statuses : [o EXCEPT !.status = s] \in Objects
           /\ \A r \in {"", "Always", "Halted"}, t \in Triggers :
                 [o EXCEPT !.run = r, !.trigger = t] \in Objects
  BY DEF Objects

LEMMA VersionTypes ==
    ASSUME NEW S, versions \in Seq(S) \ {<<>>}
    PROVE  Len(versions) \in Nat \ {0} /\ Stored \in S /\ Cached \in S
  BY DEF Stored, Cached

LEMMA TailNotEmpty ==
    ASSUME NEW S, NEW s \in Seq(S), Len(s) > 1
    PROVE  /\ Tail(s) \in Seq(S) \ {<<>>}
           /\ Tail(s)[Len(Tail(s))] = s[Len(s)]
  <1> DEFINE n == Len(s)
             t == Tail(s)
  <1>1. n \in Nat /\ n > 1 /\ t \in Seq(S) /\ Len(t) = n - 1
    OBVIOUS
  <1>2. \A k \in 1 .. n - 1 : t[k] = s[k + 1]
    OBVIOUS
  <1> HIDE DEF n, t
  <1>3. n - 1 \in 1 .. n - 1 /\ n - 1 + 1 = n
    BY <1>1
  <1>4. t[Len(t)] = s[n] /\ Len(t) # 0
    BY <1>1, <1>2, <1>3
  <1> QED
    BY <1>1, <1>4, EmptySeq DEF n, t

(* The published version is the stored one. *)
LEMMA PublishTypes ==
    ASSUME NEW S, versions \in Seq(S) \ {<<>>}, NEW o \in S, Publish(o)
    PROVE  versions' \in Seq(S) \ {<<>>} /\ Stored' = o
  <1>1. ASSUME NEW s \in Seq(S)
        PROVE  Append(s, o) \in Seq(S) \ {<<>>} /\ Append(s, o)[Len(Append(s, o))] = o
    OBVIOUS
  <1>2. versions \in Seq(S) /\ Tail(versions) \in Seq(S)
    OBVIOUS
  <1>3. PICK s \in Seq(S) : versions' = Append(s, o)
    BY <1>2 DEF Publish
  <1> QED
    BY <1>1, <1>3 DEF Stored

LEMMA HostTypes ==
    ASSUME NEW h \in HostStates
    PROVE  /\ \A p \in Powers : Ordered(h, p) \subseteq HostStates
           /\ Ordered(h, "reboot") \subseteq HostStates
           /\ h.unseen # "none" => Shown(h) \in HostStates
           /\ h.target # "none" => Powered(h) \in HostStates
           /\ Rebooted(h) \in HostStates
           /\ Transitioning(h) \in BOOLEAN
           /\ h.power \in Powers
  BY DEF HostStates, Powers, Ordered, Show, Shown, Powered, Rebooted, Transitioning

LEMMA FaultTypes ==
    ASSUME TypeOK, Fault
    PROVE  faults' \in 0 .. MaxFaults
  BY BoundsAssumption DEF TypeOK, Fault

(* The statuses the handler gives the copy. *)
LEMMA SyncedStatusType ==
    ASSUME NEW o \in Objects, NEW h \in HostStates
    PROVE  /\ SyncedStatus(o, h) \in Statuses
           /\ SyncedStatus(o, h).trigger = o.status.trigger
  BY DEF SyncedStatus, Objects, Statuses, Conditions, IsTrue, InProgress, Observed

LEMMA AcknowledgedType ==
    ASSUME NEW o \in Objects
    PROVE  Acknowledged(o) \in Objects
  BY DEF Acknowledged, Objects, Statuses, Conditions, IsTrue, Triggers

LEMMA WithType ==
    ASSUME TypeOK, NEW c \in Conditions, NEW p \in {"Progressing", "Failed", "Ready"}
    PROVE  With(c, p) \in Statuses
  BY ObjectParts DEF TypeOK, With, Statuses

LEMMA ReturnTypes ==
    ASSUME TypeOK, NEW status \in Statuses, NEW r \in {"done", "later", "soon"},
           Return(status, r)
    PROVE  /\ versions' \in Seq(Objects) \ {<<>>}
           /\ queued' \in BOOLEAN
           /\ timer' \in {"none", "soon", "later"}
           /\ pc' \in RemoteCalls \union {"idle", "status"}
           /\ obj' \in Objects
           /\ current' \in BOOLEAN
           /\ oldstatus' \in Statuses
           /\ acted' \in BOOLEAN
           /\ result' \in {"done", "later", "soon"}
           /\ edits' \in 0 .. MaxEdits
           /\ careful' \in BOOLEAN
  BY ObjectParts DEF TypeOK, Return

LEMMA GoToTypes ==
    ASSUME TypeOK, NEW next \in RemoteCalls, GoTo(next)
    PROVE  /\ versions' \in Seq(Objects) \ {<<>>}
           /\ queued' \in BOOLEAN
           /\ timer' \in {"none", "soon", "later"}
           /\ pc' \in RemoteCalls \union {"idle", "status"}
           /\ obj' \in Objects
           /\ current' \in BOOLEAN
           /\ oldstatus' \in Statuses
           /\ result' \in {"done", "later", "soon"}
           /\ edits' \in 0 .. MaxEdits
           /\ careful' \in BOOLEAN
  BY DEF TypeOK, GoTo

LEMMA FinishTypes ==
    ASSUME TypeOK, NEW r \in {"done", "later", "soon"}, Finish(r)
    PROVE  /\ timer' \in {"none", "soon", "later"}
           /\ pc' \in RemoteCalls \union {"idle", "status"}
           /\ obj' \in Objects
           /\ current' \in BOOLEAN
           /\ oldstatus' \in Statuses
           /\ acted' \in BOOLEAN
           /\ result' \in {"done", "later", "soon"}
           /\ host' \in HostStates
           /\ edits' \in 0 .. MaxEdits
           /\ careful' \in BOOLEAN
           /\ served' \in 0 .. 2
  BY DEF TypeOK, Finish, reconcile

LEMMA AbortStatus ==
    ASSUME TypeOK, Abort
    PROVE  \E c \in {"checkFailed", "triggerFailed", "apiFailure"} :
              Return(With(c, "Failed"), "soon")
  BY DEF Abort
------------------------------------------------------------------------------
(* Type correctness *)

LEMMA InitType == Init => TypeOK
  <1> SUFFICES ASSUME Init PROVE TypeOK
    OBVIOUS
  <1>1. PICK run \in RunStrategies, trigger \in Triggers :
           versions = <<[run |-> run, trigger |-> trigger,
                         status |-> [run |-> "", trigger |-> 0, synced |-> "none",
                                     phase |-> "Progressing"]]>>
    BY DEF Init
  <1> DEFINE s == [run |-> "", trigger |-> 0, synced |-> "none", phase |-> "Progressing"]
             o == [run |-> run, trigger |-> trigger, status |-> s]
  <1>2. s \in Statuses
    BY DEF Statuses, Conditions, Triggers
  <1>3. o \in Objects
    BY <1>2, RunStrategiesAssumption DEF Objects
  <1>4. versions \in Seq(Objects) \ {<<>>} /\ versions[1] = o
    <2>1. versions = <<o>>
      BY <1>1
    <2> HIDE DEF o
    <2> QED
      BY <2>1, <1>3
  <1>5. obj \in Objects /\ oldstatus \in Statuses
    BY <1>3, <1>4, ObjectParts DEF Init
  <1>6. host \in HostStates
    <2>1. PICK power \in Powers :
             host = [power |-> power, target |-> "none", reboot |-> FALSE, unseen |-> "none"]
      BY DEF Init
    <2> QED
      BY <2>1 DEF HostStates
  <1>7. /\ queued = TRUE /\ timer = "none" /\ pc = "idle" /\ current = FALSE
        /\ acted = FALSE /\ result = "done" /\ edits = 0 /\ faults = 0 /\ served = 0
    BY DEF Init
  <1>8. edits \in 0 .. MaxEdits /\ faults \in 0 .. MaxFaults /\ served \in 0 .. 2
    BY <1>7, BoundsAssumption
  <1>9. /\ queued \in BOOLEAN /\ current \in BOOLEAN /\ acted \in BOOLEAN
        /\ timer \in {"none", "soon", "later"} /\ result \in {"done", "later", "soon"}
        /\ pc \in RemoteCalls \union {"idle", "status"}
    BY <1>7
  <1>10. careful \in BOOLEAN /\ lag \in 0 .. MaxLag
    BY DEF Init
  <1> QED
    BY <1>4, <1>5, <1>6, <1>8, <1>9, <1>10 DEF TypeOK

LEMMA EnvironmentType ==
    ASSUME TypeOK, EditSpec \/ DeliverEvent \/ FireTimer \/ HostWorks,
           UNCHANGED lag
    PROVE  TypeOK'
  <1>1. CASE EditSpec
    <2>1. PICK run \in RunStrategies, trigger \in Triggers :
             /\ Publish([Stored EXCEPT !.run = run, !.trigger = trigger])
             /\ served' = IF trigger = Stored.trigger THEN served ELSE 0
      BY <1>1 DEF EditSpec
    <2>2. Stored \in Objects
      BY VersionTypes DEF TypeOK
    <2>3. [Stored EXCEPT !.run = run, !.trigger = trigger] \in Objects
      BY <2>2, ObjectParts, RunStrategiesAssumption
    <2>4. versions' \in Seq(Objects) \ {<<>>}
      BY <2>1, <2>3, PublishTypes DEF TypeOK
    <2>5. served' \in 0 .. 2
      BY <2>1 DEF TypeOK
    <2>6. edits' \in 0 .. MaxEdits
      <3>1. edits < MaxEdits /\ edits' = edits + 1
        BY <1>1 DEF EditSpec
      <3>2. edits \in 0 .. MaxEdits
        BY DEF TypeOK
      <3> QED
        BY <3>1, <3>2, BoundsAssumption
    <2>7. queued' \in BOOLEAN /\ timer' \in {"none", "soon", "later"}
      <3>1. Enqueue \/ UNCHANGED <<queued, timer>>
        BY <1>1 DEF EditSpec
      <3> QED
        BY <3>1 DEF Enqueue, TypeOK
    <2>8. current' \in BOOLEAN /\ UNCHANGED <<pc, obj, oldstatus, acted, result, host, faults>>
      BY <1>1 DEF EditSpec
    <2>9. /\ pc' \in RemoteCalls \union {"idle", "status"}
          /\ obj' \in Objects /\ oldstatus' \in Statuses /\ acted' \in BOOLEAN
          /\ result' \in {"done", "later", "soon"} /\ host' \in HostStates
          /\ faults' \in 0 .. MaxFaults
      BY <2>8 DEF TypeOK
    <2>10. careful' \in BOOLEAN
      BY <1>1 DEF EditSpec
    <2> QED
      BY <2>4, <2>5, <2>6, <2>7, <2>8, <2>9, <2>10 DEF TypeOK
  <1>2. CASE DeliverEvent
    <2>1. versions' \in Seq(Objects) \ {<<>>}
      BY <1>2, TailNotEmpty DEF DeliverEvent, TypeOK
    <2> QED
      BY <1>2, <2>1 DEF DeliverEvent, Enqueue, TypeOK, reconcile
  <1>3. CASE FireTimer
    BY <1>3 DEF FireTimer, TypeOK, reconcile
  <1>4. CASE HostWorks
    <2>1. host' \in HostStates
      BY <1>4, HostTypes DEF HostWorks, TypeOK
    <2> QED
      BY <1>4, <2>1 DEF HostWorks, TypeOK, reconcile
  <1> QED
    BY <1>1, <1>2, <1>3, <1>4

LEMMA StartType ==
    ASSUME TypeOK, Start,
           UNCHANGED lag
    PROVE  TypeOK'
  <1>1. Cached \in Objects
    BY VersionTypes DEF TypeOK
  <1>2. \E o \in Objects, next \in RemoteCalls : Begin(o, next)
    BY <1>1, AcknowledgedType
       DEF Start, ReconcileNoRestart, ReconcileHalted, ReconcileRestart, RemoteCalls
  <1>3. PICK o \in Objects, next \in RemoteCalls : Begin(o, next)
    BY <1>2
  <1>4. Cached.status \in Statuses
    BY <1>1, ObjectParts
  <1> QED
    BY <1>3, <1>4 DEF Begin, TypeOK

(* A reboot or a power order leaves a host, and counts. *)
LEMMA AcceptedTypes ==
    ASSUME TypeOK
    PROVE  /\ RebootAccepted => host' \in HostStates /\ served' \in 1 .. 2
           /\ PowerAccepted => host' \in HostStates
  <1>1. Desired(obj) \in Powers
    BY DEF Desired, Powers
  <1>2. host \in HostStates /\ served \in 0 .. 2
    BY DEF TypeOK
  <1>3. ASSUME RebootAccepted
        PROVE  host' \in HostStates /\ served' \in 1 .. 2
    BY <1>2, <1>3, HostTypes DEF RebootAccepted
  <1>4. ASSUME PowerAccepted
        PROVE  host' \in HostStates
    BY <1>1, <1>2, <1>4, HostTypes DEF PowerAccepted
  <1> QED
    BY <1>3, <1>4

LEMMA RestartStepType ==
    ASSUME TypeOK,
           \/ RestartComplete \/ RestartNotComplete \/ RestartRefused
           \/ ReadBeforeRestart \/ TriggerRestart,
           UNCHANGED lag
    PROVE  TypeOK'
  <1>1. obj \in Objects /\ obj.status \in Statuses
    BY ObjectParts DEF TypeOK
  <1>2. CASE RestartComplete
    BY <1>1, <1>2, AcknowledgedType DEF RestartComplete, TypeOK, RemoteCalls
  <1>3. CASE RestartNotComplete
    <2>1. [obj.status EXCEPT !.phase = "Progressing"] \in Statuses
      BY <1>1, StatusParts
    <2> QED
      BY <1>3, <2>1, ReturnTypes DEF RestartNotComplete, TypeOK
  <1>4. CASE RestartRefused
    <2>1. With("retry", "Progressing") \in Statuses
      BY WithType DEF Conditions
    <2> QED
      BY <1>4, <2>1, ReturnTypes DEF RestartRefused, TypeOK
  <1>5. CASE ReadBeforeRestart
    <2>1. GoTo("patchReboot") /\ "patchReboot" \in RemoteCalls
      BY <1>5 DEF ReadBeforeRestart, RemoteCalls
    <2> QED
      BY <1>5, <2>1, GoToTypes DEF ReadBeforeRestart, TypeOK
  <1>6. CASE TriggerRestart
    <2>1. With("restarting", "Progressing") \in Statuses
      BY WithType DEF Conditions, InProgress
    <2>2. host' \in HostStates /\ served' \in 0 .. 2
      BY <1>6, AcceptedTypes DEF TriggerRestart
    <2> QED
      BY <1>6, <2>1, <2>2, ReturnTypes DEF TriggerRestart, TypeOK
  <1> QED
    BY <1>2, <1>3, <1>4, <1>5, <1>6

LEMMA PowerStepType ==
    ASSUME TypeOK,
           \/ ReportPower \/ GetPower \/ PowerRefused
           \/ ReadBeforePower \/ SetPower \/ RefreshPower,
           UNCHANGED lag
    PROVE  TypeOK'
  <1>1. host \in HostStates /\ SyncedStatus(obj, host) \in Statuses
    BY SyncedStatusType DEF TypeOK
  <1>2. CASE ReportPower
    <2>1. [SyncedStatus(obj, host) EXCEPT !.phase = "Ready"] \in Statuses
      BY <1>1, StatusParts
    <2> QED
      BY <1>2, <2>1, ReturnTypes DEF ReportPower, TypeOK
  <1>3. CASE GetPower
    <2>1. PICK next \in RemoteCalls : GoTo(next)
      BY <1>3 DEF GetPower, RemoteCalls
    <2>2. acted' \in BOOLEAN
      BY <1>1, <1>3, HostTypes DEF GetPower
    <2> QED
      BY <1>3, <2>1, <2>2, GoToTypes DEF GetPower, TypeOK
  <1>4. CASE PowerRefused
    <2>1. GoTo("refreshPower") /\ "refreshPower" \in RemoteCalls
      BY <1>4 DEF PowerRefused, RemoteCalls
    <2> QED
      BY <1>4, <2>1, GoToTypes DEF PowerRefused, TypeOK
  <1>5. CASE ReadBeforePower
    <2>1. GoTo("patchOnline") /\ "patchOnline" \in RemoteCalls
      BY <1>5 DEF ReadBeforePower, RemoteCalls
    <2> QED
      BY <1>5, <2>1, GoToTypes DEF ReadBeforePower, TypeOK
  <1>6. CASE SetPower
    <2>1. GoTo("refreshPower") /\ "refreshPower" \in RemoteCalls
      BY <1>6 DEF SetPower, RemoteCalls
    <2>2. host' \in HostStates
      BY <1>6, AcceptedTypes DEF SetPower
    <2> QED
      BY <1>6, <2>1, <2>2, GoToTypes DEF SetPower, TypeOK
  <1>7. CASE RefreshPower
    <2>1. PICK p \in {"Ready", "Progressing"}, r \in {"done", "later", "soon"} :
             Return([SyncedStatus(obj, host) EXCEPT !.phase = p], r)
      BY <1>7 DEF RefreshPower
    <2>2. [SyncedStatus(obj, host) EXCEPT !.phase = p] \in Statuses
      BY <1>1, StatusParts
    <2> QED
      BY <1>7, <2>1, <2>2, ReturnTypes DEF RefreshPower, TypeOK
  <1> QED
    BY <1>2, <1>3, <1>4, <1>5, <1>6, <1>7

LEMMA EndStepType ==
    ASSUME TypeOK, EndReconcile \/ UpdateStatus \/ StatusConflict \/ StatusRequestFails,
           UNCHANGED lag
    PROVE  TypeOK'
  <1>1. CASE EndReconcile
    BY <1>1, FinishTypes DEF EndReconcile, TypeOK
  <1>2. CASE UpdateStatus
    <2>1. Stored \in Objects /\ obj.status \in Statuses
      BY VersionTypes, ObjectParts DEF TypeOK
    <2>2. [Stored EXCEPT !.status = obj.status] \in Objects
      BY <2>1, ObjectParts
    <2>3. versions' \in Seq(Objects) \ {<<>>}
      BY <1>2, <2>2, PublishTypes DEF UpdateStatus, TypeOK
    <2>4. queued' \in BOOLEAN
      BY <1>2 DEF UpdateStatus
    <2> QED
      BY <1>2, <2>3, <2>4, FinishTypes DEF UpdateStatus, TypeOK
  <1>3. CASE StatusConflict
    BY <1>3, FinishTypes DEF StatusConflict, TypeOK
  <1>4. CASE StatusRequestFails
    <2>1. faults' \in 0 .. MaxFaults
      BY <1>4, FaultTypes DEF StatusRequestFails
    <2> QED
      BY <1>4, <2>1, FinishTypes DEF StatusRequestFails, TypeOK
  <1> QED
    BY <1>1, <1>2, <1>3, <1>4

LEMMA FailureType ==
    ASSUME TypeOK, RequestFails \/ RestartReplyLost \/ PowerReplyLost \/ Restart,
           UNCHANGED lag
    PROVE  TypeOK'
  <1>1. faults' \in 0 .. MaxFaults
    BY FaultTypes DEF RequestFails, RestartReplyLost, PowerReplyLost, Restart
  <1>2. CASE RequestFails \/ RestartReplyLost \/ PowerReplyLost
    <2>1. PICK c \in {"checkFailed", "triggerFailed", "apiFailure"} :
             Return(With(c, "Failed"), "soon")
      BY <1>2, AbortStatus DEF RequestFails, RestartReplyLost, PowerReplyLost
    <2>2. With(c, "Failed") \in Statuses
      BY WithType DEF Conditions
    <2>3. host' \in HostStates /\ served' \in 0 .. 2
      BY <1>2, AcceptedTypes DEF RequestFails, RestartReplyLost, PowerReplyLost, TypeOK
    <2> QED
      BY <1>1, <2>1, <2>2, <2>3, ReturnTypes DEF TypeOK
  <1>3. CASE Restart
    <2>1. Stored \in Objects
      BY VersionTypes DEF TypeOK
    <2>2. <<Stored>> \in Seq(Objects) \ {<<>>}
      BY <2>1
    <2> QED
      BY <1>1, <1>3, <2>2 DEF Restart, TypeOK, reconcile
  <1> QED
    BY <1>2, <1>3

LEMMA NextType == TypeOK /\ [Next]_vars => TypeOK'
  <1> SUFFICES ASSUME TypeOK, [Next]_vars PROVE TypeOK'
    OBVIOUS
  <1>1. CASE UNCHANGED vars
    BY <1>1 DEF vars, TypeOK
  <1>2. CASE Next
    BY <1>2, EnvironmentType, StartType, RestartStepType, PowerStepType,
       EndStepType, FailureType DEF Next, Step, Failure
  <1> QED
    BY <1>1, <1>2

(* Every variable keeps its type. *)
THEOREM TypeCorrect == Spec => []TypeOK
  <1> QED
    BY InitType, NextType, PTL DEF Spec
------------------------------------------------------------------------------
(* No restart is lost, if users wait for the last edit to be done and always *)
(* give a run strategy                                                        *)

(* An object with a run strategy, whose phase is Ready only if its power is   *)
(* synced: no restart finds the condition of another operation.               *)
SoundObjects ==
    {o \in Objects : /\ o.run # ""
                     /\ o.status.phase = "Ready" => o.status.synced \in IsTrue}

Sound == versions \in Seq(SoundObjects) \ {<<>>} /\ obj \in SoundObjects

(* A condition says Progressing about a restart only if it was ordered. *)
StoredServed ==
    RestartPending(Stored) /\ Stored.status.synced \in InProgress => served > 0

(* A worker whose copy is current has the stored spec and began with the      *)
(* stored status.                                                             *)
CurrentCopy ==
    pc # "idle" /\ current =>
        /\ obj.run = Stored.run
        /\ obj.trigger = Stored.trigger
        /\ oldstatus = Stored.status

RestartCalls == {"isRestartComplete", "triggerRestart", "patchReboot"}
PowerCalls == {"getPower", "setPower", "patchOnline", "refreshPower"}

(* What such a worker has done about the restart. *)
WorkerServed ==
    pc # "idle" /\ current =>
        /\ pc = "isRestartComplete" => served > 0
        /\ pc \in RestartCalls => obj.status = oldstatus
        /\ pc \in PowerCalls => ~RestartPending(obj)
        /\ obj.status.trigger # oldstatus.trigger => served > 0 \/ obj.run = "Halted"
        /\ pc = "status" /\ RestartPending(obj) /\ obj.status.synced \in InProgress
              => served > 0

RestartInv == Sound /\ StoredServed /\ CurrentCopy /\ WorkerServed

(* The invariant of careful users; once careless, users stay so. *)
CarefulInv == careful => RestartInv

LEMMA SoundParts ==
    ASSUME Sound
    PROVE  /\ Stored \in SoundObjects /\ Cached \in SoundObjects
           /\ obj \in SoundObjects
           /\ SoundObjects \subseteq Objects
  BY VersionTypes DEF Sound, SoundObjects

LEMMA SoundStatus ==
    ASSUME NEW o \in SoundObjects, NEW s \in Statuses,
           s.phase = "Ready" => s.synced \in IsTrue
    PROVE  /\ [o EXCEPT !.status = s] \in SoundObjects
           /\ [o EXCEPT !.status = s].run = o.run
           /\ [o EXCEPT !.status = s].trigger = o.trigger
           /\ [o EXCEPT !.status = s].status = s
  BY DEF SoundObjects, Objects

LEMMA AcknowledgedParts ==
    ASSUME NEW o \in SoundObjects
    PROVE  /\ Acknowledged(o) \in SoundObjects
           /\ Acknowledged(o).run = o.run
           /\ Acknowledged(o).trigger = o.trigger
           /\ ~RestartPending(Acknowledged(o))
           /\ Acknowledged(o).status.trigger = o.trigger
  BY DEF Acknowledged, SoundObjects, Objects, Statuses, Conditions, IsTrue,
         Triggers, RestartPending

LEMMA WithParts ==
    ASSUME TypeOK, NEW c \in Conditions, NEW p \in {"Progressing", "Failed"}
    PROVE  /\ With(c, p) \in Statuses
           /\ With(c, p).phase # "Ready"
           /\ With(c, p).synced = c
           /\ With(c, p).trigger = obj.status.trigger
  BY ObjectParts DEF TypeOK, With, Statuses

LEMMA PhaseParts ==
    ASSUME NEW s \in Statuses, NEW p \in {"Progressing", "Ready"}
    PROVE  /\ [s EXCEPT !.phase = p] \in Statuses
           /\ [s EXCEPT !.phase = p].phase = p
           /\ [s EXCEPT !.phase = p].synced = s.synced
           /\ [s EXCEPT !.phase = p].trigger = s.trigger
  BY DEF Statuses

LEMMA TrueIsNotProgress == IsTrue \intersect InProgress = {}
  BY DEF IsTrue, InProgress

LEMMA InitRestart ==
    ASSUME Init, careful
    PROVE  RestartInv
  <1>1. PICK run \in RunStrategies, trigger \in Triggers :
           versions = <<[run |-> run, trigger |-> trigger,
                         status |-> [run |-> "", trigger |-> 0, synced |-> "none",
                                     phase |-> "Progressing"]]>>
    BY DEF Init
  <1> DEFINE s == [run |-> "", trigger |-> 0, synced |-> "none", phase |-> "Progressing"]
             o == [run |-> run, trigger |-> trigger, status |-> s]
  <1>2. s \in Statuses
    BY DEF Statuses, Conditions, Triggers
  <1>3. o \in SoundObjects /\ o.status.synced = "none"
    <2>1. Stored.run = run
      BY <1>1 DEF Stored
    <2>2. run # ""
      BY <2>1 DEF Init
    <2> QED
      BY <1>2, <2>2, RunStrategiesAssumption DEF SoundObjects, Objects
  <1>4. versions = <<o>>
    BY <1>1
  <1> HIDE DEF o
  <1>5. versions \in Seq(SoundObjects) \ {<<>>} /\ versions[1] = o /\ Stored = o
    BY <1>3, <1>4 DEF Stored
  <1>6. obj = o /\ pc = "idle"
    BY <1>5 DEF Init
  <1> QED
    BY <1>3, <1>5, <1>6
       DEF RestartInv, Sound, StoredServed, CurrentCopy, WorkerServed, InProgress

(* The handler returns a status. *)
LEMMA ReturnServes ==
    ASSUME TypeOK, RestartInv, pc \in RemoteCalls,
           NEW status \in Statuses, NEW r, Return(status, r),
           status.phase = "Ready" => status.synced \in IsTrue,
           status.trigger = obj.status.trigger,
           current /\ obj.trigger # status.trigger /\ status.synced \in InProgress
              => served' > 0,
           served' = served \/ served' > 0
    PROVE  RestartInv'
  <1>1. /\ obj' = [obj EXCEPT !.status = status]
        /\ pc' = "status"
        /\ UNCHANGED <<versions, current, oldstatus>>
    BY DEF Return
  <1>2. pc # "idle"
    BY DEF RemoteCalls
  <1>3. /\ obj' \in SoundObjects
        /\ obj'.run = obj.run /\ obj'.trigger = obj.trigger /\ obj'.status = status
    BY <1>1, SoundParts, SoundStatus DEF RestartInv
  <1>4. Sound'
    BY <1>1, <1>3 DEF RestartInv, Sound
  <1>5. Stored' = Stored
    BY <1>1 DEF Stored
  <1>6. StoredServed'
    BY <1>5 DEF RestartInv, StoredServed, RestartPending
  <1>7. CurrentCopy'
    BY <1>1, <1>2, <1>3, <1>5 DEF RestartInv, CurrentCopy
  <1>8. WorkerServed'
    BY <1>1, <1>2, <1>3
       DEF RestartInv, WorkerServed, RestartCalls, PowerCalls, RestartPending
  <1> QED
    BY <1>4, <1>6, <1>7, <1>8 DEF RestartInv

(* The handler goes on to its next call. *)
LEMMA GoToServes ==
    ASSUME TypeOK, RestartInv, NEW next, GoTo(next),
           \/ pc = "triggerRestart" /\ next = "patchReboot"
           \/ pc \in PowerCalls /\ next \in PowerCalls,
           served' = served
    PROVE  RestartInv'
  <1>1. pc' = next /\ UNCHANGED <<versions, obj, current, oldstatus>>
    BY DEF GoTo
  <1>2. pc # "idle" /\ Stored' = Stored
    BY <1>1 DEF PowerCalls, Stored
  <1>3. Sound' /\ StoredServed' /\ CurrentCopy'
    BY <1>1, <1>2 DEF RestartInv, Sound, StoredServed, CurrentCopy, RestartPending
  <1>4. WorkerServed'
    BY <1>1, <1>2
       DEF RestartInv, WorkerServed, RestartCalls, PowerCalls, RestartPending
  <1> QED
    BY <1>3, <1>4 DEF RestartInv

(* Steps that leave the object, the worker and the count of reboots alone. *)
LEMMA OutsideServes ==
    ASSUME RestartInv, UNCHANGED <<versions, pc, obj, current, oldstatus, served>>
    PROVE  RestartInv'
  BY DEF RestartInv, Sound, StoredServed, CurrentCopy, WorkerServed, Stored, RestartPending

(* An edit of a settled object: what it starts is not under way yet. *)
LEMMA EditServes ==
    ASSUME TypeOK, RestartInv, EditSpec, careful'
    PROVE  RestartInv'
  <1>1. PICK run \in RunStrategies, trigger \in Triggers :
           /\ Publish([Stored EXCEPT !.run = run, !.trigger = trigger])
           /\ careful' = (careful /\ Settled(Stored) /\ run # "")
    BY DEF EditSpec
  <1> DEFINE o == [Stored EXCEPT !.run = run, !.trigger = trigger]
  <1>2. Stored \in SoundObjects /\ Settled(Stored)
    BY <1>1, SoundParts DEF RestartInv
  <1>3. o \in SoundObjects /\ o.status = Stored.status
    BY <1>1, <1>2, RunStrategiesAssumption DEF SoundObjects, Objects
  <1>4. o.status.synced \in IsTrue
    BY <1>2, <1>3 DEF SoundObjects, Settled
  <1>5. current' = FALSE /\ UNCHANGED obj
    BY DEF EditSpec
  <1> HIDE DEF o
  <1>6. versions' \in Seq(SoundObjects) \ {<<>>} /\ Stored' = o
    BY <1>1, <1>3, PublishTypes DEF RestartInv, Sound, o
  <1>7. Sound' /\ StoredServed'
    BY <1>4, <1>5, <1>6, TrueIsNotProgress DEF RestartInv, Sound, StoredServed
  <1> QED
    BY <1>5, <1>7 DEF RestartInv, CurrentCopy, WorkerServed

LEMMA DeliverServes ==
    ASSUME TypeOK, RestartInv, DeliverEvent
    PROVE  RestartInv'
  <1>1. /\ versions' = Tail(versions) /\ Len(versions) > 1
        /\ UNCHANGED <<pc, obj, current, oldstatus, served>>
    BY DEF DeliverEvent, reconcile
  <1>2. versions' \in Seq(SoundObjects) \ {<<>>} /\ Stored' = Stored
    BY <1>1, TailNotEmpty DEF RestartInv, Sound, Stored
  <1> QED
    BY <1>1, <1>2
       DEF RestartInv, Sound, StoredServed, CurrentCopy, WorkerServed, RestartPending

LEMMA StartServes ==
    ASSUME TypeOK, RestartInv, Start
    PROVE  RestartInv'
  <1>1. /\ versions' = versions /\ served' = served
        /\ current' = (Len(versions) = 1)
        /\ oldstatus' = Cached.status
    BY DEF Start, ReconcileNoRestart, ReconcileHalted, ReconcileRestart, Begin
  <1>2. Cached \in SoundObjects /\ Stored' = Stored /\ (current' => Cached = Stored)
    BY <1>1, SoundParts DEF RestartInv, Stored, Cached
  <1>3. StoredServed'
    BY <1>1, <1>2 DEF RestartInv, StoredServed, RestartPending
  <1>4. CASE ReconcileNoRestart
    <2>1. obj' = Cached /\ pc' = "getPower" /\ ~RestartPending(Cached)
      BY <1>4 DEF ReconcileNoRestart, Begin
    <2> QED
      BY <1>1, <1>2, <1>3, <2>1
         DEF RestartInv, Sound, CurrentCopy, WorkerServed, RestartCalls, RestartPending
  <1>5. CASE ReconcileHalted
    <2>1. obj' = Acknowledged(Cached) /\ pc' = "getPower" /\ Cached.run = "Halted"
      BY <1>5 DEF ReconcileHalted, Begin
    <2>2. Sound'
      BY <1>1, <1>2, <2>1, AcknowledgedParts DEF RestartInv, Sound
    <2>3. CurrentCopy'
      BY <1>1, <1>2, <2>1, AcknowledgedParts DEF CurrentCopy
    <2>4. WorkerServed'
      BY <1>2, <2>1, AcknowledgedParts
         DEF WorkerServed, RestartCalls, RestartPending
    <2> QED
      BY <1>3, <2>2, <2>3, <2>4 DEF RestartInv
  <1>6. CASE ReconcileRestart
    <2>1. /\ obj' = Cached
          /\ pc' = IF Cached.status.synced \in InProgress
                   THEN "isRestartComplete" ELSE "triggerRestart"
          /\ RestartPending(Cached)
      BY <1>6 DEF ReconcileRestart, Begin
    <2>2. Sound' /\ CurrentCopy'
      BY <1>1, <1>2, <2>1 DEF RestartInv, Sound, CurrentCopy
    <2>3. current' /\ pc' = "isRestartComplete" => served' > 0
      BY <1>1, <1>2, <2>1 DEF RestartInv, StoredServed
    <2>4. WorkerServed'
      BY <1>1, <2>1, <2>3 DEF WorkerServed, PowerCalls
    <2> QED
      BY <1>3, <2>2, <2>4 DEF RestartInv
  <1> QED
    BY <1>4, <1>5, <1>6 DEF Start

LEMMA RestartStepServes ==
    ASSUME TypeOK, RestartInv,
           \/ RestartComplete \/ RestartNotComplete \/ RestartRefused
           \/ ReadBeforeRestart \/ TriggerRestart
    PROVE  RestartInv'
  <1>1. /\ obj \in SoundObjects /\ obj.status \in Statuses
        /\ obj.status.phase = "Ready" => obj.status.synced \in IsTrue
    BY SoundParts, ObjectParts DEF RestartInv, SoundObjects
  <1>2. CASE RestartComplete
    <2>1. /\ pc = "isRestartComplete" /\ pc' = "getPower"
          /\ obj' = Acknowledged(obj)
          /\ UNCHANGED <<versions, current, oldstatus, served>>
      BY <1>2 DEF RestartComplete
    <2>2. Sound'
      BY <1>1, <2>1, AcknowledgedParts DEF RestartInv, Sound
    <2>3. StoredServed' /\ Stored' = Stored
      BY <2>1 DEF RestartInv, StoredServed, Stored, RestartPending
    <2>4. CurrentCopy'
      BY <1>1, <2>1, <2>3, AcknowledgedParts DEF RestartInv, CurrentCopy
    <2>5. current => served > 0
      BY <2>1 DEF RestartInv, WorkerServed
    <2>6. WorkerServed'
      BY <1>1, <2>1, <2>5, AcknowledgedParts
         DEF WorkerServed, RestartCalls, RestartPending
    <2> QED
      BY <2>2, <2>3, <2>4, <2>6 DEF RestartInv
  <1>3. CASE RestartNotComplete
    <2> DEFINE s == [obj.status EXCEPT !.phase = "Progressing"]
    <2>1. pc = "isRestartComplete" /\ Return(s, "later") /\ served' = served
      BY <1>3 DEF RestartNotComplete
    <2>2. s \in Statuses /\ s.phase # "Ready" /\ s.trigger = obj.status.trigger
      BY <1>1, PhaseParts
    <2>3. current => served > 0
      BY <2>1 DEF RestartInv, WorkerServed
    <2> HIDE DEF s
    <2> QED
      BY <2>1, <2>2, <2>3, ReturnServes DEF RemoteCalls
  <1>4. CASE RestartRefused
    <2> DEFINE s == With("retry", "Progressing")
    <2>1. pc = "triggerRestart" /\ Return(s, "later") /\ served' = served
      BY <1>4 DEF RestartRefused
    <2>2. /\ s \in Statuses /\ s.phase # "Ready"
          /\ s.trigger = obj.status.trigger /\ s.synced = "retry"
      BY WithParts DEF Conditions
    <2> HIDE DEF s
    <2> QED
      BY <2>1, <2>2, ReturnServes DEF RemoteCalls, InProgress
  <1>5. CASE ReadBeforeRestart
    BY <1>5, GoToServes DEF ReadBeforeRestart
  <1>6. CASE TriggerRestart
    <2> DEFINE s == With("restarting", "Progressing")
    <2>1. pc \in RemoteCalls /\ Return(s, "later") /\ served' > 0
      <3>1. served' \in 1 .. 2
        BY <1>6, AcceptedTypes DEF TriggerRestart
      <3> QED
        BY <1>6, <3>1 DEF TriggerRestart, RebootAccepted, RemoteCalls
    <2>2. s \in Statuses /\ s.phase # "Ready" /\ s.trigger = obj.status.trigger
      BY WithParts DEF Conditions, InProgress
    <2> HIDE DEF s
    <2> QED
      BY <2>1, <2>2, ReturnServes
  <1> QED
    BY <1>2, <1>3, <1>4, <1>5, <1>6

(* A verified power state is a synced one. *)
LEMMA VerifiedIsSynced ==
    ASSUME TypeOK, obj.run # "", ~Transitioning(host), host.power = Desired(obj)
    PROVE  SyncedStatus(obj, host).synced \in IsTrue
  <1>1. obj.run \in {"Always", "Halted"}
    BY ObjectParts DEF TypeOK
  <1>2. Observed(host) = obj.run
    BY <1>1 DEF Observed, Desired
  <1>3. obj.status \in Statuses
    BY ObjectParts DEF TypeOK
  <1>4. SyncedStatus(obj, host).synced = IF host.power = "on" THEN "powerOn" ELSE "powerOff"
    BY <1>2, <1>3 DEF SyncedStatus, Statuses
  <1> QED
    BY <1>4 DEF IsTrue

LEMMA PowerStepServes ==
    ASSUME TypeOK, RestartInv,
           \/ ReportPower \/ GetPower \/ PowerRefused
           \/ ReadBeforePower \/ SetPower \/ RefreshPower
    PROVE  RestartInv'
  <1>1. obj.run # ""
    BY SoundParts DEF RestartInv, SoundObjects
  <1>2. CASE ReportPower
    BY <1>1, <1>2 DEF ReportPower
  <1>3. CASE GetPower \/ PowerRefused \/ ReadBeforePower \/ SetPower
    <2>1. \E next \in PowerCalls : GoTo(next)
      BY <1>3 DEF GetPower, PowerRefused, ReadBeforePower, SetPower, PowerCalls
    <2>2. pc \in PowerCalls /\ served' = served
      BY <1>3 DEF GetPower, PowerRefused, ReadBeforePower, SetPower, PowerAccepted, PowerCalls
    <2> QED
      BY <2>1, <2>2, GoToServes
  <1>4. CASE RefreshPower
    <2>1. PICK p \in {"Ready", "Progressing"}, r \in {"done", "later"} :
             /\ Return([SyncedStatus(obj, host) EXCEPT !.phase = p], r)
             /\ p = "Ready" => ~Transitioning(host) /\ host.power = Desired(obj)
      BY <1>4 DEF RefreshPower
    <2> DEFINE s == [SyncedStatus(obj, host) EXCEPT !.phase = p]
    <2>2. /\ SyncedStatus(obj, host) \in Statuses
          /\ SyncedStatus(obj, host).trigger = obj.status.trigger
      BY SyncedStatusType DEF TypeOK
    <2>3. /\ s \in Statuses /\ s.phase = p
          /\ s.synced = SyncedStatus(obj, host).synced
          /\ s.trigger = obj.status.trigger
      <3> DEFINE t == SyncedStatus(obj, host)
      <3>1. t \in Statuses /\ t.trigger = obj.status.trigger /\ p \in {"Progressing", "Ready"}
        BY <2>2
      <3> HIDE DEF t
      <3>2. /\ [t EXCEPT !.phase = p] \in Statuses
            /\ [t EXCEPT !.phase = p].phase = p
            /\ [t EXCEPT !.phase = p].synced = t.synced
            /\ [t EXCEPT !.phase = p].trigger = t.trigger
        BY <3>1, PhaseParts
      <3> QED
        BY <3>1, <3>2 DEF t
    <2>4. s.phase = "Ready" => s.synced \in IsTrue
      BY <1>1, <2>1, <2>3, VerifiedIsSynced
    <2>5. pc = "refreshPower" /\ served' = served
      BY <1>4 DEF RefreshPower
    <2>6. current => obj.trigger = s.trigger
      BY <2>3, <2>5 DEF RestartInv, WorkerServed, PowerCalls, RestartPending
    <2>7. Return(s, r)
      BY <2>1
    <2> HIDE DEF s
    <2> QED
      BY <2>3, <2>4, <2>5, <2>6, <2>7, ReturnServes DEF RemoteCalls
  <1> QED
    BY <1>2, <1>3, <1>4

LEMMA FailureServes ==
    ASSUME TypeOK, RestartInv, RequestFails \/ RestartReplyLost \/ PowerReplyLost
    PROVE  RestartInv'
  <1>1. PICK c \in {"checkFailed", "triggerFailed", "apiFailure"} :
           Return(With(c, "Failed"), "soon")
    BY AbortStatus DEF RequestFails, RestartReplyLost, PowerReplyLost
  <1> DEFINE s == With(c, "Failed")
  <1>2. /\ s \in Statuses /\ s.phase # "Ready"
        /\ s.synced = c /\ s.trigger = obj.status.trigger
    BY WithParts DEF Conditions
  <1>3. pc \in RemoteCalls
    BY DEF RequestFails, RestartReplyLost, PowerReplyLost, RebootAccepted,
           PowerAccepted, RemoteCalls
  <1>4. served' = served \/ served' > 0
    <2>1. RestartReplyLost => served' \in 1 .. 2
      BY AcceptedTypes DEF RestartReplyLost
    <2> QED
      BY <2>1 DEF RequestFails, PowerReplyLost
  <1>5. s.synced \notin InProgress
    BY <1>2 DEF InProgress
  <1> HIDE DEF s
  <1> QED
    BY <1>1, <1>2, <1>3, <1>4, <1>5, ReturnServes DEF s

LEMMA EndStepServes ==
    ASSUME TypeOK, RestartInv,
           \/ EndReconcile \/ UpdateStatus \/ StatusConflict
           \/ StatusRequestFails \/ Restart
    PROVE  RestartInv'
  <1>1. pc' = "idle" /\ UNCHANGED <<obj, served>>
    BY DEF EndReconcile, UpdateStatus, StatusConflict, StatusRequestFails,
           Restart, Finish, reconcile
  <1>2. CurrentCopy' /\ WorkerServed'
    BY <1>1 DEF CurrentCopy, WorkerServed
  <1>3. CASE EndReconcile \/ StatusConflict \/ StatusRequestFails
    <2>1. versions' = versions
      BY <1>3 DEF EndReconcile, StatusConflict, StatusRequestFails
    <2> QED
      BY <1>1, <1>2, <2>1 DEF RestartInv, Sound, StoredServed, Stored, RestartPending
  <1>4. CASE Restart
    <2>1. versions' = <<Stored>>
      BY <1>4 DEF Restart
    <2>2. versions' \in Seq(SoundObjects) \ {<<>>} /\ Stored' = Stored
      BY <2>1, SoundParts DEF RestartInv, Stored
    <2> QED
      BY <1>1, <1>2, <2>2 DEF RestartInv, Sound, StoredServed, RestartPending
  <1>5. CASE UpdateStatus
    <2> DEFINE o == [Stored EXCEPT !.status = obj.status]
    <2>1. pc = "status" /\ current /\ Publish(o)
      BY <1>5 DEF UpdateStatus, Finish
    <2>2. /\ Stored \in SoundObjects /\ obj \in SoundObjects
          /\ obj.status \in Statuses
          /\ obj.status.phase = "Ready" => obj.status.synced \in IsTrue
      BY SoundParts, ObjectParts DEF RestartInv, SoundObjects
    <2>3. o \in SoundObjects /\ o.trigger = Stored.trigger /\ o.status = obj.status
      BY <2>2, SoundStatus
    <2> HIDE DEF o
    <2>4. versions' \in Seq(SoundObjects) \ {<<>>} /\ Stored' = o
      BY <2>1, <2>3, PublishTypes DEF RestartInv, Sound
    <2>5. obj.trigger = Stored.trigger
      BY <2>1 DEF RestartInv, CurrentCopy
    <2>6. StoredServed'
      BY <1>1, <2>1, <2>3, <2>4, <2>5
         DEF RestartInv, StoredServed, WorkerServed, RestartPending
    <2> QED
      BY <1>1, <1>2, <2>4, <2>6 DEF RestartInv, Sound
  <1> QED
    BY <1>3, <1>4, <1>5

LEMMA NextServes ==
    ASSUME TypeOK, RestartInv, [Next]_vars, careful'
    PROVE  RestartInv'
  <1>1. CASE FireTimer \/ HostWorks \/ UNCHANGED vars
    <2>1. UNCHANGED <<versions, pc, obj, current, oldstatus, served>>
      BY <1>1 DEF FireTimer, HostWorks, vars, reconcile
    <2> QED
      BY <2>1, OutsideServes
  <1> QED
    BY <1>1, EditServes, DeliverServes, StartServes, RestartStepServes,
       PowerStepServes, FailureServes, EndStepServes DEF Next, Step, Failure

LEMMA CarelessForEver ==
    ASSUME TypeOK, [Next]_vars, careful'
    PROVE  careful
  <1>1. CASE EditSpec
    BY <1>1 DEF EditSpec
  <1>2. CASE DeliverEvent \/ FireTimer \/ HostWorks \/ UNCHANGED vars
    BY <1>2 DEF DeliverEvent, FireTimer, HostWorks, vars
  <1>3. CASE Start
    BY <1>3 DEF Start, ReconcileNoRestart, ReconcileHalted, ReconcileRestart, Begin
  <1>4. CASE Step
    BY <1>4 DEF Step, RestartComplete, RestartNotComplete, RestartRefused,
         ReadBeforeRestart, TriggerRestart, ReportPower, GetPower, PowerRefused,
         ReadBeforePower, SetPower, RefreshPower, EndReconcile, UpdateStatus,
         StatusConflict, Return, GoTo, Finish
  <1>5. CASE Failure
    BY <1>5 DEF Failure, RequestFails, RestartReplyLost, PowerReplyLost,
         StatusRequestFails, Restart, Abort, Return, Finish
  <1> QED
    BY <1>1, <1>2, <1>3, <1>4, <1>5 DEF Next

(* The acknowledgement of a restart is a status update of a current copy. *)
LEMMA AcknowledgedServed ==
    ASSUME TypeOK, RestartInv, [Next]_vars,
           Stored.status.trigger' # Stored.status.trigger
    PROVE  served > 0 \/ Stored.run = "Halted"
  <1>1. ASSUME versions' = versions
        PROVE  FALSE
    BY <1>1 DEF Stored
  <1>2. CASE EditSpec
    <2>1. PICK run \in RunStrategies, trigger \in Triggers :
             Publish([Stored EXCEPT !.run = run, !.trigger = trigger])
      BY <1>2 DEF EditSpec
    <2> DEFINE o == [Stored EXCEPT !.run = run, !.trigger = trigger]
    <2>2. Stored \in Objects
      BY VersionTypes DEF TypeOK
    <2>3. o \in Objects /\ o.status = Stored.status
      BY <2>2, RunStrategiesAssumption DEF Objects
    <2> HIDE DEF o
    <2>4. Stored' = o
      BY <2>1, <2>3, PublishTypes DEF TypeOK, o
    <2> QED
      BY <2>3, <2>4
  <1>3. CASE DeliverEvent
    <2>1. Stored' = Stored
      BY <1>3, TailNotEmpty DEF DeliverEvent, TypeOK, Stored
    <2> QED
      BY <2>1
  <1>4. CASE Restart
    <2>1. Stored' = Stored
      BY <1>4 DEF Restart, Stored
    <2> QED
      BY <2>1
  <1>5. CASE UpdateStatus
    <2> DEFINE o == [Stored EXCEPT !.status = obj.status]
    <2>1. pc = "status" /\ current /\ Publish(o)
      BY <1>5 DEF UpdateStatus, Finish
    <2>2. Stored \in Objects /\ obj.status \in Statuses
      BY VersionTypes, ObjectParts DEF TypeOK
    <2>3. o \in Objects /\ o.status = obj.status
      BY <2>2 DEF Objects
    <2> HIDE DEF o
    <2>4. Stored' = o
      BY <2>1, <2>3, PublishTypes DEF TypeOK
    <2>5. obj.run = Stored.run /\ oldstatus = Stored.status
      BY <2>1 DEF RestartInv, CurrentCopy
    <2>6. obj.status.trigger # oldstatus.trigger
      BY <2>3, <2>4, <2>5
    <2> QED
      BY <2>1, <2>5, <2>6 DEF RestartInv, WorkerServed
  <1>6. \/ versions' = versions
        \/ EditSpec \/ DeliverEvent \/ Restart \/ UpdateStatus
    <2>1. CASE UNCHANGED vars
      BY <2>1 DEF vars
    <2>2. CASE FireTimer \/ HostWorks
      BY <2>2 DEF FireTimer, HostWorks
    <2>3. CASE Start
      BY <2>3 DEF Start, ReconcileNoRestart, ReconcileHalted, ReconcileRestart, Begin
    <2>4. CASE Step
      BY <2>4 DEF Step, RestartComplete, RestartNotComplete, RestartRefused,
           ReadBeforeRestart, TriggerRestart, ReportPower, GetPower, PowerRefused,
           ReadBeforePower, SetPower, RefreshPower, EndReconcile, StatusConflict,
           Return, GoTo
    <2>5. CASE Failure
      BY <2>5 DEF Failure, RequestFails, RestartReplyLost, PowerReplyLost,
           StatusRequestFails, Abort, Return
    <2> QED
      BY <2>1, <2>2, <2>3, <2>4, <2>5 DEF Next
  <1> QED
    BY <1>1, <1>2, <1>3, <1>4, <1>5, <1>6

(* As long as users wait for the last edit to be done and give a run strategy, *)
(* a change of restartTrigger is acknowledged only after a reboot.             *)
THEOREM NoRestartLostHolds == Spec => NoRestartLost
  <1>1. Init => TypeOK /\ CarefulInv
    BY InitType, InitRestart DEF CarefulInv
  <1>2. TypeOK /\ CarefulInv /\ [Next]_vars => (TypeOK /\ CarefulInv)'
    BY NextType, NextServes, CarelessForEver DEF CarefulInv
  <1>3. TypeOK /\ CarefulInv /\ [Next]_vars => [careful => RestartServed]_vars
    BY AcknowledgedServed DEF RestartServed, CarefulInv
  <1> QED
    BY <1>1, <1>2, <1>3, PTL DEF Spec, NoRestartLost
------------------------------------------------------------------------------
(* A restart is ordered once, as long as users are careful, the cache is up to *)
(* date and nothing fails                                                      *)

Undisturbed == careful /\ lag = 0 /\ faults = 0

(* An order that is not acknowledged is in the stored condition, or a worker is *)
(* about to store it there.                                                     *)
OrderRecorded ==
    RestartPending(Stored) /\ served > 0 =>
        \/ Stored.status.synced \in InProgress
        \/ pc = "status" /\ current /\ obj.status.synced \in InProgress

(* A worker orders a restart nobody has ordered, and does not forget one. *)
WorkerOrders ==
    /\ pc \in {"triggerRestart", "patchReboot"} =>
          served = 0 /\ current /\ RestartPending(Stored)
    /\ pc = "isRestartComplete" /\ current => obj.status.synced \in InProgress
    /\ pc = "status" /\ current /\ RestartPending(obj) /\ served > 0 =>
          obj.status.synced \in InProgress

OrderInv == Len(versions) = 1 /\ served <= 1 /\ OrderRecorded /\ WorkerOrders

LEMMA UndisturbedBefore ==
    ASSUME TypeOK, [Next]_vars, Undisturbed'
    PROVE  Undisturbed
  <1>1. careful /\ lag = 0
    BY CarelessForEver DEF Undisturbed, Next, vars
  <1>2. faults' = faults \/ faults' = faults + 1
    <2>1. CASE EditSpec \/ DeliverEvent \/ FireTimer \/ HostWorks \/ UNCHANGED vars
      BY <2>1 DEF EditSpec, DeliverEvent, FireTimer, HostWorks, vars
    <2>2. CASE Start
      BY <2>2 DEF Start, ReconcileNoRestart, ReconcileHalted, ReconcileRestart, Begin
    <2>3. CASE Step
      BY <2>3 DEF Step, RestartComplete, RestartNotComplete, RestartRefused,
           ReadBeforeRestart, TriggerRestart, ReportPower, GetPower, PowerRefused,
           ReadBeforePower, SetPower, RefreshPower, EndReconcile, UpdateStatus,
           StatusConflict
    <2>4. CASE Failure
      BY <2>4 DEF Failure, RequestFails, RestartReplyLost, PowerReplyLost,
           StatusRequestFails, Restart, Fault
    <2> QED
      BY <2>1, <2>2, <2>3, <2>4 DEF Next
  <1>3. faults = 0
    <2>1. faults \in Nat /\ faults' = 0
      BY BoundsAssumption DEF TypeOK, Undisturbed
    <2> QED
      BY <1>2, <2>1
  <1> QED
    BY <1>1, <1>3 DEF Undisturbed

LEMMA OnlyVersion ==
    ASSUME NEW S, versions \in Seq(S) \ {<<>>}, Len(versions) = 1, lag = 0
    PROVE  /\ Cached = Stored
           /\ \A o \in S : Publish(o) => Len(versions') = 1
  <1>1. ASSUME NEW o \in S, Publish(o)
        PROVE  Len(versions') = 1
    <2>1. versions' = Append(Tail(versions), o)
      BY <1>1 DEF Publish
    <2>2. Tail(versions) \in Seq(S) /\ Len(Tail(versions)) = 0
      OBVIOUS
    <2> HIDE DEF Publish
    <2> QED
      BY <2>1, <2>2
  <1> QED
    BY <1>1 DEF Cached, Stored

(* The handler returns a status. *)
LEMMA ReturnOrders ==
    ASSUME TypeOK, OrderInv, NEW status \in Statuses, NEW r, Return(status, r),
           status.trigger = obj.status.trigger,
           served' <= 1,
           current /\ RestartPending(obj) /\ served' > 0 => status.synced \in InProgress,
           RestartPending(Stored) /\ served' > 0 =>
              \/ Stored.status.synced \in InProgress
              \/ current /\ status.synced \in InProgress
    PROVE  OrderInv'
  <1>1. /\ obj' = [obj EXCEPT !.status = status]
        /\ pc' = "status"
        /\ UNCHANGED <<versions, current>>
    BY DEF Return
  <1>2. obj'.trigger = obj.trigger /\ obj'.status = status
    BY <1>1 DEF TypeOK, Objects
  <1>3. Len(versions') = 1 /\ served' <= 1 /\ Stored' = Stored
    BY <1>1 DEF OrderInv, Stored
  <1>4. OrderRecorded'
    BY <1>1, <1>2, <1>3 DEF OrderRecorded, RestartPending
  <1>5. WorkerOrders'
    BY <1>1, <1>2 DEF WorkerOrders, RestartPending
  <1> QED
    BY <1>3, <1>4, <1>5 DEF OrderInv

(* The handler goes on to its next call. *)
LEMMA GoToOrders ==
    ASSUME OrderInv, NEW next, GoTo(next), served' = served, pc # "status",
           \/ pc = "triggerRestart" /\ next = "patchReboot"
           \/ next \in PowerCalls
    PROVE  OrderInv'
  BY DEF GoTo, OrderInv, OrderRecorded, WorkerOrders, PowerCalls, Stored, RestartPending

LEMMA EnvironmentOrders ==
    ASSUME TypeOK, RestartInv, OrderInv, Undisturbed, Undisturbed',
           EditSpec \/ DeliverEvent \/ FireTimer \/ HostWorks \/ UNCHANGED vars
    PROVE  OrderInv'
  <1>1. CASE EditSpec
    <2>1. PICK run \in RunStrategies, trigger \in Triggers :
             /\ Publish([Stored EXCEPT !.run = run, !.trigger = trigger])
             /\ served' = IF trigger = Stored.trigger THEN served ELSE 0
             /\ careful' = (careful /\ Settled(Stored) /\ run # "")
      BY <1>1 DEF EditSpec
    <2> DEFINE o == [Stored EXCEPT !.run = run, !.trigger = trigger]
    <2>2. Stored \in Objects /\ ~RestartPending(Stored)
      BY <2>1, VersionTypes DEF TypeOK, Undisturbed, Settled
    <2>3. o \in Objects /\ o.status = Stored.status /\ o.trigger = trigger
      BY <2>2, RunStrategiesAssumption DEF Objects
    <2>4. Publish(o)
      BY <2>1
    <2> HIDE DEF o
    <2>5. Stored' = o /\ Len(versions') = 1
      BY <2>3, <2>4, PublishTypes, OnlyVersion DEF TypeOK, OrderInv, Undisturbed
    <2>6. served' <= 1 /\ (RestartPending(Stored') => served' = 0)
      <3>1. CASE trigger = Stored.trigger
        <4>1. ~RestartPending(o) /\ served' = served
          BY <2>1, <2>2, <2>3, <3>1 DEF RestartPending
        <4> QED
          BY <2>5, <4>1 DEF OrderInv
      <3>2. CASE trigger # Stored.trigger
        <4>1. served' = 0
          BY <2>1, <3>2
        <4> QED
          BY <4>1
      <3> QED
        BY <3>1, <3>2
    <2>7. current' = FALSE /\ pc' = pc /\ pc \notin {"triggerRestart", "patchReboot"}
      BY <1>1, <2>2 DEF EditSpec, OrderInv, WorkerOrders
    <2> QED
      BY <2>5, <2>6, <2>7 DEF OrderInv, OrderRecorded, WorkerOrders
  <1>2. CASE DeliverEvent
    BY <1>2 DEF DeliverEvent, OrderInv
  <1>3. CASE FireTimer \/ HostWorks \/ UNCHANGED vars
    <2>1. UNCHANGED <<versions, pc, obj, current, oldstatus, served>>
      BY <1>3 DEF FireTimer, HostWorks, vars, reconcile
    <2> QED
      BY <2>1 DEF OrderInv, OrderRecorded, WorkerOrders, Stored, RestartPending
  <1> QED
    BY <1>1, <1>2, <1>3

LEMMA StartOrders ==
    ASSUME TypeOK, OrderInv, Undisturbed, Start
    PROVE  OrderInv'
  <1>1. /\ UNCHANGED <<versions, served>>
        /\ current' /\ pc = "idle"
    BY DEF Start, ReconcileNoRestart, ReconcileHalted, ReconcileRestart, Begin, OrderInv
  <1>2. Cached = Stored /\ Stored' = Stored
    BY <1>1, OnlyVersion DEF TypeOK, OrderInv, Undisturbed, Stored
  <1>3. RestartPending(Stored) /\ served > 0 => Stored.status.synced \in InProgress
    BY <1>1 DEF OrderInv, OrderRecorded
  <1>4. OrderRecorded'
    BY <1>1, <1>2, <1>3 DEF OrderRecorded, RestartPending
  <1>5. pc' = "getPower" => WorkerOrders'
    BY DEF WorkerOrders
  <1>6. ReconcileRestart => WorkerOrders'
    <2> SUFFICES ASSUME ReconcileRestart PROVE WorkerOrders'
      OBVIOUS
    <2>1. /\ RestartPending(Stored) /\ obj' = Stored
          /\ pc' = IF Stored.status.synced \in InProgress
                   THEN "isRestartComplete" ELSE "triggerRestart"
      BY <1>2 DEF ReconcileRestart, Begin
    <2>2. pc' = "triggerRestart" => served = 0
      BY <1>3, <2>1 DEF TypeOK
    <2> QED
      BY <1>1, <1>2, <2>1, <2>2 DEF WorkerOrders, RestartPending
  <1>7. WorkerOrders'
    BY <1>5, <1>6 DEF Start, ReconcileNoRestart, ReconcileHalted, Begin
  <1> QED
    BY <1>1, <1>4, <1>7 DEF OrderInv

LEMMA RestartStepOrders ==
    ASSUME TypeOK, RestartInv, OrderInv,
           \/ RestartComplete \/ RestartNotComplete \/ RestartRefused
           \/ ReadBeforeRestart \/ TriggerRestart
    PROVE  OrderInv'
  <1>1. obj \in Objects /\ obj.status \in Statuses /\ served \in 0 .. 2
    BY ObjectParts DEF TypeOK
  <1>2. CASE RestartComplete
    <2>1. pc' = "getPower" /\ UNCHANGED <<versions, served>> /\ pc = "isRestartComplete"
      BY <1>2 DEF RestartComplete
    <2> QED
      BY <2>1 DEF OrderInv, OrderRecorded, WorkerOrders, Stored, RestartPending
  <1>3. CASE RestartNotComplete
    <2> DEFINE s == [obj.status EXCEPT !.phase = "Progressing"]
    <2>1. pc = "isRestartComplete" /\ Return(s, "later") /\ served' = served
      BY <1>3 DEF RestartNotComplete
    <2>2. s \in Statuses /\ s.synced = obj.status.synced /\ s.trigger = obj.status.trigger
      BY <1>1, PhaseParts
    <2> HIDE DEF s
    <2> QED
      BY <2>1, <2>2, ReturnOrders DEF OrderInv, OrderRecorded, WorkerOrders
  <1>4. CASE RestartRefused
    <2> DEFINE s == With("retry", "Progressing")
    <2>1. pc = "triggerRestart" /\ Return(s, "later") /\ served' = served
      BY <1>4 DEF RestartRefused
    <2>2. s \in Statuses /\ s.trigger = obj.status.trigger
      BY WithParts DEF Conditions
    <2>3. served = 0
      BY <2>1 DEF OrderInv, WorkerOrders
    <2> HIDE DEF s
    <2> QED
      BY <2>1, <2>2, <2>3, ReturnOrders
  <1>5. CASE ReadBeforeRestart
    <2>1. pc = "triggerRestart" /\ GoTo("patchReboot") /\ served' = served
      BY <1>5 DEF ReadBeforeRestart
    <2> QED
      BY <2>1, GoToOrders
  <1>6. CASE TriggerRestart
    <2> DEFINE s == With("restarting", "Progressing")
    <2>1. pc \in {"triggerRestart", "patchReboot"} /\ Return(s, "later")
      BY <1>6 DEF TriggerRestart, RebootAccepted
    <2>2. s \in Statuses /\ s.trigger = obj.status.trigger /\ s.synced \in InProgress
      BY WithParts DEF Conditions, InProgress
    <2>3. served = 0 /\ current
      BY <2>1 DEF OrderInv, WorkerOrders
    <2>4. served' = 1
      BY <1>6, <2>3 DEF TriggerRestart, RebootAccepted
    <2> HIDE DEF s
    <2> QED
      BY <2>1, <2>2, <2>3, <2>4, ReturnOrders
  <1> QED
    BY <1>2, <1>3, <1>4, <1>5, <1>6

LEMMA PowerStepOrders ==
    ASSUME TypeOK, RestartInv, OrderInv,
           \/ ReportPower \/ GetPower \/ PowerRefused
           \/ ReadBeforePower \/ SetPower \/ RefreshPower
    PROVE  OrderInv'
  <1>1. pc \in PowerCalls /\ served' = served
    BY DEF ReportPower, GetPower, PowerRefused, ReadBeforePower, SetPower,
           PowerAccepted, RefreshPower, PowerCalls
  <1>2. current => ~RestartPending(obj)
    BY <1>1 DEF RestartInv, WorkerServed, PowerCalls
  <1>3. CASE GetPower \/ PowerRefused \/ ReadBeforePower \/ SetPower
    <2>1. \E next \in PowerCalls : GoTo(next)
      BY <1>3 DEF GetPower, PowerRefused, ReadBeforePower, SetPower, PowerCalls
    <2> QED
      BY <1>1, <2>1, GoToOrders DEF PowerCalls
  <1>4. CASE ReportPower \/ RefreshPower
    <2>1. PICK p \in {"Ready", "Progressing"}, r \in {"done", "later"} :
             Return([SyncedStatus(obj, host) EXCEPT !.phase = p], r)
      BY <1>4 DEF ReportPower, RefreshPower
    <2> DEFINE t == SyncedStatus(obj, host)
               s == [t EXCEPT !.phase = p]
    <2>2. t \in Statuses /\ t.trigger = obj.status.trigger
      BY SyncedStatusType DEF TypeOK
    <2>3. Return(s, r)
      BY <2>1
    <2> HIDE DEF t
    <2>4. s \in Statuses /\ s.trigger = obj.status.trigger
      <3>1. /\ [t EXCEPT !.phase = p] \in Statuses
            /\ [t EXCEPT !.phase = p].trigger = t.trigger
        BY <2>2, PhaseParts
      <3> QED
        BY <2>2, <3>1
    <2> HIDE DEF s
    <2>5. RestartPending(Stored) /\ served > 0 => Stored.status.synced \in InProgress
      BY <1>1 DEF OrderInv, OrderRecorded, PowerCalls
    <2> QED
      BY <1>1, <1>2, <2>3, <2>4, <2>5, ReturnOrders DEF OrderInv
  <1> QED
    BY <1>3, <1>4

LEMMA EndStepOrders ==
    ASSUME TypeOK, RestartInv, OrderInv, Undisturbed,
           EndReconcile \/ UpdateStatus \/ StatusConflict
    PROVE  OrderInv'
  <1>1. pc = "status" /\ pc' = "idle" /\ UNCHANGED <<obj, current, oldstatus, served>>
    BY DEF EndReconcile, UpdateStatus, StatusConflict, Finish, reconcile
  <1>2. served' <= 1 /\ WorkerOrders'
    BY <1>1 DEF OrderInv, WorkerOrders
  <1>3. CASE EndReconcile \/ StatusConflict
    <2>1. versions' = versions /\ (obj.status = oldstatus \/ ~current)
      BY <1>3 DEF EndReconcile, StatusConflict
    <2>2. RestartPending(Stored) /\ served > 0 => Stored.status.synced \in InProgress
      BY <1>1, <2>1 DEF OrderInv, OrderRecorded, RestartInv, CurrentCopy
    <2> QED
      BY <1>1, <1>2, <2>1, <2>2 DEF OrderInv, OrderRecorded, Stored, RestartPending
  <1>4. CASE UpdateStatus
    <2> DEFINE o == [Stored EXCEPT !.status = obj.status]
    <2>1. current /\ Publish(o)
      BY <1>4 DEF UpdateStatus
    <2>2. Stored \in Objects /\ obj.status \in Statuses
      BY VersionTypes, ObjectParts DEF TypeOK
    <2>3. o \in Objects /\ o.status = obj.status /\ o.trigger = Stored.trigger
      BY <2>2 DEF Objects
    <2> HIDE DEF o
    <2>4. Stored' = o /\ Len(versions') = 1
      BY <2>1, <2>3, PublishTypes, OnlyVersion DEF TypeOK, OrderInv, Undisturbed
    <2>5. obj.trigger = Stored.trigger
      BY <1>1, <2>1 DEF RestartInv, CurrentCopy
    <2>6. RestartPending(obj) /\ served > 0 => obj.status.synced \in InProgress
      BY <1>1, <2>1 DEF OrderInv, WorkerOrders
    <2>7. OrderRecorded'
      BY <1>1, <2>3, <2>4, <2>5, <2>6 DEF OrderRecorded, RestartPending
    <2> QED
      BY <1>2, <2>4, <2>7 DEF OrderInv
  <1> QED
    BY <1>3, <1>4

LEMMA NextOrders ==
    ASSUME TypeOK, RestartInv, OrderInv, [Next]_vars, Undisturbed, Undisturbed'
    PROVE  OrderInv'
  <1>1. ~Failure
    <2>1. faults = 0 /\ faults' = 0
      BY DEF Undisturbed
    <2>2. ~Fault
      BY <2>1 DEF Fault
    <2> QED
      BY <2>2 DEF Failure, RequestFails, RestartReplyLost, PowerReplyLost,
           StatusRequestFails, Restart
  <1> QED
    BY <1>1, EnvironmentOrders, StartOrders, RestartStepOrders, PowerStepOrders,
       EndStepOrders DEF Next, Step

LEMMA InitOrders == Init => OrderInv
  <1> SUFFICES ASSUME Init PROVE OrderInv
    OBVIOUS
  <1>1. Len(versions) = 1 /\ served = 0 /\ pc = "idle"
    BY DEF Init
  <1> QED
    BY <1>1 DEF OrderInv, OrderRecorded, WorkerOrders

(* Until something fails, and with a cache that is up to date, a change of *)
(* restartTrigger by a careful user reboots the machine once at most.      *)
THEOREM RestartOnceHolds == Spec => []RestartOnce
  <1> DEFINE Inv == TypeOK /\ CarefulInv /\ (Undisturbed => OrderInv)
  <1>1. Init => Inv
    BY InitType, InitRestart, InitOrders DEF CarefulInv
  <1>2. Inv /\ [Next]_vars => Inv'
    <2> SUFFICES ASSUME Inv, [Next]_vars PROVE Inv'
      OBVIOUS
    <2>1. TypeOK' /\ CarefulInv'
      BY NextType, NextServes, CarelessForEver DEF CarefulInv
    <2>2. ASSUME Undisturbed'
          PROVE  OrderInv'
      <3>1. Undisturbed
        BY <2>2, UndisturbedBefore
      <3>2. RestartInv
        BY <3>1 DEF Undisturbed, CarefulInv
      <3> QED
        BY <2>2, <3>1, <3>2, NextOrders
    <2> QED
      BY <2>1, <2>2
  <1>3. Inv => RestartOnce
    BY DEF OrderInv, Undisturbed, RestartOnce
  <1> QED
    BY <1>1, <1>2, <1>3, PTL DEF Spec
===============================================================================
