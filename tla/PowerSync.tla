------------------------------- MODULE PowerSync -------------------------------
(***************************************************************************)
(* Power and restart of an allocated, provisioned BareMetalInstance: the   *)
(* second half of reconcileManagement in baremetalinstance_controller.go   *)
(* with reconcileRestartTrigger, triggerRestart, reconcilePower and        *)
(* syncBareMetalInstanceStatus.  One instance and its host; a work queue   *)
(* hands its key to one worker at a time.  A step is one remote call with  *)
(* the local code that follows it.                                         *)
(***************************************************************************)
EXTENDS ManagedHost, Sequences

CONSTANTS
    RunStrategies,      \* the values users give spec.runStrategy; "" is unspecified
    EditWhenSettled,    \* TRUE: users edit the spec only after the last edit is done
    MaxEdits,           \* edits of the spec
    MaxFaults,          \* failed requests, lost replies and restarts of the process
    MaxLag              \* bound of lag

ASSUME RunStrategiesAssumption == RunStrategies \subseteq {"", "Always", "Halted"}
ASSUME BoundsAssumption ==
    /\ EditWhenSettled \in BOOLEAN
    /\ MaxEdits \in Nat
    /\ MaxFaults \in Nat
    /\ MaxLag \in Nat

VARIABLES
    versions,   \* the object's versions from the cached one to the stored one
    queued,     \* the key waits for a worker
    timer,      \* the key comes back: "soon" (back-off) or "later" (RequeueAfter)
    pc,         \* the worker's next remote call
    obj,        \* the worker's copy of the object
    current,    \* whether the copy's resourceVersion is the stored one
    oldstatus,  \* the status the worker read
    acted,      \* powerNeedsRequeue
    result,     \* what the handler returned: "done", "later" or "soon" (an error)
    host,       \* the host
    edits,      \* edits so far
    faults,     \* failures so far
    served,     \* history: reboots ordered since restartTrigger changed, up to 2
    careful,    \* history: users have waited for one edit to be done before the
                \* next, and have always given a run strategy
    lag         \* how many versions the informer cache may be behind, in this
                \* behaviour

vars == <<versions, queued, timer, pc, obj, current, oldstatus, acted, result,
          host, edits, faults, served, careful, lag>>

reconcile == <<obj, current, oldstatus, acted, result>>
--------------------------------------------------------------------------------
(* The PowerSynced condition: its value and its reason. "converging",        *)
(* "transitioning" and "restarting" are False/Progressing, "retry",           *)
(* "triggerFailed" and "checkFailed" are False/PowerSyncFailed, "apiFailure"  *)
(* is False/IronicAPIFailure.                                                 *)
IsTrue == {"powerOn", "powerOff", "completed"}
InProgress == {"converging", "transitioning", "restarting"}
Conditions == {"none"} \union IsTrue \union InProgress
                \union {"retry", "triggerFailed", "checkFailed", "apiFailure"}

Triggers == {0, 1}

Statuses == [run     : {"", "Always", "Halted"},
             trigger : Triggers,
             synced  : Conditions,
             phase   : {"Progressing", "Failed", "Ready"}]

Objects == [run : {"", "Always", "Halted"}, trigger : Triggers, status : Statuses]

Cached == versions[1]
Stored == versions[Len(versions)]

Desired(o) == IF o.run = "Always" THEN "on" ELSE "off"
(* Mutant: the backend's word for the power state is stored. *)
Observed_Raw(h) == h.power

Observed(h) == IF h.power = "on" THEN "Always" ELSE "Halted"

RestartPending(o) == o.trigger # o.status.trigger

(* The key is put on the queue; a priority queue brings a delayed one forward. *)
Enqueue == queued' = TRUE /\ timer' \in {timer, "none"}

(* A write; an informer that is lag behind gets its next event by then. *)
Publish(o) == versions' = IF Len(versions) > lag THEN Append(Tail(versions), o)
                          ELSE Append(versions, o)
WakesNow == Len(versions) > lag

Init ==
    /\ \E run \in RunStrategies, trigger \in Triggers :
          versions = <<[run |-> run, trigger |-> trigger,
                        status |-> [run |-> "", trigger |-> 0, synced |-> "none",
                                    phase |-> "Progressing"]]>>
    /\ queued = TRUE
    /\ timer = "none"
    /\ pc = "idle"
    /\ obj = versions[1]
    /\ current = FALSE
    /\ oldstatus = versions[1].status
    /\ acted = FALSE
    /\ result = "done"
    /\ \E power \in Powers :
          host = [power |-> power, target |-> "none", reboot |-> FALSE, unseen |-> "none"]
    /\ edits = 0
    /\ faults = 0
    /\ served = 0
    /\ careful = (Stored.run # "")
    /\ lag \in 0 .. MaxLag
--------------------------------------------------------------------------------
(* Users, the informer, the host *)

(* What a user sees of an instance that has done what was asked. *)
Settled(o) == /\ o.status.phase = "Ready"
              /\ ~RestartPending(o)
              /\ o.run \in {"", o.status.run}

EditSpec ==
    /\ edits < MaxEdits
    /\ EditWhenSettled => Settled(Stored)
    /\ \E run \in RunStrategies, trigger \in Triggers :
          /\ <<run, trigger>> # <<Stored.run, Stored.trigger>>
          /\ Publish([Stored EXCEPT !.run = run, !.trigger = trigger])
          /\ served' = IF trigger = Stored.trigger THEN served ELSE 0
          /\ careful' = (careful /\ Settled(Stored) /\ run # "")
    /\ IF WakesNow THEN Enqueue ELSE UNCHANGED <<queued, timer>>
    /\ edits' = edits + 1
    /\ current' = FALSE
    /\ UNCHANGED <<pc, obj, oldstatus, acted, result, host, faults>>

DeliverEvent ==
    /\ Len(versions) > 1
    /\ versions' = Tail(versions)
    /\ Enqueue
    /\ UNCHANGED <<pc, reconcile, host, edits, careful, faults, served>>

(* A recheck interval, ten seconds by default, is longer than the informer   *)
(* needs to follow and Ironic to show an order; a back-off is not.            *)
FireTimer ==
    /\ timer # "none"
    /\ timer = "later" => Len(versions) = 1 /\ host.unseen = "none"
    /\ timer' = "none"
    /\ queued' = TRUE
    /\ UNCHANGED <<versions, pc, reconcile, host, edits, careful, faults, served>>

HostWorks ==
    /\ \/ host.unseen # "none" /\ host' = Shown(host)
       \/ host.target # "none" /\ host' = Powered(host)
       \/ host.reboot /\ host.target = "none" /\ host' = Rebooted(host)
    /\ UNCHANGED <<versions, queued, timer, pc, reconcile, edits, careful, faults, served>>
--------------------------------------------------------------------------------
(* reconcileManagement, up to the first remote call *)

Begin(o, next) ==
    /\ pc = "idle"
    /\ queued
    /\ queued' = FALSE
    /\ pc' = next
    /\ obj' = o
    /\ current' = (Len(versions) = 1)
    /\ oldstatus' = Cached.status
    /\ acted' = FALSE
    /\ result' = "done"
    /\ UNCHANGED <<versions, timer, host, edits, careful, faults, served>>

Acknowledged(o) == [o EXCEPT !.status.trigger = o.trigger, !.status.synced = "completed"]

ReconcileNoRestart ==
    /\ ~RestartPending(Cached)
    /\ Begin(Cached, "getPower")

(* A halted machine is not restarted. *)
ReconcileHalted ==
    /\ RestartPending(Cached)
    /\ Cached.run = "Halted"
    /\ Begin(Acknowledged(Cached), "getPower")

(* Mutant: the reason of a False PowerSynced is not looked at. *)
ReconcileRestart_AnyFalse ==
    /\ RestartPending(Cached)
    /\ Cached.run # "Halted"
    /\ Begin(Cached, IF Cached.status.synced \notin IsTrue \union {"none"}
                     THEN "isRestartComplete" ELSE "triggerRestart")

ReconcileRestart ==
    /\ RestartPending(Cached)
    /\ Cached.run # "Halted"
    /\ Begin(Cached, IF Cached.status.synced \in InProgress
                     THEN "isRestartComplete" ELSE "triggerRestart")

Start == ReconcileNoRestart \/ ReconcileHalted \/ ReconcileRestart

(* The handler returns; the status update is next. *)
Return(status, r) ==
    /\ pc' = "status"
    /\ obj' = [obj EXCEPT !.status = status]
    /\ result' = r
    /\ UNCHANGED <<versions, queued, timer, current, oldstatus, acted, edits, careful>>

GoTo(next) ==
    /\ pc' = next
    /\ UNCHANGED <<versions, queued, timer, obj, current, oldstatus, result, edits, careful>>

With(synced, phase) == [obj.status EXCEPT !.synced = synced, !.phase = phase]
--------------------------------------------------------------------------------
(* reconcileRestartTrigger *)

RestartComplete ==
    /\ pc = "isRestartComplete"
    /\ RestartOver(host)
    /\ pc' = "getPower"
    /\ obj' = Acknowledged(obj)
    /\ UNCHANGED <<versions, queued, timer, current, oldstatus, acted, result,
                   host, edits, careful, faults, served>>

(* Mutant: no RequeueAfter. *)
RestartNotComplete_NoPoll ==
    /\ pc = "isRestartComplete"
    /\ ~RestartOver(host)
    /\ Return([obj.status EXCEPT !.phase = "Progressing"], "done")
    /\ UNCHANGED <<host, faults, served>>

RestartNotComplete ==
    /\ pc = "isRestartComplete"
    /\ ~RestartOver(host)
    /\ Return([obj.status EXCEPT !.phase = "Progressing"], "later")
    /\ UNCHANGED <<host, faults, served>>

(* ErrTransitioning: Ironic's 409, or a reboot annotation that is there already. *)
RestartRefused ==
    /\ pc = "triggerRestart"
    /\ RefusesRestart(host)
    /\ Return(With("retry", "Progressing"), "later")
    /\ UNCHANGED <<host, faults, served>>

(* The Metal3 client reads the host before it patches it. *)
ReadBeforeRestart ==
    /\ Backend = "metal3"
    /\ pc = "triggerRestart"
    /\ ~RefusesRestart(host)
    /\ GoTo("patchReboot")
    /\ UNCHANGED <<acted, host, faults, served>>

RebootAccepted ==
    /\ \/ pc = "triggerRestart" /\ Backend = "openstack" /\ ~RefusesRestart(host)
       \/ pc = "patchReboot"
    /\ host' \in Ordered(host, "reboot")
    /\ served' = IF served = 2 THEN 2 ELSE served + 1

(* Mutant: the restart is not recorded in the condition. *)
TriggerRestart_NotRecorded ==
    /\ RebootAccepted
    /\ Return([obj.status EXCEPT !.phase = "Progressing"], "later")
    /\ UNCHANGED faults

TriggerRestart ==
    /\ RebootAccepted
    /\ Return(With("restarting", "Progressing"), "later")
    /\ UNCHANGED faults
--------------------------------------------------------------------------------
(* reconcilePower and syncBareMetalInstanceStatus *)

SyncedStatus(o, h) ==
    [o.status EXCEPT
        !.run = Observed(h),
        !.synced = IF Transitioning(h) THEN "transitioning"
                   ELSE IF o.run \notin {"", Observed(h)} THEN "converging"
                   ELSE IF h.power = "on" THEN "powerOn" ELSE "powerOff"]

(* Without a run strategy the power is reported and left alone. *)
ReportPower ==
    /\ pc = "getPower"
    /\ obj.run = ""
    /\ Return([SyncedStatus(obj, host) EXCEPT !.phase = "Ready"], "done")
    /\ UNCHANGED <<host, faults, served>>

GetPower ==
    /\ pc = "getPower"
    /\ obj.run # ""
    /\ acted' = Transitioning(host)
    /\ GoTo(IF Transitioning(host) \/ host.power = Desired(obj)
            THEN "refreshPower" ELSE "setPower")
    /\ UNCHANGED <<host, faults, served>>

(* ErrTransitioning counts as an action taken. *)
PowerRefused ==
    /\ pc = "setPower"
    /\ RefusesPower(host)
    /\ acted' = TRUE
    /\ GoTo("refreshPower")
    /\ UNCHANGED <<host, faults, served>>

ReadBeforePower ==
    /\ Backend = "metal3"
    /\ pc = "setPower"
    /\ ~RefusesPower(host)
    /\ GoTo("patchOnline")
    /\ UNCHANGED <<acted, host, faults, served>>

PowerAccepted ==
    /\ \/ pc = "setPower" /\ Backend = "openstack" /\ ~RefusesPower(host)
       \/ pc = "patchOnline"
    /\ host' \in Ordered(host, Desired(obj))

SetPower ==
    /\ PowerAccepted
    /\ acted' = TRUE
    /\ GoTo("refreshPower")
    /\ UNCHANGED <<faults, served>>

(* The second GetPowerState, and the end of reconcileManagement: a state that *)
(* agrees is Ready unless something was done about it or PowerSynced was False. *)
RefreshPower ==
    LET verified == /\ ~acted
                    /\ ~Transitioning(host)
                    /\ host.power = Desired(obj)
                    /\ oldstatus.synced \in IsTrue \union {"none"}
    IN
    /\ pc = "refreshPower"
    /\ Return([SyncedStatus(obj, host) EXCEPT !.phase =
                  IF verified THEN "Ready" ELSE "Progressing"],
              IF verified THEN "done" ELSE "later")
    /\ UNCHANGED <<host, faults, served>>
--------------------------------------------------------------------------------
(* Failures, and the end of Reconcile *)

RemoteCalls == {"isRestartComplete", "triggerRestart", "patchReboot",
                "getPower", "setPower", "patchOnline", "refreshPower"}

Fault == faults < MaxFaults /\ faults' = faults + 1

(* The handler returns the error of the call. *)
Abort ==
    Return(With(CASE pc = "isRestartComplete" -> "checkFailed"
                  [] pc \in {"triggerRestart", "patchReboot"} -> "triggerFailed"
                  [] OTHER -> "apiFailure", "Failed"), "soon")

RequestFails ==
    /\ pc \in RemoteCalls
    /\ Fault
    /\ Abort
    /\ UNCHANGED <<host, served>>

RestartReplyLost == RebootAccepted /\ Fault /\ Abort

PowerReplyLost == PowerAccepted /\ Fault /\ Abort /\ UNCHANGED served

(* Reconcile returns: a delayed key keeps its earlier time, and a priority  *)
(* queue drops the delay of a key that is queued.                            *)
Finish(r) ==
    /\ pc = "status"
    /\ pc' = "idle"
    /\ timer' \in (IF r = "done" THEN {timer} ELSE {IF timer = "soon" THEN timer ELSE r})
                    \union (IF queued' THEN {"none"} ELSE {})
    /\ UNCHANGED <<reconcile, host, edits, careful, served>>

EndReconcile ==
    /\ obj.status = oldstatus
    /\ queued' = queued
    /\ Finish(result)
    /\ UNCHANGED <<versions, faults>>

UpdateStatus ==
    /\ obj.status # oldstatus
    /\ current
    /\ Publish([Stored EXCEPT !.status = obj.status])
    /\ queued' = (queued \/ WakesNow)
    /\ Finish(result)
    /\ UNCHANGED faults

StatusConflict ==
    /\ obj.status # oldstatus
    /\ ~current
    /\ queued' = queued
    /\ Finish("soon")
    /\ UNCHANGED <<versions, faults>>

(* Mutant: the error of the status update is not returned. *)
StatusRequestFails_Swallowed ==
    /\ obj.status # oldstatus
    /\ Fault
    /\ queued' = queued
    /\ Finish("done")
    /\ UNCHANGED versions

StatusRequestFails ==
    /\ obj.status # oldstatus
    /\ Fault
    /\ queued' = queued
    /\ Finish("soon")
    /\ UNCHANGED versions

(* A new process lists the object. *)
Restart ==
    /\ Fault
    /\ versions' = <<Stored>>
    /\ queued' = TRUE
    /\ timer' = "none"
    /\ pc' = "idle"
    /\ UNCHANGED <<reconcile, host, edits, careful, served>>

Step == \/ RestartComplete \/ RestartNotComplete
        \/ RestartRefused \/ ReadBeforeRestart \/ TriggerRestart
        \/ ReportPower \/ GetPower
        \/ PowerRefused \/ ReadBeforePower \/ SetPower \/ RefreshPower
        \/ EndReconcile \/ UpdateStatus \/ StatusConflict

Failure == \/ RequestFails \/ RestartReplyLost \/ PowerReplyLost
           \/ StatusRequestFails \/ Restart

Next ==
    /\ \/ EditSpec \/ DeliverEvent \/ FireTimer \/ HostWorks
       \/ Start \/ Step \/ Failure
    /\ UNCHANGED lag

Spec == Init /\ [][Next]_vars

(* The queue hands out the key, the calls of a worker return, events arrive, *)
(* delays end, and the host does what it was ordered to.                      *)
FairSpec == /\ Spec
            /\ WF_vars(Start /\ UNCHANGED lag)
            /\ WF_vars(Step /\ UNCHANGED lag)
            /\ WF_vars(DeliverEvent /\ UNCHANGED lag)
            /\ WF_vars(FireTimer /\ UNCHANGED lag)
            /\ WF_vars(HostWorks /\ UNCHANGED lag)
--------------------------------------------------------------------------------
(* Properties *)

TypeOK ==
    /\ versions \in Seq(Objects) \ {<<>>}
    /\ queued \in BOOLEAN
    /\ timer \in {"none", "soon", "later"}
    /\ pc \in RemoteCalls \union {"idle", "status"}
    /\ obj \in Objects
    /\ current \in BOOLEAN
    /\ oldstatus \in Statuses
    /\ acted \in BOOLEAN
    /\ result \in {"done", "later", "soon"}
    /\ host \in HostStates
    /\ edits \in 0 .. MaxEdits
    /\ faults \in 0 .. MaxFaults
    /\ served \in 0 .. 2
    /\ careful \in BOOLEAN
    /\ lag \in 0 .. MaxLag

RestartServed ==
    Stored.status.trigger' # Stored.status.trigger => served > 0 \/ Stored.run = "Halted"

(* "Change it to any value to trigger the restart": a change of restartTrigger *)
(* is acknowledged in the status only if a reboot was ordered since the change, *)
(* or the machine is to be halted.                                              *)
EveryRestartServed == [][RestartServed]_vars

(* The same, as long as users give a run strategy and wait for one edit to be *)
(* done before they make the next: however old the cache, whatever fails.      *)
NoRestartLost == [][careful => RestartServed]_vars

(* Until something fails, and with a cache that is up to date, a change of    *)
(* restartTrigger by a careful user reboots the machine once at most: the     *)
(* order and the status that remembers it are two requests.                   *)
RestartOnce == careful /\ lag = 0 /\ faults = 0 => served <= 1

Converged ==
    /\ Settled(Stored)
    /\ ~Locked(host)
    /\ Stored.run # "" => /\ Stored.status.synced \in IsTrue
                          /\ host.power = Desired(Stored)

(* When nothing is going to happen any more, the machine and the status are  *)
(* what a careful user's spec asks for, however old the cache was and whatever *)
(* has failed: no path ends without a wake-up it needed.                      *)
Quiet == /\ pc = "idle" /\ ~queued /\ timer = "none" /\ Len(versions) = 1
         /\ ~Locked(host) /\ ~host.reboot
QuietIsConverged == careful /\ Quiet => Converged

(* Once users stop editing, power, restart and status converge for good. *)
PowerConverges == <>[]Converged

(* The guard against stale readings has held Ready back (still Progressing,  *)
(* PowerSynced already True) and "requeue[s] once more to verify": Ready       *)
(* follows only when no power-off is left that has yet to show.                *)
ReadyIsVerified ==
    [][/\ Stored.status.phase = "Progressing"
       /\ Stored.status.synced = "powerOn"
       /\ Stored.status.phase' = "Ready"
       => host.unseen # "off"]_vars
================================================================================
