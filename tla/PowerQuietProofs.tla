--------------------------- MODULE PowerQuietProofs ---------------------------
(***************************************************************************)
(* PowerSync comes to rest only where the spec wants the machine, if users *)
(* are careful: whatever the backend, the lag and the failures.            *)
(***************************************************************************)
EXTENDS PowerSyncProofs

------------------------------------------------------------------------------
(* The host *)

(* Ironic works on one order at a time, and a BareMetalHost hides none. *)
Tidy(h) ==
    IF Backend = "metal3" THEN h.unseen = "none"
    ELSE \/ h.unseen = "none" /\ h.target = "none"
         \/ h.unseen = "none" /\ ~h.reboot
         \/ h.target = "none" /\ ~h.reboot

(* The host has power d, or what it has been ordered leads there. *)
Rests(h, d) ==
    IF Backend = "metal3" THEN d = IF h.target = "none" THEN h.power ELSE h.target
    ELSE /\ h.power = d
         /\ h.target \in {"none", d}
         /\ h.reboot => d = "on"
         /\ h.unseen \in {"none", d} \union (IF d = "on" THEN {"reboot"} ELSE {})

(* Where the power read is d and nothing shows, nothing is to come either. *)
Agrees(h, d) == ~Transitioning(h) /\ h.power = d => Rests(h, d)

LEMMA HostEvolves ==
    ASSUME NEW h \in HostStates, Tidy(h), NEW g,
           \/ h.unseen # "none" /\ g = Shown(h)
           \/ h.target # "none" /\ g = Powered(h)
           \/ h.reboot /\ h.target = "none" /\ g = Rebooted(h)
    PROVE  /\ Tidy(g)
           /\ \A d \in Powers : (Rests(h, d) => Rests(g, d)) /\ Agrees(g, d)
  <1>1. CASE Backend = "metal3"
    BY <1>1 DEF HostStates, Powers, Tidy, Rests, Agrees, Transitioning, Shown, Show,
                Powered, Rebooted
  <1>2. CASE Backend = "openstack"
    <2>1. CASE h.unseen # "none" /\ g = Shown(h)
      BY <1>2, <2>1 DEF HostStates, Powers, Tidy, Rests, Agrees, Transitioning, Shown, Show
    <2>2. CASE h.target # "none" /\ g = Powered(h)
      BY <1>2, <2>2 DEF HostStates, Powers, Tidy, Rests, Agrees, Transitioning, Powered
    <2>3. CASE h.reboot /\ h.target = "none" /\ g = Rebooted(h)
      BY <1>2, <2>3 DEF HostStates, Powers, Tidy, Rests, Agrees, Transitioning, Rebooted
    <2> QED
      BY <2>1, <2>2, <2>3
  <1> QED
    BY <1>1, <1>2, BackendAssumption

(* A host at rest has one power. *)
LEMMA RestsOnce ==
    ASSUME NEW h \in HostStates, NEW c, NEW d, Rests(h, c), Rests(h, d)
    PROVE  c = d
  BY DEF Rests

(* An order for power d, or for a reboot when the power is to be on. *)
Leads(h, g, d) ==
    \/ g \in Ordered(h, d)
    \/ d = "on" /\ g \in Ordered(h, "reboot")

Accepts(h) == Backend = "openstack" => ~Locked(h)

LEMMA OrderLeads ==
    ASSUME NEW h \in HostStates, Tidy(h), Accepts(h), NEW d \in Powers,
           NEW g, Leads(h, g, d)
    PROVE  /\ Tidy(g)
           /\ Agrees(h, d) => Agrees(g, d)
           /\ Rests(h, d) => Rests(g, d)
           /\ g.power = h.power
           /\ Backend = "metal3" => \A c \in Powers : Agrees(g, c)
  <1>1. CASE Backend = "metal3"
    BY <1>1 DEF HostStates, Powers, Tidy, Rests, Agrees, Transitioning, Leads, Ordered, Show
  <1>2. CASE Backend = "openstack"
    <2>1. h.target = "none" /\ ~h.reboot /\ h.unseen = "none"
      BY <1>2 DEF Accepts, Locked, Transitioning, HostStates
    <2>2. CASE g \in Ordered(h, d)
      BY <1>2, <2>1, <2>2 DEF HostStates, Powers, Tidy, Rests, Agrees, Transitioning,
                              Ordered, Show
    <2>3. CASE d = "on" /\ g \in Ordered(h, "reboot")
      BY <1>2, <2>1, <2>3 DEF HostStates, Powers, Tidy, Rests, Agrees, Transitioning,
                              Ordered, Show
    <2> QED
      BY <2>2, <2>3 DEF Leads
  <1> QED
    BY <1>1, <1>2, BackendAssumption

LEMMA RestsAgree ==
    ASSUME NEW h, NEW c, NEW d, Rests(h, c)
    PROVE  Agrees(h, d)
  BY DEF Rests, Agrees, Transitioning

(* A host that is left alone has the power where it rests. *)
LEMMA RestsUnlocked ==
    ASSUME NEW h, NEW d, Rests(h, d), ~Locked(h)
    PROVE  h.power = d
  BY DEF Rests, Locked, Transitioning

(* Careful users have two run strategies. *)
LEMMA SoundRun ==
    ASSUME NEW o \in SoundObjects
    PROVE  /\ o.run \in {"Always", "Halted"}
           /\ Desired(o) \in Powers
           /\ \A p \in SoundObjects : Desired(o) = Desired(p) <=> o.run = p.run
  <1>1. \A p \in SoundObjects : p.run \in {"Always", "Halted"}
    BY DEF SoundObjects, Objects
  <1> QED
    BY <1>1 DEF Desired, Powers
------------------------------------------------------------------------------
(* The invariant *)

HostInv ==
    /\ Tidy(host)
    /\ Agrees(host, Desired(Stored))
    /\ Settled(Stored) => Rests(host, Desired(Stored))

(* Where the cache, or the worker's copy, has another run strategy than the   *)
(* stored object, that one has been settled and nothing has been done since.  *)
(* The run strategy changes once, at most, in the informer's way.             *)
StaleInv ==
    /\ \A k \in 1 .. Len(versions) :
          versions[k].run # Stored.run => Rests(host, Desired(versions[k]))
    /\ \A j, k \in 1 .. Len(versions) :
          j <= k /\ versions[j].run = Stored.run => versions[k].run = Stored.run
    /\ pc # "idle" =>
          IF obj.run = Stored.run
          THEN \A k \in 1 .. Len(versions) : versions[k].run = Stored.run
          ELSE Rests(host, Desired(obj))

WorkerInv ==
    /\ pc \in {"patchReboot", "patchOnline"} => Backend = "metal3"
    /\ pc \in {"triggerRestart", "patchReboot"} => obj.run # "Halted"
    /\ pc = "status" /\ current =>
          /\ obj.status.phase = "Ready" => Rests(host, Desired(obj))
          /\ result = "done" => Settled(obj)

(* A worker with an old copy is followed by another one, and an object that is *)
(* not settled by one as well.                                                  *)
WakeInv ==
    /\ pc # "idle" /\ ~current => queued \/ Len(versions) > 1
    /\ pc = "idle" /\ ~queued /\ timer = "none" /\ Len(versions) = 1 => Settled(Stored)

QuietInv == HostInv /\ StaleInv /\ WorkerInv /\ WakeInv

LEMMA VersionsSound ==
    ASSUME Sound
    PROVE  /\ Len(versions) \in Nat \ {0}
           /\ \A k \in 1 .. Len(versions) : versions[k] \in SoundObjects
  BY DEF Sound

(* What a write leaves in the informer's way. *)
LEMMA PublishWindow ==
    ASSUME NEW S, versions \in Seq(S) \ {<<>>}, NEW o \in S, Publish(o)
    PROVE  \E c \in {0, 1} :
              /\ Len(versions') = Len(versions) + 1 - c
              /\ versions'[Len(versions')] = o
              /\ c = 1 => WakesNow
              /\ \A k \in 1 .. Len(versions') - 1 :
                    k + c \in 1 .. Len(versions) /\ versions'[k] = versions[k + c]
  <1>1. CASE Len(versions) > lag
    <2>1. versions' = Append(Tail(versions), o)
      BY <1>1 DEF Publish
    <2>2. /\ Tail(versions) \in Seq(S)
          /\ Len(versions) \in Nat \ {0}
          /\ Len(Tail(versions)) = Len(versions) - 1
          /\ \A k \in 1 .. Len(versions) - 1 : Tail(versions)[k] = versions[k + 1]
      OBVIOUS
    <2>3. /\ Len(versions') = Len(versions)
          /\ versions'[Len(versions')] = o
          /\ \A k \in 1 .. Len(versions) - 1 : versions'[k] = Tail(versions)[k]
      BY <2>1, <2>2
    <2>4. \A k \in 1 .. Len(versions') - 1 :
             k + 1 \in 1 .. Len(versions) /\ versions'[k] = versions[k + 1]
      BY <2>2, <2>3
    <2>5. Len(versions') = Len(versions) + 1 - 1 /\ WakesNow
      BY <1>1, <2>2, <2>3 DEF WakesNow
    <2> WITNESS 1 \in {0, 1}
    <2> QED
      BY <2>3, <2>4, <2>5
  <1>2. CASE ~(Len(versions) > lag)
    <2>1. versions' = Append(versions, o)
      BY <1>2 DEF Publish
    <2>2. /\ Len(versions) \in Nat \ {0}
          /\ Len(versions') = Len(versions) + 1
          /\ versions'[Len(versions')] = o
          /\ \A k \in 1 .. Len(versions) : versions'[k] = versions[k]
      BY <2>1
    <2>3. \A k \in 1 .. Len(versions') - 1 :
             k + 0 \in 1 .. Len(versions) /\ versions'[k] = versions[k + 0]
      BY <2>2
    <2>4. Len(versions') = Len(versions) + 1 - 0
      BY <2>2
    <2> WITNESS 0 \in {0, 1}
    <2> QED
      BY <2>2, <2>3, <2>4
  <1> QED
    BY <1>1, <1>2

LEMMA TailWindow ==
    ASSUME NEW S, versions \in Seq(S) \ {<<>>}, Len(versions) > 1,
           versions' = Tail(versions)
    PROVE  /\ Len(versions') = Len(versions) - 1
           /\ Stored' = Stored
           /\ \A k \in 1 .. Len(versions') :
                 k + 1 \in 1 .. Len(versions) /\ versions'[k] = versions[k + 1]
  <1>1. Stored' = Stored
    BY TailNotEmpty DEF Stored
  <1> QED
    BY <1>1
------------------------------------------------------------------------------
(* The worker *)

(* An order leads where the worker's copy wants the machine. *)
LEMMA OrderAccepted ==
    ASSUME TypeOK, Sound, WorkerInv, RebootAccepted \/ PowerAccepted
    PROVE  Leads(host, host', Desired(obj)) /\ Accepts(host)
  <1>1. CASE RebootAccepted
    <2>1. pc \in {"triggerRestart", "patchReboot"} /\ host' \in Ordered(host, "reboot")
      BY <1>1 DEF RebootAccepted
    <2>2. Desired(obj) = "on"
      BY <2>1, SoundParts, SoundRun DEF WorkerInv, Desired
    <2>3. Accepts(host)
      BY <1>1, BackendAssumption DEF RebootAccepted, WorkerInv, Accepts, RefusesRestart
    <2> QED
      BY <2>1, <2>2, <2>3 DEF Leads
  <1>2. CASE PowerAccepted
    BY <1>2, BackendAssumption
       DEF PowerAccepted, WorkerInv, Accepts, RefusesPower, Leads
  <1> QED
    BY <1>1, <1>2

(* A worker's call keeps what is known of the host. *)
LEMMA CallKeepsHost ==
    ASSUME TypeOK, Sound, HostInv, StaleInv, pc # "idle",
           versions' = versions, obj'.run = obj.run,
           host' = host \/ (Leads(host, host', Desired(obj)) /\ Accepts(host))
    PROVE  HostInv' /\ StaleInv'
  <1>1. Stored' = Stored /\ Desired(obj)' = Desired(obj)
    BY DEF Stored, Desired
  <1>2. CASE host' = host
    BY <1>1, <1>2 DEF HostInv, StaleInv, Settled, RestartPending, Desired
  <1>3. CASE Leads(host, host', Desired(obj)) /\ Accepts(host)
    <2> DEFINE d == Desired(obj)
               e == Desired(Stored)
    <2>1. host \in HostStates /\ d \in Powers /\ e \in Powers
      BY SoundParts, SoundRun DEF TypeOK
    <2>2. Tidy(host) /\ Agrees(host, e) /\ (Settled(Stored) => Rests(host, e))
      BY DEF HostInv
    <2>3. d = e <=> obj.run = Stored.run
      BY SoundParts, SoundRun
    <2>4. Leads(host, host', d) /\ Accepts(host)
      BY <1>3
    <2>5. pc # "idle" /\ obj.run # Stored.run => Rests(host, d)
      BY DEF StaleInv
    <2>6. \A k \in 1 .. Len(versions) :
             versions[k].run # Stored.run => Desired(versions[k]) = d
      <3> SUFFICES ASSUME NEW k \in 1 .. Len(versions), versions[k].run # Stored.run
                   PROVE  Desired(versions[k]) = d
        OBVIOUS
      <3>1. /\ versions[k] \in SoundObjects /\ obj \in SoundObjects
            /\ Stored \in SoundObjects
        BY VersionsSound, SoundParts
      <3>2. obj.run # Stored.run
        BY DEF StaleInv
      <3>3. obj.run = versions[k].run
        BY <3>1, <3>2, SoundRun
      <3> QED
        BY <3>3 DEF Desired
    <2> HIDE DEF d, e
    <2>7. /\ Tidy(host')
          /\ Agrees(host, d) => Agrees(host', d)
          /\ Rests(host, d) => Rests(host', d)
          /\ host'.power = host.power
          /\ Backend = "metal3" => \A c \in Powers : Agrees(host', c)
      BY <2>1, <2>2, <2>4, OrderLeads
    <2>8. Agrees(host', e) /\ (Settled(Stored) => Rests(host', e))
      <3>1. CASE d = e
        BY <2>2, <2>7, <3>1
      <3>2. CASE d # e
        <4>1. Rests(host, d)
          BY <2>3, <2>5, <3>2
        <4>2. ~Settled(Stored)
          BY <2>1, <2>2, <3>2, <4>1, RestsOnce
        <4>3. Backend # "metal3" => host'.power = d
          BY <2>7, <4>1 DEF Rests
        <4>4. Agrees(host', e)
          BY <2>1, <2>7, <3>2, <4>3 DEF Agrees
        <4> QED
          BY <4>2, <4>4
      <3> QED
        BY <3>1, <3>2
    <2>9. HostInv'
      BY <1>1, <2>7, <2>8 DEF HostInv, e, Settled, RestartPending, Desired
    <2>10. StaleInv'
      <3>1. \A k \in 1 .. Len(versions) :
               versions[k].run # Stored.run => Rests(host', Desired(versions[k]))
        BY <2>6, <2>7 DEF StaleInv
      <3>2. IF obj.run = Stored.run
            THEN \A k \in 1 .. Len(versions) : versions[k].run = Stored.run
            ELSE Rests(host', d)
        BY <2>5, <2>7 DEF StaleInv
      <3> QED
        BY <1>1, <3>1, <3>2 DEF StaleInv, d, Desired
    <2> QED
      BY <2>9, <2>10
  <1> QED
    BY <1>2, <1>3

(* The handler returns a status. *)
LEMMA ReturnRests ==
    ASSUME TypeOK, RestartInv, QuietInv, pc # "idle",
           NEW status \in Statuses, NEW r, Return(status, r),
           host' = host \/ (Leads(host, host', Desired(obj)) /\ Accepts(host)),
           current /\ status.phase = "Ready" => Rests(host', Desired(obj)),
           current /\ r = "done" => Settled([obj EXCEPT !.status = status])
    PROVE  QuietInv'
  <1>1. /\ obj' = [obj EXCEPT !.status = status]
        /\ pc' = "status" /\ result' = r
        /\ UNCHANGED <<versions, queued, timer, current>>
    BY DEF Return
  <1>2. obj'.run = obj.run /\ obj'.status = status
    BY <1>1 DEF TypeOK, Objects
  <1>3. HostInv' /\ StaleInv'
    BY <1>1, <1>2, CallKeepsHost DEF RestartInv, QuietInv
  <1>4. WorkerInv'
    BY <1>1, <1>2 DEF WorkerInv, Settled, RestartPending, Desired
  <1>5. WakeInv'
    BY <1>1 DEF QuietInv, WakeInv
  <1> QED
    BY <1>3, <1>4, <1>5 DEF QuietInv

(* The handler goes on to its next call. *)
LEMMA GoToRests ==
    ASSUME TypeOK, RestartInv, QuietInv, pc # "idle",
           NEW next \in RemoteCalls, GoTo(next),
           next \in {"patchReboot", "patchOnline"} => Backend = "metal3",
           next = "patchReboot" => pc = "triggerRestart",
           next # "triggerRestart",
           host' = host \/ (Leads(host, host', Desired(obj)) /\ Accepts(host))
    PROVE  QuietInv'
  <1>1. pc' = next /\ UNCHANGED <<versions, queued, timer, obj, current, result>>
    BY DEF GoTo
  <1>2. HostInv' /\ StaleInv'
    BY <1>1, CallKeepsHost DEF RestartInv, QuietInv
  <1>3. WorkerInv'
    BY <1>1 DEF QuietInv, WorkerInv, RemoteCalls
  <1>4. WakeInv'
    BY <1>1 DEF QuietInv, WakeInv, RemoteCalls
  <1> QED
    BY <1>2, <1>3, <1>4 DEF QuietInv

LEMMA RestartStepRests ==
    ASSUME TypeOK, RestartInv, QuietInv,
           \/ RestartComplete \/ RestartNotComplete \/ RestartRefused
           \/ ReadBeforeRestart \/ TriggerRestart
    PROVE  QuietInv'
  <1>1. obj \in Objects /\ obj.status \in Statuses /\ obj \in SoundObjects
    BY ObjectParts, SoundParts DEF TypeOK, RestartInv
  <1>2. CASE RestartComplete
    <2>1. /\ pc = "isRestartComplete" /\ pc' = "getPower"
          /\ obj' = Acknowledged(obj)
          /\ UNCHANGED <<versions, queued, timer, current, host>>
      BY <1>2 DEF RestartComplete
    <2>2. obj'.run = obj.run
      BY <1>1, <2>1, AcknowledgedParts
    <2>3. HostInv' /\ StaleInv'
      BY <2>1, <2>2, CallKeepsHost DEF RestartInv, QuietInv
    <2>4. WorkerInv' /\ WakeInv'
      BY <2>1 DEF QuietInv, WorkerInv, WakeInv
    <2> QED
      BY <2>3, <2>4 DEF QuietInv
  <1>3. CASE RestartNotComplete
    <2> DEFINE s == [obj.status EXCEPT !.phase = "Progressing"]
    <2>1. pc = "isRestartComplete" /\ Return(s, "later") /\ host' = host
      BY <1>3 DEF RestartNotComplete
    <2>2. s \in Statuses /\ s.phase # "Ready"
      BY <1>1, PhaseParts
    <2> HIDE DEF s
    <2> QED
      BY <2>1, <2>2, ReturnRests
  <1>4. CASE RestartRefused
    <2> DEFINE s == With("retry", "Progressing")
    <2>1. pc = "triggerRestart" /\ Return(s, "later") /\ host' = host
      BY <1>4 DEF RestartRefused
    <2>2. s \in Statuses /\ s.phase # "Ready"
      BY WithParts DEF Conditions
    <2> HIDE DEF s
    <2> QED
      BY <2>1, <2>2, ReturnRests
  <1>5. CASE ReadBeforeRestart
    <2>1. /\ pc = "triggerRestart" /\ GoTo("patchReboot") /\ host' = host
          /\ Backend = "metal3" /\ "patchReboot" \in RemoteCalls
      BY <1>5 DEF ReadBeforeRestart, RemoteCalls
    <2> QED
      BY <2>1, GoToRests
  <1>6. CASE TriggerRestart
    <2> DEFINE s == With("restarting", "Progressing")
    <2>1. pc # "idle" /\ Return(s, "later")
      BY <1>6 DEF TriggerRestart, RebootAccepted
    <2>2. s \in Statuses /\ s.phase # "Ready"
      BY WithParts DEF Conditions, InProgress
    <2>3. Leads(host, host', Desired(obj)) /\ Accepts(host)
      BY <1>6, OrderAccepted DEF TriggerRestart, RestartInv, QuietInv
    <2> HIDE DEF s
    <2> QED
      BY <2>1, <2>2, <2>3, ReturnRests
  <1> QED
    BY <1>2, <1>3, <1>4, <1>5, <1>6

(* A power state that was verified is the one the spec asks for, and stays. *)
LEMMA VerifiedRests ==
    ASSUME TypeOK, RestartInv, QuietInv, pc = "refreshPower", current,
           ~Transitioning(host), host.power = Desired(obj),
           NEW status \in Statuses,
           status.phase = "Ready",
           status.run = Observed(host),
           status.trigger = obj.status.trigger
    PROVE  /\ Rests(host, Desired(obj))
           /\ Settled([obj EXCEPT !.status = status])
  <1>1. obj \in SoundObjects /\ Stored \in SoundObjects /\ obj.run = Stored.run
    BY SoundParts DEF RestartInv, CurrentCopy
  <1>2. Desired(obj) = Desired(Stored)
    BY <1>1 DEF Desired
  <1>3. Rests(host, Desired(obj))
    BY <1>2 DEF QuietInv, HostInv, Agrees
  <1>4. status.run = obj.run
    BY <1>1, SoundRun DEF Desired, Observed
  <1>5. obj.trigger = status.trigger
    BY DEF RestartInv, WorkerServed, PowerCalls, RestartPending
  <1> DEFINE o == [obj EXCEPT !.status = status]
  <1>6. o.run = obj.run /\ o.trigger = obj.trigger /\ o.status = status
    BY <1>1 DEF SoundObjects, Objects
  <1> HIDE DEF o
  <1>7. Settled(o)
    BY <1>4, <1>5, <1>6 DEF Settled, RestartPending
  <1> QED
    BY <1>3, <1>7 DEF o

LEMMA PowerStepRests ==
    ASSUME TypeOK, RestartInv, QuietInv,
           \/ ReportPower \/ GetPower \/ PowerRefused
           \/ ReadBeforePower \/ SetPower \/ RefreshPower
    PROVE  QuietInv'
  <1>1. obj.run # ""
    BY SoundParts DEF RestartInv, SoundObjects
  <1>2. CASE ReportPower
    BY <1>1, <1>2 DEF ReportPower
  <1>3. CASE GetPower \/ PowerRefused
    <2>1. PICK next \in {"refreshPower", "setPower"} : GoTo(next)
      BY <1>3 DEF GetPower, PowerRefused
    <2>2. next \in RemoteCalls /\ pc # "idle" /\ host' = host
      BY <1>3 DEF GetPower, PowerRefused, RemoteCalls
    <2> QED
      BY <2>1, <2>2, GoToRests
  <1>4. CASE ReadBeforePower
    <2>1. /\ pc = "setPower" /\ GoTo("patchOnline") /\ host' = host
          /\ Backend = "metal3" /\ "patchOnline" \in RemoteCalls
      BY <1>4 DEF ReadBeforePower, RemoteCalls
    <2> QED
      BY <2>1, GoToRests
  <1>5. CASE SetPower
    <2>1. pc # "idle" /\ GoTo("refreshPower") /\ "refreshPower" \in RemoteCalls
      BY <1>5 DEF SetPower, PowerAccepted, RemoteCalls
    <2>2. Leads(host, host', Desired(obj)) /\ Accepts(host)
      BY <1>5, OrderAccepted DEF SetPower, RestartInv, QuietInv
    <2> QED
      BY <2>1, <2>2, GoToRests
  <1>6. CASE RefreshPower
    <2>1. PICK p \in {"Ready", "Progressing"}, r \in {"done", "later"} :
             /\ Return([SyncedStatus(obj, host) EXCEPT !.phase = p], r)
             /\ p = "Ready" \/ r = "done" =>
                   /\ p = "Ready"
                   /\ ~Transitioning(host)
                   /\ host.power = Desired(obj)
      BY <1>6 DEF RefreshPower
    <2> DEFINE t == SyncedStatus(obj, host)
               s == [t EXCEPT !.phase = p]
    <2>2. t \in Statuses /\ t.trigger = obj.status.trigger
      BY SyncedStatusType DEF TypeOK
    <2>3. t.run = Observed(host)
      <3>1. obj.status \in Statuses
        BY ObjectParts DEF TypeOK
      <3> QED
        BY <3>1 DEF SyncedStatus, Statuses
    <2>4. Return(s, r)
      BY <2>1
    <2> HIDE DEF t
    <2>5. /\ s \in Statuses /\ s.phase = p
          /\ s.trigger = obj.status.trigger /\ s.run = Observed(host)
      <3>1. /\ [t EXCEPT !.phase = p] \in Statuses
            /\ [t EXCEPT !.phase = p].phase = p
            /\ [t EXCEPT !.phase = p].trigger = t.trigger
        BY <2>2, PhaseParts
      <3>2. [t EXCEPT !.phase = p].run = t.run
        BY <2>2 DEF Statuses
      <3> QED
        BY <2>2, <2>3, <3>1, <3>2
    <2> HIDE DEF s
    <2>6. pc = "refreshPower" /\ host' = host
      BY <1>6 DEF RefreshPower
    <2>7. ASSUME current, p = "Ready" \/ r = "done"
          PROVE  Rests(host, Desired(obj)) /\ Settled([obj EXCEPT !.status = s])
      BY <2>1, <2>5, <2>6, <2>7, VerifiedRests
    <2> QED
      BY <2>4, <2>5, <2>6, <2>7, ReturnRests
  <1> QED
    BY <1>2, <1>3, <1>4, <1>5, <1>6

LEMMA FailureRests ==
    ASSUME TypeOK, RestartInv, QuietInv,
           RequestFails \/ RestartReplyLost \/ PowerReplyLost
    PROVE  QuietInv'
  <1>1. PICK c \in {"checkFailed", "triggerFailed", "apiFailure"} :
           Return(With(c, "Failed"), "soon")
    BY AbortStatus DEF RequestFails, RestartReplyLost, PowerReplyLost
  <1> DEFINE s == With(c, "Failed")
  <1>2. s \in Statuses /\ s.phase # "Ready"
    BY WithParts DEF Conditions
  <1>3. pc # "idle"
    BY DEF RequestFails, RestartReplyLost, PowerReplyLost, RebootAccepted,
           PowerAccepted, RemoteCalls
  <1>4. host' = host \/ (Leads(host, host', Desired(obj)) /\ Accepts(host))
    BY OrderAccepted DEF RequestFails, RestartReplyLost, PowerReplyLost, RestartInv, QuietInv
  <1>5. Return(s, "soon")
    BY <1>1
  <1> HIDE DEF s
  <1> QED
    BY <1>2, <1>3, <1>4, <1>5, ReturnRests
------------------------------------------------------------------------------
(* Users, the informer, the host, and the two ends of a reconcile *)

(* A host that is left to itself goes where it was going. *)
LEMMA HostWorksRests ==
    ASSUME TypeOK, RestartInv, QuietInv, HostWorks
    PROVE  QuietInv'
  <1>1. UNCHANGED <<versions, queued, timer, pc, obj, current, result>>
    BY DEF HostWorks, reconcile
  <1>2. \/ host.unseen # "none" /\ host' = Shown(host)
        \/ host.target # "none" /\ host' = Powered(host)
        \/ host.reboot /\ host.target = "none" /\ host' = Rebooted(host)
    BY DEF HostWorks
  <1>3. host \in HostStates /\ Tidy(host)
    BY DEF TypeOK, QuietInv, HostInv
  <1>4. /\ Tidy(host')
        /\ \A d \in Powers :
              (Rests(host, d) => Rests(host', d)) /\ Agrees(host', d)
    BY <1>2, <1>3, HostEvolves
  <1>5. Stored' = Stored /\ \A o : Desired(o)' = Desired(o)
    BY <1>1 DEF Stored, Desired
  <1>6. \A o \in SoundObjects : Desired(o) \in Powers
    BY SoundRun
  <1>7. Stored \in SoundObjects /\ obj \in SoundObjects
    BY SoundParts DEF RestartInv
  <1>8. HostInv'
    <2>1. /\ Agrees(host', Desired(Stored))
          /\ Settled(Stored) => Rests(host', Desired(Stored))
      BY <1>4, <1>6, <1>7 DEF QuietInv, HostInv
    <2> QED
      BY <1>4, <1>5, <2>1 DEF HostInv, Settled, RestartPending
  <1>9. StaleInv'
    <2>1. ASSUME NEW k \in 1 .. Len(versions), versions[k].run # Stored.run
          PROVE  Rests(host', Desired(versions[k]))
      <3>1. versions[k] \in SoundObjects
        BY VersionsSound DEF RestartInv
      <3> QED
        BY <1>4, <1>6, <2>1, <3>1 DEF QuietInv, StaleInv
    <2>2. pc # "idle" =>
             IF obj.run = Stored.run
             THEN \A k \in 1 .. Len(versions) : versions[k].run = Stored.run
             ELSE Rests(host', Desired(obj))
      BY <1>4, <1>6, <1>7 DEF QuietInv, StaleInv
    <2>3. \A j, k \in 1 .. Len(versions) :
             j <= k /\ versions[j].run = Stored.run => versions[k].run = Stored.run
      BY DEF QuietInv, StaleInv
    <2> QED
      BY <1>1, <1>5, <2>1, <2>2, <2>3 DEF StaleInv, Desired
  <1>10. WorkerInv'
    <2>1. pc = "status" /\ current /\ obj.status.phase = "Ready" => Rests(host', Desired(obj))
      BY <1>4, <1>6, <1>7 DEF QuietInv, WorkerInv
    <2> QED
      BY <1>1, <2>1 DEF QuietInv, WorkerInv, Settled, RestartPending, Desired
  <1>11. WakeInv'
    BY <1>1, <1>5 DEF QuietInv, WakeInv, Settled, RestartPending
  <1> QED
    BY <1>8, <1>9, <1>10, <1>11 DEF QuietInv

(* An edit of a settled object leaves the host where the last one put it. *)
LEMMA EditRests ==
    ASSUME TypeOK, RestartInv, QuietInv, EditSpec, careful'
    PROVE  QuietInv'
  <1>1. PICK run \in RunStrategies, trigger \in Triggers :
           /\ <<run, trigger>> # <<Stored.run, Stored.trigger>>
           /\ Publish([Stored EXCEPT !.run = run, !.trigger = trigger])
           /\ careful' = (careful /\ Settled(Stored) /\ run # "")
    BY DEF EditSpec
  <1> DEFINE o == [Stored EXCEPT !.run = run, !.trigger = trigger]
             e == Desired(Stored)
  <1>2. Stored \in SoundObjects /\ Settled(Stored) /\ run # ""
    BY <1>1, SoundParts DEF RestartInv
  <1>3. o \in SoundObjects /\ o.status = Stored.status /\ o.run = run /\ o.trigger = trigger
    BY <1>1, <1>2, RunStrategiesAssumption DEF SoundObjects, Objects
  <1>4. Publish(o)
    BY <1>1
  <1>5. host \in HostStates /\ e \in Powers /\ Rests(host, e)
    BY <1>2, SoundRun DEF TypeOK, QuietInv, HostInv
  <1>6. /\ \A k \in 1 .. Len(versions) : versions[k].run = Stored.run
        /\ pc # "idle" => obj.run = Stored.run
    <2>1. ASSUME NEW v \in SoundObjects, v.run # Stored.run
          PROVE  ~Rests(host, Desired(v))
      BY <1>2, <1>5, <2>1, RestsOnce, SoundRun
    <2>2. \A k \in 1 .. Len(versions) : versions[k] \in SoundObjects
      BY VersionsSound DEF RestartInv
    <2>3. obj \in SoundObjects
      BY SoundParts DEF RestartInv
    <2> QED
      BY <2>1, <2>2, <2>3 DEF QuietInv, StaleInv
  <1>7. ~Settled(o)
    <2>1. Stored.run = Stored.status.run /\ Stored.trigger = Stored.status.trigger
      BY <1>2, SoundRun DEF Settled, RestartPending
    <2>2. run # Stored.run \/ trigger # Stored.trigger
      BY <1>1
    <2> HIDE DEF o
    <2> QED
      BY <1>2, <1>3, <2>1, <2>2 DEF Settled, RestartPending
  <1> HIDE DEF o
  <1>8. versions \in Seq(SoundObjects) \ {<<>>}
    BY DEF RestartInv, Sound
  <1>9. Stored' = o /\ versions' \in Seq(SoundObjects) \ {<<>>}
    BY <1>3, <1>4, <1>8, PublishTypes
  <1>10. PICK c \in {0, 1} :
            /\ Len(versions') = Len(versions) + 1 - c
            /\ versions'[Len(versions')] = o
            /\ c = 1 => WakesNow
            /\ \A k \in 1 .. Len(versions') - 1 :
                  k + c \in 1 .. Len(versions) /\ versions'[k] = versions[k + c]
    BY <1>3, <1>4, <1>8, PublishWindow
  <1>11. \A k \in 1 .. Len(versions') - 1 : versions'[k].run = Stored.run
    BY <1>6, <1>10
  <1>12. Len(versions) \in Nat \ {0} /\ Len(versions') \in Nat \ {0}
    BY <1>8, <1>9
  <1>13. \A k \in 1 .. Len(versions') : k = Len(versions') \/ k \in 1 .. Len(versions') - 1
    BY <1>12
  <1>14. UNCHANGED <<pc, obj, result, host>> /\ current' = FALSE
    BY DEF EditSpec
  <1>15. \A d : Agrees(host, d)
    BY <1>5, RestsAgree
  <1>16. HostInv'
    BY <1>7, <1>9, <1>14, <1>15 DEF QuietInv, HostInv, Settled, RestartPending, Desired
  <1>17. \A v : v.run = Stored.run => Desired(v) = e
    BY DEF Desired
  <1> HIDE DEF e
  <1>18. StaleInv'
    <2>1. ASSUME NEW k \in 1 .. Len(versions'), versions'[k].run # o.run
          PROVE  Rests(host, Desired(versions'[k]))
      <3>1. k # Len(versions')
        BY <1>10, <2>1
      <3>2. versions'[k].run = Stored.run
        BY <1>11, <1>13, <3>1
      <3>3. Desired(versions'[k]) = e
        BY <1>17, <3>2
      <3> QED
        BY <1>5, <3>3
    <2>2. ASSUME NEW j \in 1 .. Len(versions'), NEW k \in 1 .. Len(versions'), j <= k,
                 versions'[j].run = o.run
          PROVE  versions'[k].run = o.run
      <3>1. CASE k = Len(versions')
        BY <1>10, <3>1
      <3>2. CASE k # Len(versions')
        <4>1. j \in 1 .. Len(versions') - 1 /\ k \in 1 .. Len(versions') - 1
          BY <1>12, <1>13, <2>2, <3>2
        <4> QED
          BY <1>11, <2>2, <4>1
      <3> QED
        BY <3>1, <3>2
    <2>3. ASSUME pc # "idle", obj.run = o.run, NEW k \in 1 .. Len(versions')
          PROVE  versions'[k].run = o.run
      <3>1. o.run = Stored.run
        BY <1>6, <2>3
      <3> QED
        BY <1>10, <1>11, <1>13, <3>1
    <2>4. pc # "idle" => Rests(host, Desired(obj))
      BY <1>5, <1>6, <1>17
    <2> QED
      BY <1>9, <1>14, <2>1, <2>2, <2>3, <2>4 DEF StaleInv, Desired
  <1>19. WorkerInv'
    BY <1>14 DEF QuietInv, WorkerInv
  <1>20. queued' \/ Len(versions') > 1
    <2>1. WakesNow => queued'
      BY DEF EditSpec, Enqueue
    <2> QED
      BY <1>10, <1>12, <2>1
  <1>21. WakeInv'
    <2>1. Len(versions') > 1 => Len(versions') # 1
      <3>1. \A n \in Nat : n > 1 => n # 1
        OBVIOUS
      <3> QED
        BY <1>12, <3>1
    <2>2. pc' # "idle" /\ ~current' => queued' \/ Len(versions') > 1
      BY <1>20
    <2>3. pc' = "idle" /\ ~queued' /\ timer' = "none" /\ Len(versions') = 1
             => Settled(Stored)'
      BY <1>20, <2>1
    <2> QED
      BY <2>2, <2>3 DEF WakeInv
  <1> QED
    BY <1>16, <1>18, <1>19, <1>21 DEF QuietInv

LEMMA DeliverRests ==
    ASSUME TypeOK, RestartInv, QuietInv, DeliverEvent
    PROVE  QuietInv'
  <1>1. /\ versions' = Tail(versions) /\ Len(versions) > 1 /\ queued'
        /\ UNCHANGED <<pc, obj, current, result, host>>
    BY DEF DeliverEvent, Enqueue, reconcile
  <1>2. versions \in Seq(SoundObjects) \ {<<>>}
    BY DEF RestartInv, Sound
  <1>3. /\ Len(versions') = Len(versions) - 1
        /\ Stored' = Stored
        /\ \A k \in 1 .. Len(versions') :
              k + 1 \in 1 .. Len(versions) /\ versions'[k] = versions[k + 1]
    BY <1>1, <1>2, TailWindow
  <1>4. HostInv' /\ WorkerInv' /\ WakeInv'
    BY <1>1, <1>3
       DEF QuietInv, HostInv, WorkerInv, WakeInv, Settled, RestartPending, Desired
  <1>5. StaleInv'
    <2>1. \A k \in 1 .. Len(versions') :
             versions'[k].run # Stored.run => Rests(host, Desired(versions'[k]))
      BY <1>3 DEF QuietInv, StaleInv
    <2>2. ASSUME NEW j \in 1 .. Len(versions'), NEW k \in 1 .. Len(versions'), j <= k,
                 versions'[j].run = Stored.run
          PROVE  versions'[k].run = Stored.run
      <3>1. j + 1 <= k + 1
        BY <2>2
      <3> QED
        BY <1>3, <2>2, <3>1 DEF QuietInv, StaleInv
    <2>3. pc # "idle" =>
             IF obj.run = Stored.run
             THEN \A k \in 1 .. Len(versions') : versions'[k].run = Stored.run
             ELSE Rests(host, Desired(obj))
      BY <1>3 DEF QuietInv, StaleInv
    <2> QED
      BY <1>1, <1>3, <2>1, <2>2, <2>3 DEF StaleInv, Desired
  <1> QED
    BY <1>4, <1>5 DEF QuietInv

LEMMA StartRests ==
    ASSUME TypeOK, RestartInv, QuietInv, Start
    PROVE  QuietInv'
  <1>1. /\ UNCHANGED <<versions, timer, host>>
        /\ current' = (Len(versions) = 1)
    BY DEF Start, ReconcileNoRestart, ReconcileHalted, ReconcileRestart, Begin
  <1>2. Cached \in SoundObjects
    BY SoundParts DEF RestartInv
  <1>3. /\ obj'.run = Cached.run
        /\ pc' \in {"getPower", "isRestartComplete", "triggerRestart"}
        /\ pc' = "triggerRestart" => obj'.run # "Halted"
    <2>1. CASE ReconcileNoRestart
      BY <2>1 DEF ReconcileNoRestart, Begin
    <2>2. CASE ReconcileHalted
      BY <1>2, <2>2, AcknowledgedParts DEF ReconcileHalted, Begin
    <2>3. CASE ReconcileRestart
      BY <2>3 DEF ReconcileRestart, Begin
    <2> QED
      BY <2>1, <2>2, <2>3 DEF Start
  <1>4. Stored' = Stored
    BY <1>1 DEF Stored
  <1>5. HostInv'
    BY <1>1, <1>4 DEF QuietInv, HostInv, Settled, RestartPending, Desired
  <1>6. Len(versions) \in Nat \ {0}
    BY VersionsSound DEF RestartInv
  <1>7. StaleInv'
    <2>1. 1 \in 1 .. Len(versions) /\ \A k \in 1 .. Len(versions) : 1 <= k
      BY <1>6
    <2>2. IF Cached.run = Stored.run
          THEN \A k \in 1 .. Len(versions) : versions[k].run = Stored.run
          ELSE Rests(host, Desired(Cached))
      BY <2>1 DEF QuietInv, StaleInv, Cached
    <2>3. Desired(obj)' = Desired(Cached)
      BY <1>3 DEF Desired
    <2> QED
      BY <1>1, <1>3, <1>4, <2>2, <2>3 DEF QuietInv, StaleInv, Desired
  <1>8. WorkerInv'
    BY <1>3 DEF WorkerInv
  <1>9. WakeInv'
    <2>1. Len(versions) = 1 \/ Len(versions) > 1
      BY <1>6
    <2> QED
      BY <1>1, <1>3, <2>1 DEF WakeInv
  <1> QED
    BY <1>5, <1>7, <1>8, <1>9 DEF QuietInv

(* Reconcile returns, or the process ends, without a write. *)
LEMMA LeaveRests ==
    ASSUME TypeOK, RestartInv, QuietInv,
           EndReconcile \/ StatusConflict \/ StatusRequestFails \/ Restart
    PROVE  QuietInv'
  <1>1. pc' = "idle" /\ UNCHANGED <<obj, current, host>>
    BY DEF EndReconcile, StatusConflict, StatusRequestFails, Restart, Finish, reconcile
  <1>2. WorkerInv'
    BY <1>1 DEF WorkerInv
  <1>3. CASE Restart
    <2>1. versions' = <<Stored>> /\ queued'
      BY <1>3 DEF Restart
    <2>2. Stored' = Stored /\ Len(versions') = 1 /\ versions'[1] = Stored
      BY <2>1 DEF Stored
    <2>3. HostInv' /\ WakeInv'
      BY <1>1, <2>1, <2>2
         DEF QuietInv, HostInv, WakeInv, Settled, RestartPending, Desired
    <2>4. StaleInv'
      BY <1>1, <2>2 DEF StaleInv
    <2> QED
      BY <1>2, <2>3, <2>4 DEF QuietInv
  <1>4. CASE EndReconcile \/ StatusConflict \/ StatusRequestFails
    <2>1. versions' = versions /\ queued' = queued /\ pc = "status"
      BY <1>4 DEF EndReconcile, StatusConflict, StatusRequestFails, Finish
    <2>2. Stored' = Stored
      BY <2>1 DEF Stored
    <2>3. HostInv' /\ StaleInv'
      BY <1>1, <2>1, <2>2
         DEF QuietInv, HostInv, StaleInv, Settled, RestartPending, Desired
    <2>4. ASSUME ~queued, timer' = "none", Len(versions) = 1
          PROVE  Settled(Stored)
      <3>1. ~ \E r \in {"later", "soon"} : Finish(r)
        BY <2>1, <2>4 DEF Finish
      <3>2. EndReconcile /\ result = "done"
        BY <1>4, <3>1 DEF EndReconcile, StatusConflict, StatusRequestFails, TypeOK
      <3>3. current
        <4>1. ~(Len(versions) > 1)
          BY <2>4
        <4> QED
          BY <2>1, <2>4, <4>1 DEF QuietInv, WakeInv
      <3>4. /\ obj.run = Stored.run /\ obj.trigger = Stored.trigger
            /\ obj.status = Stored.status
        BY <2>1, <3>2, <3>3 DEF RestartInv, CurrentCopy, EndReconcile
      <3>5. Settled(obj)
        BY <2>1, <3>2, <3>3 DEF QuietInv, WorkerInv
      <3> QED
        BY <3>4, <3>5 DEF Settled, RestartPending
    <2>5. WakeInv'
      BY <1>1, <2>1, <2>2, <2>4 DEF WakeInv, Settled, RestartPending
    <2> QED
      BY <1>2, <2>3, <2>5 DEF QuietInv
  <1> QED
    BY <1>3, <1>4

(* The status update of a current copy; its own event brings the next look. *)
LEMMA UpdateRests ==
    ASSUME TypeOK, RestartInv, QuietInv, UpdateStatus
    PROVE  QuietInv'
  <1> DEFINE o == [Stored EXCEPT !.status = obj.status]
  <1>1. /\ pc = "status" /\ pc' = "idle" /\ current /\ Publish(o)
        /\ queued' = (queued \/ WakesNow)
        /\ UNCHANGED <<obj, host>>
    BY DEF UpdateStatus, Finish, reconcile
  <1>2. /\ Stored \in SoundObjects /\ obj \in SoundObjects
        /\ obj.status \in Statuses
        /\ obj.status.phase = "Ready" => obj.status.synced \in IsTrue
    BY SoundParts, ObjectParts DEF RestartInv, SoundObjects
  <1>3. o \in SoundObjects /\ o.run = Stored.run /\ o.status = obj.status
    BY <1>2, SoundStatus
  <1> HIDE DEF o
  <1>4. versions \in Seq(SoundObjects) \ {<<>>}
    BY DEF RestartInv, Sound
  <1>5. Stored' = o /\ versions' \in Seq(SoundObjects) \ {<<>>}
    BY <1>1, <1>3, <1>4, PublishTypes
  <1>6. PICK c \in {0, 1} :
            /\ Len(versions') = Len(versions) + 1 - c
            /\ versions'[Len(versions')] = o
            /\ c = 1 => WakesNow
            /\ \A k \in 1 .. Len(versions') - 1 :
                  k + c \in 1 .. Len(versions) /\ versions'[k] = versions[k + c]
    BY <1>1, <1>3, <1>4, PublishWindow
  <1>7. Len(versions) \in Nat \ {0} /\ Len(versions') \in Nat \ {0}
    BY <1>4, <1>5
  <1>8. \A k \in 1 .. Len(versions') : k = Len(versions') \/ k \in 1 .. Len(versions') - 1
    BY <1>7
  <1>9. Desired(o) = Desired(Stored) /\ Desired(obj) = Desired(Stored)
    BY <1>1, <1>3 DEF RestartInv, CurrentCopy, Desired
  <1>10. Settled(o) => Rests(host, Desired(Stored))
    BY <1>1, <1>3, <1>9 DEF QuietInv, WorkerInv, Settled
  <1>11. HostInv'
    BY <1>1, <1>5, <1>9, <1>10 DEF QuietInv, HostInv, Settled, RestartPending, Desired
  <1>12. StaleInv'
    <2>1. ASSUME NEW k \in 1 .. Len(versions'), versions'[k].run # o.run
          PROVE  Rests(host, Desired(versions'[k]))
      <3>1. k \in 1 .. Len(versions') - 1
        BY <1>6, <1>8, <2>1
      <3>2. k + c \in 1 .. Len(versions) /\ versions'[k] = versions[k + c]
        BY <1>6, <3>1
      <3> QED
        BY <1>3, <2>1, <3>2 DEF QuietInv, StaleInv
    <2>2. ASSUME NEW j \in 1 .. Len(versions'), NEW k \in 1 .. Len(versions'), j <= k,
                 versions'[j].run = o.run
          PROVE  versions'[k].run = o.run
      <3>1. CASE k = Len(versions')
        BY <1>6, <3>1
      <3>2. CASE k # Len(versions')
        <4>1. j \in 1 .. Len(versions') - 1 /\ k \in 1 .. Len(versions') - 1
          BY <1>7, <1>8, <2>2, <3>2
        <4>2. /\ j + c \in 1 .. Len(versions) /\ versions'[j] = versions[j + c]
              /\ k + c \in 1 .. Len(versions) /\ versions'[k] = versions[k + c]
              /\ j + c <= k + c
          BY <1>6, <2>2, <4>1
        <4> QED
          BY <1>3, <2>2, <4>2 DEF QuietInv, StaleInv
      <3> QED
        BY <3>1, <3>2
    <2> QED
      BY <1>1, <1>5, <2>1, <2>2 DEF StaleInv, Desired
  <1>13. WorkerInv'
    BY <1>1 DEF WorkerInv
  <1>14. queued' \/ Len(versions') > 1
    <2>1. c = 0 => Len(versions') > 1
      BY <1>6, <1>7
    <2>2. c = 1 => queued'
      BY <1>1, <1>6
    <2> QED
      BY <2>1, <2>2
  <1>15. WakeInv'
    <2>1. Len(versions') > 1 => Len(versions') # 1
      <3>1. \A n \in Nat : n > 1 => n # 1
        OBVIOUS
      <3> QED
        BY <1>7, <3>1
    <2> QED
      BY <1>1, <1>14, <2>1 DEF WakeInv
  <1> QED
    BY <1>11, <1>12, <1>13, <1>15 DEF QuietInv

LEMMA TimerRests ==
    ASSUME TypeOK, RestartInv, QuietInv, FireTimer \/ UNCHANGED vars
    PROVE  QuietInv'
  <1>1. /\ UNCHANGED <<versions, pc, obj, current, result, host>>
        /\ queued' \/ UNCHANGED <<queued, timer>>
    BY DEF FireTimer, vars, reconcile
  <1>2. Stored' = Stored /\ \A o : Desired(o)' = Desired(o)
    BY <1>1 DEF Stored, Desired
  <1>3. HostInv'
    BY <1>1, <1>2 DEF QuietInv, HostInv, Settled, RestartPending
  <1>4. StaleInv'
    BY <1>1, <1>2 DEF QuietInv, StaleInv
  <1>5. WorkerInv'
    BY <1>1, <1>2 DEF QuietInv, WorkerInv, Settled, RestartPending
  <1>6. WakeInv'
    BY <1>1, <1>2 DEF QuietInv, WakeInv, Settled, RestartPending
  <1> QED
    BY <1>3, <1>4, <1>5, <1>6 DEF QuietInv

LEMMA NextRests ==
    ASSUME TypeOK, RestartInv, QuietInv, [Next]_vars, careful'
    PROVE  QuietInv'
  BY TimerRests, HostWorksRests, EditRests, DeliverRests, StartRests,
     RestartStepRests, PowerStepRests, FailureRests, LeaveRests, UpdateRests
     DEF Next, Step, Failure

LEMMA InitRests ==
    ASSUME Init, careful
    PROVE  QuietInv
  <1>1. PICK run \in RunStrategies, trigger \in Triggers :
           versions = <<[run |-> run, trigger |-> trigger,
                         status |-> [run |-> "", trigger |-> 0, synced |-> "none",
                                     phase |-> "Progressing"]]>>
    BY DEF Init
  <1>2. /\ Len(versions) = 1 /\ versions[1] = Stored
        /\ Stored.status.phase = "Progressing"
    BY <1>1 DEF Stored
  <1>3. PICK power \in Powers :
           host = [power |-> power, target |-> "none", reboot |-> FALSE, unseen |-> "none"]
    BY DEF Init
  <1>4. /\ host.power = power /\ host.target = "none"
        /\ host.reboot = FALSE /\ host.unseen = "none"
    BY <1>3
  <1>5. HostInv
    <2>1. Tidy(host)
      BY <1>4 DEF Tidy
    <2>2. Agrees(host, Desired(Stored))
      BY <1>4 DEF Agrees, Rests
    <2>3. ~Settled(Stored)
      BY <1>2 DEF Settled
    <2> QED
      BY <2>1, <2>2, <2>3 DEF HostInv
  <1>6. pc = "idle" /\ queued
    BY DEF Init
  <1> QED
    BY <1>2, <1>5, <1>6 DEF QuietInv, StaleInv, WorkerInv, WakeInv

(* When nothing is going to happen any more, the machine and the status are    *)
(* what a careful user's spec asks for, however old the cache was and whatever  *)
(* has failed.                                                                  *)
THEOREM QuietIsConvergedHolds == Spec => []QuietIsConverged
  <1> DEFINE Inv == TypeOK /\ (careful => RestartInv /\ QuietInv)
  <1>1. Init => Inv
    BY InitType, InitRestart, InitRests
  <1>2. Inv /\ [Next]_vars => Inv'
    BY NextType, NextServes, NextRests, CarelessForEver
  <1>3. Inv => QuietIsConverged
    <2> SUFFICES ASSUME Inv, careful, Quiet PROVE Converged
      BY DEF QuietIsConverged
    <2>1. Settled(Stored) /\ ~Locked(host)
      BY DEF Quiet, QuietInv, WakeInv
    <2>2. Rests(host, Desired(Stored))
      BY <2>1 DEF QuietInv, HostInv
    <2>3. host.power = Desired(Stored)
      BY <2>1, <2>2, RestsUnlocked
    <2>4. Stored.status.synced \in IsTrue
      BY <2>1, SoundParts DEF RestartInv, SoundObjects, Settled
    <2> QED
      BY <2>1, <2>3, <2>4 DEF Converged
  <1> QED
    BY <1>1, <1>2, <1>3, PTL DEF Spec
===============================================================================
