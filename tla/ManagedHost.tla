------------------------------ MODULE ManagedHost ------------------------------
(***************************************************************************)
(* One host behind management.Client: what the calls of openstack.go and   *)
(* metal3.go read and write of an Ironic node or a BareMetalHost, and what *)
(* Ironic or the BareMetalOperator then does by itself.                    *)
(***************************************************************************)
EXTENDS Naturals

CONSTANTS
    Backend,        \* "openstack" (Ironic nodes) or "metal3" (BareMetalHosts)
    StaleReads      \* whether an order Ironic has accepted may not show at once

ASSUME BackendAssumption == Backend \in {"openstack", "metal3"}
ASSUME StaleReadsAssumption == StaleReads \in BOOLEAN

Powers == {"on", "off"}

(* power: power_state, or status.poweredOn.                                   *)
(* target: the target_power_state of a power change; or spec.online, "none"   *)
(*   when it is what poweredOn says.                                          *)
(* reboot: target_power_state is "rebooting", or the reboot annotation is set. *)
(* unseen: an order Ironic has accepted and does not show yet.                *)
HostStates == [power  : Powers,
               target : Powers \union {"none"},
               reboot : BOOLEAN,
               unseen : Powers \union {"none", "reboot"}]

(* PowerStatus.IsTransitioning of GetPowerState. *)
Transitioning(h) == h.target # "none" \/ (Backend = "openstack" /\ h.reboot)

(* IsRestartComplete. *)
RestartOver(h) == IF Backend = "openstack" THEN ~Transitioning(h) ELSE ~h.reboot

(* Ironic answers 409 while it works on an order. *)
Locked(h) == Transitioning(h) \/ h.unseen # "none"

(* ErrTransitioning of SetPowerState and of TriggerRestart. *)
RefusesPower(h) == IF Backend = "openstack" THEN Locked(h) ELSE h.target # "none"
RefusesRestart(h) == IF Backend = "openstack" THEN Locked(h) ELSE h.reboot

Show(h, order) == IF order = "reboot" THEN [h EXCEPT !.reboot = TRUE]
                  ELSE [h EXCEPT !.target = order]

(* The host after an accepted order.  The patch of spec.online also undoes a *)
(* change that has not happened yet.                                          *)
Ordered(h, order) ==
    IF Backend = "metal3" /\ order = h.power THEN {[h EXCEPT !.target = "none"]}
    ELSE IF StaleReads /\ Backend = "openstack"
         THEN {[h EXCEPT !.unseen = order], Show(h, order)}
         ELSE {Show(h, order)}

(* What becomes of a host by itself: an order shows, a power change ends, a  *)
(* reboot ends.  The BareMetalOperator powers the host off and takes the      *)
(* annotation away; spec.online then brings the power back.                   *)
Shown(h) == [Show(h, h.unseen) EXCEPT !.unseen = "none"]
Powered(h) == [h EXCEPT !.power = h.target, !.target = "none"]
Rebooted(h) ==
    [h EXCEPT !.reboot = FALSE,
              !.power = IF Backend = "openstack" THEN "on" ELSE "off",
              !.target = IF Backend = "metal3" /\ h.power = "on" THEN "on" ELSE @]
================================================================================
