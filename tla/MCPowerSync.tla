------------------------------ MODULE MCPowerSync ------------------------------
(* PowerSync in two settings: the initial state chooses one of them for good. *)
EXTENDS PowerSync

VARIABLE setting

mcvars == <<vars, setting>>

(* "hasty": a BareMetalHost, two edits at any time, a cache one version behind; *)
(* the instance has no restartTrigger to begin with.                            *)
Hasty == INSTANCE PowerSync
    WITH Backend <- "metal3", StaleReads <- FALSE, EditWhenSettled <- FALSE,
         MaxEdits <- 2

(* "patient": an Ironic node that may show an order late, a run strategy, and  *)
(* three edits, each after the last one is done.                               *)
Patient == INSTANCE PowerSync
    WITH Backend <- "openstack", StaleReads <- TRUE, EditWhenSettled <- TRUE,
         RunStrategies <- {"Always", "Halted"}, MaxEdits <- 3

(* The action of the setting that was chosen. *)
Either(hasty, patient) ==
    /\ UNCHANGED <<setting, lag>>
    /\ \/ setting = "hasty" /\ hasty
       \/ setting = "patient" /\ patient

MCInit ==
    \/ setting = "hasty" /\ lag = 1 /\ Hasty!Init /\ Stored.trigger = 0
    \/ setting = "patient" /\ lag = 0 /\ Patient!Init

MCNext == Either(Hasty!Next, Patient!Next)

MCSpec ==
    /\ MCInit /\ [][MCNext]_mcvars
    /\ WF_mcvars(Either(Hasty!Start, Patient!Start))
    /\ WF_mcvars(Either(Hasty!Step, Patient!Step))
    /\ WF_mcvars(Either(Hasty!DeliverEvent, Patient!DeliverEvent))
    /\ WF_mcvars(Either(Hasty!FireTimer, Patient!FireTimer))
    /\ WF_mcvars(Either(Hasty!HostWorks, Patient!HostWorks))

(* Once hasty users stop editing, power, restart and status converge for good. *)
HastyPowerConverges == setting = "hasty" => PowerConverges
================================================================================
