------------------------------ MODULE MCProgress -------------------------------
(* The liveness of HostAllocation in two settings: the initial state chooses  *)
(* one of them for good.                                                       *)
EXTENDS MCHostAllocation

VARIABLE setting

mcvars == <<vars, setting>>

(* "contended": two workers that find each other's lock on an Ironic node. *)
Contended == INSTANCE HostAllocation
    WITH Backend <- "openstack", MaxConcurrentReconciles <- 2, MaxFaults <- 0

(* "failing": BareMetalHosts, one worker, and one failure anywhere. *)
Failing == INSTANCE HostAllocation
    WITH Backend <- "metal3", MaxConcurrentReconciles <- 1, MaxFaults <- 1

(* The action of the setting that was chosen. *)
Either(contended, failing) ==
    /\ UNCHANGED <<setting, lag>>
    /\ \/ setting = "contended" /\ contended
       \/ setting = "failing" /\ failing

MCInit ==
    \/ setting = "contended" /\ Contended!Init
    \/ setting = "failing" /\ Failing!Init

MCNext == Either(Contended!Next, Failing!Next)

MCFairness ==
    \A i \in Instances :
        /\ WF_mcvars(Either(Contended!Step(i), Failing!Step(i)))
        /\ WF_mcvars(Either(Contended!DeliverEvent(i), Failing!DeliverEvent(i)))
        /\ WF_mcvars(Either(Contended!FireTimer(i), Failing!FireTimer(i)))
        /\ SF_mcvars(Either(Contended!Start(i), Failing!Start(i)))
        /\ SF_mcvars(Either(Contended!DeprovisionDone(i), Failing!DeprovisionDone(i)))

MCSpec == MCInit /\ [][MCNext]_mcvars /\ MCFairness

(* Served and DeletionEnds of one instance; exchanging the two instances maps *)
(* behaviours to behaviours, so it stands for both.                            *)

(* A waiting instance is allocated a host, is deleted, or waits only as long   *)
(* as the hosts are held by instances nobody deletes.                          *)
InstanceServed == Served(i1)

(* An instance that is being deleted is eventually gone. *)
DeletionCompletes == DeletionEnds(i1)
================================================================================
