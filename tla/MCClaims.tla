------------------------------- MODULE MCClaims --------------------------------
(* Instances that compete for hosts, in four settings: the initial state      *)
(* chooses one of them for good, each with room for one kind of trouble.      *)
EXTENDS MCHostAllocation

VARIABLE setting

mcvars == <<vars, setting>>

(* "lagging": two instances, one host that fits, and a cache that may be one *)
(* version behind; at most one instance is deleted.                          *)
Lagging == INSTANCE HostAllocation
    WITH Matching <- OneHost, MaxFaults <- 0,
         InventoryLabels <- NoLabels, PersistentLabels <- NoLabels

(* "crowded": three instances, one host that fits, and a cache that follows at *)
(* once; at most one is deleted, and not between its choice of a host and its  *)
(* allocation.                                                                 *)
Crowded == INSTANCE HostAllocation
    WITH Matching <- OneHost, MaxFaults <- 0, PersistentLabels <- NoLabels

(* "ironic", "metal3": two instances, labels and one failure anywhere; one *)
(* worker on two Ironic nodes, or two workers on one BareMetalHost.         *)
Ironic == INSTANCE HostAllocation
    WITH MaxConcurrentReconciles <- 1, MaxFaults <- 1

Metal3 == INSTANCE HostAllocation
    WITH Backend <- "metal3", Matching <- OneHost, MaxFaults <- 1

TwoBorn == Cardinality({i \in Instances : Stored(i).life # "unborn"}') <= 2

OneDeleted ==
    Cardinality({i \in Instances : Stored(i).life \in {"deleting", "gone"}}') <= 1

NoneWhileChoosing == \A i \in Instances : ~DeletedWhileChoosing(i)'

MCInit ==
    \/ setting = "lagging" /\ lag = 1 /\ Init
    \/ setting \in {"crowded", "ironic"} /\ lag = 0 /\ Init
    \/ setting = "metal3" /\ lag = 0 /\ Metal3!Init

MCNext ==
    /\ UNCHANGED setting
    /\ \/ setting = "lagging" /\ Lagging!Next /\ TwoBorn /\ OneDeleted
       \/ setting = "crowded" /\ Crowded!Next /\ OneDeleted /\ NoneWhileChoosing
       \/ setting = "ironic" /\ Ironic!Next /\ TwoBorn
       \/ setting = "metal3" /\ Metal3!Next /\ TwoBorn

MCSpec == MCInit /\ [][MCNext]_mcvars

Interchangeable == Permutations(Instances)
================================================================================
