--------------------------- MODULE MCHostAllocation ---------------------------
(* HostAllocation on a few instances, hosts and labels. *)
EXTENDS HostAllocation, TLC

CONSTANTS i1, i2, i3, h1, h2, keep

OneHost == {h1}
TwoHosts == {h1, h2}
TwoInstances == {i1, i2}
ThreeInstances == {i1, i2, i3}

(* Every instance has a label key of its own, and all share a key to keep. *)
LabelKeys == Instances \union {keep}
NoLabels == [i \in Instances |-> {}]
OwnLabel == [i \in Instances |-> {i}]
KeptLabel == [i \in Instances |-> {keep}]

(* Instances and hosts are interchangeable in every safety property. *)
Symmetry == Permutations(Instances) \union Permutations(Hosts)
===============================================================================
