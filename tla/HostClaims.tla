------------------------------ MODULE HostClaims ------------------------------
(***************************************************************************)
(* What the inventory promises its callers (inventory.Client): a host is   *)
(* held by at most one consumer, it is claimed in one indivisible step and *)
(* only while nobody holds it, and it is given up before somebody else can *)
(* claim it.  No OpenStack node and no BareMetalHost works this way by     *)
(* itself; HostAllocation shows that the operator's sequence of calls      *)
(* behaves as if it did.                                                   *)
(***************************************************************************)
CONSTANTS Instances,    \* the UIDs of BareMetalInstances, the consumers
          Hosts,        \* inventory host IDs
          NoInstance    \* a host that nobody holds; not one of Instances

VARIABLE owner          \* who holds each host

Init == owner = [h \in Hosts |-> NoInstance]

Claim(i, h) ==
    /\ owner[h] = NoInstance
    /\ owner' = [owner EXCEPT ![h] = i]

Release(h) ==
    /\ owner[h] # NoInstance
    /\ owner' = [owner EXCEPT ![h] = NoInstance]

Next == \E h \in Hosts : Release(h) \/ \E i \in Instances : Claim(i, h)

Spec == Init /\ [][Next]_owner
===============================================================================
