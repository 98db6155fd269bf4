---------------------------- MODULE MCPoolReplicas -----------------------------
(* A pool of up to two hosts of each of two types, in small environments: each gives *)
(* one or two kinds of trouble room, so that a run covers all of them one by one.    *)
EXTENDS PoolReplicas, TLC

CONSTANTS u1, u2, u3, small, large, j1, j2, j3

Spread(s, l) == small :> s @@ large :> l

NoProfile == [profile |-> "none", provider |-> FALSE]
WithTemplate == [profile |-> "template", provider |-> TRUE]

(* A restart may bring another set of profiles or take the provider away. *)
Wirings ==
    {NoProfile, [profile |-> "missing", provider |-> TRUE],
     [profile |-> "invalid", provider |-> TRUE]} \union
    {[profile |-> p, provider |-> v] : p \in {"plain", "template"}, v \in BOOLEAN}

Calm == [specs |-> {Spread(1, 0)}, poolLag |-> 0, listLag |-> 0, edits |-> 0,
         faults |-> {}, failures |-> 0, configs |-> {NoProfile}]

Edited == [Calm EXCEPT !.specs = {Spread(2, 0), Spread(0, 1)}, !.edits = 1,
                       !.faults = {"request", "restart"}, !.failures = 1]

StalePool == [Calm EXCEPT !.specs = {Spread(2, 0), Spread(1, 0)}, !.edits = 1, !.poolLag = 1]

StaleList == [Calm EXCEPT !.listLag = 1]

Disturbed == [Calm EXCEPT !.specs = {Spread(1, 1)}, !.faults = {"unready", "delete"},
                          !.failures = 1]

Provisioned == [Calm EXCEPT !.configs = {WithTemplate}]

EditedJob == [Provisioned EXCEPT !.specs = {Spread(1, 0), Spread(0, 0)}, !.edits = 1]

FailedJob == [Provisioned EXCEPT !.faults = {"job", "request", "restart"}, !.failures = 1]

Rewired == [Calm EXCEPT !.configs = Wirings, !.faults = {"restart"}, !.failures = 1]

AllEnvironments ==
    {Edited, StalePool, StaleList, Disturbed, EditedJob, FailedJob, Rewired}

OnlyStaleList == {StaleList}

OnlyDisturbed == {[Disturbed EXCEPT !.faults = {"unready"}]}
================================================================================
