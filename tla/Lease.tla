------------------------------- MODULE Lease -------------------------------
(***************************************************************************)
(* What libs/dislock promises its callers (package comment of              *)
(* src/libs/dislock/dislock.go): a unit of work runs on at most one of     *)
(* several instances at a time.  It is taken without waiting and may be    *)
(* dropped at any time, by finishing or by crashing.                       *)
(***************************************************************************)
CONSTANT Instances      \* service instances that share one Redis

VARIABLE working        \* the instances running the guarded work

Init == working = {}

Take(i) == working = {} /\ working' = {i}

Drop(i) == i \in working /\ working' = working \ {i}

Next == \E i \in Instances : Take(i) \/ Drop(i)

Spec == Init /\ [][Next]_working
=============================================================================
