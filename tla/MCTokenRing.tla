----------------------------- MODULE MCTokenRing -----------------------------
(* The abstract ring on a small instance: the laps are capped. *)
EXTENDS TokenRing

CONSTANT MaxLaps             \* bound: laps explored

BoundedNext == \E i \in Node : laps[i] < MaxLaps /\ Pass(i)
BoundedSpec == RingInit /\ [][BoundedNext]_ringVars
=============================================================================
