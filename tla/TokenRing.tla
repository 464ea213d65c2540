----------------------------- MODULE TokenRing -----------------------------
(***************************************************************************)
(* What every context-switch benchmark of this repository promises: N      *)
(* parties arranged in a ring hand one token around, each party handing it *)
(* on exactly once per lap.  Node 0 is the party that takes the time       *)
(* stamps; the interval between two of its turns is one full rotation, so  *)
(* N switches.  The detailed modules (a pipe ring, a pipe ping-pong, a     *)
(* condition-variable ping-pong) are shown to implement this one.          *)
(***************************************************************************)
EXTENDS Naturals

CONSTANT N                   \* number of parties in the ring
ASSUME NAssumption == N \in Nat /\ N >= 2

Node == 0 .. N-1
Succ(i) == IF i = N-1 THEN 0 ELSE i+1

VARIABLES
  holder,                    \* the party whose turn it is
  laps                       \* laps[i]: how often party i handed the token on

ringVars == <<holder, laps>>

RingInit ==
  /\ holder = 0
  /\ laps = [i \in Node |-> 0]

(* Mutant of Pass: a party that does not have the token passes one on. *)
PassWithoutToken(i) ==
  /\ holder' = Succ(i)
  /\ laps' = [laps EXCEPT ![i] = @ + 1]

Pass(i) ==
  /\ holder = i
  /\ holder' = Succ(i)
  /\ laps' = [laps EXCEPT ![i] = @ + 1]

RingNext == \E i \in Node : Pass(i)

RingSpec == RingInit /\ [][RingNext]_ringVars

----------------------------------------------------------------------------

RingTypeOK ==
  /\ holder \in Node
  /\ laps \in [Node -> Nat]

(* Everybody the token has already visited in the current lap is one lap   *)
(* ahead of everybody it has not visited yet; when the token is back at    *)
(* node 0 all are level.  This is what makes a sample taken by node 0 the  *)
(* cost of exactly N switches.                                             *)
InStep ==
  \A i \in Node :
    laps[i] + (IF i < holder \/ holder = 0 THEN 0 ELSE 1) = laps[0]
============================================================================
