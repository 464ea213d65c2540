------------------------ MODULE ThreadPingPongProofs ------------------------
(***************************************************************************)
(* Proofs about the abstract token ring, for every number of parties, and  *)
(* about the thread ping-pong, for every number of iterations and warm-up  *)
(* rounds, which is the ring of two.                                       *)
(***************************************************************************)
EXTENDS ThreadPingPong, TokenRing, TLAPS

(* The holder is always a party of the ring and laps are counters. *)
THEOREM RingTyping == RingSpec => []RingTypeOK
<1>1. RingInit => RingTypeOK
  BY NAssumption DEF RingInit, RingTypeOK, Node
<1>2. RingTypeOK /\ [RingNext]_ringVars => RingTypeOK'
  <2> SUFFICES ASSUME RingTypeOK, [RingNext]_ringVars PROVE RingTypeOK'
    OBVIOUS
  <2>1. ASSUME NEW i \in Node, Pass(i) PROVE RingTypeOK'
    BY <2>1, NAssumption DEF Pass, RingTypeOK, Node, Succ
  <2>2. CASE UNCHANGED ringVars
    BY <2>2 DEF RingTypeOK, ringVars
  <2> QED
    BY <2>1, <2>2 DEF RingNext
<1> QED
  BY <1>1, <1>2, PTL DEF RingSpec

(* Whoever the token has visited in this lap is exactly one lap ahead of   *)
(* whoever it has not: a sample between two turns of node 0 is one full    *)
(* rotation, for every size of the ring.                                   *)
THEOREM RingInStep == RingSpec => []InStep
<1>1. RingInit => InStep
  BY NAssumption DEF RingInit, InStep, Node
<1>2. RingTypeOK /\ InStep /\ [RingNext]_ringVars => InStep'
  <2> SUFFICES ASSUME RingTypeOK, InStep, [RingNext]_ringVars PROVE InStep'
    OBVIOUS
  <2>1. ASSUME NEW i \in Node, Pass(i) PROVE InStep'
    <3> SUFFICES ASSUME NEW j \in Node
                 PROVE  laps'[j] + (IF j < holder' \/ holder' = 0 THEN 0 ELSE 1)
                          = laps'[0]
      BY DEF InStep
    <3>1. /\ holder = i /\ holder' = Succ(i) /\ 0 \in Node
          /\ \A k \in Node : laps[k] \in Nat
          /\ \A k \in Node : laps'[k] = IF k = i THEN laps[k] + 1 ELSE laps[k]
      BY <2>1, NAssumption DEF Pass, RingTypeOK, Node
    <3>2. laps[j] + (IF j < i \/ i = 0 THEN 0 ELSE 1) = laps[0]
      BY <3>1 DEF InStep
    <3>3. CASE i = N-1
      <4>1. holder' = 0 /\ i # 0
        BY <3>1, <3>3, NAssumption DEF Succ
      <4>2. laps'[j] = laps[0]
        BY <3>1, <3>2, <3>3, <4>1, NAssumption DEF Node
      <4> QED
        BY <3>1, <4>1, <4>2
    <3>4. CASE i # N-1
      <4>1. holder' = i + 1 /\ i \in Nat /\ j \in Nat
        BY <3>1, <3>4, NAssumption DEF Succ, Node
      <4> QED
        BY <3>1, <3>2, <4>1
    <3> QED
      BY <3>3, <3>4
  <2>2. CASE UNCHANGED ringVars
    BY <2>2 DEF InStep, ringVars
  <2> QED
    BY <2>1, <2>2 DEF RingNext
<1> QED
  BY <1>1, <1>2, RingTyping, PTL DEF RingSpec

----------------------------------------------------------------------------
(***************************************************************************)
(* The thread ping-pong of process_vs_thread.c.                            *)
(***************************************************************************)

(* A thread is between taking and releasing the mutex iff it owns it.      *)
Exclusion == \A t \in Thread : InCritical(t) <=> mu = t

(* Where a thread is tells whose turn it can be. *)
TurnFits ==
  /\ pc[Main] \in {"create", "lock", "hand", "unlock", "join", "done"} => turn = 0
  /\ pc[Worker] = "give" => turn = 1
  /\ pc[Worker] = "unlock" => turn = 0

(* A thread has left its loop iff it has been through all rounds. *)
RoundsFit ==
  /\ pc[Main] \in {"join", "done"} <=> round[Main] = Total
  /\ pc[Worker] \in {"leave", "exited"} <=> round[Worker] = Total
  /\ pc[Worker] = "unborn" => round[Worker] = 0
  /\ pc[Main] = "create" => pc[Worker] = "unborn"
  /\ pc[Main] = "done" => pc[Worker] = "exited"

(* The samples are those of the measured rounds thread 0 has been through. *)
SamplesFit == lat = {i \in 0 .. (Iterations - 1) : i + Warmup < round[Main]}

IInv ==
  TypeOK /\ Exclusion /\ TurnFits /\ NoLostWakeup /\ Alternation
  /\ RoundsFit /\ SamplesFit

USE RoundsAssumption DEF Thread, Main, Worker, Free, Other, Total

LEMMA InitHolds == Init => IInv
  BY DEF Init, IInv, TypeOK, Exclusion, TurnFits, NoLostWakeup, Alternation,
         RoundsFit, SamplesFit, InCritical, Handed, MainLabel, WorkerLabel

LEMMA StepKeeps == IInv /\ [Next]_vars => IInv'
<1> SUFFICES ASSUME IInv, [Next]_vars PROVE IInv'
  OBVIOUS
<1> USE DEF IInv, TypeOK, Exclusion, TurnFits, NoLostWakeup, Alternation,
            RoundsFit, SamplesFit, InCritical, Handed, MainLabel, WorkerLabel
<1>1. CASE Create
  BY <1>1 DEF Create
<1>2. CASE Lock(Main)
  BY <1>2 DEF Lock
<1>3. CASE MainHand
  BY <1>3 DEF MainHand, SignalFrom
<1>4. CASE CheckPasses(Main)
  BY <1>4 DEF CheckPasses
<1>5. CASE CheckWaits(Main)
  BY <1>5 DEF CheckWaits
<1>6. CASE Reacquire(Main)
  BY <1>6 DEF Reacquire
<1>7. CASE MainUnlock
  BY <1>7 DEF MainUnlock
<1>8. CASE Join
  BY <1>8 DEF Join
<1>9. CASE Lock(Worker)
  BY <1>9 DEF Lock
<1>10. CASE CheckPasses(Worker)
  BY <1>10 DEF CheckPasses
<1>11. CASE CheckWaits(Worker)
  BY <1>11 DEF CheckWaits
<1>12. CASE Reacquire(Worker)
  BY <1>12 DEF Reacquire
<1>13. CASE WorkerGive
  BY <1>13 DEF WorkerGive, SignalFrom
<1>14. CASE WorkerUnlock
  BY <1>14 DEF WorkerUnlock
<1>15. CASE WorkerExit
  BY <1>15 DEF WorkerExit
<1>16. ASSUME NEW t \in Thread, SpuriousWakeup(t) PROVE IInv'
  BY <1>16 DEF SpuriousWakeup
<1>17. CASE UNCHANGED vars
  BY <1>17 DEF vars
<1> QED
  BY <1>1, <1>2, <1>3, <1>4, <1>5, <1>6, <1>7, <1>8, <1>9, <1>10, <1>11,
     <1>12, <1>13, <1>14, <1>15, <1>16, <1>17
     DEF Next, MainStep, WorkerStep, Terminating

LEMMA Invariance == Spec => []IInv
  BY InitHolds, StepKeeps, PTL DEF Spec

(* Every variable keeps its type: in particular no sample is ever stored   *)
(* outside the array of ITERATIONS samples.                                *)
THEOREM TypeCorrect == Spec => []TypeOK
<1>1. IInv => TypeOK
  BY DEF IInv
<1> QED
  BY <1>1, Invariance, PTL

(* No thread ever sleeps through its turn. *)
THEOREM WakeupsArrive == Spec => []NoLostWakeup
<1>1. IInv => NoLostWakeup
  BY DEF IInv
<1> QED
  BY <1>1, Invariance, PTL

(* The two sides of the hand-over stay in step, whatever the wake-ups. *)
THEOREM SidesAlternate == Spec => []Alternation
<1>1. IInv => Alternation
  BY DEF IInv
<1> QED
  BY <1>1, Invariance, PTL

(* The statistics are computed over a full array, and the shared state is  *)
(* destroyed only when thread 1 has left it.                               *)
THEOREM ResultComplete == Spec => []ResultIsComplete
<1>1. IInv => ResultIsComplete
  BY DEF IInv, TypeOK, RoundsFit, SamplesFit, ResultIsComplete
<1> QED
  BY <1>1, Invariance, PTL

(* Without a partner there is no sample and no result. *)
THEOREM PartnerNeeded == Spec => []NoPartnerNoResult
<1>1. ASSUME IInv, pc[Worker] = "unborn"
      PROVE  pc[Main] # "done" /\ lat = {}
  <2>1. pc[Main] # "done" /\ Handed(Worker) = 0
    BY <1>1 DEF IInv, RoundsFit, Handed
  <2>2. Handed(Main) = turn
    BY <1>1, <2>1 DEF IInv, TypeOK, Alternation
  <2>3. round[Main] = 0
    BY <1>1, <2>2 DEF IInv, TypeOK, TurnFits, Handed, MainLabel
  <2> QED
    BY <1>1, <2>1, <2>3 DEF IInv, SamplesFit
<1> QED
  BY <1>1, Invariance, PTL DEF NoPartnerNoResult

(* A step that stores a sample is taken when thread 1 has been through     *)
(* exactly the round that is measured.                                     *)
THEOREM SamplesAreRoundTrips == Spec => SampleIsRoundTrip
<1>1. IInv /\ [Next]_vars => [lat' # lat => round[Worker] = round[Main] + 1]_vars
  <2> SUFFICES ASSUME IInv, Next, lat' # lat
               PROVE  round[Worker] = round[Main] + 1
    OBVIOUS
  <2>1. MainUnlock
    BY DEF Next, MainStep, WorkerStep, Create, Lock, MainHand, CheckPasses,
           CheckWaits, SpuriousWakeup, Reacquire, WorkerGive, WorkerUnlock,
           WorkerExit, Join, Terminating, vars
  <2>2. pc[Main] = "unlock" /\ turn = 0 /\ pc[Worker] # "unlock"
    BY <2>1 DEF IInv, TypeOK, Exclusion, TurnFits, InCritical, MainUnlock
  <2> QED
    BY <2>2 DEF IInv, TypeOK, Alternation, Handed
<1> QED
  BY <1>1, Invariance, PTL DEF Spec, SampleIsRoundTrip

----------------------------------------------------------------------------
(* The ping-pong is a token ring of two. *)

LEMMA RingStart == Init => Ring!RingInit
  BY DEF Init, Ring!RingInit, Ring!Node, Handed

(* What a hand-over of thread t looks like in the ring. *)
LEMMA HandOver ==
  ASSUME NEW t \in Thread, turn = t, turn' = 1 - t,
         Handed(t)' = Handed(t) + 1,
         \A u \in Thread \ {t} : Handed(u)' = Handed(u)
  PROVE  Ring!Pass(t)
<1>1. turn' = Ring!Succ(t)
  BY DEF Ring!Succ
<1>2. [u \in Thread |-> Handed(u)]'
        = [[u \in Thread |-> Handed(u)] EXCEPT ![t] = @ + 1]
  <2>1. \A u \in Thread : Handed(u)' = IF u = t THEN Handed(u) + 1 ELSE Handed(u)
    BY Zenon
  <2>2. [u \in Thread |-> Handed(u)]'
          = [u \in Thread |-> IF u = t THEN Handed(u) + 1 ELSE Handed(u)]
    BY <2>1, Zenon
  <2> QED
    BY <2>2
<1> QED
  BY <1>1, <1>2 DEF Ring!Pass

LEMMA RingStep == IInv /\ [Next]_vars => [Ring!RingNext]_(Ring!ringVars)
<1> SUFFICES ASSUME IInv, [Next]_vars
             PROVE  Ring!RingNext \/ UNCHANGED Ring!ringVars
  BY DEF Ring!ringVars
<1>1. CASE MainHand
  <2>1. Ring!Pass(0)
    <3>1. turn = 0 /\ turn' = 1 /\ Handed(0)' = Handed(0) + 1
      BY <1>1 DEF IInv, TypeOK, TurnFits, MainHand, SignalFrom, Handed
    <3>2. \A u \in Thread \ {0} : Handed(u)' = Handed(u)
      BY <1>1 DEF IInv, TypeOK, MainHand, SignalFrom, Handed
    <3> QED
      BY <3>1, <3>2, HandOver
  <2> QED
    BY <2>1 DEF Ring!RingNext, Ring!Node
<1>2. CASE WorkerGive
  <2>1. Ring!Pass(1)
    <3>1. turn = 1 /\ turn' = 0 /\ Handed(1)' = Handed(1) + 1
      BY <1>2 DEF IInv, TypeOK, TurnFits, WorkerGive, SignalFrom, Handed
    <3>2. \A u \in Thread \ {1} : Handed(u)' = Handed(u)
      BY <1>2 DEF IInv, TypeOK, WorkerGive, SignalFrom, Handed
    <3> QED
      BY <3>1, <3>2, HandOver
  <2> QED
    BY <2>1 DEF Ring!RingNext, Ring!Node
<1>3. CASE ~MainHand /\ ~WorkerGive
  <2>1. turn' = turn /\ \A t \in Thread : Handed(t)' = Handed(t)
    <3> USE DEF IInv, TypeOK, Handed
    <3>1. ASSUME NEW t \in Thread,
                 Lock(t) \/ CheckPasses(t) \/ CheckWaits(t)
                   \/ Reacquire(t) \/ SpuriousWakeup(t)
          PROVE  turn' = turn /\ \A u \in Thread : Handed(u)' = Handed(u)
      BY <3>1 DEF Lock, CheckPasses, CheckWaits, Reacquire, SpuriousWakeup
    <3>2. CASE Create \/ Join \/ WorkerExit
      BY <3>2 DEF Create, Join, WorkerExit, RoundsFit
    <3>3. CASE MainUnlock \/ WorkerUnlock
      BY <3>3 DEF MainUnlock, WorkerUnlock
    <3>4. CASE UNCHANGED vars
      BY <3>4 DEF vars
    <3> QED
      BY <1>3, <3>1, <3>2, <3>3, <3>4
         DEF Next, MainStep, WorkerStep, Terminating
  <2> QED
    BY <2>1 DEF Ring!ringVars
<1> QED
  BY <1>1, <1>2, <1>3

(* The condition-variable ping-pong implements the token ring: every step  *)
(* of the two threads is one hand-over by the party whose turn it is, or   *)
(* invisible.                                                              *)
THEOREM PingPongIsRing == Spec => ImplementsRing
  BY RingStart, RingStep, Invariance, PTL DEF Spec, ImplementsRing, Ring!RingSpec
=============================================================================
