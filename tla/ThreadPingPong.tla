--------------------------- MODULE ThreadPingPong ---------------------------
(***************************************************************************)
(* The thread half of process_vs_thread.c: measure_thread_switch (thread   *)
(* 0, which takes the time stamps) and thread1_worker (thread 1) hand      *)
(* `turn' back and forth under one mutex and one condition variable.       *)
(*                                                                         *)
(* A pthread mutex is its owner; a thread blocked in pthread_cond_wait is  *)
(* "asleep" until a signal or a spurious wake-up makes it "woken", after   *)
(* which it still has to get the mutex back before it tests `turn' again.  *)
(* Time stamps and statistics are abstracted: a sample is the index it is  *)
(* stored at.                                                              *)
(***************************************************************************)
EXTENDS Naturals

CONSTANTS
  Iterations,                \* ITERATIONS: samples kept
  Warmup                     \* WARMUP: round trips run before the first sample
ASSUME RoundsAssumption == Iterations \in Nat \ {0} /\ Warmup \in Nat

Main   == 0
Worker == 1
Thread == {Main, Worker}
Other(t) == 1 - t
Free  == 2                   \* the mutex has no owner
Total == Iterations + Warmup \* st.total

VARIABLES
  pc,                        \* where each thread is
  turn,                      \* st.turn
  mu,                        \* owner of st.mu, or Free
  round,                     \* loop counter i of each thread
  lat                        \* indices of st.latencies written so far

vars == <<pc, turn, mu, round, lat>>

Init ==
  /\ pc = [t \in Thread |-> IF t = Main THEN "create" ELSE "unborn"]
  /\ turn = 0
  /\ mu = Free
  /\ round = [t \in Thread |-> 0]
  /\ lat = {}

(* pthread_create; its return value is not looked at, so when it fails     *)
(* thread 0 goes on without a partner.                                     *)
Create ==
  /\ pc[Main] = "create"
  /\ \/ pc' = [t \in Thread |-> "lock"]
     \/ pc' = [pc EXCEPT ![Main] = "lock"]
  /\ UNCHANGED <<turn, mu, round, lat>>

Lock(t) ==
  /\ pc[t] = "lock"
  /\ mu = Free
  /\ mu' = t
  /\ pc' = [pc EXCEPT ![t] = IF t = Main THEN "hand" ELSE "check"]
  /\ UNCHANGED <<turn, round, lat>>

(* pthread_cond_signal by t, which then goes on at label l: a partner that *)
(* is asleep wakes up; if it is not asleep the signal is lost.             *)
SignalFrom(t, l) ==
  pc' = [pc EXCEPT ![t] = l,
                   ![Other(t)] = IF @ = "asleep" THEN "woken" ELSE @]

(* Mutant of MainHand: hands over without waking the partner. *)
MainHandSilently ==
  /\ pc[Main] = "hand"
  /\ turn' = 1
  /\ pc' = [pc EXCEPT ![Main] = "check"]
  /\ UNCHANGED <<mu, round, lat>>

MainHand ==
  /\ pc[Main] = "hand"
  /\ turn' = 1
  /\ SignalFrom(Main, "check")
  /\ UNCHANGED <<mu, round, lat>>

(* Mutant of CheckPasses: goes on without looking at `turn'. *)
CheckPassesAnyway(t) ==
  /\ pc[t] = "check"
  /\ pc' = [pc EXCEPT ![t] = IF t = Main THEN "unlock" ELSE "give"]
  /\ UNCHANGED <<turn, mu, round, lat>>

(* The test of the while loop: thread 0 waits for turn = 0, thread 1 for   *)
(* turn = 1.                                                               *)
CheckPasses(t) ==
  /\ pc[t] = "check"
  /\ turn = t
  /\ pc' = [pc EXCEPT ![t] = IF t = Main THEN "unlock" ELSE "give"]
  /\ UNCHANGED <<turn, mu, round, lat>>

(* pthread_cond_wait gives the mutex up and blocks in one step. *)
CheckWaits(t) ==
  /\ pc[t] = "check"
  /\ turn # t
  /\ mu' = Free
  /\ pc' = [pc EXCEPT ![t] = "asleep"]
  /\ UNCHANGED <<turn, round, lat>>

SpuriousWakeup(t) ==
  /\ pc[t] = "asleep"
  /\ pc' = [pc EXCEPT ![t] = "woken"]
  /\ UNCHANGED <<turn, mu, round, lat>>

(* Mutant of Reacquire: `if' where the code has `while', so `turn' is not  *)
(* tested again after a wake-up.                                           *)
ReacquireWithoutRetest(t) ==
  /\ pc[t] = "woken"
  /\ mu = Free
  /\ mu' = t
  /\ pc' = [pc EXCEPT ![t] = IF t = Main THEN "unlock" ELSE "give"]
  /\ UNCHANGED <<turn, round, lat>>

Reacquire(t) ==
  /\ pc[t] = "woken"
  /\ mu = Free
  /\ mu' = t
  /\ pc' = [pc EXCEPT ![t] = "check"]
  /\ UNCHANGED <<turn, round, lat>>

(* Mutant of WorkerGive: returns the token without waking thread 0. *)
WorkerGiveSilently ==
  /\ pc[Worker] = "give"
  /\ turn' = 0
  /\ pc' = [pc EXCEPT ![Worker] = "unlock"]
  /\ UNCHANGED <<mu, round, lat>>

WorkerGive ==
  /\ pc[Worker] = "give"
  /\ turn' = 0
  /\ SignalFrom(Worker, "unlock")
  /\ UNCHANGED <<mu, round, lat>>

(* Thread 0 releases the mutex, stops the clock and keeps the sample once  *)
(* the warm-up is over.                                                    *)
MainUnlock ==
  /\ pc[Main] = "unlock"
  /\ mu' = Free
  /\ lat' = IF round[Main] >= Warmup THEN lat \cup {round[Main] - Warmup} ELSE lat
  /\ round' = [round EXCEPT ![Main] = @ + 1]
  /\ pc' = [pc EXCEPT ![Main] = IF round[Main] + 1 < Total THEN "lock" ELSE "join"]
  /\ UNCHANGED turn

WorkerUnlock ==
  /\ pc[Worker] = "unlock"
  /\ mu' = Free
  /\ round' = [round EXCEPT ![Worker] = @ + 1]
  /\ pc' = [pc EXCEPT ![Worker] = IF round[Worker] + 1 < Total THEN "lock" ELSE "leave"]
  /\ UNCHANGED <<turn, lat>>

(* The last pthread_mutex_unlock returns, some time after it has let thread *)
(* 0 have the mutex, and with it the thread.                                *)
WorkerExit ==
  /\ pc[Worker] = "leave"
  /\ pc' = [pc EXCEPT ![Worker] = "exited"]
  /\ UNCHANGED <<turn, mu, round, lat>>

(* pthread_join, then the statistics over lat[0..ITERATIONS-1], free and   *)
(* the destruction of mutex and condition variable.                        *)
Join ==
  /\ pc[Main] = "join"
  /\ pc[Worker] = "exited"
  /\ pc' = [pc EXCEPT ![Main] = "done"]
  /\ UNCHANGED <<turn, mu, round, lat>>

Terminating == pc[Main] = "done" /\ UNCHANGED vars

MainStep ==
  Create \/ Lock(Main) \/ MainHand \/ CheckPasses(Main) \/ CheckWaits(Main)
  \/ Reacquire(Main) \/ MainUnlock \/ Join

WorkerStep ==
  Lock(Worker) \/ CheckPasses(Worker) \/ CheckWaits(Worker)
  \/ Reacquire(Worker) \/ WorkerGive \/ WorkerUnlock \/ WorkerExit

Next ==
  \/ MainStep
  \/ WorkerStep
  \/ \E t \in Thread : SpuriousWakeup(t)
  \/ Terminating

Spec == Init /\ [][Next]_vars

(* The kernel runs every runnable thread; a thread that keeps finding the  *)
(* mutex free gets it some day.  Spurious wake-ups are never promised.     *)
Fairness ==
  /\ WF_vars(MainStep) /\ WF_vars(WorkerStep)
  /\ \A t \in Thread : SF_vars(Lock(t)) /\ SF_vars(Reacquire(t))

FairSpec == Spec /\ Fairness

----------------------------------------------------------------------------

MainLabel   == {"create", "lock", "hand", "check", "asleep", "woken",
                "unlock", "join", "done"}
WorkerLabel == {"unborn", "lock", "check", "asleep", "woken", "give",
                "unlock", "leave", "exited"}
InCritical(t) == pc[t] \in {"hand", "check", "give", "unlock"}

TypeOK ==
  /\ pc \in [Thread -> MainLabel \cup WorkerLabel]
  /\ pc[Main] \in MainLabel /\ pc[Worker] \in WorkerLabel
  /\ turn \in {0, 1}
  /\ mu \in Thread \cup {Free}
  /\ round \in [Thread -> 0 .. Total]
  /\ lat \subseteq 0 .. (Iterations - 1)

(* Both while loops re-test `turn' after every wake-up and both signals    *)
(* follow the write they announce, so a thread that is asleep is never the *)
(* one whose turn it is: no wake-up is lost.                               *)
NoLostWakeup == \A t \in Thread : pc[t] = "asleep" => turn # t

(* How often each side has written `turn'. *)
Handed(t) ==
  round[t] + (IF t = Main
              THEN (IF pc[t] \in {"check", "asleep", "woken", "unlock"} THEN 1 ELSE 0)
              ELSE (IF pc[t] = "unlock" THEN 1 ELSE 0))

(* The two sides alternate strictly, whatever the wake-ups: thread 0 is    *)
(* ahead of thread 1 by exactly the token it has handed over.              *)
Alternation == Handed(Main) = Handed(Worker) + turn

(* The array the statistics read has been filled completely, each slot by  *)
(* its own round, before it is sorted; and the state on thread 0's stack   *)
(* (mutex, condition variable, turn) is destroyed only when thread 1 no    *)
(* longer uses it.                                                         *)
ResultIsComplete ==
  pc[Main] = "done" => lat = 0 .. (Iterations - 1) /\ pc[Worker] = "exited"

(* Every sample, when it is stored, spans exactly one turn of thread 1.    *)
SampleIsRoundTrip ==
  [][lat' # lat => round[Worker] = round[Main] + 1]_vars

(* With a partner the measurement ends; a failed pthread_create leaves     *)
(* thread 0 waiting for ever.                                              *)
PartnerMeansResult == (pc[Worker] = "lock") ~> (pc[Main] = "done")

(* No result is ever reported for a thread that could not be created. *)
NoPartnerNoResult == pc[Worker] = "unborn" => pc[Main] # "done" /\ lat = {}

(* The ping-pong implements the token ring of two parties. *)
Ring == INSTANCE TokenRing WITH
          N <- 2, holder <- turn, laps <- [t \in Thread |-> Handed(t)]
ImplementsRing == Ring!RingSpec
=============================================================================
