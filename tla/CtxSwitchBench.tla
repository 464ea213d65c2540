--------------------------- MODULE CtxSwitchBench ---------------------------
(***************************************************************************)
(* ctx_switch_bench.c: run_benchmark (the parent) and child_worker.  The   *)
(* parent forks n_procs - 1 workers, warms the ring up without looking at  *)
(* what read and write return, then measures `iterations' rotations,       *)
(* giving up on the first short read or write.                             *)
(*                                                                         *)
(* Time stamps, statistics and output are abstracted: a sample is the      *)
(* index it is stored at.  Working-set traffic leaves no trace here.       *)
(***************************************************************************)
EXTENDS PipeRing

CONSTANTS
  IterationArgs,             \* bound: the values of -i explored
  PinArgs,                   \* bound: with -c (TRUE), without it (FALSE)
  Warmup                     \* the constant 100 of the warm-up loop
ASSUME BenchAssumption ==
  /\ IterationArgs \subseteq Nat /\ PinArgs \subseteq BOOLEAN
  /\ Warmup \in Nat \ {0}

VARIABLES
  iterations,                \* -i
  pin,                       \* whether -c names a CPU they may run on
  pc,                        \* where each process is
  sent,                      \* tokens each process has written; a worker's
                             \* loop counter
  round,                     \* rotations the parent has been through
  lat,                       \* indices of latencies[] filled so far
  pinned                     \* processes that have pinned themselves

args == <<iterations, pin>>
vars == <<buf, ends, iterations, pin, pc, sent, round, lat, pinned>>

Init ==
  /\ PipeInit
  /\ iterations \in IterationArgs /\ pin \in PinArgs
  /\ pc = [i \in Proc |-> IF i = Parent THEN "fork" ELSE "unborn"]
  /\ sent = [i \in Proc |-> 0]
  /\ round = 0
  /\ lat = {}
  /\ pinned = {}

Goto(i, l) == pc' = [pc EXCEPT ![i] = l]

(* exit(EXIT_FAILURE) and death by SIGPIPE. *)
Die(i) ==
  /\ Goto(i, "failed")
  /\ CloseAll(i)
  /\ UNCHANGED <<buf, sent, round, lat, pinned, args>>

----------------------------------------------------------------------------
(* The parent. *)

(* Children are forked in order. *)
Fork(k) ==
  /\ pc[Parent] = "fork"
  /\ pc[k] = "unborn" /\ \A j \in Child : j < k => pc[j] # "unborn"
  /\ Goto(k, "new")
  /\ Inherit(k)
  /\ UNCHANGED <<buf, sent, round, lat, pinned, args>>

(* pipe, malloc or fork failed: the parent exits and leaves the children   *)
(* it already has to themselves.                                           *)
SetupFails == pc[Parent] = "fork" /\ Die(Parent)

StartRing ==
  /\ pc[Parent] = "fork"
  /\ \A k \in Child : pc[k] # "unborn"
  /\ CloseForeign(Parent)
  /\ Goto(Parent, "write")
  /\ UNCHANGED <<buf, sent, round, lat, pinned, args>>

ParentWrite ==
  /\ pc[Parent] = "write" /\ ~Broken(Out(Parent))
  /\ Put(Out(Parent))
  /\ sent' = [sent EXCEPT ![Parent] = @ + 1]
  /\ Goto(Parent, "read")
  /\ UNCHANGED <<ends, round, lat, pinned, args>>

NextRound ==
  /\ round' = round + 1
  /\ Goto(Parent, IF round + 1 < Warmup + iterations THEN "write" ELSE "report")

(* A warm-up read: what it returns is not looked at. *)
WarmupRead ==
  /\ pc[Parent] = "read" /\ round < Warmup
  /\ \/ Readable(Parent) /\ Take(Parent)
     \/ AtEof(Parent) /\ UNCHANGED buf
  /\ NextRound
  /\ UNCHANGED <<ends, sent, lat, pinned, args>>

(* Mutant of MeasuredRead: the measured loop ignores a short read too. *)
UncheckedMeasuredRead ==
  /\ pc[Parent] = "read" /\ round >= Warmup
  /\ \/ Readable(Parent) /\ Take(Parent)
     \/ AtEof(Parent) /\ UNCHANGED buf
  /\ lat' = lat \cup {round - Warmup}
  /\ NextRound
  /\ UNCHANGED <<ends, sent, pinned, args>>

MeasuredRead ==
  /\ pc[Parent] = "read" /\ round >= Warmup
  /\ Readable(Parent)
  /\ Take(Parent)
  /\ lat' = lat \cup {round - Warmup}
  /\ NextRound
  /\ UNCHANGED <<ends, sent, pinned, args>>

(* SIGPIPE in either loop, and perror/exit(1) in the measured one. *)
ParentGivesUp ==
  /\ \/ pc[Parent] = "write" /\ Broken(Out(Parent))
     \/ pc[Parent] = "read" /\ round >= Warmup /\ AtEof(Parent)
  /\ Die(Parent)

(* Sorting, statistics, the CSV files and the SUMMARY line. *)
Report ==
  /\ pc[Parent] = "report"
  /\ Goto(Parent, "reap")
  /\ UNCHANGED <<buf, ends, sent, round, lat, pinned, args>>

Gone(i) == pc[i] \in {"exited", "failed"}

(* waitpid for every child, then the return from main. *)
Reap ==
  /\ pc[Parent] = "reap"
  /\ \A k \in Child : Gone(k)
  /\ Goto(Parent, "exited")
  /\ CloseAll(Parent)
  /\ UNCHANGED <<buf, sent, round, lat, pinned, args>>

----------------------------------------------------------------------------
(* A worker. *)

(* Mutant of Settle: the worker keeps the pipe ends it does not use. *)
SettleKeepingAll(k) ==
  /\ pc[k] = "new"
  /\ pinned' = IF pin THEN pinned \cup {k} ELSE pinned
  /\ Goto(k, IF iterations > 0 THEN "read" ELSE "leave")
  /\ UNCHANGED <<buf, ends, sent, round, lat, args>>

(* The fork returns 0: close what others use, pin_to_cpu. *)
Settle(k) ==
  /\ pc[k] = "new"
  /\ CloseForeign(k)
  /\ pinned' = IF pin THEN pinned \cup {k} ELSE pinned
  /\ Goto(k, IF iterations > 0 THEN "read" ELSE "leave")
  /\ UNCHANGED <<buf, sent, round, lat, args>>

(* Mutant of WorkerRead: a short read is taken for a token. *)
UncheckedWorkerRead(k) ==
  /\ pc[k] = "read"
  /\ \/ Readable(k) /\ Take(k)
     \/ AtEof(k) /\ UNCHANGED buf
  /\ Goto(k, "write")
  /\ UNCHANGED <<ends, sent, round, lat, pinned, args>>

WorkerRead(k) ==
  /\ pc[k] = "read" /\ Readable(k)
  /\ Take(k)
  /\ Goto(k, "write")
  /\ UNCHANGED <<ends, sent, round, lat, pinned, args>>

WorkerWrite(k) ==
  /\ pc[k] = "write" /\ ~Broken(Out(k))
  /\ Put(Out(k))
  /\ sent' = [sent EXCEPT ![k] = @ + 1]
  /\ Goto(k, IF sent[k] + 1 < iterations THEN "read" ELSE "leave")
  /\ UNCHANGED <<ends, round, lat, pinned, args>>

WorkerGivesUp(k) ==
  /\ \/ pc[k] = "read" /\ AtEof(k)
     \/ pc[k] = "write" /\ Broken(Out(k))
  /\ Die(k)

(* exit(EXIT_SUCCESS), some time after the last write. *)
Leave(k) ==
  /\ pc[k] = "leave"
  /\ Goto(k, "exited")
  /\ CloseAll(k)
  /\ UNCHANGED <<buf, sent, round, lat, pinned, args>>

----------------------------------------------------------------------------

ParentStep ==
  (\E k \in Child : Fork(k)) \/ SetupFails \/ StartRing \/ ParentWrite
  \/ WarmupRead \/ MeasuredRead \/ ParentGivesUp \/ Report \/ Reap

WorkerStep(k) ==
  Settle(k) \/ WorkerRead(k) \/ WorkerWrite(k) \/ WorkerGivesUp(k) \/ Leave(k)

(* Everybody has left: the only state the system may rest in. *)
AllGone == \A i \in Proc : Gone(i) \/ (pc[i] = "unborn" /\ Gone(Parent))
Terminating == AllGone /\ UNCHANGED vars

Next ==
  \/ ParentStep
  \/ \E k \in Child : WorkerStep(k)
  \/ Terminating

Spec == Init /\ [][Next]_vars

(* Every process that can run is scheduled some day. *)
FairSpec == Spec /\ WF_vars(ParentStep) /\ \A k \in Child : WF_vars(WorkerStep(k))

----------------------------------------------------------------------------

ParentLabel == {"fork", "write", "read", "report", "reap", "exited", "failed"}
WorkerLabel == {"unborn", "new", "read", "write", "leave", "exited", "failed"}

TypeOK ==
  /\ PipeTypeOK
  /\ iterations \in IterationArgs /\ pin \in PinArgs
  /\ pc \in [Proc -> ParentLabel \cup WorkerLabel]
  /\ pc[Parent] \in ParentLabel
  /\ \A k \in Child : pc[k] \in WorkerLabel
  /\ sent \in [Proc -> 0 .. (Warmup + iterations)]
  /\ \A k \in Child : sent[k] <= iterations
  /\ round \in 0 .. (Warmup + iterations)
  /\ lat \subseteq 0 .. (iterations - 1)
  /\ pinned \subseteq Proc

(* A stored sample spans one whole rotation: every worker passed the token *)
(* on exactly once since the parent sent it, whoever has died meanwhile.   *)
(* The division by n_procs rests on this.                                  *)
SampleIsRotation ==
  [][lat' # lat => \A k \in Child : sent[k] = round + 1]_vars

(* The workers make -i rounds, the parent the warm-up on top (lines 192    *)
(* and 298-300).  The rounds the workers do not make leave no sample: only *)
(* iterations - Warmup are stored, if that many, the loop is broken off    *)
(* after them, and but for -i 0 no summary is ever printed - least of all  *)
(* one of round trips nobody carried a token on.                           *)
SamplesAreCarried ==
  /\ \A i \in lat : i < iterations - Warmup
  /\ iterations > 0 => pc[Parent] \notin {"report", "reap", "exited"}

(* However the ring breaks - a failed fork, a short read, a worker that is *)
(* through - the end of file travels round it and every process ends.      *)
EverybodyLeaves == <>AllGone

(* README.md:312 of -i: "number of measured iterations".  Once the ring is *)
(* complete the measurement delivers that many samples.                    *)
MeasuresIterations ==
  (pc[Parent] = "write") ~> (lat = 0 .. (iterations - 1))

(* README.md:313 of -c: "pin to this CPU core".  When a rotation is        *)
(* measured, every party of the ring runs on that core.                    *)
PinnedWhenMeasured ==
  [][lat' # lat /\ pin => pinned = Proc]_vars

(* The ring implements the abstract token ring, with the parent as node 0  *)
(* and worker k as node k+1; the token is with the first node that has     *)
(* written it less often than the parent, and with the parent when nobody  *)
(* has.                                                                    *)
NodeProc(n) == IF n = 0 THEN Parent ELSE n - 1
Laps == [n \in 0 .. N-1 |-> sent[NodeProc(n)]]
Behind == {n \in 0 .. N-1 : Laps[n] < Laps[0]}
Holder ==
  IF Behind = {} THEN 0 ELSE CHOOSE n \in Behind : \A m \in Behind : n <= m

(* With fewer rounds than the warm-up has, the parent goes on sending when *)
(* the workers have left, and the ring is claimed for the other runs only. *)
Sustained == iterations >= Warmup

Ring == INSTANCE TokenRing WITH
          holder <- IF Sustained THEN Holder ELSE 0,
          laps   <- IF Sustained THEN Laps ELSE [n \in 0 .. N-1 |-> 0]
ImplementsRing == Ring!RingSpec
=============================================================================
