--------------------------- MODULE CoreMigration ---------------------------
(***************************************************************************)
(* core_migration_penalty.c: main runs run_ring once per scenario, in one  *)
(* process whose CPU mask survives from each scenario to the next.  Unlike *)
(* ctx_switch_bench.c, run_ring looks at no return value: neither fork's,  *)
(* nor read's, nor write's.                                                *)
(*                                                                         *)
(* Every scenario here has the same number of processes (the program goes  *)
(* from 2 to 16).  Each run_ring makes pipes of its own; the two pipe ends *)
(* the parent never closes are not looked at again and are left out.       *)
(***************************************************************************)
EXTENDS PipeRing, Sequences

CONSTANTS
  Iterations,                \* ITERATIONS
  Warmup,                    \* WARMUP
  Online,                    \* the CPUs this program may run on
  Scenarios,                 \* cpus[] of each scenario, FreeCpu where it has -1
  FreeCpu                    \* or NULL
ASSUME MigrationAssumption ==
  /\ Iterations \in Nat \ {0} /\ Warmup \in Nat
  /\ Online # {} /\ FreeCpu \notin Online
  /\ Len(Scenarios) \in Nat \ {0} /\ \A s \in 1 .. Len(Scenarios) : DOMAIN Scenarios[s] = Proc

VARIABLES
  pc,                        \* where each process is
  sent,                      \* tokens each process has written
  round,                     \* rotations the parent has been through
  lat,                       \* indices of lat[] filled so far
  mask,                      \* CPUs each process may run on
  scene,                     \* the scenario main is at
  waits, reaped              \* entries of pids[] waited for, children reaped

reaping == <<waits, reaped>>
vars == <<buf, ends, pc, sent, round, lat, mask, scene, reaping>>

Total == Warmup + Iterations
NewRing == [i \in Proc |-> IF i = Parent THEN "fork" ELSE "unborn"]

Init ==
  /\ PipeInit
  /\ pc = NewRing
  /\ sent = [i \in Proc |-> 0]
  /\ round = 0
  /\ lat = {}
  /\ mask = [i \in Proc |-> Online]
  /\ scene = 1
  /\ waits = 0 /\ reaped = {}

Goto(i, l) == pc' = [pc EXCEPT ![i] = l]

(* pin_cpu(cpus[i]): nothing for -1; a CPU that cannot be had is a warning. *)
Pin(i) ==
  LET cpu == Scenarios[scene][i]
  IN  mask' = [mask EXCEPT ![i] = IF cpu \in Online THEN {cpu} ELSE @]

----------------------------------------------------------------------------
(* The parent. *)

Turn(k) ==
  /\ pc[Parent] = "fork"
  /\ pc[k] = "unborn" /\ \A j \in Child : j < k => pc[j] # "unborn"

(* A forked child starts with its parent's pipe ends and its parent's mask. *)
Fork(k) ==
  /\ Turn(k)
  /\ Goto(k, "new")
  /\ Inherit(k)
  /\ mask' = [mask EXCEPT ![k] = mask[Parent]]
  /\ UNCHANGED <<buf, sent, round, lat, scene, reaping>>

(* fork returned -1; the loop goes on to the next child. *)
ForkFails(k) ==
  /\ Turn(k)
  /\ Goto(k, "missing")
  /\ UNCHANGED <<buf, ends, sent, round, lat, mask, scene, reaping>>

(* Mutant of StartRing: the parent is not pinned. *)
StartRingUnpinned ==
  /\ pc[Parent] = "fork"
  /\ \A k \in Child : pc[k] # "unborn"
  /\ CloseForeign(Parent)
  /\ Goto(Parent, "write")
  /\ UNCHANGED <<buf, sent, round, lat, mask, scene, reaping>>

StartRing ==
  /\ pc[Parent] = "fork"
  /\ \A k \in Child : pc[k] # "unborn"
  /\ Pin(Parent)
  /\ CloseForeign(Parent)
  /\ Goto(Parent, "write")
  /\ UNCHANGED <<buf, sent, round, lat, scene, reaping>>

ParentWrite ==
  /\ pc[Parent] = "write" /\ ~Broken(Out(Parent))
  /\ Put(Out(Parent))
  /\ sent' = [sent EXCEPT ![Parent] = @ + 1]
  /\ Goto(Parent, "read")
  /\ UNCHANGED <<ends, round, lat, mask, scene, reaping>>

(* Mutant of ParentRead: the parent does not wait for the token. *)
ParentReadNothing ==
  /\ pc[Parent] = "read"
  /\ lat' = IF round >= Warmup THEN lat \cup {round - Warmup} ELSE lat
  /\ round' = round + 1
  /\ Goto(Parent, IF round + 1 < Total THEN "write" ELSE "report")
  /\ UNCHANGED <<buf, ends, sent, mask, scene, reaping>>

(* The end of file counts as a token that has come back. *)
ParentRead ==
  /\ pc[Parent] = "read"
  /\ \/ Readable(Parent) /\ Take(Parent)
     \/ AtEof(Parent) /\ UNCHANGED buf
  /\ lat' = IF round >= Warmup THEN lat \cup {round - Warmup} ELSE lat
  /\ round' = round + 1
  /\ Goto(Parent, IF round + 1 < Total THEN "write" ELSE "report")
  /\ UNCHANGED <<ends, sent, mask, scene, reaping>>

(* SIGPIPE ends the whole program. *)
ParentKilled ==
  /\ pc[Parent] = "write" /\ Broken(Out(Parent))
  /\ Goto(Parent, "killed")
  /\ CloseAll(Parent)
  /\ UNCHANGED <<buf, sent, round, lat, mask, scene, reaping>>

(* Sorting and statistics. *)
Report ==
  /\ pc[Parent] = "report"
  /\ Goto(Parent, "reap")
  /\ UNCHANGED <<buf, ends, sent, round, lat, mask, scene, reaping>>

Gone(k) == pc[k] \in {"missing", "exited", "killed"}
Unreaped == {k \in Child : pc[k] # "missing"} \ reaped

(* Mutant of Reap: WNOHANG. *)
ReapNoHang(k) ==
  /\ pc[Parent] = "reap" /\ waits = k
  /\ reaped' = IF Gone(k) THEN reaped \cup {k} ELSE reaped
  /\ waits' = waits + 1
  /\ UNCHANGED <<buf, ends, pc, sent, round, lat, mask, scene>>

(* waitpid(pids[k]).  An entry of -1 waits for any child, whose own turn   *)
(* then finds nobody to wait for; so does a -1 when all have been reaped.  *)
Reap(k) ==
  /\ pc[Parent] = "reap" /\ waits = k
  /\ \/ pc[k] # "missing" /\ Gone(k) /\ reaped' = reaped \cup {k}
     \/ /\ pc[k] = "missing"
        /\ \E j \in Unreaped : Gone(j) /\ reaped' = reaped \cup {j}
     \/ pc[k] = "missing" /\ Unreaped = {} /\ UNCHANGED reaped
  /\ waits' = waits + 1
  /\ UNCHANGED <<buf, ends, pc, sent, round, lat, mask, scene>>

(* run_ring returns, main writes the row and goes on. *)
NextScenario ==
  /\ pc[Parent] = "reap" /\ waits = N - 1
  /\ UNCHANGED mask
  /\ waits' = 0 /\ reaped' = {}
  /\ IF scene < Len(Scenarios)
     THEN /\ pc' = NewRing
          /\ buf' = [p \in Proc |-> 0]
          /\ ends' = [i \in Proc |-> IF i = Parent THEN "all" ELSE "none"]
          /\ sent' = [i \in Proc |-> 0]
          /\ round' = 0
          /\ lat' = {}
          /\ scene' = scene + 1
     ELSE /\ Goto(Parent, "exited")
          /\ CloseAll(Parent)
          /\ UNCHANGED <<buf, sent, round, lat, scene>>

----------------------------------------------------------------------------
(* A child of the ring. *)

(* Mutant of Settle: the child keeps the pipe ends it does not use. *)
SettleKeepingAll(k) ==
  /\ pc[k] = "new"
  /\ Pin(k)
  /\ Goto(k, "read")
  /\ UNCHANGED <<buf, ends, sent, round, lat, scene, reaping>>

Settle(k) ==
  /\ pc[k] = "new"
  /\ Pin(k)
  /\ CloseForeign(k)
  /\ Goto(k, "read")
  /\ UNCHANGED <<buf, sent, round, lat, scene, reaping>>

ChildRead(k) ==
  /\ pc[k] = "read"
  /\ \/ Readable(k) /\ Take(k)
     \/ AtEof(k) /\ UNCHANGED buf
  /\ Goto(k, "write")
  /\ UNCHANGED <<ends, sent, round, lat, mask, scene, reaping>>

(* Mutant of ChildWrite: only the measured rounds. *)
ChildWriteWithoutWarmup(k) ==
  /\ pc[k] = "write" /\ ~Broken(Out(k))
  /\ Put(Out(k))
  /\ sent' = [sent EXCEPT ![k] = @ + 1]
  /\ Goto(k, IF sent[k] + 1 < Iterations THEN "read" ELSE "leave")
  /\ UNCHANGED <<ends, round, lat, mask, scene, reaping>>

ChildWrite(k) ==
  /\ pc[k] = "write" /\ ~Broken(Out(k))
  /\ Put(Out(k))
  /\ sent' = [sent EXCEPT ![k] = @ + 1]
  /\ Goto(k, IF sent[k] + 1 < Total THEN "read" ELSE "leave")
  /\ UNCHANGED <<ends, round, lat, mask, scene, reaping>>

ChildKilled(k) ==
  /\ pc[k] = "write" /\ Broken(Out(k))
  /\ Goto(k, "killed")
  /\ CloseAll(k)
  /\ UNCHANGED <<buf, sent, round, lat, mask, scene, reaping>>

Leave(k) ==
  /\ pc[k] = "leave"
  /\ Goto(k, "exited")
  /\ CloseAll(k)
  /\ UNCHANGED <<buf, sent, round, lat, mask, scene, reaping>>

----------------------------------------------------------------------------

ParentStep ==
  (\E k \in Child : Fork(k) \/ ForkFails(k) \/ Reap(k)) \/ StartRing
  \/ ParentWrite \/ ParentRead \/ ParentKilled \/ Report \/ NextScenario

ChildStep(k) ==
  Settle(k) \/ ChildRead(k) \/ ChildWrite(k) \/ ChildKilled(k) \/ Leave(k)

AllGone == \A i \in Proc : Gone(i)
Terminating == AllGone /\ UNCHANGED vars

Next ==
  \/ ParentStep
  \/ \E k \in Child : ChildStep(k)
  \/ Terminating

Spec == Init /\ [][Next]_vars

(* Every process that can run is scheduled some day. *)
FairSpec == Spec /\ WF_vars(ParentStep) /\ \A k \in Child : WF_vars(ChildStep(k))

----------------------------------------------------------------------------

ParentLabel == {"fork", "write", "read", "report", "reap", "exited", "killed"}
ChildLabel  == {"unborn", "missing", "new", "read", "write", "leave", "exited", "killed"}

TypeOK ==
  /\ PipeTypeOK
  /\ pc \in [Proc -> ParentLabel \cup ChildLabel]
  /\ pc[Parent] \in ParentLabel
  /\ \A k \in Child : pc[k] \in ChildLabel
  /\ sent \in [Proc -> 0 .. Total]
  /\ round \in 0 .. Total
  /\ lat \subseteq 0 .. (Iterations - 1)
  /\ mask \in [Proc -> (SUBSET Online) \ {{}}]
  /\ scene \in 1 .. Len(Scenarios)
  /\ waits \in 0 .. N-1 /\ reaped \subseteq Child

WholeRing == \A k \in Child : pc[k] # "missing"

(* If every fork succeeded, a sample spans one rotation although nobody    *)
(* looks at what read and write return: each child passed the token on     *)
(* exactly once since the parent sent it.                                  *)
SampleIsRotation ==
  [][lat' # lat /\ lat' # {} /\ WholeRing => \A k \in Child : sent[k] = round + 1]_vars

(* If every fork succeeded, nobody is killed by SIGPIPE and the result     *)
(* counts every switch of every process.                                   *)
WholeRingResult ==
  WholeRing =>
    /\ pc[Parent] # "killed" /\ \A k \in Child : pc[k] # "killed"
    /\ pc[Parent] \in {"report", "reap"} =>
         lat = 0 .. (Iterations - 1) /\ \A k \in Child : sent[k] = Total

(* core_migration_penalty.c:89: run_ring "Returns per-context-switch       *)
(* latency statistics".  When it returns them, every process of the ring   *)
(* has made the switches they are divided by.                              *)
ResultCountsEveryone ==
  pc[Parent] \in {"report", "reap"} => \A k \in Child : sent[k] = Total

(* While a rotation of a pinned scenario is measured, every process that   *)
(* has joined the ring is confined to the core its row of the table names, *)
(* whatever the scenarios before left behind.                              *)
Joined(i) == pc[i] \notin {"missing", "new"}
PinnedAsLabelled ==
  [][lat' # lat /\ lat' # {} =>
       \A i \in Proc : Joined(i) /\ Scenarios[scene][i] \in Online =>
                        mask[i] = {Scenarios[scene][i]}]_vars

(* A row is what its scenario says: with no failed fork every switch of    *)
(* every process is in it, each sample is one rotation, and a pinned       *)
(* process is on the core the row names.  (run_ring.)                      *)
MeasuredAsLabelled == []WholeRingResult /\ SampleIsRotation /\ PinnedAsLabelled

(* core_migration_penalty.c:220: "No affinity (OS decides -- scheduler may *)
(* migrate)".  While a free scenario is measured nobody is confined.       *)
FreeMeansFree ==
  [][lat' # lat /\ lat' # {} =>
       \A i \in Proc : Scenarios[scene][i] = FreeCpu => mask[i] = Online]_vars

(* No process of one scenario is still running when the next one starts,   *)
(* although the wait for a fork that failed may have taken any of them.    *)
ScenariosDoNotOverlap == [][scene' # scene => \A k \in Child : Gone(k)]_vars

(* Whatever forks failed and whoever was killed for it, every process ends *)
(* - although the parent keeps its own pipe ends open while it waits.      *)
EverybodyLeaves == <>AllGone
=============================================================================
