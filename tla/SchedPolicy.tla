----------------------------- MODULE SchedPolicy -----------------------------
(***************************************************************************)
(* sched_policy_bench.c: main goes through a table of scheduling policies; *)
(* run_policy puts the parent under the policy, forks one child, plays     *)
(* ping-pong with it over two pipes and restores the parent.  The process  *)
(* is the same throughout, so what restore_cfs fails to undo is still      *)
(* there in the next test.                                                 *)
(*                                                                         *)
(* The kernel's rules for sched_setscheduler are those of an unprivileged  *)
(* process: a real-time policy needs RLIMIT_RTPRIO, and a process that is  *)
(* SCHED_IDLE may not leave it.  root may do anything.                     *)
(***************************************************************************)
EXTENDS PipeRing, Sequences

CONSTANTS
  Iterations,                \* ITERATIONS
  Warmup                     \* WARMUP
ASSUME SchedAssumption == N = 2 /\ Iterations \in Nat \ {0} /\ Warmup \in Nat

(* Mutant of Tests: SCHED_IDLE before the other policies. *)
IdleFirst == <<"IDLE", "OTHER", "BATCH", "FIFO", "RR">>

Tests == <<"OTHER", "BATCH", "IDLE", "FIFO", "RR">>    \* tests[]

Policy   == {"OTHER", "BATCH", "IDLE", "FIFO", "RR"}
RealTime == {"FIFO", "RR"}
Rights   == {"user", "rtprio", "root"}
TheChild == 0                \* the one worker; the parent is process 1
Total    == Iterations + Warmup

VARIABLES
  rights,                    \* what the user may do; never changes
  policy,                    \* scheduling policy of each process
  pc,                        \* where each process is
  sent,                      \* tokens each process has written
  round,                     \* round trips the parent has been through
  lat,                       \* indices of lat[] filled so far
  rows                       \* the rows of the CSV so far: the policy
                             \* measured, or "N/A"

vars == <<buf, ends, rights, policy, pc, sent, round, lat, rows>>

Idle == [i \in Proc |-> IF i = Parent THEN "set" ELSE "unborn"]

Init ==
  /\ PipeInit
  /\ rights \in Rights
  /\ policy = [i \in Proc |-> "OTHER"]
  /\ pc = Idle
  /\ sent = [i \in Proc |-> 0]
  /\ round = 0 /\ lat = {} /\ rows = <<>>

Goto(i, l) == pc' = [pc EXCEPT ![i] = l]
Current == Tests[Len(rows) + 1]

(* sched_setscheduler by process i succeeds. *)
May(i, p) ==
  \/ rights = "root"
  \/ /\ p \in RealTime => rights = "rtprio"
     /\ policy[i] = "IDLE" => p = "IDLE"

SetScheduler(i, p) ==
  policy' = IF May(i, p) THEN [policy EXCEPT ![i] = p] ELSE policy

(* The rest of the loop body in main: the row, then the next test with     *)
(* pipes and a child of its own, or the end.                               *)
WriteRow(r) ==
  /\ rows' = Append(rows, r)
  /\ pc' = [Idle EXCEPT ![Parent] = IF Len(rows) + 1 < Len(Tests) THEN "set" ELSE "exited"]
  /\ buf' = [p \in Proc |-> 0]
  /\ ends' = [i \in Proc |-> IF i = Parent THEN "all" ELSE "none"]
  /\ sent' = [i \in Proc |-> 0]
  /\ round' = 0
  /\ lat' = {}
  /\ UNCHANGED rights

----------------------------------------------------------------------------
(* The parent. *)

(* Mutant of SetPolicy: goes on with whatever policy it has. *)
SetPolicyAnyway ==
  /\ pc[Parent] = "set"
  /\ SetScheduler(Parent, Current)
  /\ Goto(Parent, "fork")
  /\ UNCHANGED <<buf, ends, rights, sent, round, lat, rows>>

SetPolicy ==
  /\ pc[Parent] = "set" /\ May(Parent, Current)
  /\ SetScheduler(Parent, Current)
  /\ Goto(Parent, "fork")
  /\ UNCHANGED <<buf, ends, rights, sent, round, lat, rows>>

(* The policy is refused: run_policy returns -1 and main writes N/A. *)
Skip ==
  /\ pc[Parent] = "set" /\ ~May(Parent, Current)
  /\ WriteRow("N/A")
  /\ UNCHANGED policy

Fork ==
  /\ pc[Parent] = "fork"
  /\ pc' = [pc EXCEPT ![Parent] = "start", ![TheChild] = "new"]
  /\ Inherit(TheChild)
  /\ policy' = [policy EXCEPT ![TheChild] = policy[Parent]]
  /\ UNCHANGED <<buf, rights, sent, round, lat, rows>>

ForkFails ==
  /\ pc[Parent] = "fork"
  /\ SetScheduler(Parent, "OTHER")
  /\ WriteRow("N/A")

(* Mutant of StartRing: the parent keeps the child's ends of the pipes. *)
StartRingKeepingAll ==
  /\ pc[Parent] = "start"
  /\ Goto(Parent, "write")
  /\ UNCHANGED <<buf, ends, rights, policy, sent, round, lat, rows>>

StartRing ==
  /\ pc[Parent] = "start"
  /\ CloseForeign(Parent)
  /\ Goto(Parent, "write")
  /\ UNCHANGED <<buf, rights, policy, sent, round, lat, rows>>

ParentWrite ==
  /\ pc[Parent] = "write" /\ ~Broken(Out(Parent))
  /\ Put(Out(Parent))
  /\ sent' = [sent EXCEPT ![Parent] = @ + 1]
  /\ Goto(Parent, "read")
  /\ UNCHANGED <<ends, rights, policy, round, lat, rows>>

(* Neither loop of the parent looks at what read returns. *)
ParentRead ==
  /\ pc[Parent] = "read"
  /\ \/ Readable(Parent) /\ Take(Parent)
     \/ AtEof(Parent) /\ UNCHANGED buf
  /\ lat' = IF round >= Warmup THEN lat \cup {round - Warmup} ELSE lat
  /\ round' = round + 1
  /\ Goto(Parent, IF round + 1 < Total THEN "write" ELSE "wait")
  /\ UNCHANGED <<ends, rights, policy, sent, rows>>

(* SIGPIPE ends the program and with it the table. *)
ParentKilled ==
  /\ pc[Parent] = "write" /\ Broken(Out(Parent))
  /\ Goto(Parent, "killed")
  /\ CloseAll(Parent)
  /\ UNCHANGED <<buf, rights, policy, sent, round, lat, rows>>

(* Statistics, waitpid, restore_cfs and the row in main. *)
Finish ==
  /\ pc[Parent] = "wait" /\ pc[TheChild] \in {"exited", "killed"}
  /\ SetScheduler(Parent, "OTHER")
  /\ WriteRow(Current)

----------------------------------------------------------------------------
(* The child. *)

(* The child sets the policy once more; whether that succeeds is not       *)
(* looked at.                                                              *)
Settle ==
  /\ pc[TheChild] = "new"
  /\ CloseForeign(TheChild)
  /\ SetScheduler(TheChild, Current)
  /\ Goto(TheChild, "read")
  /\ UNCHANGED <<buf, rights, sent, round, lat, rows>>

ChildRead ==
  /\ pc[TheChild] = "read" /\ Readable(TheChild)
  /\ Take(TheChild)
  /\ Goto(TheChild, "write")
  /\ UNCHANGED <<ends, rights, policy, sent, round, lat, rows>>

ChildWrite ==
  /\ pc[TheChild] = "write" /\ ~Broken(Out(TheChild))
  /\ Put(Out(TheChild))
  /\ sent' = [sent EXCEPT ![TheChild] = @ + 1]
  /\ Goto(TheChild, IF sent[TheChild] + 1 < Total THEN "read" ELSE "leave")
  /\ UNCHANGED <<ends, rights, policy, round, lat, rows>>

Leave ==
  /\ pc[TheChild] = "leave"
  /\ Goto(TheChild, "exited")
  /\ CloseAll(TheChild)
  /\ UNCHANGED <<buf, rights, policy, sent, round, lat, rows>>

(* Somebody else kills the child (the operator, the OOM killer). *)
ChildKilled ==
  /\ pc[TheChild] \in {"new", "read", "write", "leave"}
  /\ Goto(TheChild, "killed")
  /\ CloseAll(TheChild)
  /\ UNCHANGED <<buf, rights, policy, sent, round, lat, rows>>

----------------------------------------------------------------------------

ParentStep ==
  SetPolicy \/ Skip \/ Fork \/ ForkFails \/ StartRing \/ ParentWrite
  \/ ParentRead \/ ParentKilled \/ Finish

ChildStep == Settle \/ ChildRead \/ ChildWrite \/ Leave

Terminating == pc[Parent] \in {"exited", "killed"} /\ UNCHANGED vars

Next == ParentStep \/ ChildStep \/ ChildKilled \/ Terminating

Spec == Init /\ [][Next]_vars

(* Both processes run some day, under whatever policy; nobody has to kill. *)
FairSpec == Spec /\ WF_vars(ParentStep) /\ WF_vars(ChildStep)

----------------------------------------------------------------------------

ParentLabel == {"set", "fork", "start", "write", "read", "wait", "exited", "killed"}
ChildLabel  == {"unborn", "new", "read", "write", "leave", "exited", "killed"}

TypeOK ==
  /\ PipeTypeOK
  /\ rights \in Rights
  /\ policy \in [Proc -> Policy]
  /\ pc[Parent] \in ParentLabel /\ pc[TheChild] \in ChildLabel
  /\ sent \in [Proc -> 0 .. Total]
  /\ round \in 0 .. Total
  /\ lat \subseteq 0 .. (Iterations - 1)
  /\ Len(rows) <= Len(Tests)
  /\ \A k \in 1 .. Len(rows) : rows[k] \in {Tests[k], "N/A"}

(* Every sample is taken while parent and child both run under the policy  *)
(* its row names, although nobody checks whether the child could set it;   *)
(* and it spans one turn of the child, unless the child has been killed.   *)
MeasuredUnderPolicy ==
  [][lat' # lat /\ lat' # {} =>
       /\ policy[Parent] = Current
       /\ pc[TheChild] # "killed" =>
            policy[TheChild] = Current /\ sent[TheChild] = round + 1]_vars

(* No test of an ordinary policy is ever skipped, and root's never: though *)
(* SCHED_IDLE, once taken, cannot be left without rights, only real-time   *)
(* tests come after it.  The order of the table matters.                   *)
OnlyRealTimeRefused ==
  [][rows' # rows /\ pc[Parent] = "set" => Current \in RealTime /\ rights # "root"]_vars

(* sched_policy_bench.c:175: "Restore parent to CFS after each test". *)
RestoredAfterTest ==
  [][rows' # rows => policy'[Parent] = "OTHER"]_vars

(* The parent is brought down only by the death of its child: left alone,  *)
(* every test comes to its row.                                            *)
NotKilledAlone == pc[Parent] = "killed" => pc[TheChild] = "killed"

(* The program never hangs, whenever the child dies: its parent reads the  *)
(* end of file or is killed by its next write.                             *)
ProgramEnds == <>(pc[Parent] \in {"exited", "killed"})
=============================================================================
