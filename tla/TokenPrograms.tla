---------------------------- MODULE TokenPrograms ----------------------------
(***************************************************************************)
(* The programs that pass a token to processes of their own: lat_ctx of    *)
(* lmbench (a ring of pipes), lat_pipe, lat_fifo, lat_unix, lat_sem and    *)
(* lat_fcntl (one partner; the locks of lat_fcntl are in FcntlLocks), and  *)
(* the two small ones in src/, part A of process_vs_thread and             *)
(* lat_ctx_fixed.  Process 0 forks daemons 1 .. procs-1 and hands the      *)
(* token round once per iteration.  Process i writes pipe i; daemon i      *)
(* reads pipe i-1, process 0 the last one.                                 *)
(*                                                                         *)
(* A socket pair is two pipes whose ends come in pairs.  The semaphores of *)
(* lat_sem are counters like the bytes in a pipe that every process holds. *)
(* Of an lmbench program process 0 is a child of benchmp, which calls its  *)
(* benchmark any number of times, then cleanup(0); the handlers of benchmp *)
(* call cleanup with the harness's own state as cookie, in which no        *)
(* program finds its daemons.  The small programs are processes of their   *)
(* own with a fixed number of iterations.                                  *)
(***************************************************************************)
EXTENDS Naturals, FiniteSets

CONSTANTS
  CtxProcs,                  \* the #procs of lat_ctx and lat_ctx_fixed
  MaxTrips                   \* bound: iterations (of a small program: all)
ASSUME TokenProgramsAssumption == CtxProcs \in Nat \ {0, 1} /\ MaxTrips \in Nat

Small    == {"process_vs_thread", "lat_ctx_fixed"}
Programs == {"lat_ctx", "lat_pipe", "lat_fifo", "lat_unix", "lat_sem", "lat_fcntl"} \cup Small

VARIABLES
  prog,                      \* the program
  pc,                        \* where process 0 is
  sigchld,                   \* its SIGCHLD handler: "exit" or "default"
  st,                        \* where each daemon is
  buf,                       \* tokens in each pipe
  rd, wr,                    \* pipes each process can read and write
  turns,                     \* how often each process has handed on the token
  ok                         \* nothing has failed so far (history)

vars == <<prog, pc, sigchld, st, buf, rd, wr, turns, ok>>

procs   == IF prog = "lat_ctx" THEN CtxProcs ELSE 2
Pipes   == 0 .. procs-1
Daemons == 1 .. procs-1
Live(i) == st[i] \notin {"unborn", "gone"}
AllGone == \A i \in Daemons : ~Live(i)

Readable(p) == buf[p] > 0
AtEof(p)    == buf[p] = 0 /\ \A i \in Pipes : p \notin wr[i]
Broken(p)   == \A i \in Pipes : p \notin rd[i]

Goto(l)    == pc' = l
Move(i, s) == st' = [st EXCEPT ![i] = s]
Put(p)     == buf' = [buf EXCEPT ![p] = @ + 1]
Take(p)    == buf' = [buf EXCEPT ![p] = @ - 1]
Turn(i)    == turns' = [turns EXCEPT ![i] = @ + 1]
Hold(i, r, w) == rd' = [rd EXCEPT ![i] = r] /\ wr' = [wr EXCEPT ![i] = w]

Init ==
  /\ prog \in Programs
  /\ pc = "setup"
  /\ sigchld = IF prog \in Small THEN "default" ELSE "exit"
  /\ st = [i \in Daemons |-> "unborn"]
  /\ buf = [p \in Pipes |-> 0] /\ turns = [p \in Pipes |-> 0]
  /\ LET all == IF prog \in {"lat_fifo", "lat_fcntl"} THEN {} ELSE Pipes
     IN  /\ rd = [i \in Pipes |-> IF i = 0 THEN all ELSE {}]
         /\ wr = [i \in Pipes |-> IF i = 0 THEN all ELSE {}]
  /\ ok = TRUE

----------------------------------------------------------------------------
(* Ends.  A daemon that is gone lets go of its ends; while the SIGCHLD     *)
(* handler benchmp_child_sigchld is in place it takes process 0 with it.   *)
DaemonGone(i) ==
  /\ Move(i, "gone")
  /\ LET both == sigchld = "exit" /\ pc # "gone"
     IN  /\ pc' = IF both THEN "gone" ELSE pc
         /\ rd' = [j \in Pipes |-> IF j = i \/ (j = 0 /\ both) THEN {} ELSE rd[j]]
         /\ wr' = [j \in Pipes |-> IF j = i \/ (j = 0 /\ both) THEN {} ELSE wr[j]]

MainGone == Goto("gone") /\ Hold(0, {}, {})

(* Somebody kills a daemon, or process 0. *)
DaemonKilled(i) ==
  /\ Live(i)
  /\ DaemonGone(i)
  /\ ok' = FALSE
  /\ UNCHANGED <<prog, sigchld, buf, turns>>

MainKilled ==
  /\ pc # "gone"
  /\ MainGone
  /\ ok' = FALSE
  /\ UNCHANGED <<prog, sigchld, st, buf, turns>>

----------------------------------------------------------------------------
(* initialize. *)

(* pipe, mknod or open fails. *)
SetupFails ==
  /\ pc = "setup" /\ prog \in {"lat_ctx", "lat_pipe", "lat_fifo", "lat_fcntl", "lat_ctx_fixed"}
  /\ \A i \in Daemons : st[i] = "unborn"
  /\ MainGone
  /\ ok' = FALSE
  /\ UNCHANGED <<prog, sigchld, st, buf, turns>>

Fork(i) ==
  /\ pc = "setup"
  /\ st[i] = "unborn" /\ \A j \in Daemons : j < i => st[j] # "unborn"
  /\ Move(i, "new")
  /\ Hold(i, rd[0], wr[0])
  /\ UNCHANGED <<prog, pc, sigchld, buf, turns, ok>>

(* create_daemons gives up and initialize calls cleanup: the death of the  *)
(* first daemon it kills runs the handler that is still in place.          *)
CtxForkFails ==
  /\ pc = "setup" /\ prog = "lat_ctx"
  /\ \E i \in Daemons : st[i] = "unborn"
  /\ st' = [i \in Daemons |-> IF i = 1 /\ Live(1) THEN "gone" ELSE st[i]]
  /\ rd' = [j \in Pipes |-> IF j \in {0, 1} THEN {} ELSE rd[j]]
  /\ wr' = [j \in Pipes |-> IF j \in {0, 1} THEN {} ELSE wr[j]]
  /\ Goto("gone")
  /\ ok' = FALSE
  /\ UNCHANGED <<prog, sigchld, buf, turns>>

(* lat_ctx_fixed and lat_fcntl exit; the others go on without a partner.   *)
(* (The descriptors lat_fifo has not opened are whatever the stack holds.) *)
FixedForkFails == prog \in {"lat_ctx_fixed", "lat_fcntl"} /\ MainGone
ProcForkFails  == prog = "process_vs_thread" /\ Goto("loop") /\ Hold(0, {1}, {0})
PairForkFails  ==
  prog \in {"lat_pipe", "lat_fifo", "lat_unix", "lat_sem"} /\ Goto("loop0") /\ UNCHANGED <<rd, wr>>

ForkFails ==
  /\ pc = "setup" /\ prog # "lat_ctx"
  /\ st[1] = "unborn"
  /\ FixedForkFails \/ ProcForkFails \/ PairForkFails
  /\ ok' = FALSE
  /\ UNCHANGED <<prog, sigchld, st, buf, turns>>

(* What process 0 does after its forks: lat_ctx and lat_pipe send the      *)
(* token round once, lat_pipe closes first what its partner uses, lat_fifo *)
(* opens its ends; lat_unix, lat_sem and lat_fcntl return at once.         *)
CtxForked  == prog = "lat_ctx"  /\ Goto("trip") /\ UNCHANGED <<rd, wr>>
(* Mutant of PipeForked: the parent keeps the ends of its partner. *)
PipeForkedKeepingAll == prog = "lat_pipe" /\ Goto("trip") /\ UNCHANGED <<rd, wr>>
PipeForked == prog = "lat_pipe" /\ Goto("trip") /\ Hold(0, {1}, {0})
FifoForked == prog = "lat_fifo" /\ Goto("open") /\ UNCHANGED <<rd, wr>>
UnixForked == prog = "lat_unix" /\ Goto("loop0") /\ UNCHANGED <<rd, wr>>
SemForked  == prog = "lat_sem"  /\ Goto("loop0") /\ UNCHANGED <<rd, wr>>
FcntlForked == prog = "lat_fcntl" /\ Goto("loop0") /\ UNCHANGED <<rd, wr>>
ProcForked  == prog = "process_vs_thread" /\ Goto("loop") /\ Hold(0, {1}, {0})
FixedForked == prog = "lat_ctx_fixed" /\ Goto("loop") /\ Hold(0, {1}, {0})

ForksDone ==
  /\ pc = "setup"
  /\ \A i \in Daemons : st[i] # "unborn"
  /\ CtxForked \/ PipeForked \/ FifoForked \/ UnixForked \/ SemForked
     \/ FcntlForked \/ ProcForked \/ FixedForked
  /\ UNCHANGED <<prog, sigchld, st, buf, turns, ok>>

(* Mutant of CtxDaemonStart: the daemons keep every pipe end. *)
CtxDaemonStartKeepingAll(i) ==
  prog = "lat_ctx" /\ UNCHANGED <<rd, wr, buf, turns>>

(* A daemon: lat_ctx and lat_pipe close what they do not use, lat_unix     *)
(* keeps both sockets, and the partner of lat_sem makes the first move.    *)
CtxDaemonStart(i) ==
  prog = "lat_ctx" /\ Hold(i, {i-1}, {i}) /\ UNCHANGED <<buf, turns>>
PipeWriterStart(i) ==
  prog = "lat_pipe" /\ Hold(i, {i-1}, {i}) /\ UNCHANGED <<buf, turns>>
UnixPartnerStart(i) ==
  prog = "lat_unix" /\ UNCHANGED <<rd, wr, buf, turns>>

ProcChildStart(i) ==
  prog = "process_vs_thread" /\ Hold(i, {i-1}, {i}) /\ UNCHANGED <<buf, turns>>
FixedChildStart(i) ==
  prog = "lat_ctx_fixed" /\ Hold(i, {i-1}, {i}) /\ UNCHANGED <<buf, turns>>
FcntlPartnerStart(i) ==
  prog = "lat_fcntl" /\ UNCHANGED <<rd, wr, buf, turns>>

(* Mutant of SemWriterStart: no first move. *)
SemWriterStartIdle(i) ==
  prog = "lat_sem" /\ UNCHANGED <<rd, wr, buf, turns>>

SemWriterStart(i) ==
  prog = "lat_sem" /\ Put(i) /\ Turn(i) /\ UNCHANGED <<rd, wr>>

Settle(i) ==
  /\ st[i] = "new"
  /\ CtxDaemonStart(i) \/ PipeWriterStart(i) \/ UnixPartnerStart(i) \/ SemWriterStart(i)
     \/ ProcChildStart(i) \/ FixedChildStart(i) \/ FcntlPartnerStart(i)
  /\ Move(i, "read")
  /\ UNCHANGED <<prog, pc, sigchld, ok>>

(* Mutant of OpenFifo: the partner opens the two in the other order.       *)
OpenFifoCrossed ==
  /\ prog = "lat_fifo" /\ pc = "open"
  /\ st[1] = "open"
  /\ Goto("open2") /\ Move(1, "open2") /\ UNCHANGED <<rd, wr>>
  /\ UNCHANGED <<prog, sigchld, buf, turns, ok>>

(* open of a FIFO blocks until the other side opens it too. *)
OpenFifo ==
  /\ prog = "lat_fifo"
  /\ \/ /\ pc = "open" /\ st[1] = "new"
        /\ Goto("open2") /\ Move(1, "open2")
        /\ wr' = [wr EXCEPT ![0] = {0}] /\ rd' = [rd EXCEPT ![1] = {0}]
     \/ /\ pc = "open2" /\ st[1] = "open2"
        /\ Goto("trip") /\ Move(1, "read")
        /\ wr' = [wr EXCEPT ![1] = {1}] /\ rd' = [rd EXCEPT ![0] = {1}]
  /\ UNCHANGED <<prog, sigchld, buf, turns, ok>>

----------------------------------------------------------------------------
(* benchmark. *)

(* Process 0 sends the token, in the trip of initialize and in every       *)
(* iteration.                                                              *)
Send ==
  /\ pc \in {"trip", "write"} /\ prog # "lat_sem"
  /\ 0 \in wr[0] /\ ~Broken(0)
  /\ Put(0) /\ Turn(0)
  /\ Goto(IF pc = "trip" THEN "tripread" ELSE "read")
  /\ UNCHANGED <<prog, sigchld, st, rd, wr, ok>>

Receive ==
  /\ pc \in {"tripread", "read"}
  /\ Readable(procs-1)
  /\ Take(procs-1)
  /\ Goto(IF pc = "tripread" THEN "loop0" ELSE "loop")
  /\ UNCHANGED <<prog, sigchld, st, rd, wr, turns, ok>>

(* The small programs take the end of file for an answer. *)
ReadUnchecked ==
  /\ prog \in Small /\ pc = "read" /\ AtEof(1)
  /\ Goto("loop")
  /\ UNCHANGED <<prog, sigchld, st, buf, rd, wr, turns, ok>>

(* Mutant of SemTrip: it takes the partner's semaphore without waiting.    *)
SemTripUnordered ==
  /\ pc = "write" /\ prog = "lat_sem"
  /\ Put(0) /\ Turn(0)
  /\ Goto("loop")
  /\ UNCHANGED <<prog, sigchld, st, rd, wr, ok>>

(* One semop of lat_sem: down on the partner's, up on its own. *)
SemTrip ==
  /\ pc = "write" /\ prog = "lat_sem"
  /\ Readable(1)
  /\ buf' = [buf EXCEPT ![1] = @ - 1, ![0] = @ + 1]
  /\ Turn(0)
  /\ Goto("loop")
  /\ UNCHANGED <<prog, sigchld, st, rd, wr, ok>>

(* SIGPIPE or exit(1) on a short transfer; lat_unix would clean up, but    *)
(* holds both ends of its pair and never sees one.  Without a partner the  *)
(* descriptors of lat_fifo are none.                                       *)
CtxBreaks ==
  /\ prog = "lat_ctx"
  /\ \/ pc \in {"trip", "write"} /\ Broken(0)
     \/ pc \in {"tripread", "read"} /\ AtEof(procs-1)
PipeBreaks ==
  /\ prog = "lat_pipe"
  /\ \/ pc \in {"trip", "write"} /\ Broken(0)
     \/ pc \in {"tripread", "read"} /\ AtEof(1)
FifoBreaks ==
  /\ prog = "lat_fifo"
  /\ \/ pc \in {"trip", "write"} /\ (0 \notin wr[0] \/ Broken(0))
     \/ pc \in {"tripread", "read"} /\ AtEof(1)
SmallBreaks == prog \in Small /\ pc = "write" /\ Broken(0)

MainGivesUp ==
  /\ CtxBreaks \/ PipeBreaks \/ FifoBreaks \/ SmallBreaks
  /\ MainGone
  /\ UNCHANGED <<prog, sigchld, st, buf, turns, ok>>

(* benchmp_interval starts the next interval.  From its second call on it  *)
(* has set SIGCHLD to default before it called cleanup(iterations).        *)
NextInterval ==
  /\ pc \in {"loop0", "loop"} /\ turns[0] < MaxTrips
  /\ sigchld' = IF pc = "loop0" THEN sigchld ELSE "default"
  /\ Goto("write")
  /\ UNCHANGED <<prog, st, buf, rd, wr, turns, ok>>

(* SIGKILL and waitpid for every daemon, after closing the pipes or not.   *)
KillDaemons ==
  /\ Goto("await")
  /\ st' = [i \in Daemons |-> IF Live(i) THEN "gone" ELSE st[i]]

CtxCleanup ==
  /\ prog = "lat_ctx" /\ KillDaemons
  /\ rd' = [i \in Pipes |-> {}] /\ wr' = [i \in Pipes |-> {}]
PipeCleanup == prog = "lat_pipe" /\ KillDaemons /\ Hold(1, {}, {})
UnixCleanup == prog = "lat_unix" /\ KillDaemons /\ Hold(1, {}, {})
SemCleanup  == prog = "lat_sem"  /\ KillDaemons /\ Hold(1, {}, {})
FcntlCleanup == prog = "lat_fcntl" /\ KillDaemons /\ UNCHANGED <<rd, wr>>

(* lat_fifo closes its ends and sends SIGTERM.  But its partner, forked in *)
(* initialize, has inherited the handler of benchmp's parent, which only   *)
(* sets a flag; waitpid waits for it.                                      *)
FifoCleanup ==
  /\ prog = "lat_fifo"
  /\ Goto("wait") /\ Hold(0, {}, {}) /\ UNCHANGED st

(* The small programs wait for their child, lat_ctx_fixed without the pipes. *)
AllRounds  == prog \in Small /\ turns[0] = MaxTrips
ProcEnds   == prog = "process_vs_thread" /\ AllRounds /\ Goto("wait") /\ UNCHANGED <<st, rd, wr>>
FixedEnds  == prog = "lat_ctx_fixed" /\ AllRounds /\ Goto("wait") /\ Hold(0, {}, {}) /\ UNCHANGED st

(* cleanup(0), after the results. *)
Cleanup ==
  /\ pc = "loop"
  /\ sigchld' = "default"
  /\ CtxCleanup \/ PipeCleanup \/ UnixCleanup \/ SemCleanup \/ FifoCleanup
     \/ FcntlCleanup \/ ProcEnds \/ FixedEnds
  /\ UNCHANGED <<prog, buf, turns, ok>>

(* waitpid for the partner.  (Without one it has nothing to wait for.)     *)
Reap ==
  /\ pc = "wait" /\ ~Live(1)
  /\ Goto("await")
  /\ UNCHANGED <<prog, sigchld, st, buf, rd, wr, turns, ok>>

(* The exit byte of the harness; main returns. *)
Exit ==
  /\ pc = "await"
  /\ MainGone
  /\ UNCHANGED <<prog, sigchld, st, buf, turns, ok>>

----------------------------------------------------------------------------
(* doit and writer: the daemons. *)

(* The children of the small programs make all their rounds and exit. *)
RoundsLeft(i) == prog \in Small => turns[i] < MaxTrips

DaemonRead(i) ==
  /\ st[i] = "read" /\ Readable(i-1) /\ RoundsLeft(i)
  /\ Take(i-1)
  /\ Move(i, "write")
  /\ UNCHANGED <<prog, pc, sigchld, rd, wr, turns, ok>>

(* Mutant of DaemonWrite: the token is handed on twice. *)
DaemonWriteTwice(i) ==
  /\ st[i] = "write" /\ ~Broken(i)
  /\ buf' = [buf EXCEPT ![i] = @ + 2]
  /\ Turn(i)
  /\ Move(i, "read")
  /\ UNCHANGED <<prog, pc, sigchld, rd, wr, ok>>

DaemonWrite(i) ==
  /\ st[i] = "write" /\ ~Broken(i)
  /\ Put(i) /\ Turn(i)
  /\ Move(i, "read")
  /\ UNCHANGED <<prog, pc, sigchld, rd, wr, ok>>

(* A short read ends doit of lat_ctx and the partner of lat_unix, and a    *)
(* failing semop that of lat_sem, which sees none.  The writers of         *)
(* lat_pipe and lat_fifo print a message and read again, for ever.         *)
CtxDoitEnds(i)    == prog = "lat_ctx" /\ st[i] = "read" /\ AtEof(i-1)
UnixEchoEnds(i)   == prog = "lat_unix" /\ st[i] = "read" /\ AtEof(i-1)
FixedChildEnds(i) == prog = "lat_ctx_fixed" /\ st[i] = "read" /\ AtEof(i-1)
AllDone(i)        == prog \in Small /\ st[i] = "read" /\ ~RoundsLeft(i)

(* The child of process_vs_thread takes the end of file for a token.       *)
ProcChildMisreads(i) ==
  /\ prog = "process_vs_thread" /\ st[i] = "read" /\ RoundsLeft(i) /\ AtEof(i-1)
  /\ Move(i, "write")
  /\ UNCHANGED <<prog, pc, sigchld, buf, rd, wr, turns, ok>>

(* SIGPIPE. *)
WriteFails(i)     == prog # "lat_sem" /\ st[i] = "write" /\ Broken(i)

DaemonGivesUp(i) ==
  /\ CtxDoitEnds(i) \/ UnixEchoEnds(i) \/ FixedChildEnds(i) \/ AllDone(i) \/ WriteFails(i)
  /\ DaemonGone(i)
  /\ UNCHANGED <<prog, sigchld, buf, turns, ok>>

----------------------------------------------------------------------------
Main ==
  \/ \E i \in Daemons : Fork(i)
  \/ ForksDone \/ OpenFifo \/ Send \/ Receive \/ ReadUnchecked \/ SemTrip \/ MainGivesUp
  \/ NextInterval \/ Cleanup \/ Reap \/ Exit

Daemon(i) ==
  \/ Settle(i) \/ DaemonRead(i) \/ DaemonWrite(i) \/ DaemonGivesUp(i)
  \/ ProcChildMisreads(i)

Failure ==
  \/ SetupFails \/ CtxForkFails \/ ForkFails \/ MainKilled
  \/ \E i \in Daemons : DaemonKilled(i)

Next == Main \/ Failure \/ \E i \in Daemons : Daemon(i)

Spec == Init /\ [][Next]_vars

(* Every process that can run does; the number of iterations is bounded.   *)
FairSpec ==
  Spec /\ WF_vars(Main)
       /\ \A i \in 1 .. CtxProcs-1 : WF_vars(i \in Daemons /\ Daemon(i))

----------------------------------------------------------------------------
(* Type invariant. *)
TypeOK ==
  /\ prog \in Programs
  /\ pc \in {"setup", "open", "open2", "trip", "tripread", "loop0", "loop",
             "write", "read", "wait", "await", "gone",
             "release1", "release2", "wait2"}
  /\ sigchld \in {"exit", "default"}
  /\ st \in [Daemons -> {"unborn", "new", "open2", "read", "write", "gone",
                      "release2", "wait1", "wait2"}]
  /\ buf \in [Pipes -> 0 .. 1]
  /\ rd \in [Pipes -> SUBSET Pipes] /\ wr \in [Pipes -> SUBSET Pipes]
  /\ turns \in [Pipes -> 0 .. MaxTrips+1]
  /\ ok \in BOOLEAN

(* There is one token: in one pipe, or with one process.  (The hand-over   *)
(* of benchmark, doit and writer.  The child of process_vs_thread goes on  *)
(* without one when its parent has died.)                                  *)
Holders == {i \in Daemons : st[i] = "write"}
OneToken ==
  \/ prog = "process_vs_thread" /\ pc = "gone"
  \/ Cardinality({p \in Pipes : buf[p] > 0}) + Cardinality(Holders) <= 1

(* An iteration that ends has made every process hand on the token exactly *)
(* as often as process 0: the time is divided by a whole rotation.  (The   *)
(* small programs must be left alone for that: one whose partner dies in   *)
(* the last iteration times the end of file.  lat_fcntl is in FcntlLocks.) *)
TripIsRotation ==
  [][pc' = "loop" /\ pc \notin {"loop", "setup"} /\ (prog \in Small => ok)
       /\ prog # "lat_fcntl" => \A i \in Daemons : turns[i] = turns'[0]]_vars

(* Whatever ends process 0 - a failed fork, a signal whose handler finds   *)
(* no daemon, exit(1) - the end of file goes round lat_ctx and ends all    *)
(* its daemons, which hold no end of a pipe but their own two; the child   *)
(* of a small program comes to its end too.  (The partners of the others   *)
(* stay: those of lat_pipe and lat_fifo read again for ever, those of      *)
(* lat_unix, lat_sem and lat_fcntl share all that they wait for.)          *)
ParentDeathNoticed == (prog \in {"lat_ctx"} \cup Small /\ pc = "gone") ~> AllGone

(* Process 0 comes to its end after the death of a daemon, or a fork that  *)
(* failed: by the handler of benchmp until the second call of              *)
(* benchmp_interval, and after it because it has closed, or never opened,  *)
(* the ends of its partner.  The programs of Keepers have not: there a     *)
(* daemon that dies later leaves process 0 waiting for ever, that of       *)
(* lat_ctx in its read of the last pipe.  (After a failed fork lat_pipe,   *)
(* lat_unix and lat_sem wait for themselves.)                              *)
Keepers == {"lat_ctx", "lat_unix", "lat_sem", "lat_fcntl"}
NoPartner ==
  \/ \E i \in Daemons : st[i] = "gone"
  \/ pc # "setup" /\ st[1] = "unborn" /\ prog \notin {"lat_pipe", "lat_unix", "lat_sem"}
PartnerDeathNoticed ==
  NoPartner ~> (pc = "gone" \/ (prog \in Keepers /\ sigchld = "default"))

(* Who is left alone notices, in the programs and at the times named.      *)
DeathNoticed == ParentDeathNoticed /\ PartnerDeathNoticed

(* Left alone, initialize comes through: no side waits for a token or for  *)
(* an open that the other does not make.                                   *)
Starts == <>(pc \in {"loop0", "loop", "gone"} \/ ~ok)

(* Left alone, all programs but lat_fifo finish. *)
Finishes == <>(pc = "gone" \/ ~ok \/ prog = "lat_fifo")

(* Left alone, a program gets through initialize and to its end. *)
ComesThrough == Starts /\ Finishes

(* lmbench.3: "cleanup is called with iterations set to 0 to cleanup any   *)
(* resources which may have been allocated by initialize or benchmark".    *)
CleanupCleans == (pc \in {"wait", "await"} /\ ok) ~> (AllGone \/ ~ok)

(* lat_ctx_fixed.c: "For N>2, forks N-1 children that simply forward the   *)
(* token."                                                                 *)
FixedRingHasN ==
  prog = "lat_ctx_fixed" /\ pc = "write" => Cardinality(Daemons) = CtxProcs - 1
=============================================================================
