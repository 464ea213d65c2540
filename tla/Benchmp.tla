------------------------------ MODULE Benchmp ------------------------------
(***************************************************************************)
(* The timing harness of lmbench (lib_timing.c): __benchmp forks `parallel' *)
(* children and drives them over four pipes through warm-up, measurement,  *)
(* report and exit.  Unless ITERATIONS asks otherwise, the run proper is   *)
(* preceded by a baseline run with one child, by the same code.            *)
(*                                                                         *)
(* The three pipes towards the children carry anonymous bytes and are      *)
(* counters.  The response pipe is a queue of messages: "ready", "done",   *)
(* and a result in two pieces, since a write longer than PIPE_BUF (-N      *)
(* large) need not be atomic.  Times and iteration counts are abstracted:  *)
(* an interval yields a sample or, too short to measure, none.             *)
(***************************************************************************)
EXTENDS Naturals, Sequences, FiniteSets

CONSTANTS
  parallel,                  \* children of the run proper
  repetitions                \* experiments each child has to make
ASSUME BenchmpAssumption == parallel \in Nat \ {0} /\ repetitions \in Nat \ {0}

Children == 1 .. parallel

VARIABLES
  cleanup,                   \* whether the benchmark has a cleanup function
  run,                       \* "baseline" or "real"
  sigterm, saved,            \* the parent's SIGTERM handler, "default" or
                             \* "flag", and the benchmp_sigterm_handler saved
  pc,                        \* where the parent is
  chld, term,                \* benchmp_sigchld_received, _sigterm_received
  got,                       \* answers collected in this phase
  pieces,                    \* pieces of the result being read
  merged,                    \* how often each child's result was merged
  next, alarmed,             \* child to wait for; it has been sent SIGTERM
  st,                        \* where each child is
  reps, samples,             \* its experiments, and those that gave a sample
  pending,                   \* children that only noted a SIGTERM
  startB, resultB, exitB,    \* bytes in the pipes to the children
  response,                  \* the pipe back: <<kind, child>>
  ok                         \* no failure so far (history)

session  == <<cleanup, run, sigterm, saved>>
tables   == <<got, pieces, merged>>
reaping  == <<next, alarmed>>
work     == <<reps, samples>>
toChild  == <<startB, resultB, exitB>>
vars == <<session, pc, chld, term, tables, reaping, st, work, pending, toChild,
          response, ok>>

Team   == 1 .. (IF run = "baseline" THEN 1 ELSE parallel)
Size   == Cardinality(Team)
Forked == {c \in Team : st[c] # "unborn"}
Gone(c) == st[c] = "gone"

Move(c, s)   == st' = [st EXCEPT ![c] = s]
Answer(k, c) == response' = Append(response, <<k, c>>)
Each(x)      == [c \in Children |-> x]

(* What a run starts from. *)
Init ==
  /\ cleanup \in BOOLEAN
  /\ run \in {"baseline", "real"}      \* ITERATIONS > 1: no baseline
  /\ saved \in {"default", "flag"}      \* "flag": benchmp was called before
  /\ sigterm = "flag"
  /\ pc = "fork" /\ chld = FALSE /\ term = FALSE
  /\ got = 0 /\ pieces = << >> /\ merged = Each(0)
  /\ next = 1 /\ alarmed = FALSE
  /\ st = Each("unborn") /\ reps = Each(0) /\ samples = Each(0)
  /\ pending = {}
  /\ startB = 0 /\ resultB = 0 /\ exitB = 0 /\ response = << >>
  /\ ok = TRUE

----------------------------------------------------------------------------
(* Failures and signals. *)

(* SIGCHLD is counted until the parent sets it back to default. *)
Watching == pc \in {"fork", "ready", "start", "done", "ask", "collect", "release"}

(* Mutant of Sigterm: a child never acts on it. *)
SigtermNoted(c) == pending' = pending \cup {c} /\ UNCHANGED st

(* SIGTERM as a child sees it.  While it initializes, the handler it has   *)
(* inherited notes the signal.  After that the handler is                  *)
(* benchmp_child_sigterm, which cleans up and exits, if the one the parent *)
(* saved is the default; otherwise it is the saved one, which notes the    *)
(* signal in a flag nobody looks at any more.                              *)
Sigterm(c) ==
  IF st[c] # "initialize" /\ saved = "default"
    THEN Move(c, "gone") /\ UNCHANGED pending
    ELSE pending' = pending \cup {c} /\ UNCHANGED st

(* A benchmark that cannot go on exits; so does a child without memory, or *)
(* one whose own daemon has died (benchmp_child_sigchld).                  *)
ChildFails(c) ==
  /\ st[c] \in {"initialize", "first", "ready", "warmup", "timing", "cooldown"}
  /\ Move(c, "gone")
  /\ chld' = (chld \/ Watching)
  /\ ok' = FALSE
  /\ UNCHANGED <<session, pc, term, tables, reaping, work, pending, toChild,
                 response>>

(* The user sends SIGTERM to the parent: benchmp_sigterm. *)
UserTerminates ==
  /\ pc \notin {"returned", "killed"} /\ ~term
  /\ term' = TRUE
  /\ ok' = FALSE
  /\ UNCHANGED <<session, pc, chld, tables, reaping, st, work, pending,
                 toChild, response>>

(* ... or kills it outright. *)
ParentKilled ==
  /\ pc \notin {"returned", "killed"}
  /\ pc' = "killed"
  /\ ok' = FALSE
  /\ UNCHANGED <<session, chld, term, tables, reaping, st, work, pending,
                 toChild, response>>

----------------------------------------------------------------------------
(* The parent: __benchmp and benchmp_parent. *)

Fork(c) ==
  /\ pc = "fork" /\ ~term
  /\ c \in Team /\ st[c] = "unborn" /\ \A d \in Team : d < c => st[d] # "unborn"
  /\ Move(c, "initialize")
  /\ UNCHANGED <<session, pc, chld, term, tables, reaping, work, pending,
                 toChild, response, ok>>

(* No pipe, no memory for the pids: __benchmp returns before it forks.     *)
CannotStart ==
  /\ pc = "fork" /\ Forked = {}
  /\ pc' = "returned"
  /\ ok' = FALSE
  /\ UNCHANGED <<session, chld, term, tables, reaping, st, work, pending,
                 toChild, response>>

(* fork fails, or SIGTERM has come. *)
ForkStops ==
  /\ pc = "fork" /\ Forked # Team
  /\ pc' = "unfork" /\ next' = Cardinality(Forked)
  /\ ok' = FALSE
  /\ UNCHANGED <<session, chld, term, tables, alarmed, st, work, pending,
                 toChild, response>>

EnterParent ==
  /\ pc = "fork" /\ Forked = Team
  /\ pc' = IF chld \/ term THEN "error" ELSE "ready"
  /\ UNCHANGED <<session, chld, term, tables, reaping, st, work, pending,
                 toChild, response, ok>>

(* benchmp_parent without memory for its tables returns at once. *)
NoMemory ==
  /\ pc = "ready" /\ got = 0
  /\ pc' = "reap" /\ next' = Size
  /\ ok' = FALSE
  /\ UNCHANGED <<session, chld, term, tables, alarmed, st, work, pending,
                 toChild, response>>

(* The loops that collect one byte from every child. *)
Collect(from, to) ==
  /\ pc = from /\ ~chld /\ ~term
  /\ response # << >> /\ response' = Tail(response)
  /\ LET last == got + 1 = Size
     IN  /\ got' = IF last THEN 0 ELSE got + 1
         /\ pc' = IF last THEN to ELSE from
  /\ UNCHANGED <<session, chld, term, pieces, merged, reaping, st, work,
                 pending, toChild, ok>>

CollectReady == Collect("ready", "start")

(* Mutant of CollectDone: one answer less than there are children. *)
CollectDoneTooFew ==
  /\ pc = "done" /\ ~chld /\ ~term
  /\ response # << >> /\ response' = Tail(response)
  /\ got' = 0 /\ pc' = "ask"
  /\ UNCHANGED <<session, chld, term, pieces, merged, reaping, st, work,
                 pending, toChild, ok>>

CollectDone  == Collect("done", "ask")

SendStart ==
  /\ pc = "start" /\ pc' = "done"
  /\ startB' = Size
  /\ UNCHANGED <<session, chld, term, tables, reaping, st, work, pending,
                 resultB, exitB, response, ok>>

(* Mutant of AskOne: all children are asked at once. *)
AskAll ==
  /\ pc = "ask" /\ pc' = "collect"
  /\ resultB' = IF got = 0 THEN Size ELSE resultB
  /\ UNCHANGED <<session, chld, term, tables, reaping, st, work, pending,
                 startB, exitB, response, ok>>

(* "tell one child to report its results": whoever reads the byte. *)
AskOne ==
  /\ pc = "ask" /\ pc' = "collect"
  /\ resultB' = resultB + 1
  /\ UNCHANGED <<session, chld, term, tables, reaping, st, work, pending,
                 startB, exitB, response, ok>>

(* A result is so many bytes, whoever wrote them; a whole one is merged.   *)
CollectResult ==
  /\ pc = "collect" /\ ~chld /\ ~term
  /\ response # << >> /\ response' = Tail(response)
  /\ IF pieces = << >>
       THEN /\ pieces' = <<Head(response)>>
            /\ UNCHANGED <<pc, got, merged>>
       ELSE LET last == got + 1 = Size
            IN  /\ pieces' = << >>
                /\ merged' = [merged EXCEPT ![pieces[1][2]] = @ + 1]
                /\ got' = IF last THEN 0 ELSE got + 1
                /\ pc' = IF last THEN "release" ELSE "ask"
  /\ UNCHANGED <<session, chld, term, reaping, st, work, pending, toChild, ok>>

(* Mutant of Release: one exit byte too few. *)
ReleaseTooFew ==
  /\ pc = "release" /\ pc' = "reap"
  /\ exitB' = Size - 1
  /\ next' = Size
  /\ UNCHANGED <<session, chld, term, tables, alarmed, st, work, pending,
                 startB, resultB, response, ok>>

(* "we allow children to die now": the exit bytes. *)
Release ==
  /\ pc = "release" /\ pc' = "reap"
  /\ exitB' = Size
  /\ next' = Size
  /\ UNCHANGED <<session, chld, term, tables, alarmed, st, work, pending,
                 startB, resultB, response, ok>>

(* A select loop sees one of the flags. *)
ErrorExit ==
  /\ pc \in {"ready", "done", "collect"} /\ (chld \/ term)
  /\ pc' = "error"
  /\ UNCHANGED <<session, chld, term, tables, reaping, st, work, pending,
                 toChild, response, ok>>

(* waitpid for one child after the other: the error exits of __benchmp     *)
(* (backwards, "unfork") and of benchmp_parent (forwards, "error"), which  *)
(* send SIGTERM first, and cleanup_exit ("reap"), which sends it when an   *)
(* alarm goes off.                                                         *)
Waits == pc \in {"unfork", "error", "reap"} /\ next \in Team

SendSigterm ==
  /\ Waits /\ ~alarmed
  /\ alarmed' = TRUE
  /\ IF Gone(next) THEN UNCHANGED <<st, pending>> ELSE Sigterm(next)
  /\ UNCHANGED <<session, pc, chld, term, tables, next, work, toChild,
                 response, ok>>

(* Mutant of WaitOne: it goes on after the signal. *)
WaitNot ==
  /\ Waits /\ (pc = "reap" \/ alarmed)
  /\ next' = IF pc = "error" THEN next + 1 ELSE next - 1
  /\ alarmed' = FALSE
  /\ UNCHANGED <<session, pc, chld, term, tables, st, work, pending, toChild,
                 response, ok>>

WaitOne ==
  /\ Waits /\ Gone(next) /\ (pc = "reap" \/ alarmed)
  /\ next' = IF pc = "error" THEN next + 1 ELSE next - 1
  /\ alarmed' = FALSE
  /\ UNCHANGED <<session, pc, chld, term, tables, st, work, pending, toChild,
                 response, ok>>

(* gettime() of the baseline run: it delivered a sample. *)
Timed == \E c \in Team : merged[c] > 0 /\ samples[c] > 0

Through == pc \in {"unfork", "error", "reap"} /\ next \notin Team

(* The run proper starts: new pipes, flags reset, no child.  It saves as   *)
(* previous handler the one the baseline run installed.                    *)
StartReal ==
  /\ Through /\ run = "baseline" /\ Timed
  /\ run' = "real" /\ saved' = sigterm /\ sigterm' = "flag"
  /\ pc' = "fork" /\ chld' = FALSE /\ term' = FALSE
  /\ got' = 0 /\ pieces' = << >> /\ merged' = Each(0)
  /\ next' = 1 /\ alarmed' = FALSE
  /\ st' = Each("unborn") /\ reps' = Each(0) /\ samples' = Each(0)
  /\ pending' = {}
  /\ startB' = 0 /\ resultB' = 0 /\ exitB' = 0 /\ response' = << >>
  /\ UNCHANGED <<cleanup, ok>>

Return ==
  /\ Through /\ ~(run = "baseline" /\ Timed)
  /\ pc' = "returned"
  /\ UNCHANGED <<session, chld, term, tables, reaping, st, work, pending,
                 toChild, response, ok>>

----------------------------------------------------------------------------
(* A child: benchmp_child and benchmp_interval. *)

Orphan == pc = "killed"

(* initialize is through and the handlers are set; a SIGTERM noted before  *)
(* that is obeyed now.                                                     *)
Enter(c) ==
  /\ st[c] = "initialize"
  /\ Move(c, IF c \in pending THEN "gone" ELSE "first")
  /\ UNCHANGED <<session, pc, chld, term, tables, reaping, work, pending,
                 toChild, response, ok>>

(* benchmp_interval in state warmup.  The first call sends `ready', later  *)
(* ones look for the start byte; the end of file a dead parent leaves      *)
(* looks like one.                                                         *)
Ready(c) ==
  /\ st[c] = "first" /\ ~Orphan
  /\ Move(c, "ready")
  /\ Answer("ready", c)
  /\ UNCHANGED <<session, pc, chld, term, tables, reaping, work, pending,
                 toChild, ok>>

(* It runs the benchmark for the first time. *)
WarmUp(c) ==
  /\ st[c] = "ready"
  /\ Move(c, "warmup")
  /\ UNCHANGED <<session, pc, chld, term, tables, reaping, work, pending,
                 toChild, response, ok>>

(* Mutant of Start: the child does not wait for its byte. *)
StartAtOnce(c) ==
  /\ st[c] = "warmup"
  /\ Move(c, "timing")
  /\ UNCHANGED <<session, pc, chld, term, tables, reaping, work, pending,
                 toChild, response, ok>>

Start(c) ==
  /\ st[c] = "warmup" /\ (startB > 0 \/ Orphan)
  /\ Move(c, "timing")
  /\ startB' = IF startB > 0 THEN startB - 1 ELSE 0
  /\ UNCHANGED <<session, pc, chld, term, tables, reaping, work, pending,
                 resultB, exitB, response, ok>>

(* The last experiment is announced. *)
Finish(c) == Move(c, "cooldown") /\ Answer("done", c)

(* Mutant of Experiment: one repetition too many. *)
ExperimentTooMany(c) ==
  /\ st[c] = "timing" /\ ~Orphan
  /\ reps' = [reps EXCEPT ![c] = @ + 1]
  /\ \E s \in {0, 1} : samples' = [samples EXCEPT ![c] = @ + s]
  /\ IF reps[c] >= repetitions THEN Finish(c) ELSE UNCHANGED <<st, response>>
  /\ UNCHANGED <<session, pc, chld, term, tables, reaping, pending, toChild, ok>>

Experiment(c) ==
  /\ st[c] = "timing" /\ ~Orphan
  /\ reps' = [reps EXCEPT ![c] = @ + 1]
  /\ \E s \in {0, 1} : samples' = [samples EXCEPT ![c] = @ + s]
  /\ IF reps[c] + 1 >= repetitions THEN Finish(c) ELSE UNCHANGED <<st, response>>
  /\ UNCHANGED <<session, pc, chld, term, tables, reaping, pending, toChild, ok>>

(* Calibration gives up: more than 2^27 iterations are too short. *)
GiveUp(c) ==
  /\ st[c] = "timing" /\ ~Orphan /\ run = "baseline"
  /\ Finish(c)
  /\ UNCHANGED <<session, pc, chld, term, tables, reaping, work, pending,
                 toChild, ok>>

(* In cooldown it keeps the others company until it sees a result byte,    *)
(* and then blocks for it.                                                 *)
SeesResult(c) ==
  /\ st[c] = "cooldown" /\ (resultB > 0 \/ Orphan)
  /\ Move(c, "asked")
  /\ UNCHANGED <<session, pc, chld, term, tables, reaping, work, pending,
                 toChild, response, ok>>

(* Mutant of Report: the byte is left for the next child. *)
ReportUnasked(c) ==
  /\ st[c] = "asked" /\ ~Orphan
  /\ Answer("result", c)
  /\ Move(c, "reporting")
  /\ UNCHANGED <<session, pc, chld, term, tables, reaping, work, pending,
                 toChild, ok>>

Report(c) ==
  /\ st[c] = "asked" /\ ~Orphan
  /\ resultB > 0 /\ resultB' = resultB - 1
  /\ Answer("result", c)
  /\ Move(c, "reporting")
  /\ UNCHANGED <<session, pc, chld, term, tables, reaping, work, pending,
                 startB, exitB, ok>>

ReportRest(c) ==
  /\ st[c] = "reporting" /\ ~Orphan
  /\ Answer("result", c)
  /\ Move(c, "reported")
  /\ UNCHANGED <<session, pc, chld, term, tables, reaping, work, pending,
                 toChild, ok>>

Exit(c) ==
  /\ st[c] = "reported" /\ (exitB > 0 \/ Orphan)
  /\ exitB' = IF exitB > 0 THEN exitB - 1 ELSE 0
  /\ Move(c, "gone")
  /\ UNCHANGED <<session, pc, chld, term, tables, reaping, work, pending,
                 startB, resultB, response, ok>>

(* Mutant of OrphanLeaves: a write that fails does not matter. *)
OrphanStays(c) ==
  /\ Orphan /\ cleanup /\ st[c] \in {"first", "warmup"}
  /\ Move(c, "gone")
  /\ UNCHANGED <<session, pc, chld, term, tables, reaping, work, pending,
                 toChild, response, ok>>

(* A child whose parent has died.  getppid() tells one that has a cleanup  *)
(* function; the others get SIGPIPE when they next write an answer.        *)
OrphanLeaves(c) ==
  /\ Orphan
  /\ \/ cleanup /\ st[c] \in {"first", "warmup", "timing", "cooldown"}
     \/ st[c] \in {"first", "timing", "asked", "reporting"}
  /\ Move(c, "gone")
  /\ UNCHANGED <<session, pc, chld, term, tables, reaping, work, pending,
                 toChild, response, ok>>

----------------------------------------------------------------------------
Parent ==
  \/ \E c \in Children : Fork(c)
  \/ EnterParent \/ CollectReady \/ SendStart \/ CollectDone
  \/ AskOne \/ CollectResult \/ Release \/ ErrorExit
  \/ SendSigterm \/ WaitOne \/ StartReal \/ Return

Child(c) ==
  \/ Enter(c) \/ Ready(c) \/ WarmUp(c) \/ Start(c) \/ Experiment(c) \/ GiveUp(c)
  \/ SeesResult(c) \/ Report(c) \/ ReportRest(c) \/ Exit(c) \/ OrphanLeaves(c)

Failure ==
  \/ CannotStart \/ ForkStops \/ NoMemory \/ UserTerminates \/ ParentKilled
  \/ \E c \in Children : ChildFails(c)

Next == Parent \/ Failure \/ \E c \in Children : Child(c)

Spec == Init /\ [][Next]_vars

(* Every process runs: the kernel schedules them all, a benchmark body and *)
(* calibration come to an end, alarms go off.  Failures need not happen.   *)
(* A parent that has seen SIGTERM in its fork loop leaves it.              *)
FairSpec ==
  /\ Spec
  /\ WF_vars(Parent) /\ WF_vars(ForkStops /\ term)
  /\ \A c \in Children : WF_vars(Child(c))

----------------------------------------------------------------------------
(* Type invariant. *)
Kinds == {"ready", "done", "result"}
TypeOK ==
  /\ cleanup \in BOOLEAN
  /\ run \in {"baseline", "real"}
  /\ sigterm = "flag" /\ saved \in {"default", "flag"}
  /\ pc \in {"fork", "ready", "start", "done", "ask", "collect", "release",
             "unfork", "error", "reap", "returned", "killed"}
  /\ chld \in BOOLEAN /\ term \in BOOLEAN /\ ok \in BOOLEAN
  /\ got \in 0 .. parallel /\ pieces \in Seq(Kinds \X Children)
  /\ merged \in [Children -> Nat]
  /\ next \in 0 .. parallel + 1 /\ alarmed \in BOOLEAN
  /\ st \in [Children -> {"unborn", "initialize", "first", "ready", "warmup",
                          "timing", "cooldown", "asked", "reporting", "reported", "gone"}]
  /\ reps \in [Children -> 0 .. repetitions]
  /\ samples \in [Children -> 0 .. repetitions]
  /\ pending \subseteq Children
  /\ startB \in 0 .. parallel /\ resultB \in 0 .. parallel
  /\ exitB \in 0 .. parallel
  /\ response \in Seq(Kinds \X Children)

(* While the parent lives, a child measures only when all of its team have *)
(* said that they are ready.  (Which they do before they have called the   *)
(* benchmark for the first time, lib_timing.c:767, so that one may measure *)
(* while another is still in its first warm-up.)                           *)
(* (benchmp_parent, "Collect 'ready' signals", and benchmp_interval.)      *)
Measuring == {"timing", "cooldown", "asked", "reporting", "reported"}
StartTogether ==
  pc # "killed" /\ (\E c \in Team : st[c] \in Measuring)
    => \A d \in Team : st[d] \notin {"unborn", "initialize", "first"}

(* "At this point all children have stopped their measurement loops": when *)
(* a child blocks for its result byte nobody is still measuring.           *)
(* (benchmp_interval, state cooldown.)                                     *)
QuietWhenReporting ==
  pc # "killed" /\ (\E c \in Team : st[c] \in {"asked", "reporting", "reported"})
    => \A d \in Team : st[d] # "timing"

(* The bytes of one result_t come from one child, although all children    *)
(* write to the same pipe and no byte says whose it is.  (The one-by-one   *)
(* hand-over in benchmp_parent, "collect results".)                        *)
ResultsWhole ==
  /\ Len(pieces) = 1 /\ response # << >> /\ pc = "collect"
       => Head(response)[2] = pieces[1][2]
  /\ pc = "collect" => \A i \in 1 .. Len(response) : response[i][1] = "result"

(* The exit bytes are sent when every child's result has been merged, each *)
(* once: none is lost, none counted twice.                                 *)
EachMergedOnce ==
  pc = "release" => \A c \in Team : merged[c] = 1

(* The phases of a run do not overlap: nobody measures before all have     *)
(* said they are ready, or while somebody reports.                         *)
PhasesInStep == TypeOK /\ StartTogether /\ QuietWhenReporting

(* What benchmp merges is one whole result of each child. *)
ResultsMerged == ResultsWhole /\ EachMergedOnce

(* __benchmp returns only when it has left no child behind. *)
NobodyLeftBehind == pc = "returned" => \A c \in Children : st[c] \in {"unborn", "gone"}

(* Unless something fails, benchmp comes back: no hand-over of the         *)
(* protocol can be missed.                                                 *)
HealthyRunReturns == <>(pc = "returned" \/ ~ok)

(* In a run with the default handler saved (the baseline, or ITERATIONS    *)
(* given) it comes back whatever fails, unless it is killed.               *)
FailedBaselineReturns ==
  (saved = "default" /\ ~ok) ~> (pc \in {"returned", "killed"} \/ saved = "flag")

(* benchmp comes back when nothing fails, and when the baseline does. *)
ComesBack == HealthyRunReturns /\ FailedBaselineReturns

(* When the parent is killed no child stays: getppid() or SIGPIPE ends it. *)
OrphansLeave == pc = "killed" ~> \A c \in Children : st[c] \in {"unborn", "gone"}

(* lmbench3.ms, "Coordination": "ensure that all children have started     *)
(* executing the benchmarked operation before any child starts taking      *)
(* measurements."                                                          *)
StartedBeforeMeasured ==
  pc # "killed" /\ (\E c \in Team : st[c] = "timing")
    => \A d \in Team : st[d] \notin {"unborn", "initialize", "first", "ready"}

(* The comment before cleanup_exit: "If they haven't died by that time,    *)
(* then we start killing them."  So benchmp always comes back.             *)
AlwaysReturns == <>(pc \in {"returned", "killed"})
=============================================================================
