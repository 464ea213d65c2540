---------------------------- MODULE BenchmpProofs ----------------------------
(***************************************************************************)
(* Proofs about the timing harness of lmbench, for every number of         *)
(* children and of repetitions, and whatever fails; and about the memory   *)
(* and file programs that run in it, for every size and every measurement. *)
(***************************************************************************)
EXTENDS Benchmp, FileBench, WellFoundedInduction, FiniteSetTheorems, SequenceTheorems,
        TLAPS

TeamSize == IF run = "baseline" THEN 1 ELSE parallel
Where == {"unborn", "initialize", "first", "ready", "warmup", "timing", "cooldown",
          "asked", "reporting", "reported", "gone"}
Absent(c) == st[c] \in {"unborn", "gone"}

Typed ==
  /\ run \in {"baseline", "real"}
  /\ st \in [Children -> Where]
  /\ next \in Nat

(* Nobody forks a child that is not of the team. *)
TeamOnly == \A c \in Children : c > TeamSize => st[c] = "unborn"

(* The children are forked in order. *)
ForkedInOrder ==
  pc = "fork" => \E f \in 0 .. TeamSize : \A c \in Team : st[c] = "unborn" <=> c > f

(* Who has been waited for is not there any more: every loop of waitpid    *)
(* begins at one end of the children that exist and leaves none out.       *)
WaitedFor ==
  /\ pc \in {"fork", "ready", "start", "done", "ask", "collect", "release"} => next = 1
  /\ pc \in {"unfork", "reap"} =>
       next <= TeamSize /\ \A c \in Team : c > next => Absent(c)
  /\ pc = "error" => next >= 1 /\ \A c \in Team : c < next => Absent(c)

IInv == Typed /\ TeamOnly /\ ForkedInOrder /\ WaitedFor /\ NobodyLeftBehind

LEMMA TeamFacts ==
  ASSUME Typed
  PROVE  /\ TeamSize \in Nat \ {0} /\ TeamSize <= parallel /\ parallel \in Nat
         /\ Team = 1 .. TeamSize /\ Team \subseteq Children /\ Size = TeamSize
         /\ \A c \in Children : c \in Nat /\ c >= 1 /\ (c \in Team <=> c <= TeamSize)
<1>1. TeamSize \in Nat \ {0} /\ TeamSize <= parallel /\ parallel \in Nat
  BY BenchmpAssumption DEF TeamSize, Typed
<1>2. Team = 1 .. TeamSize
  BY DEF Team, TeamSize
<1>3. Size = TeamSize
  BY <1>1, <1>2, FS_Interval DEF Size
<1> QED
  BY <1>1, <1>2, <1>3 DEF Children

LEMMA InitHolds == Init => IInv
<1> SUFFICES ASSUME Init PROVE IInv
  OBVIOUS
<1>1. /\ Typed /\ \A c \in Children : st[c] = "unborn"
      /\ pc = "fork" /\ next = 1
  BY DEF Init, Typed, Each, Where
<1>2. ForkedInOrder
  <2>1. 0 \in 0 .. TeamSize /\ \A c \in Team : st[c] = "unborn" /\ c > 0
    BY <1>1, TeamFacts
  <2> QED
    BY <2>1 DEF ForkedInOrder
<1> QED
  BY <1>1, <1>2 DEF IInv, TeamOnly, WaitedFor, NobodyLeftBehind

(* A child that is there goes on, or goes. *)
LEMMA ChildMoves ==
  ASSUME IInv, NEW c \in Children, NEW s \in Where \ {"unborn"},
         ~Absent(c), Move(c, s), UNCHANGED <<run, pc, next>>
  PROVE  IInv'
<1>1. /\ st' \in [Children -> Where] /\ st'[c] = s
      /\ \A d \in Children : d # c => st'[d] = st[d]
  BY DEF IInv, Typed, Move
<1>2. Typed' /\ TeamSize' = TeamSize /\ Team' = Team
  BY <1>1 DEF IInv, Typed, TeamSize, Team
<1>3. \A d \in Children : Absent(d) => st'[d] = st[d]
  BY <1>1 DEF Absent
<1>4. \A d \in Children : st'[d] = "unborn" <=> st[d] = "unborn"
  BY <1>1 DEF Absent
<1>5. TeamOnly'
  BY <1>2, <1>4 DEF IInv, TeamOnly
<1>6. ForkedInOrder'
  <2> SUFFICES ASSUME pc = "fork"
               PROVE  \E f \in 0 .. TeamSize' : \A d \in Team' : st'[d] = "unborn" <=> d > f
    BY DEF ForkedInOrder
  <2>1. PICK f \in 0 .. TeamSize : \A d \in Team : st[d] = "unborn" <=> d > f
    BY DEF IInv, ForkedInOrder
  <2>2. \A d \in Team : st'[d] = "unborn" <=> d > f
    BY <1>4, <2>1, TeamFacts DEF IInv
  <2> QED
    BY <1>2, <2>2
<1>7. WaitedFor'
  BY <1>2, <1>3, TeamFacts DEF IInv, WaitedFor, Absent
<1>8. NobodyLeftBehind'
  BY <1>3 DEF IInv, NobodyLeftBehind, Absent
<1> QED
  BY <1>2, <1>5, <1>6, <1>7, <1>8 DEF IInv

(* The parent goes on within the protocol. *)
LEMMA ParentMoves ==
  ASSUME IInv, UNCHANGED <<run, st, next>>,
         pc \in {"fork", "ready", "start", "done", "ask", "collect", "release"},
         pc' \in {"ready", "start", "done", "ask", "collect", "release", "error"}
  PROVE  IInv'
<1>1. Typed' /\ TeamSize' = TeamSize /\ Team' = Team /\ next = 1
  BY DEF IInv, Typed, TeamSize, Team, WaitedFor
<1>2. WaitedFor'
  BY <1>1, TeamFacts DEF IInv, WaitedFor
<1> QED
  BY <1>1, <1>2 DEF IInv, TeamOnly, ForkedInOrder, NobodyLeftBehind

(* Flags and tables do not matter. *)
LEMMA NothingMoves ==
  ASSUME IInv, UNCHANGED <<run, st, next, pc>>
  PROVE  IInv'
  BY DEF IInv, Typed, TeamSize, Team, TeamOnly, ForkedInOrder, WaitedFor, NobodyLeftBehind,
     Absent

LEMMA ChildFailsStep == ASSUME IInv, NEW c \in Children, ChildFails(c) PROVE IInv'
  BY ChildMoves DEF ChildFails, Absent, Where, session, reaping

LEMMA ParentKilledStep == ASSUME IInv, ParentKilled PROVE IInv'
  BY DEF ParentKilled, session, reaping,
         IInv, Typed, TeamSize, TeamOnly, ForkedInOrder, WaitedFor, NobodyLeftBehind

LEMMA ForkStep == ASSUME IInv, NEW c \in Children, Fork(c) PROVE IInv'
<1>1. /\ st' \in [Children -> Where] /\ st'[c] = "initialize"
      /\ \A d \in Children : d # c => st'[d] = st[d]
  BY DEF IInv, Typed, Move, Fork, Where
<1>2. Typed' /\ TeamSize' = TeamSize /\ Team' = Team
  BY <1>1 DEF IInv, Typed, TeamSize, Team, Fork, session, reaping
<1>3. /\ c \in Team /\ pc = "fork" /\ pc' = "fork" /\ next' = next /\ st[c] = "unborn"
      /\ \A d \in Team : d < c => st[d] # "unborn"
  BY DEF Fork, reaping
<1>4. TeamOnly'
  BY <1>1, <1>2, <1>3, TeamFacts DEF IInv, TeamOnly
<1>5. ForkedInOrder'
  <2>1. PICK f \in 0 .. TeamSize : \A d \in Team : st[d] = "unborn" <=> d > f
    BY <1>3 DEF IInv, ForkedInOrder
  <2>2. c = f + 1
    <3>1. c > f /\ c \in Nat /\ f \in Nat
      BY <1>3, <2>1, TeamFacts DEF IInv
    <3>2. CASE f + 1 < c
      <4>1. f + 1 \in Team
        BY <1>3, <3>1, <3>2, TeamFacts DEF IInv
      <4> QED
        BY <1>3, <2>1, <3>1, <3>2, <4>1
    <3> QED
      BY <3>1, <3>2
  <2>3. c \in 0 .. TeamSize
    BY <1>3, TeamFacts DEF IInv
  <2>4. \A d \in Team : st'[d] = "unborn" <=> d > c
    BY <1>1, <2>1, <2>2, TeamFacts DEF IInv
  <2> QED
    BY <1>2, <2>3, <2>4 DEF ForkedInOrder
<1> QED
  BY <1>2, <1>3, <1>4, <1>5 DEF IInv, WaitedFor, NobodyLeftBehind

LEMMA CannotStartStep == ASSUME IInv, CannotStart PROVE IInv'
<1>1. /\ pc' = "returned" /\ UNCHANGED <<run, st, next>> /\ \A c \in Team : st[c] = "unborn"
  BY DEF CannotStart, Forked, session, reaping
<1>2. \A c \in Children : st[c] = "unborn"
  BY <1>1, TeamFacts DEF IInv, TeamOnly
<1> QED
  BY <1>1, <1>2 DEF IInv, Typed, TeamSize, TeamOnly, ForkedInOrder, WaitedFor, NobodyLeftBehind

LEMMA ForkStopsStep == ASSUME IInv, ForkStops PROVE IInv'
<1>1. PICK f \in 0 .. TeamSize : \A d \in Team : st[d] = "unborn" <=> d > f
  BY DEF ForkStops, IInv, ForkedInOrder
<1>2. /\ TeamSize \in Nat /\ f \in Nat /\ f <= TeamSize /\ Team = 1 .. TeamSize
  BY TeamFacts DEF IInv
<1>3. Forked = 1 .. f
  BY <1>1, <1>2 DEF Forked
<1>4. Cardinality(Forked) = f
  BY <1>2, <1>3, FS_Interval
<1>5. pc' = "unfork" /\ next' = f /\ UNCHANGED <<run, st>>
  BY <1>4 DEF ForkStops, session
<1>6. Typed' /\ TeamSize' = TeamSize /\ Team' = Team
  BY <1>2, <1>5 DEF IInv, Typed, TeamSize, Team
<1>7. WaitedFor'
  BY <1>1, <1>2, <1>5, <1>6 DEF WaitedFor, Absent
<1> QED
  BY <1>5, <1>6, <1>7 DEF IInv, TeamOnly, ForkedInOrder, NobodyLeftBehind

(* The loop of cleanup_exit begins at the last child. *)
LEMMA ReapStarts ==
  ASSUME IInv, pc' = "reap", next' = Size, UNCHANGED <<run, st>>
  PROVE  IInv'
<1>1. Typed' /\ TeamSize' = TeamSize /\ Team' = Team /\ next' = TeamSize
  BY TeamFacts DEF IInv, Typed, TeamSize, Team
<1>2. WaitedFor'
  BY <1>1, TeamFacts DEF IInv, WaitedFor
<1> QED
  BY <1>1, <1>2 DEF IInv, TeamOnly, ForkedInOrder, NobodyLeftBehind

LEMMA SendSigtermStep == ASSUME IInv, SendSigterm PROVE IInv'
<1>1. UNCHANGED <<run, pc, next>> /\ next \in Children
  BY TeamFacts DEF IInv, SendSigterm, Waits, session
<1>2. CASE st' = st
  BY <1>1, <1>2, NothingMoves
<1>3. CASE st' # st /\ st[next] # "unborn"
  <2>1. Move(next, "gone") /\ ~Absent(next)
    BY <1>3 DEF SendSigterm, Sigterm, Gone, Absent
  <2> QED
    BY <1>1, <2>1, ChildMoves DEF Where
<1>4. CASE st' # st /\ st[next] = "unborn"
  <2>1. /\ st' \in [Children -> Where] /\ st'[next] = "gone"
        /\ \A d \in Children : d # next => st'[d] = st[d]
        /\ pc \in {"unfork", "error", "reap"} /\ next \in Team
    BY <1>1, <1>4 DEF IInv, Typed, SendSigterm, Sigterm, Move, Waits, Where
  <2>2. Typed' /\ TeamSize' = TeamSize /\ Team' = Team
    BY <1>1, <2>1 DEF IInv, Typed, TeamSize, Team
  <2>3. TeamOnly' /\ WaitedFor'
    BY <1>1, <2>1, <2>2, TeamFacts DEF IInv, TeamOnly, WaitedFor, Absent
  <2> QED
    BY <1>1, <2>1, <2>2, <2>3 DEF IInv, ForkedInOrder, NobodyLeftBehind
<1> QED
  BY <1>2, <1>3, <1>4

LEMMA WaitOneStep == ASSUME IInv, WaitOne PROVE IInv'
<1>1. /\ UNCHANGED <<run, pc, st>> /\ next \in Team /\ st[next] = "gone"
      /\ pc \in {"unfork", "error", "reap"}
      /\ next' = IF pc = "error" THEN next + 1 ELSE next - 1
  BY DEF WaitOne, Waits, Gone, session
<1>2. next \in Nat /\ next >= 1 /\ next <= TeamSize /\ TeamSize \in Nat
  BY <1>1, TeamFacts DEF IInv
<1>3. Typed' /\ TeamSize' = TeamSize /\ Team' = Team
  BY <1>1, <1>2 DEF IInv, Typed, TeamSize, Team
<1>4. \A c \in Team : c \in Nat
  BY TeamFacts DEF IInv
<1>5. WaitedFor'
  BY <1>1, <1>2, <1>3, <1>4 DEF IInv, WaitedFor, Absent
<1> QED
  BY <1>1, <1>3, <1>5 DEF IInv, TeamOnly, ForkedInOrder, NobodyLeftBehind

(* When a loop of waitpid is through, no child is there. *)
LEMMA ThroughMeansAlone ==
  ASSUME IInv, Through, NEW c \in Children
  PROVE  Absent(c)
<1>1. CASE c \notin Team
  BY <1>1, TeamFacts DEF IInv, TeamOnly, Absent
<1>2. CASE c \in Team
  <2>1. next \in Nat /\ next \notin 1 .. TeamSize /\ TeamSize \in Nat /\ c \in 1 .. TeamSize
    BY <1>2, TeamFacts DEF IInv, Typed, Through
  <2>2. CASE pc = "error"
    BY <1>2, <2>1, <2>2 DEF IInv, WaitedFor
  <2>3. CASE pc \in {"unfork", "reap"}
    BY <1>2, <2>1, <2>3 DEF IInv, WaitedFor
  <2> QED
    BY <2>2, <2>3 DEF Through
<1> QED
  BY <1>1, <1>2

LEMMA StartRealStep == ASSUME IInv, StartReal PROVE IInv'
<1>1. /\ run' = "real" /\ pc' = "fork" /\ next' = 1
      /\ st' \in [Children -> Where] /\ \A c \in Children : st'[c] = "unborn"
  BY DEF StartReal, Each, Where
<1>2. Typed'
  BY <1>1 DEF Typed
<1>3. TeamSize' = parallel /\ Team' = Children /\ parallel \in Nat
  BY <1>1, BenchmpAssumption DEF TeamSize, Team, Children
<1>4. ForkedInOrder'
  <2>1. 0 \in 0 .. TeamSize' /\ \A c \in Team' : st'[c] = "unborn" /\ c > 0
    BY <1>1, <1>3 DEF Children
  <2> QED
    BY <2>1 DEF ForkedInOrder
<1> QED
  BY <1>1, <1>2, <1>4 DEF IInv, TeamOnly, WaitedFor, NobodyLeftBehind

LEMMA ReturnStep == ASSUME IInv, Return PROVE IInv'
<1>1. pc' = "returned" /\ UNCHANGED <<run, st, next>> /\ Through
  BY DEF Return, session, reaping
<1>2. \A c \in Children : Absent(c)
  BY <1>1, ThroughMeansAlone
<1> QED
  BY <1>1, <1>2 DEF IInv, Typed, TeamSize, TeamOnly, ForkedInOrder, WaitedFor,
                    NobodyLeftBehind, Absent

LEMMA ParentStep == ASSUME IInv, Parent PROVE IInv'
<1>1. CASE EnterParent \/ SendStart \/ AskOne \/ ErrorExit
  BY <1>1, ParentMoves DEF EnterParent, SendStart, AskOne, ErrorExit, session, reaping
<1>2. CASE CollectReady \/ CollectDone
  BY <1>2, ParentMoves DEF CollectReady, CollectDone, Collect, session, reaping
<1>3. CASE CollectResult
  BY <1>3, ParentMoves DEF CollectResult, session, reaping
<1>4. CASE Release
  BY <1>4, ReapStarts DEF Release, session
<1> QED
  BY <1>1, <1>2, <1>3, <1>4, ForkStep, SendSigtermStep, WaitOneStep, StartRealStep, ReturnStep
     DEF Parent

LEMMA ChildStep == ASSUME IInv, NEW c \in Children, Child(c) PROVE IInv'
<1> USE DEF Absent, Where, session, reaping
<1>1. CASE Enter(c) \/ Ready(c) \/ WarmUp(c) \/ Start(c)
  BY <1>1, ChildMoves DEF Enter, Ready, WarmUp, Start
<1>2. CASE Experiment(c) \/ GiveUp(c)
  BY <1>2, ChildMoves, NothingMoves DEF Experiment, GiveUp, Finish
<1>3. CASE SeesResult(c) \/ Report(c) \/ ReportRest(c) \/ Exit(c) \/ OrphanLeaves(c)
  BY <1>3, ChildMoves DEF SeesResult, Report, ReportRest, Exit, OrphanLeaves
<1> QED
  BY <1>1, <1>2, <1>3 DEF Child

LEMMA FailureStep == ASSUME IInv, Failure PROVE IInv'
<1>1. CASE UserTerminates
  BY <1>1, NothingMoves DEF UserTerminates, session, reaping
<1>2. CASE NoMemory
  BY <1>2, ReapStarts DEF NoMemory, session
<1> QED
  BY <1>1, <1>2, CannotStartStep, ForkStopsStep, ParentKilledStep, ChildFailsStep
     DEF Failure

LEMMA StepHolds == IInv /\ [Next]_vars => IInv'
<1>1. IInv /\ UNCHANGED vars => IInv'
  BY NothingMoves DEF vars, session, reaping
<1> QED
  BY <1>1, ParentStep, FailureStep, ChildStep DEF Next

LEMMA Inductive == Spec => []IInv
  BY InitHolds, StepHolds, PTL DEF Spec

(***************************************************************************)
(* __benchmp returns only when every child it has forked is gone, however  *)
(* many it was to fork, whichever fork, child or allocation fails, and     *)
(* whenever somebody sends SIGTERM.                                        *)
(***************************************************************************)
THEOREM BenchmpLeavesNobody == Spec => []NobodyLeftBehind
<1>1. IInv => NobodyLeftBehind
  BY DEF IInv
<1> QED
  BY <1>1, Inductive, PTL

----------------------------------------------------------------------------
(***************************************************************************)
(* The hand-overs, for every number of children and of repetitions and     *)
(* whatever fails: the phases of a run do not overlap, and each child's    *)
(* result is merged whole and once.                                        *)
(*                                                                         *)
(* The pipes are anonymous, so the proof counts: while no failure has been *)
(* noted, the answers collected and those in the pipe are as many as the   *)
(* children that have come that far, and one result at a time is on its    *)
(* way.                                                                    *)
(***************************************************************************)

NotReady == {"unborn", "initialize", "first"}
Warm     == {"ready", "warmup"}
Driving  == {"fork", "ready", "start", "done", "ask", "collect", "release"}
Sent(S)  == {c \in Team : st[c] \in S}

(* A reply has been collected or is in the pipe for every child in S. *)
Counted(S) == got + Len(response) = Cardinality(Sent(S))

(* What a child has left to do, and what has become of its samples. *)
WorkFits ==
  \A c \in Children :
    /\ samples[c] <= reps[c]
    /\ st[c] \in NotReady \cup Warm => reps[c] = 0
    /\ st[c] = "timing" => reps[c] < repetitions

(* As long as the parent drives the protocol, only a failure it has been   *)
(* told of takes a child away.                                             *)
NoneGone ==
  pc \in Driving => /\ pending = {} /\ exitB = 0
                    /\ ~chld => \A c \in Team : st[c] # "gone"

(* No result is asked for before the children are through. *)
Unasked ==
  pc \in {"fork", "ready", "start", "done"} =>
    resultB = 0 /\ pieces = << >> /\ \A c \in Children : merged[c] = 0

ReadyPhase ==
  pc \in {"fork", "ready"} =>
    /\ startB = 0
    /\ \A c \in Team : st[c] \in NotReady \cup Warm \cup {"gone"}
    /\ ~chld => Counted(Warm)

StartPhase ==
  pc = "start" =>
    /\ startB = 0 /\ got = 0 /\ response = << >>
    /\ \A c \in Team : st[c] \in Warm \cup {"gone"}

DonePhase ==
  pc = "done" =>
    /\ \A c \in Team : st[c] \in Warm \cup {"timing", "cooldown", "gone"}
    /\ ~chld => Counted({"cooldown"})

(* A child whose result is not on its way: it has been merged or not begun. *)
Settled(c) ==
  /\ st[c] \in {"cooldown", "asked", "reported", "gone"}
  /\ merged[c] = IF st[c] = "reported" THEN 1 ELSE 0

NobodyReports ==
  /\ response = << >> /\ pieces = << >>
  /\ \A c \in Team : Settled(c)
  /\ got = Cardinality(Sent({"reported"}))

(* The result of child c is on its way, in so many pieces. *)
OneReports(c) ==
  /\ st[c] \in {"reporting", "reported"} /\ merged[c] = 0
  /\ \A d \in Team \ {c} : Settled(d)
  /\ got = Cardinality(Sent({"reported"}) \ {c})
  /\ \A i \in 1 .. Len(response) : response[i] = <<"result", c>>
  /\ \A i \in 1 .. Len(pieces) : pieces[i] = <<"result", c>>
  /\ Len(pieces) <= 1
  /\ Len(pieces) + Len(response) = IF st[c] = "reported" THEN 2 ELSE 1

AskPhase == pc = "ask" => got < Size /\ resultB = 0 /\ NobodyReports

CollectPhase ==
  pc = "collect" =>
    /\ got < Size
    /\ \/ resultB = 1 /\ NobodyReports
       \/ resultB = 0 /\ \E c \in Team : OneReports(c)

ReleasePhase ==
  pc = "release" => \A c \in Team : merged[c] = 1 /\ st[c] = "reported"

(* Who measures or reports, or may, does it in the company of the others.  *)
StartGuard ==
  pc # "killed" /\ (startB > 0 \/ \E c \in Team : st[c] \in Measuring)
    => \A d \in Team : st[d] \notin NotReady

QuietGuard ==
  pc # "killed" /\ (resultB > 0 \/ \E c \in Team : st[c] \in {"asked", "reporting", "reported"})
    => \A d \in Team : st[d] \notin NotReady \cup Warm \cup {"timing"}

Phases ==
  /\ NoneGone /\ Unasked /\ ReadyPhase /\ StartPhase /\ DonePhase
  /\ AskPhase /\ CollectPhase /\ ReleasePhase /\ StartGuard /\ QuietGuard

PInv == IInv /\ TypeOK /\ WorkFits /\ Phases

----------------------------------------------------------------------------
(* Counting children. *)
LEMMA Counting ==
  ASSUME Typed, NEW S
  PROVE  /\ IsFiniteSet(Sent(S)) /\ Sent(S) \subseteq Team
         /\ Cardinality(Sent(S)) \in Nat /\ Cardinality(Sent(S)) <= Size
         /\ Cardinality(Sent(S)) = Size => Sent(S) = Team
<1>1. IsFiniteSet(Team) /\ Size = Cardinality(Team)
  BY TeamFacts, FS_Interval DEF Size
<1>2. Sent(S) \in SUBSET Team
  BY DEF Sent
<1> QED
  BY <1>1, <1>2, FS_Subset, FS_CardinalityType

(* One child moves. *)
LEMMA Basics ==
  ASSUME IInv, NEW c \in Children, NEW s \in Where, st[c] # "unborn",
         Move(c, s), run' = run
  PROVE  /\ c \in Team /\ Team' = Team /\ Size' = Size /\ st'[c] = s
         /\ \A d \in Team : d # c => st'[d] = st[d]
  BY TeamFacts DEF IInv, Typed, TeamOnly, Team, Size, Move

LEMMA SentMoves ==
  ASSUME IInv, NEW c \in Team, NEW s \in Where, Move(c, s), run' = run, NEW S
  PROVE  Sent(S)' = IF s \in S THEN Sent(S) \cup {c} ELSE Sent(S) \ {c}
<1>1. c \in Children /\ Team' = Team
  BY TeamFacts DEF IInv, Team
<1>2. \A d \in Team : st'[d] = IF d = c THEN s ELSE st[d]
  BY <1>1, TeamFacts DEF IInv, Typed, Move
<1> QED
  BY <1>1, <1>2 DEF Sent

LEMMA SentSame ==
  ASSUME IInv, NEW c \in Team, NEW s \in Where, Move(c, s), run' = run, NEW S,
         st[c] \in S <=> s \in S
  PROVE  Sent(S)' = Sent(S)
  BY SentMoves DEF Sent

LEMMA SentMore ==
  ASSUME IInv, NEW c \in Team, NEW s \in Where, Move(c, s), run' = run, NEW S,
         st[c] \notin S, s \in S
  PROVE  Cardinality(Sent(S)') = Cardinality(Sent(S)) + 1
<1>1. Sent(S)' = Sent(S) \cup {c} /\ c \notin Sent(S)
  BY SentMoves DEF Sent
<1> QED
  BY <1>1, Counting, FS_AddElement DEF IInv

LEMMA Numbers ==
  ASSUME TypeOK
  PROVE  /\ got \in Nat /\ startB \in Nat /\ resultB \in Nat /\ exitB \in Nat
         /\ parallel \in Nat /\ repetitions \in Nat /\ Len(response) \in Nat /\ Len(pieces) \in Nat
         /\ \A c \in Children : reps[c] \in Nat /\ samples[c] \in Nat /\ merged[c] \in Nat
  BY BenchmpAssumption DEF TypeOK

(* What an answer does to the pipe. *)
LEMMA AnswerFacts ==
  ASSUME TypeOK, NEW k \in Kinds, NEW c \in Children, Answer(k, c)
  PROVE  /\ response' \in Seq(Kinds \X Children) /\ Len(response') = Len(response) + 1
         /\ \A i \in 1 .. Len(response) : response'[i] = response[i]
         /\ response'[Len(response) + 1] = <<k, c>>
  BY DEF TypeOK, Answer

LEMMA TailFacts ==
  ASSUME TypeOK, response # << >>, response' = Tail(response)
  PROVE  /\ response' \in Seq(Kinds \X Children)
         /\ Len(response) \in Nat /\ Len(response) >= 1 /\ Len(response') = Len(response) - 1
         /\ \A i \in 1 .. Len(response') : response'[i] = response[i + 1]
         /\ Len(response) = 1 => response' = << >>
         /\ Head(response) = response[1] /\ Head(response) \in Kinds \X Children
<1>1. response \in Seq(Kinds \X Children)
  BY DEF TypeOK
<1>2. Len(response) \in Nat \ {0}
  BY <1>1, EmptySeq
<1>3. /\ response' \in Seq(Kinds \X Children) /\ Len(response') = Len(response) - 1
      /\ \A i \in 1 .. Len(response') : response'[i] = response[i + 1]
      /\ Head(response) = response[1] /\ Head(response) \in Kinds \X Children
  BY <1>1, HeadTailProperties
<1>4. Len(response) = 1 => response' = << >>
  BY <1>3, EmptySeq
<1> QED
  BY <1>2, <1>3, <1>4


----------------------------------------------------------------------------
(* A child moves without a word: within the warm-up, or on to its turn. *)
LEMMA QuietMove ==
  ASSUME PInv, NEW c \in Children, NEW s \in Where, Move(c, s),
         UNCHANGED <<session, pc, chld, tables, pending, toChild, response>>,
         \/ st[c] = "initialize" /\ s = "first"
         \/ st[c] = "ready" /\ s = "warmup"
         \/ st[c] = "cooldown" /\ s = "asked" /\ (resultB > 0 \/ pc = "killed")
  PROVE  Phases'
<1>1. IInv /\ TypeOK /\ Phases
  BY DEF PInv
<1>2. /\ c \in Team /\ Team' = Team /\ Size' = Size /\ st'[c] = s
      /\ \A d \in Team : d # c => st'[d] = st[d]
  BY <1>1, Basics DEF session
<1>3. UNCHANGED <<pc, chld, got, pieces, merged, pending, startB, resultB, exitB, response>>
  BY DEF tables, toChild
<1>4. Sent(Warm)' = Sent(Warm) /\ Sent({"reported"})' = Sent({"reported"})
  BY <1>1, <1>2, SentSame DEF Warm, session
<1>5. NoneGone' /\ Unasked' /\ StartPhase'
  BY <1>1, <1>2, <1>3 DEF Phases, NoneGone, Unasked, StartPhase, Warm
<1>6. ReadyPhase'
  BY <1>1, <1>2, <1>3, <1>4 DEF Phases, ReadyPhase, Unasked, Counted, Warm, NotReady
<1>7. DonePhase'
  <2>1. pc = "done" => Sent({"cooldown"})' = Sent({"cooldown"})
    BY <1>1, <1>2, <1>3, SentSame DEF Phases, Unasked, session
  <2> QED
    BY <1>1, <1>2, <1>3, <2>1 DEF Phases, DonePhase, Unasked, Counted, Warm
<1>8. \A d \in Team : Settled(d) => Settled(d)' \/ (d = c /\ st[c] # "cooldown")
  BY <1>2, <1>3 DEF Settled
<1>9. AskPhase' /\ CollectPhase' /\ ReleasePhase'
  <2>1. NobodyReports => NobodyReports'
    BY <1>2, <1>3, <1>4, <1>8 DEF NobodyReports, Settled
  <2>2. ASSUME NEW d \in Team, OneReports(d) PROVE OneReports(d)'
    <3>1. d # c
      BY <1>2, <2>2 DEF OneReports
    <3> QED
      BY <1>2, <1>3, <1>4, <1>8, <2>2, <3>1 DEF OneReports, Settled
  <2>3. AskPhase'
    BY <1>1, <1>2, <1>3, <2>1 DEF Phases, AskPhase
  <2>4. CollectPhase'
    BY <1>1, <1>2, <1>3, <2>1, <2>2 DEF Phases, CollectPhase
  <2>5. ReleasePhase'
    BY <1>1, <1>2, <1>3 DEF Phases, ReleasePhase
  <2> QED
    BY <2>3, <2>4, <2>5
<1>10. StartGuard'
  BY <1>1, <1>2, <1>3 DEF Phases, StartGuard, Measuring, NotReady
<1>11. QuietGuard'
  BY <1>1, <1>2, <1>3, Numbers DEF Phases, QuietGuard, NotReady, Warm
<1> QED
  BY <1>5, <1>6, <1>7, <1>9, <1>10, <1>11 DEF Phases

(* A child goes; while the parent drives, it learns of it. *)
LEMMA Goes ==
  ASSUME PInv, NEW c \in Children, Move(c, "gone"), st[c] # "unborn",
         UNCHANGED <<run, pc, tables, startB, resultB, response>>,
         pc \in Driving => chld' /\ st[c] \notin {"reporting", "reported"} /\ pending' = pending /\ exitB' = exitB
  PROVE  Phases'
<1>1. IInv /\ TypeOK /\ Phases
  BY DEF PInv
<1>2. /\ c \in Team /\ Team' = Team /\ Size' = Size /\ st'[c] = "gone"
      /\ \A d \in Team : d # c => st'[d] = st[d]
  BY <1>1, Basics DEF Where
<1>3. UNCHANGED <<pc, got, pieces, merged, startB, resultB, response>>
  BY DEF tables
<1>4. pc \in Driving => Sent({"reported"})' = Sent({"reported"})
  BY <1>1, <1>2, SentSame DEF Where
<1>5. NoneGone' /\ Unasked' /\ StartPhase' /\ ReadyPhase' /\ DonePhase'
  BY <1>1, <1>2, <1>3 DEF Phases, NoneGone, Unasked, StartPhase, ReadyPhase, DonePhase, Driving
<1>6. \A d \in Team : pc \in Driving /\ Settled(d) => Settled(d)'
  BY <1>2, <1>3 DEF Settled
<1>7. AskPhase' /\ CollectPhase' /\ ReleasePhase'
  <2>1. pc \in Driving /\ NobodyReports => NobodyReports'
    BY <1>2, <1>3, <1>4, <1>6 DEF NobodyReports
  <2>2. ASSUME NEW d \in Team, pc \in Driving, OneReports(d) PROVE OneReports(d)'
    <3>1. d # c
      BY <2>2 DEF OneReports
    <3> QED
      BY <1>2, <1>3, <1>4, <1>6, <2>2, <3>1 DEF OneReports
  <2>3. AskPhase'
    BY <1>1, <1>2, <1>3, <2>1 DEF Phases, AskPhase, Driving
  <2>4. CollectPhase'
    BY <1>1, <1>2, <1>3, <2>1, <2>2 DEF Phases, CollectPhase, Driving
  <2>5. ReleasePhase'
    BY <1>1, <1>2, <1>3 DEF Phases, ReleasePhase, Driving
  <2> QED
    BY <2>3, <2>4, <2>5
<1>8. StartGuard' /\ QuietGuard'
  BY <1>1, <1>2, <1>3 DEF Phases, StartGuard, QuietGuard, Measuring, NotReady, Warm
<1> QED
  BY <1>5, <1>7, <1>8 DEF Phases

LEMMA EnterKept == ASSUME PInv, NEW c \in Children, Enter(c) PROVE Phases'
<1>1. /\ st[c] = "initialize" /\ Move(c, IF c \in pending THEN "gone" ELSE "first")
      /\ UNCHANGED <<session, pc, chld, tables, pending, toChild, response>>
  BY DEF Enter
<1>2. CASE c \in pending
  <2>1. pc \notin Driving
    BY <1>2 DEF PInv, Phases, NoneGone
  <2> QED
    BY <1>1, <1>2, <2>1, Goes DEF session, toChild
<1>3. CASE c \notin pending
  <2>1. Move(c, "first") /\ "first" \in Where
    BY <1>1, <1>3 DEF Where
  <2> QED
    BY <1>1, <2>1, QuietMove
<1> QED
  BY <1>2, <1>3

LEMMA ReadyKept == ASSUME PInv, NEW c \in Children, Ready(c) PROVE Phases'
<1>1. IInv /\ TypeOK /\ Phases
  BY DEF PInv
<1>2. /\ c \in Team /\ Team' = Team /\ Size' = Size /\ st[c] = "first" /\ st'[c] = "ready"
      /\ \A d \in Team : d # c => st'[d] = st[d]
      /\ Move(c, "ready") /\ run' = run /\ pc # "killed"
  BY <1>1, Basics DEF Ready, Where, session, Orphan
<1>3. UNCHANGED <<pc, chld, got, pieces, merged, pending, startB, resultB, exitB>>
  BY DEF Ready, tables, toChild
<1>4. pc \notin {"start", "done", "ask", "collect", "release"}
  BY <1>1, <1>2 DEF Phases, StartPhase, DonePhase, AskPhase, CollectPhase, ReleasePhase,
                    NobodyReports, OneReports, Settled, Warm
<1>5. Len(response') = Len(response) + 1
  BY <1>1, AnswerFacts DEF Ready, Kinds
<1>6. Cardinality(Sent(Warm)') = Cardinality(Sent(Warm)) + 1
  BY <1>1, <1>2, SentMore DEF Warm, Where
<1>7. ReadyPhase'
  <2>1. Cardinality(Sent(Warm)) \in Nat /\ got \in Nat /\ Len(response) \in Nat
    BY <1>1, Counting, Numbers DEF IInv
  <2> QED
    BY <1>1, <1>2, <1>3, <1>5, <1>6, <2>1 DEF Phases, ReadyPhase, Counted, Warm, NotReady
<1>8. NoneGone' /\ Unasked'
  BY <1>1, <1>2, <1>3 DEF Phases, NoneGone, Unasked
<1>9. StartPhase' /\ DonePhase' /\ AskPhase' /\ CollectPhase' /\ ReleasePhase'
  BY <1>3, <1>4 DEF StartPhase, DonePhase, AskPhase, CollectPhase, ReleasePhase
<1>10. StartGuard' /\ QuietGuard'
  BY <1>1, <1>2, <1>3 DEF Phases, StartGuard, QuietGuard, Measuring, NotReady, Warm
<1> QED
  BY <1>7, <1>8, <1>9, <1>10 DEF Phases

LEMMA StartKept == ASSUME PInv, NEW c \in Children, Start(c) PROVE Phases'
<1>1. IInv /\ TypeOK /\ Phases
  BY DEF PInv
<1>2. /\ c \in Team /\ Team' = Team /\ Size' = Size /\ st[c] = "warmup" /\ st'[c] = "timing"
      /\ \A d \in Team : d # c => st'[d] = st[d]
      /\ Move(c, "timing") /\ run' = run /\ (startB > 0 \/ pc = "killed")
  BY <1>1, Basics DEF Start, Where, session, Orphan
<1>3. UNCHANGED <<pc, chld, got, pieces, merged, pending, resultB, exitB, response>>
  BY DEF Start, tables
<1>4. pc \notin {"fork", "ready", "start", "ask", "collect", "release"}
  <2>1. pc \notin {"fork", "ready", "start"}
    BY <1>1, <1>2 DEF Phases, ReadyPhase, StartPhase
  <2>2. ~NobodyReports /\ \A d \in Team : ~OneReports(d)
    BY <1>2 DEF NobodyReports, OneReports, Settled
  <2> QED
    BY <1>1, <1>2, <2>1, <2>2 DEF Phases, AskPhase, CollectPhase, ReleasePhase
<1>5. Sent({"cooldown"})' = Sent({"cooldown"})
  BY <1>1, <1>2, SentSame DEF Where
<1>6. DonePhase'
  BY <1>1, <1>2, <1>3, <1>5 DEF Phases, DonePhase, Counted
<1>7. NoneGone' /\ Unasked'
  BY <1>1, <1>2, <1>3 DEF Phases, NoneGone, Unasked
<1>8. ReadyPhase' /\ StartPhase' /\ AskPhase' /\ CollectPhase' /\ ReleasePhase'
  BY <1>3, <1>4 DEF ReadyPhase, StartPhase, AskPhase, CollectPhase, ReleasePhase
<1>9. StartGuard'
  BY <1>1, <1>2, <1>3 DEF Phases, StartGuard, NotReady
<1>10. QuietGuard'
  BY <1>1, <1>2, <1>3 DEF Phases, QuietGuard, Warm
<1> QED
  BY <1>6, <1>7, <1>8, <1>9, <1>10 DEF Phases

(* The last experiment, or none: the child announces that it is through.   *)
LEMMA Finishes ==
  ASSUME PInv, NEW c \in Children, st[c] = "timing", Finish(c), pc # "killed",
         UNCHANGED <<session, pc, chld, tables, pending, toChild>>
  PROVE  Phases'
<1>1. IInv /\ TypeOK /\ Phases
  BY DEF PInv
<1>2. /\ c \in Team /\ Team' = Team /\ Size' = Size /\ st'[c] = "cooldown"
      /\ \A d \in Team : d # c => st'[d] = st[d]
      /\ Move(c, "cooldown") /\ run' = run
  BY <1>1, Basics DEF Finish, Where, session
<1>3. UNCHANGED <<pc, chld, got, pieces, merged, pending, startB, resultB, exitB>>
  BY DEF tables, toChild
<1>4. pc \notin {"fork", "ready", "start", "ask", "collect", "release"}
  BY <1>1, <1>2 DEF Phases, ReadyPhase, StartPhase, AskPhase, CollectPhase, ReleasePhase,
                    NobodyReports, OneReports, Settled, Warm, NotReady
<1>5. Len(response') = Len(response) + 1
  BY <1>1, AnswerFacts DEF Finish, Kinds
<1>6. Cardinality(Sent({"cooldown"})') = Cardinality(Sent({"cooldown"})) + 1
  BY <1>1, <1>2, SentMore DEF Where
<1>7. DonePhase'
  <2>1. Cardinality(Sent({"cooldown"})) \in Nat /\ got \in Nat /\ Len(response) \in Nat
    BY <1>1, Counting, Numbers DEF IInv
  <2> QED
    BY <1>1, <1>2, <1>3, <1>5, <1>6, <2>1 DEF Phases, DonePhase, Counted
<1>8. NoneGone' /\ Unasked'
  BY <1>1, <1>2, <1>3 DEF Phases, NoneGone, Unasked
<1>9. ReadyPhase' /\ StartPhase' /\ AskPhase' /\ CollectPhase' /\ ReleasePhase'
  BY <1>3, <1>4 DEF ReadyPhase, StartPhase, AskPhase, CollectPhase, ReleasePhase
<1>10. StartGuard' /\ QuietGuard'
  BY <1>1, <1>2, <1>3 DEF Phases, StartGuard, QuietGuard, Measuring, NotReady, Warm
<1> QED
  BY <1>7, <1>8, <1>9, <1>10 DEF Phases

(* Steps the phases do not speak of. *)
LEMMA Unmoved ==
  ASSUME PInv, UNCHANGED <<run, pc, chld, tables, st, pending, toChild, response>>
  PROVE  Phases'
<1>1. Team' = Team /\ Size' = Size /\ \A S : Sent(S)' = Sent(S)
  BY DEF Team, Size, Sent
<1>2. NoneGone' /\ Unasked' /\ ReleasePhase' /\ StartPhase'
  BY <1>1 DEF PInv, Phases, NoneGone, Unasked, ReleasePhase, StartPhase, tables, toChild
<1>3. ReadyPhase' /\ DonePhase'
  <2>1. Counted(Warm)' = Counted(Warm) /\ Counted({"cooldown"})' = Counted({"cooldown"})
    BY <1>1 DEF Counted, tables, Warm
  <2> QED
    BY <1>1, <2>1 DEF PInv, Phases, ReadyPhase, DonePhase, toChild
<1>4. NobodyReports' = NobodyReports /\ \A c : OneReports(c)' = OneReports(c)
  BY <1>1 DEF NobodyReports, OneReports, Settled, Sent, tables
<1>5. AskPhase' /\ CollectPhase'
  BY <1>1, <1>4 DEF PInv, Phases, AskPhase, CollectPhase, tables, toChild
<1>6. StartGuard' /\ QuietGuard'
  BY <1>1 DEF PInv, Phases, StartGuard, QuietGuard, toChild
<1> QED
  BY <1>2, <1>3, <1>5, <1>6 DEF Phases

LEMMA ExperimentKept == ASSUME PInv, NEW c \in Children, Experiment(c) PROVE Phases'
<1>1. CASE Finish(c)
  BY <1>1, Finishes DEF Experiment, Orphan
<1>2. CASE UNCHANGED <<st, response>>
  BY <1>2, Unmoved DEF Experiment, session
<1> QED
  BY <1>1, <1>2 DEF Experiment

LEMMA GiveUpKept == ASSUME PInv, NEW c \in Children, GiveUp(c) PROVE Phases'
  BY Finishes DEF GiveUp, Orphan

LEMMA ReportKept == ASSUME PInv, NEW c \in Children, Report(c) PROVE Phases'
<1>1. IInv /\ TypeOK /\ Phases
  BY DEF PInv
<1>2. /\ c \in Team /\ Team' = Team /\ Size' = Size /\ st[c] = "asked" /\ st'[c] = "reporting"
      /\ \A d \in Team : d # c => st'[d] = st[d]
      /\ Move(c, "reporting") /\ run' = run /\ pc # "killed"
      /\ resultB > 0 /\ resultB' = resultB - 1
  BY <1>1, Basics DEF Report, Where, session, Orphan
<1>3. UNCHANGED <<pc, chld, got, pieces, merged, pending, startB, exitB>>
  BY DEF Report, tables
<1>4. pc \notin {"fork", "ready", "start", "done", "ask", "release"}
  <2>1. resultB > 0 /\ st[c] = "asked" /\ c \in Team
    BY <1>2
  <2>2. pc # "ask" /\ pc # "release"
    BY <1>1, <2>1 DEF Phases, AskPhase, ReleasePhase
  <2>3. pc # "start" /\ pc # "done"
    BY <1>1, <2>1 DEF Phases, StartPhase, DonePhase, Warm
  <2>4. pc \notin {"fork", "ready"}
    BY <1>1, <2>1 DEF Phases, ReadyPhase, Warm, NotReady
  <2> QED
    BY <2>2, <2>3, <2>4
<1>5. /\ response' \in Seq(Kinds \X Children) /\ Len(response') = Len(response) + 1
      /\ \A i \in 1 .. Len(response) : response'[i] = response[i]
      /\ response'[Len(response) + 1] = <<"result", c>>
  BY <1>1, AnswerFacts DEF Report, Kinds
<1>6. Sent({"reported"})' = Sent({"reported"}) /\ c \notin Sent({"reported"})
  BY <1>1, <1>2, SentSame DEF Where, Sent
<1>7. CollectPhase'
  <2> SUFFICES ASSUME pc = "collect" PROVE got < Size /\ resultB' = 0 /\ OneReports(c)'
    BY <1>2, <1>3 DEF CollectPhase
  <2>1. got < Size /\ resultB = 1 /\ NobodyReports
    BY <1>1, <1>2 DEF Phases, CollectPhase
  <2>2. merged[c] = 0 /\ \A d \in Team \ {c} : Settled(d)'
    BY <1>2, <1>3, <2>1 DEF NobodyReports, Settled
  <2>3. got = Cardinality(Sent({"reported"})' \ {c})
    <3>1. Sent({"reported"})' \ {c} = Sent({"reported"})
      BY <1>6
    <3> QED
      BY <2>1, <3>1 DEF NobodyReports
  <2>4. /\ Len(response) = 0 /\ Len(pieces) = 0
    BY <2>1 DEF NobodyReports
  <2>5. \A i \in 1 .. Len(response') : response'[i] = <<"result", c>>
    BY <1>5, <2>4
  <2> QED
    BY <1>2, <1>3, <1>5, <2>1, <2>2, <2>3, <2>4, <2>5 DEF OneReports
<1>8. NoneGone' /\ Unasked'
  BY <1>1, <1>2, <1>3, <1>4 DEF Phases, NoneGone, Unasked
<1>9. ReadyPhase' /\ StartPhase' /\ DonePhase' /\ AskPhase' /\ ReleasePhase'
  BY <1>3, <1>4 DEF ReadyPhase, StartPhase, DonePhase, AskPhase, ReleasePhase
<1>10. StartGuard' /\ QuietGuard'
  BY <1>1, <1>2, <1>3 DEF Phases, StartGuard, QuietGuard, Measuring, NotReady, Warm
<1> QED
  BY <1>7, <1>8, <1>9, <1>10 DEF Phases

LEMMA ReportRestKept == ASSUME PInv, NEW c \in Children, ReportRest(c) PROVE Phases'
<1>1. IInv /\ TypeOK /\ Phases
  BY DEF PInv
<1>2. /\ c \in Team /\ Team' = Team /\ Size' = Size /\ st[c] = "reporting" /\ st'[c] = "reported"
      /\ \A d \in Team : d # c => st'[d] = st[d]
      /\ Move(c, "reported") /\ run' = run /\ pc # "killed"
  BY <1>1, Basics DEF ReportRest, Where, session, Orphan
<1>3. UNCHANGED <<pc, chld, got, pieces, merged, pending, startB, resultB, exitB>>
  BY DEF ReportRest, tables, toChild
<1>4. pc \notin {"fork", "ready", "start", "done", "ask", "release"}
  BY <1>1, <1>2 DEF Phases, ReadyPhase, StartPhase, DonePhase, AskPhase, ReleasePhase,
                    NobodyReports, Settled, Warm, NotReady
<1>5. /\ response' \in Seq(Kinds \X Children) /\ Len(response') = Len(response) + 1
      /\ \A i \in 1 .. Len(response) : response'[i] = response[i]
      /\ response'[Len(response) + 1] = <<"result", c>>
  BY <1>1, AnswerFacts DEF ReportRest, Kinds
<1>6. Sent({"reported"})' \ {c} = Sent({"reported"}) \ {c}
  BY <1>1, <1>2, SentMoves DEF Where
<1>7. CollectPhase'
  <2> SUFFICES ASSUME pc = "collect" PROVE got < Size /\ resultB = 0 /\ OneReports(c)'
    BY <1>2, <1>3 DEF CollectPhase
  <2>1. got < Size /\ resultB = 0 /\ OneReports(c)
    BY <1>1, <1>2 DEF Phases, CollectPhase, NobodyReports, OneReports, Settled
  <2>2. \A d \in Team \ {c} : Settled(d)'
    BY <1>2, <1>3, <2>1 DEF OneReports, Settled
  <2>3. Len(response) \in Nat /\ Len(pieces) \in Nat
    BY <1>1, Numbers
  <2>4. \A i \in 1 .. Len(response') : response'[i] = <<"result", c>>
    <3>1. \A i \in 1 .. Len(response') : i \in 1 .. Len(response) \/ i = Len(response) + 1
      BY <1>5, <2>3
    <3> QED
      BY <1>5, <2>1, <3>1 DEF OneReports
  <2>5. Len(pieces) + Len(response') = 2 /\ Len(pieces) <= 1
    BY <1>2, <1>5, <2>1, <2>3 DEF OneReports
  <2> QED
    BY <1>2, <1>3, <1>6, <2>1, <2>2, <2>4, <2>5 DEF OneReports
<1>8. NoneGone' /\ Unasked'
  BY <1>1, <1>2, <1>3, <1>4 DEF Phases, NoneGone, Unasked
<1>9. ReadyPhase' /\ StartPhase' /\ DonePhase' /\ AskPhase' /\ ReleasePhase'
  BY <1>3, <1>4 DEF ReadyPhase, StartPhase, DonePhase, AskPhase, ReleasePhase
<1>10. StartGuard' /\ QuietGuard'
  BY <1>1, <1>2, <1>3 DEF Phases, StartGuard, QuietGuard, Measuring, NotReady, Warm
<1> QED
  BY <1>7, <1>8, <1>9, <1>10 DEF Phases

LEMMA ExitKept == ASSUME PInv, NEW c \in Children, Exit(c) PROVE Phases'
<1>1. pc \notin Driving
  BY Numbers DEF PInv, Phases, NoneGone, Exit, Orphan, Driving
<1> QED
  BY <1>1, Goes DEF Exit, session

LEMMA OrphanLeavesKept == ASSUME PInv, NEW c \in Children, OrphanLeaves(c) PROVE Phases'
<1>1. pc \notin Driving /\ st[c] # "unborn"
  BY DEF OrphanLeaves, Orphan, Driving
<1> QED
  BY <1>1, Goes DEF OrphanLeaves, session, toChild

LEMMA ChildFailsKept == ASSUME PInv, NEW c \in Children, ChildFails(c) PROVE Phases'
<1>1. pc \in Driving => chld'
  BY DEF ChildFails, Watching, Driving
<1> QED
  BY <1>1, Goes DEF ChildFails, session, toChild

LEMMA ChildKept == ASSUME PInv, NEW c \in Children, Child(c) PROVE Phases'
<1>1. CASE WarmUp(c)
  BY <1>1, QuietMove DEF WarmUp, Where
<1>2. CASE SeesResult(c)
  BY <1>2, QuietMove DEF SeesResult, Where, Orphan
<1> QED
  BY <1>1, <1>2, EnterKept, ReadyKept, StartKept, ExperimentKept, GiveUpKept, ReportKept,
     ReportRestKept, ExitKept, OrphanLeavesKept DEF Child

----------------------------------------------------------------------------
(* The parent. *)
LEMMA ForkKept == ASSUME PInv, NEW c \in Children, Fork(c) PROVE Phases'
<1>1. IInv /\ TypeOK /\ Phases
  BY DEF PInv
<1>2. /\ pc = "fork" /\ c \in Team /\ st[c] = "unborn" /\ Move(c, "initialize")
      /\ UNCHANGED <<run, pc, chld, got, pieces, merged, pending, startB, resultB, exitB, response>>
  BY DEF Fork, session, tables, toChild
<1>3. /\ Team' = Team /\ st'[c] = "initialize"
      /\ \A d \in Team : d # c => st'[d] = st[d]
  BY <1>1, <1>2, TeamFacts DEF Team, Move, IInv, Typed
<1>4. Sent(Warm)' = Sent(Warm)
  BY <1>1, <1>2, SentSame DEF Warm, Where
<1>5. ReadyPhase'
  BY <1>1, <1>2, <1>3, <1>4 DEF Phases, ReadyPhase, Counted, NotReady
<1>6. NoneGone' /\ Unasked'
  BY <1>1, <1>2, <1>3 DEF Phases, NoneGone, Unasked
<1>7. StartPhase' /\ DonePhase' /\ AskPhase' /\ CollectPhase' /\ ReleasePhase'
  BY <1>2 DEF StartPhase, DonePhase, AskPhase, CollectPhase, ReleasePhase
<1>8. \A d \in Team : st'[d] \notin Measuring /\ startB' = 0 /\ resultB' = 0
  BY <1>1, <1>2, <1>3 DEF Phases, ReadyPhase, Unasked, Measuring, NotReady, Warm
<1>9. StartGuard' /\ QuietGuard'
  BY <1>2, <1>3, <1>8 DEF StartGuard, QuietGuard, Measuring
<1> QED
  BY <1>5, <1>6, <1>7, <1>9 DEF Phases

(* The parent leaves the protocol, or has left it. *)
LEMMA OutOfProtocol ==
  ASSUME PInv, pc' \notin Driving, pc # "killed" \/ pc' = "killed",
         Team' = Team, UNCHANGED <<startB, resultB>>,
         \A c \in Team : st'[c] \in {st[c], "gone"}
  PROVE  Phases'
<1>1. StartGuard /\ QuietGuard
  BY DEF PInv, Phases
<1>2. StartGuard' /\ QuietGuard'
  BY <1>1 DEF StartGuard, QuietGuard, Measuring, NotReady, Warm
<1> QED
  BY <1>2 DEF Phases, NoneGone, Unasked, ReadyPhase, StartPhase, DonePhase, AskPhase,
              CollectPhase, ReleasePhase, Driving

LEMMA EnterParentKept == ASSUME PInv, EnterParent PROVE Phases'
<1>1. /\ UNCHANGED <<run, chld, got, pieces, merged, st, pending, startB, resultB, exitB, response>>
      /\ pc = "fork" /\ pc' \in {"ready", "error"}
  BY DEF EnterParent, session, tables, toChild
<1>2. CASE pc' = "error"
  BY <1>1, <1>2, OutOfProtocol DEF Driving, Team
<1>3. CASE pc' = "ready"
  <2>1. NoneGone' /\ Unasked' /\ ReadyPhase'
    BY <1>1, <1>3 DEF PInv, Phases, NoneGone, Unasked, ReadyPhase, Driving, Team, Counted, Sent
  <2>2. StartGuard' /\ QuietGuard'
    BY <1>1, <1>3 DEF PInv, Phases, StartGuard, QuietGuard, Team
  <2> QED
    BY <1>3, <2>1, <2>2 DEF Phases, StartPhase, DonePhase, AskPhase, CollectPhase, ReleasePhase
<1> QED
  BY <1>1, <1>2, <1>3

(* A byte is collected from a pipe that holds one for every child in S     *)
(* that has not been counted: with the last of them all children are in S. *)
LEMMA LastCounted ==
  ASSUME PInv, NEW S, Counted(S), response # << >>, response' = Tail(response)
  PROVE  /\ got + 1 <= Size
         /\ got + 1 = Size => Sent(S) = Team /\ response' = << >>
         /\ got + 1 + Len(response') = Cardinality(Sent(S))
<1>1. Cardinality(Sent(S)) <= Size /\ (Cardinality(Sent(S)) = Size => Sent(S) = Team)
  BY Counting DEF PInv, IInv
<1>2. Cardinality(Sent(S)) \in Nat /\ Size \in Nat /\ got \in Nat
  BY Counting, TeamFacts, Numbers DEF PInv, IInv
<1>3. /\ Len(response) \in Nat /\ Len(response) >= 1 /\ Len(response') = Len(response) - 1
      /\ Len(response) = 1 => response' = << >>
  BY TailFacts DEF PInv
<1> QED
  BY <1>1, <1>2, <1>3 DEF Counted

LEMMA CollectReadyKept == ASSUME PInv, CollectReady PROVE Phases'
<1>1. IInv /\ TypeOK /\ Phases
  BY DEF PInv
<1>2. /\ pc = "ready" /\ ~chld /\ response # << >> /\ response' = Tail(response)
      /\ got' = IF got + 1 = Size THEN 0 ELSE got + 1
      /\ pc' = IF got + 1 = Size THEN "start" ELSE "ready"
      /\ UNCHANGED <<run, chld, pieces, merged, st, pending, startB, resultB, exitB>>
  BY DEF CollectReady, Collect, session, toChild
<1>3. Team' = Team /\ \A S : Sent(S)' = Sent(S)
  BY <1>2 DEF Team, Sent
<1>4. Counted(Warm)
  BY <1>1, <1>2 DEF Phases, ReadyPhase
<1>5. NoneGone' /\ Unasked'
  BY <1>1, <1>2, <1>3 DEF Phases, NoneGone, Unasked, Driving
<1>6. StartGuard' /\ QuietGuard'
  BY <1>1, <1>2, <1>3 DEF Phases, StartGuard, QuietGuard
<1>7. CASE got + 1 = Size
  <2>1. Sent(Warm) = Team /\ response' = << >>
    BY <1>2, <1>4, <1>7, LastCounted
  <2>2. StartPhase'
    BY <1>1, <1>2, <1>3, <1>7, <2>1 DEF Phases, ReadyPhase, StartPhase, Sent
  <2> QED
    BY <1>2, <1>5, <1>6, <1>7, <2>2
       DEF Phases, ReadyPhase, DonePhase, AskPhase, CollectPhase, ReleasePhase
<1>8. CASE got + 1 # Size
  <2>1. got + 1 + Len(response') = Cardinality(Sent(Warm))
    BY <1>2, <1>4, LastCounted
  <2>2. Counted(Warm)'
    BY <1>2, <1>3, <1>8, <2>1 DEF Counted, Warm
  <2>3. ReadyPhase'
    BY <1>1, <1>2, <1>3, <1>8, <2>2 DEF Phases, ReadyPhase
  <2> QED
    BY <1>2, <1>5, <1>6, <1>8, <2>3
       DEF Phases, StartPhase, DonePhase, AskPhase, CollectPhase, ReleasePhase
<1> QED
  BY <1>7, <1>8

LEMMA SendStartKept == ASSUME PInv, SendStart PROVE Phases'
<1>1. IInv /\ TypeOK /\ Phases
  BY DEF PInv
<1>2. /\ pc = "start" /\ pc' = "done"
      /\ UNCHANGED <<run, chld, got, pieces, merged, st, pending, resultB, exitB, response>>
  BY DEF SendStart, session, tables
<1>3. Team' = Team /\ got = 0 /\ Len(response) = 0 /\ \A c \in Team : st[c] \in Warm \cup {"gone"}
  BY <1>1, <1>2 DEF Phases, StartPhase, Team
<1>4. Cardinality(Sent({"cooldown"})') = 0
  <2>1. Sent({"cooldown"})' = {}
    BY <1>2, <1>3 DEF Sent, Warm
  <2> QED
    BY <2>1, FS_EmptySet
<1>5. DonePhase'
  BY <1>2, <1>3, <1>4 DEF DonePhase, Counted
<1>6. NoneGone' /\ Unasked'
  BY <1>1, <1>2, <1>3 DEF Phases, NoneGone, Unasked, Driving
<1>7. StartGuard' /\ QuietGuard'
  BY <1>1, <1>2, <1>3 DEF Phases, StartGuard, QuietGuard, Warm, NotReady
<1> QED
  BY <1>2, <1>5, <1>6, <1>7 DEF Phases, ReadyPhase, StartPhase, AskPhase, CollectPhase,
     ReleasePhase

LEMMA CollectDoneKept == ASSUME PInv, CollectDone PROVE Phases'
<1>1. IInv /\ TypeOK /\ Phases
  BY DEF PInv
<1>2. /\ pc = "done" /\ ~chld /\ response # << >> /\ response' = Tail(response)
      /\ got' = IF got + 1 = Size THEN 0 ELSE got + 1
      /\ pc' = IF got + 1 = Size THEN "ask" ELSE "done"
      /\ UNCHANGED <<run, chld, pieces, merged, st, pending, startB, resultB, exitB>>
  BY DEF CollectDone, Collect, session, toChild
<1>3. Team' = Team /\ Size' = Size /\ \A S : Sent(S)' = Sent(S)
  BY <1>2 DEF Team, Sent, Size
<1>4. Counted({"cooldown"})
  BY <1>1, <1>2 DEF Phases, DonePhase
<1>5. NoneGone'
  BY <1>1, <1>2, <1>3 DEF Phases, NoneGone, Driving
<1>6. StartGuard' /\ QuietGuard'
  BY <1>1, <1>2, <1>3 DEF Phases, StartGuard, QuietGuard
<1>7. CASE got + 1 = Size
  <2>1. Sent({"cooldown"}) = Team /\ response' = << >>
    BY <1>2, <1>4, <1>7, LastCounted
  <2>2. \A c \in Team : st[c] = "cooldown" /\ merged[c] = 0
    BY <1>1, <1>2, <2>1, TeamFacts DEF Phases, Unasked, Sent, IInv
  <2>3. Cardinality(Sent({"reported"})') = 0
    <3>1. Sent({"reported"})' = {}
      BY <1>2, <1>3, <2>2 DEF Sent
    <3> QED
      BY <3>1, FS_EmptySet
  <2>4. Size \in Nat \ {0}
    BY <1>1, TeamFacts DEF IInv
  <2>5. NobodyReports'
    BY <1>1, <1>2, <1>3, <1>7, <2>1, <2>2, <2>3 DEF Phases, Unasked, NobodyReports, Settled
  <2>6. AskPhase'
    BY <1>1, <1>2, <1>3, <1>7, <2>4, <2>5 DEF Phases, Unasked, AskPhase
  <2> QED
    BY <1>2, <1>5, <1>6, <1>7, <2>6
       DEF Phases, Unasked, ReadyPhase, StartPhase, DonePhase, CollectPhase, ReleasePhase
<1>8. CASE got + 1 # Size
  <2>1. got + 1 + Len(response') = Cardinality(Sent({"cooldown"}))
    BY <1>2, <1>4, LastCounted
  <2>2. Counted({"cooldown"})'
    BY <1>2, <1>3, <1>8, <2>1 DEF Counted
  <2>3. DonePhase' /\ Unasked'
    BY <1>1, <1>2, <1>3, <1>8, <2>2 DEF Phases, DonePhase, Unasked
  <2> QED
    BY <1>2, <1>5, <1>6, <1>8, <2>3
       DEF Phases, ReadyPhase, StartPhase, AskPhase, CollectPhase, ReleasePhase
<1> QED
  BY <1>7, <1>8

LEMMA AskOneKept == ASSUME PInv, AskOne PROVE Phases'
<1>1. IInv /\ TypeOK /\ Phases
  BY DEF PInv
<1>2. /\ pc = "ask" /\ pc' = "collect" /\ resultB' = resultB + 1
      /\ UNCHANGED <<run, chld, got, pieces, merged, st, pending, startB, exitB, response>>
  BY DEF AskOne, session, tables
<1>3. Team' = Team /\ Size' = Size /\ Sent({"reported"})' = Sent({"reported"})
  BY <1>2 DEF Team, Size, Sent
<1>4. got < Size /\ resultB = 0 /\ NobodyReports
  BY <1>1, <1>2 DEF Phases, AskPhase
<1>5. CollectPhase'
  BY <1>2, <1>3, <1>4 DEF CollectPhase, NobodyReports, Settled
<1>6. NoneGone'
  BY <1>1, <1>2, <1>3 DEF Phases, NoneGone, Driving
<1>7. StartGuard' /\ QuietGuard'
  <2>1. \A d \in Team : st[d] \notin NotReady \cup Warm \cup {"timing"}
    BY <1>4 DEF NobodyReports, Settled, NotReady, Warm
  <2> QED
    BY <1>2, <1>3, <2>1 DEF StartGuard, QuietGuard
<1> QED
  BY <1>2, <1>5, <1>6, <1>7
     DEF Phases, Unasked, ReadyPhase, StartPhase, DonePhase, AskPhase, ReleasePhase

LEMMA CollectResultKept == ASSUME PInv, CollectResult PROVE Phases'
<1>1. IInv /\ TypeOK /\ Phases
  BY DEF PInv
<1>2. /\ pc = "collect" /\ response # << >> /\ response' = Tail(response)
      /\ UNCHANGED <<run, chld, st, pending, startB, resultB, exitB>>
  BY DEF CollectResult, session, toChild
<1>3. /\ Team' = Team /\ Size' = Size /\ Sent({"reported"})' = Sent({"reported"})
      /\ \A c \in Team : c \in Children
  BY <1>1, <1>2, TeamFacts DEF Team, Size, Sent, IInv
<1>4. got < Size /\ resultB = 0
  BY <1>1, <1>2 DEF Phases, CollectPhase, NobodyReports
<1>5. PICK c \in Team : OneReports(c)
  BY <1>1, <1>2 DEF Phases, CollectPhase, NobodyReports
<1>6. /\ Len(response) \in Nat /\ Len(response) >= 1 /\ Len(response') = Len(response) - 1
      /\ \A i \in 1 .. Len(response') : response'[i] = response[i + 1]
      /\ Len(response) = 1 => response' = << >>
      /\ Head(response) = response[1] /\ Len(pieces) \in Nat
  BY <1>1, <1>2, TailFacts, Numbers
<1>7. Head(response) = <<"result", c>>
  BY <1>5, <1>6 DEF OneReports
<1>8. CASE pieces = << >>
  <2>1. pieces' = <<Head(response)>> /\ UNCHANGED <<pc, got, merged>>
    BY <1>8 DEF CollectResult
  <2>2. Len(pieces) = 0 /\ Len(pieces') = 1 /\ pieces'[1] = <<"result", c>>
    BY <1>7, <1>8, <2>1
  <2>3. \A i \in 1 .. Len(response') : response'[i] = <<"result", c>>
    BY <1>5, <1>6 DEF OneReports
  <2>4. OneReports(c)'
    <3>1. \A d \in Team \ {c} : Settled(d)'
      BY <1>2, <1>5, <2>1 DEF OneReports, Settled
    <3>2. \A i \in 1 .. Len(pieces') : pieces'[i] = <<"result", c>>
      BY <2>2
    <3>3. Len(pieces') + Len(response') = IF st[c] = "reported" THEN 2 ELSE 1
      BY <1>5, <1>6, <2>2 DEF OneReports
    <3>4. /\ st'[c] = st[c] /\ st[c] \in {"reporting", "reported"} /\ merged'[c] = 0
          /\ got' = got /\ got = Cardinality(Sent({"reported"}) \ {c})
      BY <1>2, <1>5, <2>1 DEF OneReports
    <3>5. Len(pieces') <= 1
      BY <2>2
    <3> QED
      BY <1>3, <2>3, <3>1, <3>2, <3>3, <3>4, <3>5 DEF OneReports
  <2>5. CollectPhase'
    BY <1>2, <1>3, <1>4, <1>5, <2>1, <2>4 DEF CollectPhase
  <2>6. NoneGone' /\ StartGuard' /\ QuietGuard'
    BY <1>1, <1>2, <1>3, <2>1 DEF Phases, NoneGone, StartGuard, QuietGuard
  <2> QED
    BY <1>2, <2>1, <2>5, <2>6
       DEF Phases, Unasked, ReadyPhase, StartPhase, DonePhase, AskPhase, ReleasePhase
<1>9. CASE pieces # << >>
  <2>1. Len(pieces) = 1 /\ pieces[1] = <<"result", c>>
    <3>1. Len(pieces) # 0
      BY <1>1, <1>9, EmptySeq DEF TypeOK
    <3>2. Len(pieces) = 1
      <4>1. Len(pieces) <= 1
        BY <1>5 DEF OneReports
      <4>2. Len(pieces) \in Nat
        BY <1>6
      <4>3. \A n \in Nat : n # 0 /\ n <= 1 => n = 1
        OBVIOUS
      <4> QED
        BY <3>1, <4>1, <4>2, <4>3
    <3>3. 1 \in 1 .. Len(pieces)
      BY <3>2
    <3> QED
      BY <1>5, <3>2, <3>3 DEF OneReports
  <2>2. st[c] = "reported" /\ Len(response) = 1 /\ response' = << >>
    BY <1>5, <1>6, <2>1 DEF OneReports
  <2>3. /\ pieces' = << >> /\ merged' = [merged EXCEPT ![c] = @ + 1]
        /\ got' = IF got + 1 = Size THEN 0 ELSE got + 1
        /\ pc' = IF got + 1 = Size THEN "release" ELSE "ask"
    BY <1>9, <2>1 DEF CollectResult
  <2>4. merged'[c] = 1 /\ \A d \in Team \ {c} : merged'[d] = merged[d]
    BY <1>1, <1>3, <1>5, <2>3 DEF OneReports, TypeOK
  <2>5. \A d \in Team : Settled(d)'
    BY <1>2, <1>5, <2>2, <2>4 DEF OneReports, Settled
  <2>6. got + 1 = Cardinality(Sent({"reported"}))
    <3>1. IsFiniteSet(Sent({"reported"})) /\ Cardinality(Sent({"reported"})) \in Nat /\ c \in Sent({"reported"})
      BY <1>1, <2>2, Counting DEF IInv, Sent
    <3>2. got = Cardinality(Sent({"reported"})) - 1
      BY <1>5, <3>1, FS_RemoveElement DEF OneReports
    <3> QED
      BY <3>1, <3>2
  <2>7. NoneGone' /\ StartGuard' /\ QuietGuard'
    BY <1>1, <1>2, <1>3, <2>3 DEF Phases, NoneGone, StartGuard, QuietGuard, Driving
  <2>8. CASE got + 1 = Size
    <3>1. \A d \in Team : st[d] = "reported"
      <4>1. Sent({"reported"}) = Team
        BY <1>1, <2>6, <2>8, Counting DEF IInv
      <4> QED
        BY <4>1 DEF Sent
    <3>2. ReleasePhase'
      BY <1>2, <1>3, <2>5, <3>1 DEF ReleasePhase, Settled
    <3> QED
      BY <2>3, <2>7, <2>8, <3>2
         DEF Phases, Unasked, ReadyPhase, StartPhase, DonePhase, AskPhase, CollectPhase
  <2>9. CASE got + 1 # Size
    <3>1. got \in Nat /\ Size \in Nat
      BY <1>1, Numbers, TeamFacts DEF IInv
    <3>2. NobodyReports'
      BY <1>3, <2>2, <2>3, <2>5, <2>6, <2>9 DEF NobodyReports
    <3>3. AskPhase'
      BY <1>2, <1>3, <1>4, <2>3, <2>9, <3>1, <3>2 DEF AskPhase
    <3> QED
      BY <2>3, <2>7, <2>9, <3>3
         DEF Phases, Unasked, ReadyPhase, StartPhase, DonePhase, CollectPhase, ReleasePhase
  <2> QED
    BY <2>8, <2>9
<1> QED
  BY <1>8, <1>9

LEMMA SendSigtermKept == ASSUME PInv, SendSigterm PROVE Phases'
<1>1. /\ UNCHANGED <<run, pc, startB, resultB>> /\ pc \notin Driving /\ pc # "killed"
      /\ st' \in {st, [st EXCEPT ![next] = "gone"]}
  BY DEF SendSigterm, Sigterm, Move, Waits, Driving, session, toChild
<1>2. \A c \in Team : st'[c] \in {st[c], "gone"}
  BY <1>1, TeamFacts DEF PInv, IInv, Typed
<1> QED
  BY <1>1, <1>2, OutOfProtocol DEF Team

LEMMA StartRealKept == ASSUME PInv, StartReal PROVE Phases'
<1>1. /\ pc' = "fork" /\ chld' = FALSE /\ got' = 0 /\ pieces' = << >> /\ pending' = {}
      /\ startB' = 0 /\ resultB' = 0 /\ exitB' = 0 /\ response' = << >>
      /\ \A c \in Children : merged'[c] = 0 /\ st'[c] = "unborn"
  BY DEF StartReal, Each
<1>2. Team' \subseteq Children
  BY BenchmpAssumption DEF StartReal, Team, Children
<1>3. Cardinality(Sent(Warm)') = 0
  <2>1. Sent(Warm)' = {}
    BY <1>1, <1>2 DEF Sent, Warm
  <2> QED
    BY <2>1, FS_EmptySet
<1>4. NoneGone' /\ Unasked'
  BY <1>1, <1>2 DEF NoneGone, Unasked
<1>5. ReadyPhase'
  BY <1>1, <1>2, <1>3 DEF ReadyPhase, Counted, NotReady
<1>6. StartGuard' /\ QuietGuard'
  BY <1>1, <1>2 DEF StartGuard, QuietGuard, Measuring
<1> QED
  BY <1>1, <1>4, <1>5, <1>6 DEF Phases, StartPhase, DonePhase, AskPhase, CollectPhase,
     ReleasePhase

LEMMA ParentKept == ASSUME PInv, Parent PROVE Phases'
<1>1. CASE ErrorExit
  BY <1>1, OutOfProtocol DEF ErrorExit, Driving, Team, session, toChild
<1>2. CASE Release
  BY <1>2, OutOfProtocol DEF Release, Driving, Team, session
<1>3. CASE WaitOne
  BY <1>3, Unmoved DEF WaitOne, session
<1>4. CASE Return
  BY <1>4, OutOfProtocol DEF Return, Through, Driving, Team, session, toChild
<1> QED
  BY <1>1, <1>2, <1>3, <1>4, ForkKept, EnterParentKept, CollectReadyKept, SendStartKept,
     CollectDoneKept, AskOneKept, CollectResultKept, SendSigtermKept, StartRealKept DEF Parent

LEMMA FailureKept == ASSUME PInv, Failure PROVE Phases'
<1>1. CASE UserTerminates
  BY <1>1, Unmoved DEF UserTerminates, session
<1>2. CASE CannotStart \/ ForkStops \/ NoMemory
  BY <1>2, OutOfProtocol DEF CannotStart, ForkStops, NoMemory, Driving, Team, session, toChild
<1>3. CASE ParentKilled
  BY <1>3, OutOfProtocol DEF ParentKilled, Driving, Team, session, toChild
<1> QED
  BY <1>1, <1>2, <1>3, ChildFailsKept DEF Failure

LEMMA PhasesKept == PInv /\ [Next]_vars => Phases'
<1>1. PInv /\ UNCHANGED vars => Phases'
  BY Unmoved DEF vars, session
<1> QED
  BY <1>1, ParentKept, FailureKept, ChildKept DEF Next

----------------------------------------------------------------------------
(* The types. *)
LEMMA OnePiece ==
  ASSUME NEW S, NEW x \in S
  PROVE  <<x>> \in Seq(S)
  OBVIOUS

LEMMA OneMore ==
  ASSUME NEW S, NEW f \in [S -> Nat], NEW k
  PROVE  [f EXCEPT ![k] = @ + 1] \in [S -> Nat]
<1>1. CASE k \in S
  BY <1>1
<1>2. CASE k \notin S
  BY <1>2
<1> QED
  BY <1>1, <1>2

LEMMA Fresh ==
  /\ << >> \in Seq(Kinds \X Children)
  /\ \A n \in Nat : Each(0) \in [Children -> 0 .. n]
  /\ Each(0) \in [Children -> Nat] /\ Each("unborn") \in [Children -> Where]
<1>1. << >> \in Seq(Kinds \X Children)
  BY EmptySeq
<1> QED
  BY <1>1 DEF Each, Where

LEMMA PlainParent ==
  ASSUME PInv, EnterParent \/ SendStart \/ AskOne \/ Release \/ ErrorExit
                 \/ WaitOne \/ Return \/ CannotStart \/ ForkStops \/ NoMemory
                 \/ UserTerminates \/ ParentKilled
  PROVE  (TypeOK /\ WorkFits)'
<1>1. TypeOK /\ WorkFits
  BY DEF PInv
<1>2. UNCHANGED <<cleanup, run, sigterm, saved, got, pieces, merged, st, reps, samples, pending, response>>
  BY DEF EnterParent, SendStart, AskOne, Release, ErrorExit, WaitOne, Return, CannotStart,
         ForkStops, NoMemory, UserTerminates, ParentKilled, session, tables, work
<1>3. /\ chld' \in BOOLEAN /\ term' \in BOOLEAN /\ ok' \in BOOLEAN /\ alarmed' \in BOOLEAN
  BY <1>1 DEF TypeOK, EnterParent, SendStart, AskOne, Release, ErrorExit, WaitOne, Return,
              CannotStart, ForkStops, NoMemory, UserTerminates, ParentKilled, reaping
<1>4. pc' \in {"fork", "ready", "start", "done", "ask", "collect", "release",
               "unfork", "error", "reap", "returned", "killed"}
  BY <1>1 DEF TypeOK, EnterParent, SendStart, AskOne, Release, ErrorExit, WaitOne, Return,
              CannotStart, ForkStops, NoMemory, UserTerminates, ParentKilled
<1>5. Size \in Nat \ {0} /\ Size <= parallel /\ Cardinality(Forked) \in 0 .. parallel
  <2>1. Size \in Nat \ {0} /\ Size <= parallel /\ parallel \in Nat
    BY TeamFacts DEF PInv, IInv
  <2>2. IsFiniteSet(Team) /\ Cardinality(Team) = Size /\ Forked \in SUBSET Team
    BY TeamFacts, FS_Interval DEF PInv, IInv, Size, Forked
  <2> QED
    BY <2>1, <2>2, FS_Subset, FS_CardinalityType
<1>6. next' \in 0 .. parallel + 1
  <2>1. CASE WaitOne
    <3>1. next \in 1 .. Size
      BY <2>1, TeamFacts DEF WaitOne, Waits, PInv, IInv
    <3> QED
      BY <1>5, <2>1, <3>1, BenchmpAssumption DEF WaitOne
  <2>2. CASE ~WaitOne
    BY <1>1, <1>5, <2>2, BenchmpAssumption
       DEF TypeOK, EnterParent, SendStart, AskOne, Release, ErrorExit, Return,
           CannotStart, ForkStops, NoMemory, UserTerminates, ParentKilled, reaping
  <2> QED
    BY <2>1, <2>2
<1>7. startB' \in 0 .. parallel /\ exitB' \in 0 .. parallel
  <2>1. startB' \in {startB, Size} /\ exitB' \in {exitB, Size}
    BY DEF EnterParent, SendStart, AskOne, Release, ErrorExit, WaitOne, Return,
           CannotStart, ForkStops, NoMemory, UserTerminates, ParentKilled, toChild
  <2>2. startB \in 0 .. parallel /\ exitB \in 0 .. parallel
    BY <1>1 DEF TypeOK
  <2>3. Size \in 0 .. parallel
    BY <1>5, BenchmpAssumption
  <2> QED
    BY <2>1, <2>2, <2>3
<1>8. resultB' \in 0 .. parallel
  <2>1. AskOne => resultB = 0
    BY DEF PInv, Phases, AskPhase, AskOne
  <2> QED
    BY <1>1, <1>5, <2>1, BenchmpAssumption
       DEF TypeOK, EnterParent, SendStart, AskOne, Release, ErrorExit, WaitOne, Return,
           CannotStart, ForkStops, NoMemory, UserTerminates, ParentKilled, toChild
<1> QED
  BY <1>1, <1>2, <1>3, <1>4, <1>6, <1>7, <1>8 DEF TypeOK, WorkFits

LEMMA CollectTypes ==
  ASSUME PInv, CollectReady \/ CollectDone \/ CollectResult
  PROVE  (TypeOK /\ WorkFits)'
<1>1. TypeOK /\ WorkFits
  BY DEF PInv
<1>2. /\ UNCHANGED <<session, chld, term, reaping, st, work, pending, toChild, ok>>
      /\ response # << >> /\ response' = Tail(response)
      /\ got' \in {0, got, got + 1}
      /\ pc' \in {"ready", "start", "done", "ask", "collect", "release"}
  <2>1. CASE CollectReady
    BY <2>1 DEF CollectReady, Collect
  <2>2. CASE CollectDone
    BY <2>2 DEF CollectDone, Collect
  <2>3. CASE CollectResult
    BY <2>3 DEF CollectResult
  <2> QED
    BY <2>1, <2>2, <2>3
<1>3. response' \in Seq(Kinds \X Children) /\ Head(response) \in Kinds \X Children
  BY <1>1, <1>2, TailFacts
<1>4. Size \in Nat \ {0} /\ Size <= parallel /\ parallel \in Nat
  BY TeamFacts DEF PInv, IInv
<1>5. got + 1 <= Size
  <2>1. CASE CollectReady
    BY <2>1, LastCounted DEF CollectReady, Collect, PInv, Phases, ReadyPhase
  <2>2. CASE CollectDone
    BY <2>2, LastCounted DEF CollectDone, Collect, PInv, Phases, DonePhase
  <2>3. CASE CollectResult
    BY <1>1, <1>4, <2>3, Numbers DEF CollectResult, PInv, Phases, CollectPhase
  <2> QED
    BY <1>2, <2>1, <2>2, <2>3
<1>6. got' \in 0 .. parallel
  <2>1. got \in 0 .. parallel /\ got + 1 \in 0 .. parallel /\ 0 \in 0 .. parallel
    BY <1>1, <1>4, <1>5 DEF TypeOK
  <2> QED
    BY <1>2, <2>1
<1>7. pieces' \in Seq(Kinds \X Children) /\ merged' \in [Children -> Nat]
  <2>1. CASE UNCHANGED <<pieces, merged>>
    BY <1>1, <2>1 DEF TypeOK
  <2>2. CASE CollectResult /\ pieces = << >>
    <3>1. pieces' = <<Head(response)>> /\ merged' = merged
      BY <2>2 DEF CollectResult
    <3> QED
      BY <1>1, <1>3, <3>1, OnePiece DEF TypeOK
  <2>3. CASE CollectResult /\ pieces # << >>
    <3>1. pieces' = << >> /\ merged' = [merged EXCEPT ![pieces[1][2]] = @ + 1]
      BY <2>3 DEF CollectResult
    <3>2. pieces' \in Seq(Kinds \X Children)
      BY <3>1, EmptySeq
    <3> QED
      BY <1>1, <3>1, <3>2, OneMore DEF TypeOK
  <2> QED
    BY <2>1, <2>2, <2>3 DEF CollectReady, CollectDone, Collect
<1> QED
  BY ZenonT(40), <1>1, <1>2, <1>3, <1>6, <1>7
     DEF TypeOK, WorkFits, session, reaping, work, toChild

(* The steps that send or fork a child somewhere. *)
LEMMA MoveTypes ==
  ASSUME PInv, NEW c \in Children, NEW s \in Where, Move(c, s),
         UNCHANGED <<session, pc, term, tables, next, work>>,
         chld' \in BOOLEAN, ok' \in BOOLEAN, alarmed' \in BOOLEAN,
         pending' \subseteq Children,
         startB' \in 0 .. parallel, resultB' \in 0 .. parallel, exitB' \in 0 .. parallel,
         response' \in Seq(Kinds \X Children),
         \/ s \notin NotReady \cup Warm \cup {"timing"}
         \/ s \in NotReady \cup Warm /\ st[c] \in NotReady \cup Warm
         \/ s = "timing" /\ st[c] \in Warm
  PROVE  (TypeOK /\ WorkFits)'
<1>1. TypeOK /\ WorkFits
  BY DEF PInv
<1>2. UNCHANGED <<cleanup, run, sigterm, saved, pc, term, got, pieces, merged, next, reps, samples>>
  BY DEF session, tables, work
<1>3. /\ st' \in [Children -> Where] /\ st'[c] = s
      /\ \A d \in Children : d # c => st'[d] = st[d]
  BY DEF Move, PInv, IInv, Typed
<1>4. TypeOK'
  BY <1>1, <1>2, <1>3 DEF TypeOK, Where
<1>5. WorkFits'
  BY SMTT(30), <1>1, <1>2, <1>3, Numbers, BenchmpAssumption DEF WorkFits, NotReady, Warm
<1> QED
  BY <1>4, <1>5

LEMMA ChildTypes ==
  ASSUME PInv, NEW c \in Children, ~Experiment(c), Child(c) \/ Fork(c) \/ ChildFails(c)
  PROVE  (TypeOK /\ WorkFits)'
<1>1. TypeOK
  BY DEF PInv
<1>2. /\ UNCHANGED <<session, pc, term, tables, next, alarmed, work, pending>>
      /\ chld' \in BOOLEAN /\ ok' \in BOOLEAN
  BY <1>1 DEF TypeOK, Child, Enter, Ready, WarmUp, Start, GiveUp, SeesResult, Report,
     ReportRest,
         Exit, OrphanLeaves, Fork, ChildFails, Watching, reaping
<1>3. startB' \in 0 .. parallel /\ resultB' \in 0 .. parallel /\ exitB' \in 0 .. parallel
  BY SMTT(30), <1>1, BenchmpAssumption
     DEF TypeOK, Child, Enter, Ready, WarmUp, Start, GiveUp, SeesResult, Report, ReportRest,
         Exit, OrphanLeaves, Fork, ChildFails, toChild
<1>4. response' \in Seq(Kinds \X Children)
  <2>1. response' = response \/ \E k \in Kinds : Answer(k, c)
    BY DEF Child, Enter, Ready, WarmUp, Start, GiveUp, Finish, SeesResult, Report, ReportRest,
           Exit, OrphanLeaves, Fork, ChildFails, Kinds
  <2> QED
    BY <1>1, <2>1, AnswerFacts DEF TypeOK
<1>5. \E s \in Where : /\ Move(c, s)
                       /\ \/ s \notin NotReady \cup Warm \cup {"timing"}
                          \/ s \in NotReady \cup Warm /\ st[c] \in NotReady \cup Warm
                          \/ s = "timing" /\ st[c] \in Warm
  <2> USE DEF Where, NotReady, Warm
  <2>1. CASE Fork(c)
    BY <2>1 DEF Fork
  <2>2. CASE ChildFails(c) \/ Exit(c) \/ OrphanLeaves(c)
    BY <2>2 DEF ChildFails, Exit, OrphanLeaves
  <2>3. CASE Enter(c)
    BY <2>3 DEF Enter
  <2>4. CASE Ready(c) \/ WarmUp(c) \/ Start(c)
    BY <2>4 DEF Ready, WarmUp, Start
  <2>5. CASE GiveUp(c) \/ SeesResult(c) \/ Report(c) \/ ReportRest(c)
    BY <2>5 DEF GiveUp, Finish, SeesResult, Report, ReportRest
  <2> QED
    BY <2>1, <2>2, <2>3, <2>4, <2>5 DEF Child
<1>6. pending' \subseteq Children /\ alarmed' \in BOOLEAN
  BY <1>1, <1>2 DEF TypeOK
<1> QED
  BY <1>2, <1>3, <1>4, <1>5, <1>6, MoveTypes

LEMMA ExperimentTypes ==
  ASSUME PInv, NEW c \in Children, Experiment(c)
  PROVE  (TypeOK /\ WorkFits)'
<1>1. TypeOK /\ WorkFits
  BY DEF PInv
<1>2. UNCHANGED <<session, pc, chld, term, tables, reaping, pending, toChild, ok>>
  BY DEF Experiment
<1>3. PICK x \in {0, 1} : samples' = [samples EXCEPT ![c] = @ + x]
  BY DEF Experiment
<1>4. st[c] = "timing" /\ reps' = [reps EXCEPT ![c] = @ + 1]
  BY DEF Experiment
<1>5. /\ reps[c] \in Nat /\ samples[c] \in Nat /\ repetitions \in Nat
      /\ reps[c] < repetitions /\ samples[c] <= reps[c]
  BY <1>1, <1>4, Numbers DEF WorkFits
<1>6. reps' \in [Children -> 0 .. repetitions] /\ samples' \in [Children -> 0 .. repetitions]
  BY SMTT(30), <1>1, <1>3, <1>4, <1>5 DEF TypeOK
<1>7. response' \in Seq(Kinds \X Children)
  BY <1>1, AnswerFacts DEF Experiment, Finish, Kinds, TypeOK
<1>8. /\ st' \in [Children -> Where]
      /\ st'[c] = IF reps[c] + 1 >= repetitions THEN "cooldown" ELSE "timing"
      /\ \A d \in Children : d # c => st'[d] = st[d]
  BY <1>4 DEF Experiment, Finish, Move, PInv, IInv, Typed, Where
<1>9. TypeOK'
  BY SMTT(30), <1>1, <1>2, <1>6, <1>7, <1>8 DEF TypeOK, Where, session, tables, reaping, toChild
<1>10. WorkFits'
  <2>1. /\ reps'[c] = reps[c] + 1 /\ samples'[c] <= reps[c] + 1
        /\ \A d \in Children : d # c => reps'[d] = reps[d] /\ samples'[d] = samples[d]
    BY <1>1, <1>3, <1>4, <1>5 DEF TypeOK
  <2> QED
    BY <1>1, <1>5, <1>8, <2>1 DEF WorkFits, NotReady, Warm
<1> QED
  BY <1>9, <1>10

LEMMA SendSigtermTypes == ASSUME PInv, SendSigterm PROVE (TypeOK /\ WorkFits)'
<1>1. TypeOK /\ WorkFits
  BY DEF PInv
<1>2. /\ UNCHANGED <<session, pc, chld, term, tables, next, work, toChild, response, ok>>
      /\ alarmed' = TRUE /\ next \in Children
  BY TeamFacts DEF SendSigterm, Waits, PInv, IInv
<1>3. CASE Move(next, "gone") /\ UNCHANGED pending
  BY <1>1, <1>2, <1>3, MoveTypes DEF TypeOK, toChild, Where, NotReady, Warm
<1>4. CASE st' = st /\ pending' \in {pending, pending \cup {next}}
  BY <1>1, <1>2, <1>4 DEF TypeOK, WorkFits, session, tables, work, toChild
<1> QED
  BY <1>3, <1>4 DEF SendSigterm, Sigterm

LEMMA StartRealTypes == ASSUME PInv, StartReal PROVE (TypeOK /\ WorkFits)'
<1>1. TypeOK
  BY DEF PInv
<1>2. 0 \in 0 .. parallel /\ 1 \in 0 .. parallel + 1 /\ parallel \in Nat /\ repetitions \in Nat
  BY BenchmpAssumption
<1>3. TypeOK'
  BY <1>1, <1>2, Fresh DEF StartReal, TypeOK, Where
<1>4. WorkFits'
  BY DEF StartReal, Each, WorkFits, NotReady, Warm
<1> QED
  BY <1>3, <1>4

LEMMA TypesKept == PInv /\ [Next]_vars => (TypeOK /\ WorkFits)'
<1>1. PInv /\ UNCHANGED vars => (TypeOK /\ WorkFits)'
  BY DEF PInv, TypeOK, WorkFits, vars, session, tables, reaping, work, toChild
<1> QED
  BY <1>1, PlainParent, CollectTypes, ChildTypes, ExperimentTypes, SendSigtermTypes,
     StartRealTypes
     DEF Next, Parent, Failure, Child

LEMMA PInvStart == Init => PInv
<1> SUFFICES ASSUME Init PROVE PInv
  OBVIOUS
<1>1. IInv
  BY InitHolds
<1>2. 0 \in 0 .. parallel /\ 1 \in 0 .. parallel + 1 /\ parallel \in Nat /\ repetitions \in Nat
  BY BenchmpAssumption
<1>3. TypeOK
  BY <1>2, Fresh DEF Init, TypeOK, Where
<1>4. WorkFits
  BY DEF Init, WorkFits, Each, NotReady, Warm
<1>5. \A c \in Team : st[c] = "unborn" /\ c \in Children
  BY <1>1, TeamFacts DEF Init, IInv, Each
<1>6. Counted(Warm)
  <2>1. Sent(Warm) = {}
    BY <1>5 DEF Sent, Warm
  <2>2. Len(response) = 0 /\ got = 0
    BY DEF Init
  <2> QED
    BY <2>1, <2>2, FS_EmptySet DEF Counted
<1>7. Phases
  BY <1>5, <1>6 DEF Init, Each, Phases, NoneGone, Unasked, ReadyPhase, StartPhase, DonePhase,
       AskPhase, CollectPhase, ReleasePhase, StartGuard, QuietGuard, NotReady, Measuring
<1> QED
  BY <1>1, <1>3, <1>4, <1>7 DEF PInv

LEMMA PInvHolds == Spec => []PInv
<1>1. PInv /\ [Next]_vars => PInv'
  BY StepHolds, TypesKept, PhasesKept DEF PInv
<1> QED
  BY <1>1, PInvStart, PTL DEF Spec

(***************************************************************************)
(* The phases of benchmp_parent and benchmp_interval do not overlap while  *)
(* the parent lives: no child measures before every child of its team has  *)
(* sent its ready byte (which says that it was initialized, not that it    *)
(* has warmed up), and none waits to report, reports or has reported while *)
(* another still measures.  For any number of children.                    *)
(***************************************************************************)
THEOREM BenchmpInStep == Spec => []PhasesInStep
<1>1. PInv => StartTogether
  BY DEF PInv, Phases, StartGuard, StartTogether, NotReady
<1>2. PInv => QuietWhenReporting
  BY DEF PInv, Phases, QuietGuard, QuietWhenReporting
<1>3. PInv => PhasesInStep
  BY <1>1, <1>2 DEF PhasesInStep, PInv
<1> QED
  BY <1>3, PInvHolds, PTL

(***************************************************************************)
(* The result the parent puts together from the anonymous pipe is one      *)
(* child's, and when the exit bytes go out it has merged each child's      *)
(* exactly once.                                                           *)
(***************************************************************************)
THEOREM BenchmpMergesAll == Spec => []ResultsMerged
<1>1. ASSUME PInv PROVE ResultsWhole
  <2> SUFFICES ASSUME pc = "collect" PROVE ResultsWhole
    BY DEF ResultsWhole
  <2>1. CASE NobodyReports
    <3>1. Len(response) = 0 /\ Len(pieces) = 0
      BY <2>1 DEF NobodyReports
    <3> QED
      BY <2>1, <3>1 DEF ResultsWhole, NobodyReports
  <2>2. ASSUME NEW c \in Team, OneReports(c) PROVE ResultsWhole
    <3>1. Len(response) \in Nat /\ (response # << >> => Len(response) # 0 /\ Head(response) = response[1])
      BY <1>1, EmptySeq DEF PInv, TypeOK
    <3>2. \A i \in 1 .. Len(response) : response[i] = <<"result", c>>
      BY <2>2 DEF OneReports
    <3>3. \A i \in 1 .. Len(pieces) : pieces[i] = <<"result", c>>
      BY <2>2 DEF OneReports
    <3>4. response # << >> => Head(response) = <<"result", c>>
      BY <3>1, <3>2
    <3>5. Len(pieces) = 1 => pieces[1] = <<"result", c>>
      BY <3>3
    <3>6. \A i \in 1 .. Len(response) : response[i][1] = "result"
      BY <3>2
    <3> QED
      BY <3>4, <3>5, <3>6 DEF ResultsWhole
  <2> QED
    BY <1>1, <2>1, <2>2 DEF PInv, Phases, CollectPhase
<1>2. PInv => EachMergedOnce
  BY DEF PInv, Phases, ReleasePhase, EachMergedOnce
<1>3. PInv => ResultsMerged
  BY <1>1, <1>2 DEF ResultsMerged
<1> QED
  BY <1>3, PInvHolds, PTL

LEMMA Induction ==
  ASSUME NEW T, 0 \in T, \A n \in Nat : n \in T => n + 1 \in T
  PROVE  \A n \in Nat : n \in T
<1> DEFINE R == OpToRel(<, Nat)
           Missed == {n \in Nat : n \notin T}
<1> SUFFICES ASSUME Missed # {} PROVE FALSE
  OBVIOUS
<1>1. \A x, y \in Nat : y < x => <<y, x>> \in R
  BY DEF OpToRel
<1>2. IsWellFoundedOn(R, Nat)
  BY NatLessThanWellFounded
<1> HIDE DEF R
<1>3. PICK x \in Missed : \A y \in Missed : ~(<<y, x>> \in R)
  BY <1>2, WFMin
<1>4. x \in Nat \ {0}
  OBVIOUS
<1>5. PICK y \in Nat : x = y + 1
  <2>1. x - 1 \in Nat /\ x = (x - 1) + 1
    BY <1>4
  <2> QED
    BY <2>1
<1>6. y \notin T
  BY <1>5
<1>7. <<y, x>> \in R
  BY <1>1, <1>5
<1> QED
  BY <1>3, <1>6, <1>7

(* The first place of a list that is in T, or the place after its end. *)
LEMMA FirstPlace ==
  ASSUME NEW T, NEW n \in Nat
  PROVE  \E i \in 1 .. n + 1 :
            /\ i <= n => i \in T
            /\ \A j \in 1 .. i - 1 : j \notin T
<1> DEFINE First(i, k) == /\ i <= k => i \in T
                          /\ \A j \in 1 .. i - 1 : j \notin T
           Good == {k \in Nat : \E i \in 1 .. k + 1 : First(i, k)}
<1>1. 0 \in Good
  <2>1. First(1, 0) /\ 1 \in 1 .. 0 + 1
    OBVIOUS
  <2> QED
    BY <2>1
<1>2. ASSUME NEW k \in Nat, k \in Good PROVE k + 1 \in Good
  <2>1. PICK i \in 1 .. k + 1 : First(i, k)
    BY <1>2
  <2>2. CASE i <= k \/ k + 1 \in T
    <3>1. First(i, k + 1) /\ i \in 1 .. (k + 1) + 1
      BY <2>1, <2>2
    <3> QED
      BY <3>1
  <2>3. CASE i = k + 1 /\ k + 1 \notin T
    <3>1. First(k + 2, k + 1) /\ k + 2 \in 1 .. (k + 1) + 1
      BY <2>1, <2>3
    <3> QED
      BY <3>1
  <2> QED
    BY <2>2, <2>3
<1> HIDE DEF Good
<1>3. n \in Good
  BY <1>1, <1>2, Induction
<1> QED
  BY <1>3 DEF Good

----------------------------------------------------------------------------
(* The list of results. *)
Positive == [u : Nat \ {0}, n : Nat \ {0}]

LEMMA Multiplied ==
  ASSUME NEW a \in Nat, NEW b \in Nat, NEW c \in Nat \ {0}
  PROVE  /\ a <= b => a * c <= b * c
         /\ a < b => a * c < b * c
         /\ a * c <= b * c => a <= b
  OBVIOUS

LEMMA SlowerFacts ==
  ASSUME NEW a \in Positive, NEW b \in Positive, NEW c \in Positive
  PROVE  /\ ~Slower(a, a)
         /\ Slower(a, b) => ~Slower(b, a)
         /\ Slower(a, b) /\ ~Slower(c, b) => ~Slower(c, a)
         /\ ~Slower(a, b) /\ ~Slower(b, c) => ~Slower(a, c)
<1> USE DEF Positive
<1>1. ASSUME Slower(a, b) \/ ~Slower(b, a), ~Slower(c, b) PROVE ~Slower(c, a)
  <2>1. b.u * a.n <= a.u * b.n /\ c.u * b.n <= b.u * c.n
    BY <1>1 DEF Slower
  <2> DEFINE x == c.u * a.n
             y == a.u * c.n
  <2>2. x \in Nat /\ y \in Nat
    OBVIOUS
  <2>3. (c.u * b.n) * a.n <= (b.u * c.n) * a.n
    BY <2>1, Multiplied
  <2>4. (b.u * a.n) * c.n <= (a.u * b.n) * c.n
    BY <2>1, Multiplied
  <2>5. (c.u * b.n) * a.n = x * b.n /\ (a.u * b.n) * c.n = y * b.n
        /\ (b.u * c.n) * a.n = (b.u * a.n) * c.n
    OBVIOUS
  <2>6. x * b.n <= y * b.n
    BY <2>3, <2>4, <2>5
  <2> HIDE DEF x, y
  <2>7. x <= y
    BY <2>2, <2>6, Multiplied
  <2> QED
    BY <2>7, <2>2 DEF x, y, Slower
<1>2. ~Slower(a, a)
  BY DEF Slower
<1>3. Slower(a, b) => ~Slower(b, a)
  BY DEF Slower
<1>4. ASSUME ~Slower(a, b), ~Slower(b, c) PROVE ~Slower(a, c)
  <2>1. a.u * b.n <= b.u * a.n /\ b.u * c.n <= c.u * b.n
    BY <1>4 DEF Slower
  <2> DEFINE x == a.u * c.n
             y == c.u * a.n
  <2>2. x \in Nat /\ y \in Nat
    OBVIOUS
  <2>3. (a.u * b.n) * c.n <= (b.u * a.n) * c.n
    BY <2>1, Multiplied
  <2>4. (b.u * c.n) * a.n <= (c.u * b.n) * a.n
    BY <2>1, Multiplied
  <2>5. (a.u * b.n) * c.n = x * b.n /\ (c.u * b.n) * a.n = y * b.n
        /\ (b.u * a.n) * c.n = (b.u * c.n) * a.n
    OBVIOUS
  <2>6. x * b.n <= y * b.n
    BY <2>3, <2>4, <2>5
  <2> HIDE DEF x, y
  <2>7. x <= y
    BY <2>2, <2>6, Multiplied
  <2> QED
    BY <2>7, <2>2 DEF x, y, Slower
<1> QED
  BY <1>1, <1>2, <1>3, <1>4

Inserted(s, k, x) == SubSeq(s, 1, k - 1) \o <<x>> \o SubSeq(s, k, Len(s))

LEMMA InsertedAt ==
  ASSUME NEW S, NEW s \in Seq(S), NEW x \in S, NEW k \in 1 .. Len(s) + 1
  PROVE  /\ Inserted(s, k, x) \in Seq(S)
         /\ Len(Inserted(s, k, x)) = Len(s) + 1
         /\ \A i \in 1 .. Len(s) + 1 :
               Inserted(s, k, x)[i] = IF i < k THEN s[i] ELSE IF i = k THEN x ELSE s[i - 1]
<1> DEFINE a == SubSeq(s, 1, k - 1)
           b == SubSeq(s, k, Len(s))
<1>1. Len(s) \in Nat
  OBVIOUS
<1>2. a \in Seq(S) /\ Len(a) = k - 1 /\ \A i \in 1 .. k - 1 : a[i] = s[i]
  <2>1. CASE k = 1
    BY <2>1, SubSeqProperties, EmptySeq
  <2>2. CASE k > 1
    BY <1>1, <2>2, SubSeqProperties
  <2> QED
    BY <1>1, <2>1, <2>2
<1>3. b \in Seq(S) /\ Len(b) = Len(s) - k + 1 /\ \A i \in 1 .. Len(s) - k + 1 : b[i] = s[i + k - 1]
  <2>1. CASE k = Len(s) + 1
    BY <1>1, <2>1, SubSeqProperties, EmptySeq
  <2>2. CASE k <= Len(s)
    BY <1>1, <2>2, SubSeqProperties
  <2> QED
    BY <1>1, <2>1, <2>2
<1> HIDE DEF a, b
<1>4. <<x>> \in Seq(S) /\ Len(<<x>>) = 1 /\ <<x>>[1] = x
  OBVIOUS
<1> DEFINE ax == a \o <<x>>
<1>5. ax \in Seq(S) /\ Len(ax) = k /\ \A i \in 1 .. k : ax[i] = IF i < k THEN s[i] ELSE x
  BY <1>1, <1>2, <1>4, ConcatProperties
<1> HIDE DEF ax
<1>6. Inserted(s, k, x) = ax \o b
  BY DEF Inserted, ax, a, b
<1>7. ax \o b \in Seq(S) /\ Len(ax \o b) = Len(s) + 1
  <2>1. ax \o b \in Seq(S) /\ Len(ax \o b) = Len(ax) + Len(b)
    BY <1>3, <1>5, ConcatProperties
  <2> QED
    BY <1>1, <1>3, <1>5, <2>1
<1>8. ASSUME NEW i \in 1 .. Len(s) + 1
      PROVE  (ax \o b)[i] = IF i < k THEN s[i] ELSE IF i = k THEN x ELSE s[i - 1]
  <2>1. CASE i <= k
    BY <1>1, <1>3, <1>5, <2>1, ConcatProperties
  <2>2. CASE i > k
    <3>1. (ax \o b)[i] = b[i - k]
      BY <1>1, <1>3, <1>5, <2>2, ConcatProperties
    <3>2. b[i - k] = s[i - 1]
      BY <1>1, <1>3, <2>2
    <3> QED
      BY <3>1, <3>2, <2>2, <1>1
  <2>3. i <= k \/ i > k
    BY <1>1
  <2> QED
    BY <2>1, <2>2, <2>3
<1> QED
  BY <1>6, <1>7, <1>8

(* An insertion adds one to the count of what is inserted. *)
LEMMA CountInserted ==
  ASSUME NEW S, NEW s \in Seq(S), NEW x \in S, NEW k \in 1 .. Len(s) + 1, NEW r
  PROVE  /\ CountIn(r, s) \in Nat
         /\ CountIn(r, Inserted(s, k, x)) = CountIn(r, s) + (IF r = x THEN 1 ELSE 0)
<1> DEFINE t == Inserted(s, k, x)
           Old == {i \in DOMAIN s : s[i] = r}
           New == {i \in DOMAIN t : t[i] = r}
           Moved == New \ {k}
           f == [i \in Old |-> IF i < k THEN i ELSE i + 1]
<1>1. /\ t \in Seq(S) /\ DOMAIN t = 1 .. Len(s) + 1 /\ Len(s) \in Nat /\ DOMAIN s = 1 .. Len(s)
      /\ \A i \in 1 .. Len(s) + 1 :
               t[i] = IF i < k THEN s[i] ELSE IF i = k THEN x ELSE s[i - 1]
  <2>1. t \in Seq(S) /\ Len(t) = Len(s) + 1 /\ Len(s) \in Nat
    BY InsertedAt
  <2>2. \A i \in 1 .. Len(s) + 1 :
           t[i] = IF i < k THEN s[i] ELSE IF i = k THEN x ELSE s[i - 1]
    BY InsertedAt
  <2> HIDE DEF t
  <2>3. DOMAIN t = 1 .. Len(t) /\ DOMAIN s = 1 .. Len(s)
    BY <2>1, LenProperties
  <2> QED
    BY <2>1, <2>2, <2>3
<1> HIDE DEF t
<1>2. IsFiniteSet(Old) /\ IsFiniteSet(New)
  <2>1. IsFiniteSet(1 .. Len(s)) /\ IsFiniteSet(1 .. Len(s) + 1)
    BY <1>1, FS_Interval
  <2> QED
    BY <1>1, <2>1, FS_Subset
<1>3. ExistsBijection(Old, Moved)
  <2>1. f \in [Old -> Moved]
    BY <1>1
  <2>2. ASSUME NEW i \in Old, NEW j \in Old, f[i] = f[j] PROVE i = j
    BY <1>1, <2>2
  <2>3. ASSUME NEW j \in Moved PROVE \E i \in Old : f[i] = j
    <3>1. CASE j < k
      <4>1. j \in Old /\ f[j] = j
        BY <1>1, <3>1
      <4> QED
        BY <4>1
    <3>2. CASE j > k
      <4>1. j - 1 \in Old /\ f[j - 1] = j
        BY <1>1, <3>2
      <4> QED
        BY <4>1
    <3>3. j < k \/ j > k
      BY <1>1
    <3> QED
      BY <3>1, <3>2, <3>3
  <2> HIDE DEF f
  <2>4. f \in Bijection(Old, Moved)
    BY <2>1, <2>2, <2>3 DEF Bijection, Injection, Surjection, IsInjective
  <2> QED
    BY <2>4 DEF ExistsBijection
<1>4. Cardinality(Moved) = Cardinality(Old) /\ Cardinality(Old) \in Nat
      /\ Cardinality(New) \in Nat
  BY <1>2, <1>3, FS_Bijection, FS_CardinalityType
<1>5. k \in New <=> r = x
  BY <1>1
<1>6. Cardinality(Moved) = IF k \in New THEN Cardinality(New) - 1 ELSE Cardinality(New)
  BY <1>2, FS_RemoveElement
<1>7. Cardinality(New) = Cardinality(Old) + (IF r = x THEN 1 ELSE 0)
  BY <1>4, <1>5, <1>6
<1> QED
  BY <1>4, <1>7 DEF CountIn, t

LEMMA CountAppended ==
  ASSUME NEW S, NEW s \in Seq(S), NEW x \in S, NEW r
  PROVE  CountIn(r, Append(s, x)) = CountIn(r, s) + (IF r = x THEN 1 ELSE 0)
<1>1. Len(s) \in Nat /\ Len(s) + 1 \in 1 .. Len(s) + 1
  OBVIOUS
<1> DEFINE t == Inserted(s, Len(s) + 1, x)
<1>2. /\ t \in Seq(S) /\ Len(t) = Len(s) + 1
      /\ \A i \in 1 .. Len(s) + 1 : t[i] = IF i < Len(s) + 1 THEN s[i] ELSE x
  BY <1>1, InsertedAt
<1>3. /\ Append(s, x) \in Seq(S) /\ Len(Append(s, x)) = Len(s) + 1
      /\ \A i \in 1 .. Len(s) + 1 : Append(s, x)[i] = IF i < Len(s) + 1 THEN s[i] ELSE x
  BY <1>1, AppendProperties
<1> HIDE DEF t
<1>4. Append(s, x) = t
  BY <1>1, <1>2, <1>3, SeqEqual
<1> QED
  BY <1>1, <1>4, CountInserted DEF t

Sorted(s) == \A i, j \in DOMAIN s : i < j => ~Slower(s[j], s[i])

LEMMA SortedInsertion ==
  ASSUME NEW S \in SUBSET Positive, NEW s \in Seq(S), Sorted(s),
         NEW u \in Nat \ {0}, NEW n, Result(u, n) \in S
  PROVE  /\ \E k \in 1 .. Len(s) + 1 : insertsort(u, n, s) = Inserted(s, k, Result(u, n))
         /\ Sorted(insertsort(u, n, s))
<1> DEFINE x == Result(u, n)
           Place(i) == /\ i <= Len(s) => Slower(x, s[i])
                       /\ \A j \in 1 .. i - 1 : ~Slower(x, s[j])
           k == CHOOSE i \in 1 .. Len(s) + 1 : Place(i)
           t == Inserted(s, k, x)
<1>1. Len(s) \in Nat /\ DOMAIN s = 1 .. Len(s) /\ \A i \in 1 .. Len(s) : s[i] \in S
  OBVIOUS
<1>2. \E i \in 1 .. Len(s) + 1 : Place(i)
  <2> DEFINE T == {i \in 1 .. Len(s) : Slower(x, s[i])}
  <2>1. PICK i \in 1 .. Len(s) + 1 : (i <= Len(s) => i \in T) /\ \A j \in 1 .. i - 1 : j \notin T
    BY <1>1, FirstPlace
  <2>2. Place(i)
    BY <1>1, <2>1
  <2> QED
    BY <2>2
<1>3. k \in 1 .. Len(s) + 1 /\ Place(k)
  BY <1>2
<1>4. insertsort(u, n, s) = t
  BY DEF insertsort, Inserted
<1> HIDE DEF k
<1>5. /\ t \in Seq(S) /\ Len(t) = Len(s) + 1
      /\ \A i \in 1 .. Len(s) + 1 :
            t[i] = IF i < k THEN s[i] ELSE IF i = k THEN x ELSE s[i - 1]
  BY <1>3, InsertedAt
<1> HIDE DEF t
<1>6. DOMAIN t = 1 .. Len(s) + 1
  BY <1>5
<1>7. x \in Positive /\ \A i \in 1 .. Len(s) : s[i] \in Positive
  BY <1>1
<1>8. ASSUME NEW i \in 1 .. Len(s), i < k PROVE ~Slower(x, s[i])
  BY <1>3, <1>8
<1>9. ASSUME NEW i \in 1 .. Len(s), k <= i PROVE ~Slower(s[i], x)
  <2>1. Slower(x, s[k]) /\ k \in 1 .. Len(s)
    BY <1>1, <1>3, <1>9
  <2>2. k = i \/ ~Slower(s[i], s[k])
    BY <1>1, <2>1, <1>9 DEF Sorted
  <2>3. CASE k = i
    BY <1>7, <2>1, <2>3, SlowerFacts
  <2>4. CASE ~Slower(s[i], s[k])
    BY <1>7, <2>1, <2>4, SlowerFacts
  <2> QED
    BY <2>2, <2>3, <2>4
<1>10. ASSUME NEW i \in 1 .. Len(s) + 1, NEW j \in 1 .. Len(s) + 1, i < j
       PROVE  ~Slower(t[j], t[i])
  <2>1. CASE j < k
    <3>1. t[i] = s[i] /\ t[j] = s[j] /\ i \in DOMAIN s /\ j \in DOMAIN s
      BY <1>1, <1>3, <1>5, <1>10, <2>1
    <3> QED
      BY <1>10, <3>1 DEF Sorted
  <2>2. CASE j = k
    <3>1. t[i] = s[i] /\ t[j] = x /\ i \in 1 .. Len(s)
      BY <1>1, <1>3, <1>5, <1>10, <2>2
    <3> QED
      BY <1>8, <1>10, <2>2, <3>1
  <2>3. CASE j > k /\ i = k
    <3>1. t[i] = x /\ t[j] = s[j - 1] /\ j - 1 \in 1 .. Len(s) /\ k <= j - 1
      BY <1>1, <1>3, <1>5, <2>3
    <3> QED
      BY <1>9, <3>1
  <2>4. CASE j > k /\ i < k
    <3>1. t[i] = s[i] /\ t[j] = s[j - 1] /\ i \in DOMAIN s /\ j - 1 \in DOMAIN s /\ i < j - 1
      BY <1>1, <1>3, <1>5, <2>4
    <3> QED
      BY <3>1 DEF Sorted
  <2>5. CASE j > k /\ i > k
    <3>1. t[i] = s[i - 1] /\ t[j] = s[j - 1] /\ i - 1 \in DOMAIN s /\ j - 1 \in DOMAIN s
          /\ i - 1 < j - 1
      BY <1>1, <1>3, <1>5, <1>10, <2>5
    <3> QED
      BY <3>1 DEF Sorted
  <2>6. k \in Nat
    BY <1>1, <1>3
  <2> QED
    BY <2>1, <2>2, <2>3, <2>4, <2>5, <2>6
<1>11. Sorted(t)
  BY <1>6, <1>10 DEF Sorted
<1> QED
  BY <1>3, <1>4, <1>11 DEF t

Halves(s, one) ==
  /\ 2 * Cardinality({i \in DOMAIN s : Slower(one, s[i])}) <= Len(s)
  /\ 2 * Cardinality({i \in DOMAIN s : Slower(s[i], one)}) <= Len(s)

(* What lies to one side of a place of a list of n is at most a half. *)
LEMMA SidesCount ==
  ASSUME NEW n \in Nat, NEW k \in Nat, NEW A, NEW B,
         \A i \in A : i \in 1 .. k, \A i \in B : i \in n + 1 - k .. n, 2 * k <= n
  PROVE  2 * Cardinality(A) <= n /\ 2 * Cardinality(B) <= n
<1>1. IsFiniteSet(1 .. k) /\ Cardinality(1 .. k) = k
  BY FS_Interval
<1>2. IsFiniteSet(n + 1 - k .. n) /\ Cardinality(n + 1 - k .. n) = k
  BY FS_Interval
<1>3. Cardinality(A) <= k /\ Cardinality(A) \in Nat
  BY <1>1, FS_Subset, FS_CardinalityType
<1>4. Cardinality(B) <= k /\ Cardinality(B) \in Nat
  BY <1>2, FS_Subset, FS_CardinalityType
<1> QED
  BY <1>3, <1>4

LEMMA FastestOf ==
  ASSUME NEW s \in Seq(Positive), Sorted(s), s # <<>>
  PROVE  {i \in DOMAIN s : Slower(save_minimum(s), s[i])} = {}
<1>1. /\ Len(s) \in Nat \ {0} /\ DOMAIN s = 1 .. Len(s)
      /\ \A i \in 1 .. Len(s) : s[i] \in Positive
  BY EmptySeq
<1>2. ASSUME NEW i \in DOMAIN s PROVE ~Slower(s[Len(s)], s[i])
  <2>1. CASE i = Len(s)
    BY <1>1, <2>1, SlowerFacts
  <2>2. CASE i < Len(s)
    BY <1>1, <2>2 DEF Sorted
  <2> QED
    BY <1>1, <2>1, <2>2
<1> QED
  BY <1>2 DEF save_minimum

LEMMA Halved ==
  ASSUME NEW n \in Nat
  PROVE  n \div 2 \in Nat /\ n % 2 \in {0, 1} /\ n = 2 * (n \div 2) + (n % 2)
  OBVIOUS

LEMMA Average ==
  ASSUME NEW a \in Nat \ {0}, NEW b \in Nat \ {0}
  PROVE  (a + b) \div 2 \in Nat \ {0}
<1>1. a + b \in Nat /\ a + b >= 2
  OBVIOUS
<1> DEFINE c == a + b
<1> HIDE DEF c
<1>2. c \in Nat /\ c >= 2
  BY <1>1 DEF c
<1>3. c \div 2 \in Nat \ {0}
  BY <1>2, Halved
<1> QED
  BY <1>3 DEF c

LEMMA MedianOf ==
  ASSUME NEW s \in Seq(Positive), Sorted(s), s # <<>>
  PROVE  /\ save_median(s) \in Positive
         /\ (Len(s) % 2 = 1 \/ \A i, j \in DOMAIN s : s[i].n = s[j].n) =>
               Halves(s, save_median(s))
<1> DEFINE L == Len(s)
           k == L \div 2
           one == save_median(s)
<1>1. /\ L \in Nat \ {0} /\ DOMAIN s = 1 .. L
      /\ \A i \in 1 .. L : s[i] \in Positive
  BY EmptySeq
<1>2. k \in Nat /\ L % 2 \in {0, 1} /\ L = 2 * k + (L % 2)
  <2>1. L \in Nat
    BY <1>1
  <2> HIDE DEF L
  <2> QED
    BY <2>1, Halved
<1> HIDE DEF L, k
<1>3. CASE L % 2 = 1
  <2>1. one = s[k + 1] /\ k + 1 \in 1 .. L /\ L = 2 * k + 1
    <3>1. one = s[k + 1]
      BY <1>3 DEF save_median, L, k
    <3> QED
      BY <1>1, <1>2, <1>3, <3>1
  <2>2. ASSUME NEW i \in 1 .. L, Slower(one, s[i]) PROVE i > k + 1
    <3>1. CASE i < k + 1
      BY <1>1, <2>1, <2>2, <3>1 DEF Sorted
    <3>2. CASE i = k + 1
      BY <1>1, <2>1, <2>2, <3>2, SlowerFacts
    <3> QED
      BY <1>1, <1>2, <3>1, <3>2
  <2>3. ASSUME NEW i \in 1 .. L, Slower(s[i], one) PROVE i <= k
    <3>1. CASE i > k + 1
      BY <1>1, <2>1, <2>3, <3>1 DEF Sorted
    <3>2. CASE i = k + 1
      BY <1>1, <2>1, <2>3, <3>2, SlowerFacts
    <3> QED
      BY <1>1, <1>2, <3>1, <3>2
  <2> DEFINE F == {i \in DOMAIN s : Slower(one, s[i])}
             G == {i \in DOMAIN s : Slower(s[i], one)}
  <2>4. /\ \A i \in G : i \in 1 .. k
        /\ \A i \in F : i \in L + 1 - k .. L
    BY <1>1, <1>2, <2>1, <2>2, <2>3
  <2>5. 2 * k <= L
    BY <1>2, <2>1
  <2> HIDE DEF F, G
  <2>6. 2 * Cardinality(G) <= L /\ 2 * Cardinality(F) <= L
    BY <1>1, <1>2, <2>4, <2>5, SidesCount
  <2>7. one \in Positive
    BY <1>1, <2>1
  <2> QED
    BY <2>6, <2>7 DEF F, G, Halves, L
<1>4. CASE L % 2 = 0
  <2> DEFINE a == s[k + 1]
             b == s[k]
  <2>1. L = 2 * k /\ k \in 1 .. L /\ k + 1 \in 1 .. L
    BY <1>1, <1>2, <1>4
  <2>2. one = Result((a.u + b.u) \div 2, (a.n + b.n) \div 2)
    <3>1. L % 2 # 1 /\ (k + 1) - 1 = k
      BY <1>2, <1>4
    <3> QED
      BY <3>1 DEF save_median, L, k
  <2>3. a \in Positive /\ b \in Positive
    BY <1>1, <2>1
  <2> HIDE DEF a, b
  <2>4. one \in Positive /\ one.u = (a.u + b.u) \div 2 /\ one.n = (a.n + b.n) \div 2
    <3>1. a.u \in Nat \ {0} /\ b.u \in Nat \ {0} /\ a.n \in Nat \ {0} /\ b.n \in Nat \ {0}
      BY <2>3 DEF Positive
    <3>2. (a.u + b.u) \div 2 \in Nat \ {0} /\ (a.n + b.n) \div 2 \in Nat \ {0}
      BY <3>1, Average
    <3> HIDE DEF one
    <3> QED
      BY <2>2, <3>2 DEF Positive, Result
  <2>5. ASSUME \A i, j \in DOMAIN s : s[i].n = s[j].n PROVE Halves(s, one)
    <3> DEFINE n == a.n
    <3>1. n \in Nat \ {0} /\ b.n = n /\ \A i \in 1 .. L : s[i].n = n
      BY <1>1, <2>1, <2>3, <2>5 DEF a, b, Positive
    <3>2. one.n = n
      BY <2>4, <3>1
    <3> HIDE DEF n
    <3>3. \A i \in 1 .. L : s[i].u \in Nat
      BY <1>1 DEF Positive
    <3>4. ASSUME NEW x \in Nat, NEW y \in Nat PROVE x * n > y * n <=> x > y
      BY <3>1, Multiplied
    <3>5. \A i, j \in 1 .. L : i < j => s[j].u <= s[i].u
      <4> SUFFICES ASSUME NEW i \in 1 .. L, NEW j \in 1 .. L, i < j PROVE s[j].u <= s[i].u
        OBVIOUS
      <4>1. ~(s[j].u * n > s[i].u * n)
        BY <1>1, <3>1 DEF Sorted, Slower
      <4> QED
        BY <3>3, <3>4, <4>1
    <3>6. a.u <= b.u /\ a.u \in Nat /\ b.u \in Nat
      BY <2>1, <3>3, <3>5 DEF a, b
    <3>7. a.u <= one.u /\ one.u <= b.u /\ one.u \in Nat
      BY <2>4, <3>6
    <3>8. ASSUME NEW i \in 1 .. L, Slower(one, s[i]) PROVE i > k
      <4>1. one.u > s[i].u
        BY <3>1, <3>2, <3>3, <3>4, <3>7, <3>8 DEF Slower
      <4>2. CASE i < k
        <5>1. b.u <= s[i].u
          BY <2>1, <3>5, <4>2 DEF b
        <5> QED
          BY <3>3, <3>6, <3>7, <4>1, <5>1
      <4>3. CASE i = k
        BY <3>3, <3>6, <3>7, <4>1, <4>3 DEF b
      <4> QED
        BY <1>1, <1>2, <4>2, <4>3
    <3>9. ASSUME NEW i \in 1 .. L, Slower(s[i], one) PROVE i <= k
      <4>1. s[i].u > one.u
        BY <3>1, <3>2, <3>3, <3>4, <3>7, <3>9 DEF Slower
      <4>2. CASE i > k + 1
        <5>1. s[i].u <= a.u
          BY <2>1, <3>5, <4>2 DEF a
        <5> QED
          BY <3>3, <3>6, <3>7, <4>1, <5>1
      <4>3. CASE i = k + 1
        BY <3>3, <3>6, <3>7, <4>1, <4>3 DEF a
      <4> QED
        BY <1>1, <1>2, <4>2, <4>3
    <3> DEFINE F == {i \in DOMAIN s : Slower(one, s[i])}
               G == {i \in DOMAIN s : Slower(s[i], one)}
    <3>10. /\ \A i \in G : i \in 1 .. k
           /\ \A i \in F : i \in L + 1 - k .. L
      BY <1>1, <1>2, <2>1, <3>8, <3>9
    <3>11. 2 * k <= L
      BY <1>2, <2>1
    <3> HIDE DEF F, G
    <3>12. 2 * Cardinality(G) <= L /\ 2 * Cardinality(F) <= L
      BY <1>1, <1>2, <3>10, <3>11, SidesCount
    <3> QED
      BY <3>12 DEF F, G, Halves, L
  <2> QED
    BY <2>4, <2>5, <1>2, <1>4 DEF L
<1> QED
  BY <1>2, <1>3, <1>4

----------------------------------------------------------------------------
(* The invariant. *)
Measured == [u : Times \ {0}, n : Counts]
Offers == [u : Times, n : Counts]
ProgramNames == BwPrograms \cup {"stream"} \cup ChainPrograms \cup FilePrograms
Early == {"main", "ready", "turn", "exit", "astray"}

JobNamed ==
  /\ "prog" \in DOMAIN job
  /\ job.prog \in ProgramNames
  /\ job.prog \in BwPrograms => job.prog \in BandwidthPrograms

(* The list has what was offered. *)
ListFits ==
  /\ results \in Seq(Measured) /\ offered \in Seq(Offers)
  /\ Sorted(results)
  /\ \A r \in Offers : CountIn(r, results) = IF r.u = 0 THEN 0 ELSE CountIn(r, offered)
  /\ phase \notin {"results", "reported"} \/ search # none => results = <<>>

(* The bounds of find_tlb enclose the threshold. *)
SearchFits(s) ==
  /\ s \in [threshold : Thresholds, lower : Nat, upper : Nat, i : Nat \ {0}]
  /\ s.upper = 0 => /\ s.i % 2 = 0 /\ s.i \div 2 <= s.threshold
                    /\ \E d \in Nat \ {0} : s.i * d = 2 * MaxPages
  /\ s.upper > 0 => /\ s.lower <= s.threshold /\ s.threshold < s.upper
                    /\ s.upper <= MaxPages
                    /\ s.i = middle(s.lower, s.upper)

Printed == IF job.prog \in Fastest THEN save_minimum(results) ELSE Rate(save_median(results))

ReportInv ==
  /\ JobNamed /\ ListFits
  /\ phase \in Early \cup {"search", "results", "reported"}
  /\ phase \in Early \cup {"results"} => search = none
  /\ phase = "search" => search # none
  /\ search # none => SearchFits(search)
  /\ phase = "reported" => TlbIsExact /\ (search = none => out = Printed)

LEMMA NoneIsNoSearch ==
  ASSUME NEW s, SearchFits(s)
  PROVE  s # none
<1>1. "threshold" \in DOMAIN s /\ "threshold" \notin DOMAIN none
  BY DEF SearchFits, none
<1> QED
  BY <1>1

LEMMA ReportBegins ==
  ASSUME MemoryInit \/ FileInit
  PROVE  ReportInv
<1>1. phase = "main" /\ search = none /\ results = <<>> /\ offered = <<>>
  BY DEF MemoryInit, FileInit, InitialState, insertinit
<1>2. JobNamed
  <2>1. CASE job \in BandwidthJobs
    BY <2>1, MemoryAssumption DEF JobNamed, ProgramNames, BandwidthPrograms
  <2>2. CASE job \in StreamJobs
    BY <2>2, MemoryAssumption DEF JobNamed, ProgramNames, BwPrograms, MmapRd
  <2>3. CASE job \in ChainJobs
    BY <2>3, MemoryAssumption DEF JobNamed, ProgramNames, BwPrograms, MmapRd, ChainPrograms
  <2>4. CASE job \in FileJobs
    BY <2>4, FileAssumption DEF JobNamed, ProgramNames, BwPrograms, MmapRd, FilePrograms
  <2> QED
    BY <2>1, <2>2, <2>3, <2>4 DEF MemoryInit, FileInit
<1>3. ListFits
  <2>1. <<>> \in Seq(Measured) /\ <<>> \in Seq(Offers) /\ Len(<<>>) = 0
    BY EmptySeq
  <2>2. DOMAIN <<>> = {}
    BY <2>1
  <2>3. Sorted(<<>>) /\ \A r : CountIn(r, <<>>) = 0
    <3>1. ASSUME NEW r PROVE CountIn(r, <<>>) = 0
      <4>1. {i \in DOMAIN <<>> : <<>>[i] = r} = {}
        BY <2>2
      <4> QED
        BY <4>1, FS_EmptySet DEF CountIn
    <3> QED
      BY <2>2, <3>1 DEF Sorted
  <2> QED
    BY <1>1, <2>1, <2>3 DEF ListFits
<1> QED
  BY <1>1, <1>2, <1>3 DEF ReportInv, Early

(* Steps that come before the results. *)
LEMMA ReportQuiet ==
  ASSUME ReportInv, phase \in Early, phase' \in Early \cup {"results"},
         UNCHANGED <<search, report>>, "prog" \in DOMAIN job', job'.prog = job.prog
  PROVE  ReportInv'
<1>1. JobNamed'
  BY DEF ReportInv, JobNamed, BandwidthPrograms
<1>2. ListFits'
  BY DEF ReportInv, ListFits, Early, report, CountIn, Sorted
<1> QED
  BY <1>1, <1>2 DEF ReportInv, Early

LEMMA ReportStutters ==
  ASSUME ReportInv, UNCHANGED memoryVars
  PROVE  ReportInv'
<1>1. UNCHANGED <<job, phase, search, results, offered, out>>
  BY DEF memoryVars, setup, report
<1> QED
  BY <1>1 DEF ReportInv, JobNamed, BandwidthPrograms, ListFits, CountIn, Sorted, TlbIsExact,
              Printed, Rate

LEMMA TlbStarts ==
  ASSUME ReportInv, MemCleanup
  PROVE  ReportInv'
<1>1. CASE job.prog # "tlb"
  <2>1. phase = "ready" /\ phase' = "results" /\ UNCHANGED <<search, report>>
        /\ job' = [prog |-> job.prog]
    BY <1>1 DEF MemCleanup
  <2> QED
    BY <2>1, ReportQuiet DEF Early
<1>2. CASE job.prog = "tlb"
  <2>1. /\ phase = "ready" /\ phase' = "search" /\ UNCHANGED report /\ search = none
        /\ job' = [prog |-> job.prog]
    BY <1>2 DEF MemCleanup, ReportInv, Early
  <2>2. PICK t \in Thresholds : search' = [threshold |-> t, lower |-> 0, upper |-> 0, i |-> 8]
    BY <1>2 DEF MemCleanup
  <2> DEFINE M == MaxPages
  <2>3. M \in Nat /\ M >= 8
        /\ \A i, d \in 1 .. 2 * M : i * d = 2 * M => d = 1 \/ d % 2 = 0
    BY TlbAssumption
  <2> HIDE DEF M
  <2>4. M % 2 = 0
    BY <2>3
  <2>5. PICK h \in Nat : M = 2 * h
    BY <2>3, <2>4, Halved
  <2>6. h % 2 = 0
    BY <2>3, <2>5
  <2>7. PICK q \in Nat : h = 2 * q
    BY <2>6, Halved
  <2>8. 8 * q = 2 * M /\ q \in Nat \ {0}
    BY <2>3, <2>5, <2>7
  <2>9. SearchFits(search')
    BY <2>2, <2>8, TlbAssumption DEF SearchFits, M
  <2>10. JobNamed'
    BY <2>1 DEF ReportInv, JobNamed, BandwidthPrograms
  <2>11. ListFits'
    BY <2>1 DEF ReportInv, ListFits, Early, report, CountIn, Sorted
  <2> QED
    BY <2>1, <2>9, <2>10, <2>11, NoneIsNoSearch DEF ReportInv, Early
<1> QED
  BY <1>1, <1>2

LEMMA Middle ==
  ASSUME NEW a \in Nat, NEW b \in Nat, a + 1 < b
  PROVE  middle(a, b) \in Nat \ {0} /\ a < middle(a, b) /\ middle(a, b) < b
<1>1. PICK d \in Nat : b = a + d /\ d >= 2
  <2>1. b - a \in Nat /\ b = a + (b - a) /\ b - a >= 2
    OBVIOUS
  <2> QED
    BY <2>1
<1>2. d \div 2 >= 1 /\ d \div 2 < d /\ d \div 2 \in Nat
  BY <1>1
<1>3. b - a = d
  BY <1>1
<1> QED
  BY <1>1, <1>2, <1>3 DEF middle

(* A step of the search. *)
LEMMA SearchStep ==
  ASSUME ReportInv, Double \/ Halve
  PROVE  ReportInv'
<1> DEFINE s == search
<1>1. /\ phase = "search" /\ phase' = "search" /\ UNCHANGED <<job, report>>
      /\ SearchFits(s) /\ search # none
  BY DEF Double, Halve, ReportInv, setup
<1>2. /\ s \in [threshold : Thresholds, lower : Nat, upper : Nat, i : Nat \ {0}]
      /\ s.threshold \in Nat /\ MaxPages \in Nat /\ MaxPages >= 8
      /\ \A i, d \in 1 .. 2 * MaxPages : i * d = 2 * MaxPages => d = 1 \/ d % 2 = 0
  BY <1>1, TlbAssumption DEF SearchFits
<1>3. SearchFits(search')
  <2>1. CASE Double
    <3>1. s.upper = 0 /\ s.i <= MaxPages
      BY <2>1 DEF Double
    <3>2. s.i % 2 = 0 /\ s.i \div 2 <= s.threshold
      BY <1>1, <3>1 DEF SearchFits
    <3>3. PICK d \in Nat \ {0} : s.i * d = 2 * MaxPages
      BY <1>1, <3>1 DEF SearchFits
    <3>4. s.i \in Nat \ {0} /\ s.i \div 2 \in Nat
      BY <1>2
    <3>5. CASE slow(s.i)
      <4>1. search' = [search EXCEPT !.lower = s.i \div 2, !.upper = s.i,
                                     !.i = middle(s.i \div 2, s.i)]
        BY <2>1, <3>5 DEF Double
      <4>2. s.i > s.threshold
        BY <3>5 DEF slow
      <4>3. /\ search'.lower = s.i \div 2 /\ search'.upper = s.i
            /\ search'.i = middle(s.i \div 2, s.i)
            /\ search'.threshold = s.threshold
        BY <1>2, <4>1
      <4>4. s.i >= 8 \/ s.i < 8
        BY <3>4
      <4>5. middle(s.i \div 2, s.i) \in Nat \ {0}
        <5>1. s.i = 2 * (s.i \div 2) + 0
          BY <3>2, <3>4, Halved
        <5>2. PICK h \in Nat \ {0} : s.i = 2 * h /\ s.i \div 2 = h
          BY <3>4, <5>1
        <5>3. s.i - h = h /\ h \div 2 \in Nat
          BY <5>2
        <5> QED
          BY <5>2, <5>3 DEF middle
      <4>6. search' \in [threshold : Thresholds, lower : Nat, upper : Nat, i : Nat \ {0}]
        BY <1>2, <3>4, <4>1, <4>5
      <4> QED
        BY <3>1, <3>2, <3>4, <4>2, <4>3, <4>6 DEF SearchFits
    <3>6. CASE ~slow(s.i)
      <4>1. search' = [search EXCEPT !.i = 2 * @]
        BY <2>1, <3>6 DEF Double
      <4>2. s.i <= s.threshold
        BY <1>2, <3>4, <3>6 DEF slow
      <4>3. /\ search'.lower = s.lower /\ search'.upper = 0
            /\ search'.i = 2 * s.i
            /\ search'.threshold = s.threshold
        BY <1>2, <3>1, <4>1
      <4>4. search' \in [threshold : Thresholds, lower : Nat, upper : Nat, i : Nat \ {0}]
        BY <1>2, <3>4, <4>1
      <4>5. (2 * s.i) % 2 = 0 /\ (2 * s.i) \div 2 = s.i
        BY <3>4
      <4>6. s.i \in 1 .. 2 * MaxPages /\ d \in 1 .. 2 * MaxPages
        <5>1. d <= s.i * d
          BY <3>4, Multiplied
        <5> QED
          BY <1>2, <3>1, <3>3, <3>4, <5>1
      <4>7. d % 2 = 0
        <5>1. d = 1 \/ d % 2 = 0
          BY <1>2, <3>3, <4>6
        <5>2. d # 1
          BY <1>2, <3>1, <3>3, <3>4
        <5> QED
          BY <5>1, <5>2
      <4>8. PICK e \in Nat \ {0} : d = 2 * e
        BY <4>7, Halved
      <4>9. (2 * s.i) * e = 2 * MaxPages
        BY <3>3, <3>4, <4>8
      <4> QED
        BY <4>2, <4>3, <4>4, <4>5, <4>8, <4>9 DEF SearchFits
    <3> QED
      BY <3>5, <3>6
  <2>2. CASE Halve
    <3> DEFINE lo == IF slow(s.i) THEN s.lower ELSE s.i
               up == IF slow(s.i) THEN s.i ELSE s.upper
    <3>1. /\ s.upper > 0 /\ s.lower + 1 < s.upper
          /\ search' = [search EXCEPT !.lower = lo, !.upper = up, !.i = middle(lo, up)]
      BY <2>2 DEF Halve
    <3>2. s.lower <= s.threshold /\ s.threshold < s.upper /\ s.upper <= MaxPages
          /\ s.i = middle(s.lower, s.upper)
      BY <1>1, <3>1 DEF SearchFits
    <3>3. s.i \in Nat \ {0} /\ s.lower < s.i /\ s.i < s.upper /\ s.lower \in Nat /\ s.upper \in Nat
      BY <1>2, <3>1, <3>2, Middle
    <3>4. lo \in Nat /\ up \in Nat /\ lo <= s.threshold /\ s.threshold < up /\ up <= MaxPages
          /\ lo < up /\ up > 0
      BY <1>2, <3>2, <3>3 DEF slow
    <3> HIDE DEF lo, up
    <3>5. middle(lo, up) \in Nat
      <4>1. up - lo \in Nat
        BY <3>4
      <4>2. (up - lo) \div 2 \in Nat
        BY <4>1, Halved
      <4> QED
        BY <3>4, <4>2 DEF middle
    <3>6. middle(lo, up) # 0
      <4>1. CASE lo + 1 < up
        BY <3>4, <4>1, Middle
      <4>2. CASE lo # 0
        <5>1. up - lo \in Nat
          BY <3>4
        <5>2. (up - lo) \div 2 \in Nat
          BY <5>1, Halved
        <5> QED
          BY <3>4, <4>2, <5>2 DEF middle
      <4>3. lo # 0 \/ lo + 1 < up
        <5>1. CASE slow(s.i)
          <6>1. up = s.i /\ s.threshold < up /\ s.threshold >= 4
            BY <1>2, <3>4, <5>1, TlbAssumption DEF up
          <6> QED
            BY <1>2, <3>4, <6>1
        <5>2. CASE ~slow(s.i)
          BY <3>3, <5>2 DEF lo
        <5> QED
          BY <5>1, <5>2
      <4> QED
        BY <4>1, <4>2, <4>3
    <3>7. /\ search'.lower = lo /\ search'.upper = up /\ search'.i = middle(lo, up)
          /\ search'.threshold = s.threshold
          /\ search' \in [threshold : Thresholds, lower : Nat, upper : Nat, i : Nat \ {0}]
      BY <1>2, <3>1, <3>4, <3>5, <3>6
    <3> QED
      BY <3>4, <3>7 DEF SearchFits
  <2> QED
    BY <2>1, <2>2
<1>4. JobNamed'
  BY <1>1 DEF ReportInv, JobNamed, BandwidthPrograms
<1>5. ListFits'
  BY <1>1 DEF ReportInv, ListFits, report, CountIn, Sorted
<1> QED
  BY <1>1, <1>3, <1>4, <1>5, NoneIsNoSearch DEF ReportInv, Early

LEMMA SearchEnds ==
  ASSUME ReportInv, TlbFound
  PROVE  ReportInv'
<1> DEFINE s == search
<1>1. /\ phase = "search" /\ phase' = "reported" /\ UNCHANGED <<job, search, results, offered>>
      /\ SearchFits(s) /\ search # none
      /\ out' = [pages |-> IF s.i >= MaxPages THEN 0 ELSE s.lower]
  BY DEF TlbFound, ReportInv, setup
<1>2. /\ s \in [threshold : Thresholds, lower : Nat, upper : Nat, i : Nat \ {0}]
      /\ s.threshold \in Nat /\ MaxPages \in Nat /\ MaxPages >= 8
  BY <1>1, TlbAssumption DEF SearchFits
<1>3. out'.pages = IF s.threshold < MaxPages THEN s.threshold ELSE 0
  <2>1. CASE s.upper = 0 /\ s.i > MaxPages
    <3>1. s.i % 2 = 0 /\ s.i \div 2 <= s.threshold /\ s.i \in Nat \ {0}
      BY <1>1, <1>2, <2>1 DEF SearchFits
    <3>2. PICK d \in Nat \ {0} : s.i * d = 2 * MaxPages
      BY <1>1, <2>1 DEF SearchFits
    <3>3. d = 1
      <4>1. CASE d >= 2
        <5>1. s.i * 2 <= s.i * d
          BY <3>1, <4>1, Multiplied
        <5> QED
          BY <1>2, <2>1, <3>1, <3>2, <5>1
      <4> QED
        BY <4>1
    <3>4. s.i = 2 * MaxPages /\ s.i \div 2 = MaxPages
      BY <1>2, <3>1, <3>2, <3>3
    <3> QED
      BY <1>1, <1>2, <2>1, <3>1, <3>4
  <2>2. CASE s.upper > 0 /\ s.lower + 1 >= s.upper
    <3>1. s.lower <= s.threshold /\ s.threshold < s.upper /\ s.upper <= MaxPages
          /\ s.i = middle(s.lower, s.upper) /\ s.lower \in Nat /\ s.upper \in Nat
      BY <1>1, <1>2, <2>2 DEF SearchFits
    <3>2. s.upper - s.lower = 1 /\ s.threshold = s.lower
      BY <1>2, <2>2, <3>1
    <3>3. s.i = s.lower
      BY <3>1, <3>2 DEF middle
    <3> QED
      BY <1>1, <1>2, <3>1, <3>2, <3>3
  <2> QED
    BY <2>1, <2>2 DEF TlbFound
<1>4. JobNamed'
  BY <1>1 DEF ReportInv, JobNamed, BandwidthPrograms
<1>5. ListFits'
  BY <1>1 DEF ReportInv, ListFits, report, CountIn, Sorted
<1>6. TlbIsExact'
  BY <1>1, <1>3 DEF TlbIsExact
<1> QED
  BY <1>1, <1>4, <1>5, <1>6 DEF ReportInv, Early

LEMMA ResultMerged ==
  ASSUME ReportInv, Merge
  PROVE  ReportInv'
<1>1. /\ phase = "results" /\ phase' = "results" /\ UNCHANGED <<job, search, out>>
      /\ search = none
  BY DEF Merge, ReportInv, Early, setup
<1>2. PICK u \in Times, n \in Counts :
          /\ results' = insertsort(u, n, results)
          /\ offered' = Append(offered, Result(u, n))
  BY DEF Merge
<1>3. /\ Measured \in SUBSET Positive /\ Measured \subseteq Offers /\ Times \subseteq Nat
      /\ Result(u, n) \in Offers /\ (u # 0 => Result(u, n) \in Measured)
  BY MemoryAssumption DEF Measured, Positive, Offers, Result
<1>4. /\ results \in Seq(Measured) /\ offered \in Seq(Offers) /\ Sorted(results)
      /\ \A r \in Offers : CountIn(r, results) = IF r.u = 0 THEN 0 ELSE CountIn(r, offered)
  BY DEF ReportInv, ListFits
<1>5. /\ offered' \in Seq(Offers)
      /\ \A r \in Offers : CountIn(r, offered')
                             = CountIn(r, offered) + (IF r = Result(u, n) THEN 1 ELSE 0)
  BY <1>2, <1>3, <1>4, AppendProperties, CountAppended
<1>6. CASE u = 0
  <2>1. results' = results
    BY <1>2, <1>6 DEF insertsort
  <2>2. \A r \in Offers : r.u # 0 => r # Result(u, n)
    BY <1>6 DEF Result
  <2>3. \A r \in Offers : CountIn(r, results') = IF r.u = 0 THEN 0 ELSE CountIn(r, offered')
    <3> SUFFICES ASSUME NEW r \in Offers
                 PROVE  CountIn(r, results') = IF r.u = 0 THEN 0 ELSE CountIn(r, offered')
      OBVIOUS
    <3>1. CountIn(r, results') = CountIn(r, results)
      BY <2>1
    <3>2. r.u # 0 => CountIn(r, offered') = CountIn(r, offered)
      <4>1. CountIn(r, offered) \in Nat
        <5>1. Len(offered) + 1 \in 1 .. Len(offered) + 1
          BY <1>4
        <5> QED
          BY <1>3, <1>4, <5>1, CountInserted
      <4> QED
        BY <1>5, <2>2, <4>1
    <3> QED
      BY <1>4, <3>1, <3>2
  <2>4. ListFits'
    BY <1>1, <1>4, <1>5, <2>1, <2>3 DEF ListFits, CountIn, Sorted
  <2> QED
    BY <1>1, <2>4 DEF ReportInv, Early, JobNamed, BandwidthPrograms
<1>7. CASE u # 0
  <2>1. u \in Nat \ {0} /\ Result(u, n) \in Measured
    BY <1>3, <1>7
  <2>2. /\ \E k \in 1 .. Len(results) + 1 : results' = Inserted(results, k, Result(u, n))
        /\ Sorted(results')
    BY <1>2, <1>3, <1>4, <2>1, SortedInsertion DEF Sorted
  <2>3. PICK k \in 1 .. Len(results) + 1 : results' = Inserted(results, k, Result(u, n))
    BY <2>2
  <2>4. /\ results' \in Seq(Measured)
        /\ \A r : CountIn(r, results')
                    = CountIn(r, results) + (IF r = Result(u, n) THEN 1 ELSE 0)
        /\ \A r : CountIn(r, results) \in Nat
    BY <1>4, <2>1, <2>3, InsertedAt, CountInserted
  <2>5. \A r \in Offers : r.u = 0 => r # Result(u, n)
    BY <1>7 DEF Result
  <2>6. ASSUME NEW r \in Offers
        PROVE  CountIn(r, results') = IF r.u = 0 THEN 0 ELSE CountIn(r, offered')
    <3>1. CASE r.u = 0
      BY <1>4, <2>4, <2>5, <3>1
    <3>2. CASE r.u # 0
      <4>1. CountIn(r, results) = CountIn(r, offered)
        BY <1>4, <3>2
      <4>2. CountIn(r, results') = CountIn(r, results) + (IF r = Result(u, n) THEN 1 ELSE 0)
        BY <2>4
      <4>3. CountIn(r, offered') = CountIn(r, offered) + (IF r = Result(u, n) THEN 1 ELSE 0)
        BY <1>5
      <4> QED
        BY <3>2, <4>1, <4>2, <4>3
    <3> QED
      BY <3>1, <3>2
  <2>7. ListFits'
    BY <1>1, <1>5, <2>2, <2>4, <2>6 DEF ListFits, CountIn, Sorted
  <2> QED
    BY <1>1, <2>7 DEF ReportInv, Early, JobNamed, BandwidthPrograms
<1> QED
  BY <1>6, <1>7

LEMMA ResultReported ==
  ASSUME ReportInv, MemoryReport
  PROVE  ReportInv'
<1>1. /\ phase = "results" /\ phase' = "reported" /\ UNCHANGED <<job, search, results, offered>>
      /\ search = none /\ out' = Printed
  BY DEF MemoryReport, ReportInv, Early, setup, Printed
<1>2. JobNamed'
  BY <1>1 DEF ReportInv, JobNamed, BandwidthPrograms
<1>3. ListFits'
  BY <1>1 DEF ReportInv, ListFits, Early, CountIn, Sorted
<1>4. Printed' = Printed
  BY <1>1 DEF Printed, Rate
<1>5. TlbIsExact'
  BY <1>1 DEF TlbIsExact
<1> QED
  BY <1>1, <1>2, <1>3, <1>4, <1>5 DEF ReportInv, Early

(* The steps that have nothing to do with results. *)
LEMMA EarlySteps ==
  ASSUME ReportInv,
         \/ Usage \/ InitLoop \/ InitLoopFails \/ Turn \/ TurnFails \/ ChunkLoop \/ TurnEnds
         \/ Cleanup \/ StreamInit \/ StreamInitFails \/ StreamBody \/ StreamCleanup
         \/ Initialize \/ InitializeFails \/ Walk \/ Load \/ LineTest \/ WalkEnds
         \/ FileRefused \/ FileInitialize \/ FileInitializeFails
         \/ FileTurn \/ FileTurnFails \/ FileStep \/ FileTurnEnds \/ FileCleanup
  PROVE  ReportInv'
<1>1. phase \in Early /\ UNCHANGED <<search, report>> /\ phase' \in Early \cup {"results"}
  <2>1. CASE Usage \/ InitLoop \/ InitLoopFails \/ Turn \/ TurnFails \/ ChunkLoop \/ TurnEnds
             \/ Cleanup
    BY <2>1 DEF Usage, InitLoop, InitLoopFails, Turn, TurnFails, ChunkLoop, TurnEnds, Cleanup,
                Early
  <2>2. CASE StreamInit \/ StreamInitFails \/ StreamBody \/ StreamCleanup
             \/ Initialize \/ InitializeFails \/ Walk \/ Load \/ LineTest \/ WalkEnds
    BY <2>2 DEF StreamInit, StreamInitFails, StreamBody, StreamCleanup, Initialize,
                InitializeFails, Walk, Load, LineTest, WalkEnds, Early
  <2>3. CASE FileRefused \/ FileInitialize \/ FileInitializeFails
             \/ FileTurn \/ FileTurnFails \/ FileStep \/ FileTurnEnds \/ FileCleanup
    BY <2>3 DEF FileRefused, FileInitialize, FileInitializeFails, FileTurn, FileTurnFails,
                FileStep, FileTurnEnds, FileCleanup, Early
  <2> QED
    BY <2>1, <2>2, <2>3
<1>2. "prog" \in DOMAIN job
  BY DEF ReportInv, JobNamed
<1>3. "prog" \in DOMAIN job' /\ job'.prog = job.prog
  <2>1. CASE job' = job
    BY <1>2, <2>1
  <2>2. CASE job' = [prog |-> job.prog]
    BY <2>2
  <2>3. CASE job' = [job EXCEPT !.len = @ \div 2, !.maxlen = job.len \div 2]
    BY <1>2, <2>3
  <2>4. job' = job \/ job' = [prog |-> job.prog]
        \/ job' = [job EXCEPT !.len = @ \div 2, !.maxlen = job.len \div 2]
    BY DEF Usage, InitLoop, InitLoopFails, Turn, TurnFails, ChunkLoop, TurnEnds, Cleanup,
           StreamInit, StreamInitFails, StreamBody, StreamCleanup, Initialize,
           InitializeFails, Walk, Load, LineTest, WalkEnds, FileRefused, FileInitialize,
           FileInitializeFails, FileTurn, FileTurnFails, FileStep, FileTurnEnds, FileCleanup,
           setup
  <2> QED
    BY <2>1, <2>2, <2>3, <2>4
<1> QED
  BY <1>1, <1>3, ReportQuiet

LEMMA ReportInvKept ==
  ASSUME ReportInv, [FileNext]_memoryVars
  PROVE  ReportInv'
<1>1. CASE UNCHANGED memoryVars
  BY <1>1, ReportStutters
<1>2. CASE MemoryNext
  BY <1>2, EarlySteps, TlbStarts, SearchStep, SearchEnds, ResultMerged, ResultReported
     DEF MemoryNext
<1>3. CASE FileRefused \/ FileInitialize \/ FileInitializeFails
             \/ FileTurn \/ FileTurnFails \/ FileStep \/ FileTurnEnds \/ FileCleanup
  BY <1>3, EarlySteps
<1> QED
  BY <1>1, <1>2, <1>3 DEF FileNext

LEMMA ReportSafe ==
  ASSUME ReportInv
  PROVE  ReportIsRight
<1>1. ResultsSorted
  <2>1. /\ results \in Seq(Measured) /\ offered \in Seq(Offers) /\ Sorted(results)
        /\ \A r \in Offers : CountIn(r, results) = IF r.u = 0 THEN 0 ELSE CountIn(r, offered)
    BY DEF ReportInv, ListFits
  <2>2. Measured \subseteq Offers
    BY DEF Measured, Offers
  <2>3. Range(offered) \subseteq Offers /\ Range(results) \subseteq Offers
    BY <2>1, <2>2 DEF Range
  <2> QED
    BY <2>1, <2>3 DEF ResultsSorted, Sorted
<1>2. TlbIsExact
  BY DEF ReportInv, TlbIsExact
<1>3. ReportIsMiddle
  <2> SUFFICES ASSUME phase = "reported", results # <<>> PROVE ReportIsMiddle
    BY DEF ReportIsMiddle
  <2>1. search = none /\ out = Printed
    BY DEF ReportInv, ListFits
  <2>2. results \in Seq(Positive) /\ Sorted(results)
    <3>1. Measured \subseteq Positive
      BY MemoryAssumption DEF Measured, Positive
    <3>2. results \in Seq(Measured) /\ Sorted(results)
      BY DEF ReportInv, ListFits
    <3> QED
      BY <3>1, <3>2
  <2>3. BandwidthPrograms \subseteq BwPrograms \cup {"bw_file_rd"}
    BY MemoryAssumption DEF BandwidthPrograms
  <2>4. CASE job.prog \in Fastest
    <3>1. job.prog \notin BandwidthPrograms
      BY <2>3, <2>4 DEF Fastest, BwPrograms, MmapRd
    <3>2. out = save_minimum(results)
      BY <2>1, <2>4 DEF Printed
    <3> QED
      BY <2>2, <2>4, <3>1, <3>2, FastestOf DEF ReportIsMiddle
  <2>5. CASE job.prog \notin Fastest
    <3> DEFINE r == save_median(results)
               one == IF job.prog \in BandwidthPrograms
                      THEN Result(out.u, out.n \div Parallel) ELSE out
    <3>1. out = Rate(r)
      BY <2>1, <2>5 DEF Printed
    <3>2. /\ r \in Positive
          /\ (Len(results) % 2 = 1 \/ \A i, j \in DOMAIN results : results[i].n = results[j].n)
               => Halves(results, r)
      BY <2>2, MedianOf
    <3> HIDE DEF r
    <3>3. one = r
      <4>1. CASE job.prog \in BandwidthPrograms
        <5>1. job.prog \in BwPrograms \cup {"bw_file_rd"}
          BY <2>3, <4>1
        <5>2. r.u # 0 /\ r.n \in Nat /\ r = [u |-> r.u, n |-> r.n]
          BY <3>2 DEF Positive
        <5>3. Rate(r) = [u |-> r.u, n |-> r.n * Parallel]
          BY <5>1, <5>2 DEF Rate, BwPrograms, MmapRd, Mem!adjusted_bandwidth,
               Mem64!adjusted_bandwidth, Mem64a!adjusted_bandwidth, Mem64d!adjusted_bandwidth,
               Mem64p!adjusted_bandwidth, Mmap!bandwidth
        <5>4. (r.n * Parallel) \div Parallel = r.n
          BY <5>2, MemoryAssumption
        <5> QED
          BY <3>1, <4>1, <5>2, <5>3, <5>4 DEF Result
      <4>2. CASE job.prog \notin BandwidthPrograms
        <5>1. job.prog \notin BwPrograms \cup {"bw_file_rd"}
          BY <4>2 DEF ReportInv, JobNamed, BandwidthPrograms
        <5>2. Rate(r) = r
          BY <5>1 DEF Rate, BwPrograms, MmapRd
        <5> QED
          BY <3>1, <4>2, <5>2
      <4> QED
        BY <4>1, <4>2
    <3> HIDE DEF one
    <3> QED
      BY <2>5, <3>2, <3>3 DEF ReportIsMiddle, Halves, one
  <2> QED
    BY <2>4, <2>5
<1> QED
  BY <1>1, <1>2, <1>3 DEF ReportIsRight

(* The memory and the file programs report what follows from all that was measured, *)
(* whatever it was and in whatever order the children delivered it: the list that  *)
(* insertsort keeps is sorted and holds each result that took any time, save_minimum *)
(* and save_median pick the fastest or a middle one of it, and find_tlb of tlb.c   *)
(* returns the last number of pages without a miss, wherever its search began.     *)
THEOREM RightReported == FileSpec => []ReportIsRight
<1>1. MemoryInit \/ FileInit => ReportInv
  BY ReportBegins
<1>2. ReportInv /\ [FileNext]_memoryVars => ReportInv'
  BY ReportInvKept
<1>3. ReportInv => ReportIsRight
  BY ReportSafe
<1> QED
  BY <1>1, <1>2, <1>3, PTL DEF FileSpec

----------------------------------------------------------------------------
(* A chunk touches each of its lines, and no access leaves it. *)
Regular(k) ==
  /\ k.chunk \in Nat \ {0} /\ k.width \in Nat \ {0}
  /\ \A x \in k.reads \cup k.writes \cup k.copies : x \in Nat /\ x + k.width <= k.chunk
  /\ \A l \in 0 .. (k.chunk - 1) \div LineBytes :
        \E x \in k.reads \cup k.writes :
           x \div LineBytes <= l /\ l <= (x + k.width - 1) \div LineBytes

LEMMA EveryFacts ==
  ASSUME NEW step \in {4, 8, 16, 32, 64}
  PROVE  /\ \A x \in Every(512, step) : x \in Nat /\ x + step <= 512
         /\ \A l \in 0 .. 7 : 64 * l \in Every(512, step)
<1>1. CASE step = 4
  BY <1>1 DEF Every
<1>2. CASE step = 8
  BY <1>2 DEF Every
<1>3. CASE step = 16
  BY <1>3 DEF Every
<1>4. CASE step = 32
  BY <1>4 DEF Every
<1>5. CASE step = 64
  BY <1>5 DEF Every
<1> QED
  BY <1>1, <1>2, <1>3, <1>4, <1>5

Shaped(k, chunk, width, places) ==
  /\ k.chunk = chunk /\ k.width = width
  /\ k.reads \cup k.writes = places /\ k.copies \subseteq places

LEMMA EveryRegular ==
  ASSUME NEW step \in {4, 8, 16, 32, 64}, NEW width \in 1 .. step,
         NEW k, Shaped(k, 512, width, Every(512, step))
  PROVE  Regular(k) /\ k.chunk = 512
<1>1. ASSUME NEW x \in Every(512, step) PROVE x \in Nat /\ x + width <= 512
  <2>1. x \in Nat /\ x + step <= 512
    BY EveryFacts
  <2> QED
    BY <2>1
<1>2. (512 - 1) \div 64 = 7
  OBVIOUS
<1>3. ASSUME NEW l \in 0 .. 7
      PROVE  /\ 64 * l \in Every(512, step)
             /\ (64 * l) \div 64 <= l /\ l <= (64 * l + width - 1) \div 64
  BY EveryFacts
<1> QED
  BY <1>1, <1>2, <1>3 DEF Regular, LineBytes, Shaped

LEMMA WholeRegular ==
  ASSUME NEW n \in Nat \ {0}, NEW k, Shaped(k, n, n, {0})
  PROVE  Regular(k) /\ k.chunk = n
<1>1. 0 \div 64 = 0
  OBVIOUS
<1> QED
  BY <1>1 DEF Regular, LineBytes, Shaped

(* The kernels of each program. *)
LEMMA MemKernelsFit ==
  ASSUME NEW n \in Nat \ {0}, NEW w \in DOMAIN Mem!main(0)
  PROVE  /\ Regular(Mem!main(n)[w])
         /\ Mem!main(n)[w].chunk = IF w \in {"bzero", "bcopy"} THEN n ELSE 512
         /\ Mem!main(n)[w].copies # {} => w \in {"cp", "fcp", "bcopy"}
<1> DEFINE k == Mem!main(n)[w]
<1> USE DEF Mem!main, Mem!Chunk, Mem!Word
<1>1. CASE w \in {"rd", "wr", "rdwr", "cp"}
  <2>1. Shaped(k, 512, 4, Every(512, 16)) /\ (w # "cp" => k.copies = {})
    BY <1>1 DEF Mem!rd, Mem!wr, Mem!rdwr, Mem!mcp, Shaped, Mem!Reads, Mem!Writes, Mem!Updates,
                Mem!Copies, Mem!ReadsWrites, Mem!Every, Every
  <2> HIDE DEF k
  <2>2. Regular(k) /\ k.chunk = 512
    BY <2>1, EveryRegular
  <2> QED
    BY <1>1, <2>1, <2>2 DEF k
<1>2. CASE w \in {"frd", "fwr", "fcp"}
  <2>1. Shaped(k, 512, 4, Every(512, 4)) /\ (w # "fcp" => k.copies = {})
    BY <1>2 DEF Mem!frd, Mem!fwr, Mem!fcp, Shaped, Mem!Reads, Mem!Writes,
                Mem!Copies, Mem!ReadsWrites, Mem!Every, Every
  <2> HIDE DEF k
  <2>2. Regular(k) /\ k.chunk = 512
    BY <2>1, EveryRegular
  <2> QED
    BY <1>2, <2>1, <2>2 DEF k
<1>3. CASE w \in {"bzero", "bcopy"}
  <2>1. Shaped(k, n, n, {0}) /\ (w # "bcopy" => k.copies = {})
    BY <1>3 DEF Mem!loop_bzero, Mem!loop_bcopy, Shaped, Mem!Reads, Mem!Writes,
                Mem!Copies, Mem!ReadsWrites
  <2> HIDE DEF k
  <2>2. Regular(k) /\ k.chunk = n
    BY <2>1, WholeRegular
  <2> QED
    BY <1>3, <2>1, <2>2 DEF k
<1> QED
  BY <1>1, <1>2, <1>3

LEMMA Mem64KernelsFit ==
  ASSUME NEW n \in Nat \ {0}, NEW w \in DOMAIN Mem64!main(0)
  PROVE  /\ Regular(Mem64!main(n)[w])
         /\ Mem64!main(n)[w].chunk = IF w \in {"bzero", "bcopy"} THEN n ELSE 512
<1> DEFINE k == Mem64!main(n)[w]
<1> USE DEF Mem64!main, Mem64!Chunk, Mem64!Word
<1>1. CASE w \in {"rd", "wr", "rdwr", "cp", "rd16", "wr16", "rdwr16", "cp16"}
  <2>1. Shaped(k, 512, 8, Every(512, 16)) /\ (w \notin {"cp", "cp16"} => k.copies = {})
    BY SMTT(30), <1>1 DEF Mem64!rd, Mem64!wr, Mem64!rdwr, Mem64!mcp, Shaped, Mem64!Reads,
       Mem64!Writes, Mem64!Updates, Mem64!Copies, Mem64!ReadsWrites, Mem64!Every, Every
  <2> HIDE DEF k
  <2>2. Regular(k) /\ k.chunk = 512
    BY <2>1, EveryRegular
  <2> QED
    BY <1>1, <2>1, <2>2 DEF k
<1>2. CASE w \in {"frd", "fwr", "fcp", "rd8", "wr8", "rdwr8", "cp8", "wrs"}
  <2>1. Shaped(k, 512, 8, Every(512, 8)) /\ (w \notin {"fcp", "cp8"} => k.copies = {})
    BY SMTT(30), <1>2 DEF Mem64!frd, Mem64!fwr, Mem64!fcp, Mem64!rd8, Mem64!wr8, Mem64!rdwr8,
       Mem64!mcp8, Mem64!wrs, Shaped, Mem64!Reads, Mem64!Writes, Mem64!Updates, Mem64!Copies,
       Mem64!ReadsWrites, Mem64!Every, Every
  <2> HIDE DEF k
  <2>2. Regular(k) /\ k.chunk = 512
    BY <2>1, EveryRegular
  <2> QED
    BY <1>2, <2>1, <2>2 DEF k
<1>3. CASE w \in {"rd32", "wr32", "rdwr32", "cp32"}
  <2>1. Shaped(k, 512, 8, Every(512, 32)) /\ (w \notin {"cp32"} => k.copies = {})
    BY <1>3 DEF Mem64!rd32, Mem64!wr32, Mem64!rdwr32, Mem64!mcp32, Shaped, Mem64!Reads,
       Mem64!Writes, Mem64!Updates, Mem64!Copies, Mem64!ReadsWrites, Mem64!Every, Every
  <2> HIDE DEF k
  <2>2. Regular(k) /\ k.chunk = 512
    BY <2>1, EveryRegular
  <2> QED
    BY <1>3, <2>1, <2>2 DEF k
<1>4. CASE w \in {"rd64", "wr64", "rdwr64", "cp64"}
  <2>1. Shaped(k, 512, 8, Every(512, 64)) /\ (w \notin {"cp64"} => k.copies = {})
    BY <1>4 DEF Mem64!rd64, Mem64!wr64, Mem64!rdwr64, Mem64!mcp64, Shaped, Mem64!Reads,
       Mem64!Writes, Mem64!Updates, Mem64!Copies, Mem64!ReadsWrites, Mem64!Every, Every
  <2> HIDE DEF k
  <2>2. Regular(k) /\ k.chunk = 512
    BY <2>1, EveryRegular
  <2> QED
    BY <1>4, <2>1, <2>2 DEF k
<1>5. CASE w \in {"wrc"}
  <2>1. Shaped(k, 512, 64, Every(512, 64)) /\ k.copies = {}
    BY <1>5 DEF Mem64!wrc, Shaped, Mem64!Reads, Mem64!Writes, Mem64!Updates, Mem64!Copies,
       Mem64!ReadsWrites, Mem64!Every, Every
  <2> HIDE DEF k
  <2>2. Regular(k) /\ k.chunk = 512
    BY <2>1, EveryRegular
  <2> QED
    BY <1>5, <2>1, <2>2 DEF k
<1>6. CASE w \in {"fwr_sse", "frd_sse"}
  <2>1. Shaped(k, 512, 16, Every(512, 16)) /\ k.copies = {}
    BY <1>6 DEF Mem64!fwr_sse, Mem64!frd_sse, Shaped, Mem64!Reads, Mem64!Writes,
       Mem64!Updates, Mem64!Copies, Mem64!ReadsWrites, Mem64!Every, Every
  <2> HIDE DEF k
  <2>2. Regular(k) /\ k.chunk = 512
    BY <2>1, EveryRegular
  <2> QED
    BY <1>6, <2>1, <2>2 DEF k
<1>7. CASE w \in {"fwr_avx", "frd_avx"}
  <2>1. Shaped(k, 512, 32, Every(512, 32)) /\ k.copies = {}
    BY <1>7 DEF Mem64!fwr_avx, Mem64!frd_avx, Shaped, Mem64!Reads, Mem64!Writes,
       Mem64!Updates, Mem64!Copies, Mem64!ReadsWrites, Mem64!Every, Every
  <2> HIDE DEF k
  <2>2. Regular(k) /\ k.chunk = 512
    BY <2>1, EveryRegular
  <2> QED
    BY <1>7, <2>1, <2>2 DEF k
<1>8. CASE w \in {"bzero", "bcopy"}
  <2>1. Shaped(k, n, n, {0})
    BY <1>8 DEF Mem64!loop_bzero, Mem64!loop_bcopy, Shaped, Mem64!Reads, Mem64!Writes,
                Mem64!Copies, Mem64!ReadsWrites
  <2> HIDE DEF k
  <2>2. Regular(k) /\ k.chunk = n
    BY <2>1, WholeRegular
  <2> QED
    BY <1>8, <2>2 DEF k
<1> QED
  BY <1>1, <1>2, <1>3, <1>4, <1>5, <1>6, <1>7, <1>8

LEMMA Mem64aKernelsFit ==
  ASSUME NEW n \in Nat \ {0}, NEW w \in DOMAIN Mem64a!main(0)
  PROVE  /\ Regular(Mem64a!main(n)[w]) /\ Mem64a!main(n)[w].chunk = 512
         /\ Mem64a!main(n)[w].copies = {}
<1> DEFINE k == Mem64a!main(n)[w]
<1> USE DEF Mem64a!main, Mem64a!Chunk
<1>1. CASE w \in {"frd", "fwr", "frd_ssep", "frd_ssen", "fwr_ssep", "fwr_ssen"}
  <2>1. Shaped(k, 512, 8, Every(512, 8)) /\ k.copies = {}
    BY <1>1 DEF Mem64a!frd, Mem64a!fwr, Mem64a!frd_ssep, Mem64a!frd_ssen, Mem64a!fwr_ssep,
       Mem64a!fwr_ssen, Shaped, Mem64a!Reads, Mem64a!Writes, Mem64a!ReadsWrites, Mem64a!DOIT,
       Every
  <2> HIDE DEF k
  <2>2. Regular(k) /\ k.chunk = 512
    BY <2>1, EveryRegular
  <2> QED
    BY <1>1, <2>1, <2>2 DEF k
<1>2. CASE w \in {"rd16", "wr16"}
  <2>1. Shaped(k, 512, 8, Every(512, 16)) /\ k.copies = {}
    BY <1>2 DEF Mem64a!rd16, Mem64a!wr16, Shaped, Mem64a!Reads, Mem64a!Writes,
       Mem64a!ReadsWrites, Mem64a!DOIT, Every
  <2> HIDE DEF k
  <2>2. Regular(k) /\ k.chunk = 512
    BY <2>1, EveryRegular
  <2> QED
    BY <1>2, <2>1, <2>2 DEF k
<1>3. CASE w \in {"rd32", "wr32"}
  <2>1. Shaped(k, 512, 8, Every(512, 32)) /\ k.copies = {}
    BY <1>3 DEF Mem64a!rd32, Mem64a!wr32, Shaped, Mem64a!Reads, Mem64a!Writes,
       Mem64a!ReadsWrites, Mem64a!DOIT, Every
  <2> HIDE DEF k
  <2>2. Regular(k) /\ k.chunk = 512
    BY <2>1, EveryRegular
  <2> QED
    BY <1>3, <2>1, <2>2 DEF k
<1>4. CASE w \in {"rd64", "wr64"}
  <2>1. Shaped(k, 512, 8, Every(512, 64)) /\ k.copies = {}
    BY <1>4 DEF Mem64a!rd64, Mem64a!wr64, Shaped, Mem64a!Reads, Mem64a!Writes,
       Mem64a!ReadsWrites, Mem64a!DOIT, Every
  <2> HIDE DEF k
  <2>2. Regular(k) /\ k.chunk = 512
    BY <2>1, EveryRegular
  <2> QED
    BY <1>4, <2>1, <2>2 DEF k
<1>5. CASE w \in {"frd_sse", "fwr_sse"}
  <2>1. Shaped(k, 512, 16, Every(512, 16)) /\ k.copies = {}
    BY <1>5 DEF Mem64a!frd_sse, Mem64a!fwr_sse, Shaped, Mem64a!Reads, Mem64a!Writes,
       Mem64a!ReadsWrites, Mem64a!DOIT, Every
  <2> HIDE DEF k
  <2>2. Regular(k) /\ k.chunk = 512
    BY <2>1, EveryRegular
  <2> QED
    BY <1>5, <2>1, <2>2 DEF k
<1>6. CASE w \in {"frd_avx", "fwr_avx"}
  <2>1. Shaped(k, 512, 32, Every(512, 32)) /\ k.copies = {}
    BY <1>6 DEF Mem64a!frd_avx, Mem64a!fwr_avx, Shaped, Mem64a!Reads, Mem64a!Writes,
       Mem64a!ReadsWrites, Mem64a!DOIT, Every
  <2> HIDE DEF k
  <2>2. Regular(k) /\ k.chunk = 512
    BY <2>1, EveryRegular
  <2> QED
    BY <1>6, <2>1, <2>2 DEF k
<1> QED
  BY <1>1, <1>2, <1>3, <1>4, <1>5, <1>6

LEMMA Mem64dKernelsFit ==
  ASSUME NEW n \in Nat \ {0}, NEW w \in DOMAIN Mem64d!main(0)
  PROVE  /\ Regular(Mem64d!main(n)[w]) /\ Mem64d!main(n)[w].chunk = 512
         /\ Mem64d!main(n)[w].copies = {}
<1> DEFINE k == Mem64d!main(n)[w]
<1> USE DEF Mem64d!main, Mem64d!Chunk, Mem64d!Word
<1>1. CASE w \in {"rd", "wr"}
  <2>1. Shaped(k, 512, 8, Every(512, 16)) /\ k.copies = {}
    BY <1>1 DEF Mem64d!rd, Mem64d!wr, Shaped, Mem64d!Reads, Mem64d!Writes, Mem64d!ReadsWrites,
       Mem64d!Every, Every
  <2> HIDE DEF k
  <2>2. Regular(k) /\ k.chunk = 512
    BY <2>1, EveryRegular
  <2> QED
    BY <1>1, <2>1, <2>2 DEF k
<1>2. CASE w \in {"frd", "fwr"}
  <2>1. Shaped(k, 512, 8, Every(512, 8)) /\ k.copies = {}
    BY <1>2 DEF Mem64d!frd, Mem64d!fwr, Shaped, Mem64d!Reads, Mem64d!Writes,
       Mem64d!ReadsWrites, Mem64d!Every, Every
  <2> HIDE DEF k
  <2>2. Regular(k) /\ k.chunk = 512
    BY <2>1, EveryRegular
  <2> QED
    BY <1>2, <2>1, <2>2 DEF k
<1> QED
  BY <1>1, <1>2

LEMMA PatternRegular ==
  ASSUME NEW n, NEW k, <<n, k>> \in {<<30, 2>>, <<20, 3>>, <<15, 4>>, <<12, 5>>, <<10, 6>>}
  PROVE  /\ Regular(Mem64p!Pattern(n, k)) /\ Mem64p!Pattern(n, k).chunk = 3840
         /\ Mem64p!Pattern(n, k).copies = {}
<1> DEFINE pat == Mem64p!Pattern(n, k)
<1>1. /\ pat.chunk = 3840 /\ pat.width = 8 /\ pat.copies = {}
  BY DEF Mem64p!Pattern, Mem64p!ReadsWrites, Mem64p!Chunk, Mem64p!Word
<1>2. /\ pat.writes = {g * k * 64 + (k - 1) * 64 : g \in 0 .. n - 1}
      /\ pat.reads = UNION {{g * k * 64 + l * 64 : g \in 0 .. n - 1} : l \in 0 .. k - 2}
  BY DEF Mem64p!Pattern, Mem64p!ReadsWrites, Mem64p!After
<1> HIDE DEF pat
<1>3. (3840 - 1) \div 64 = 59
  OBVIOUS
<1>4. ASSUME NEW x \in pat.reads \cup pat.writes PROVE x \in Nat /\ x + 8 <= 3840
  <2>1. PICK g \in 0 .. n - 1, l \in 0 .. k - 1 : x = g * k * 64 + l * 64
    <3>1. CASE x \in pat.writes
      BY <1>2, <3>1
    <3>2. CASE x \in pat.reads
      BY <1>2, <3>2
    <3> QED
      BY <3>1, <3>2
  <2> QED
    BY <2>1
<1>5. ASSUME NEW l \in 0 .. 59 PROVE 64 * l \in pat.reads \cup pat.writes
  <2>1. PICK g \in 0 .. n - 1, r \in 0 .. k - 1 : l = g * k + r
    <3>1. l \div k \in 0 .. n - 1 /\ l % k \in 0 .. k - 1 /\ l = (l \div k) * k + (l % k)
      <4>1. CASE n = 30 /\ k = 2
        BY <4>1
      <4>2. CASE n = 20 /\ k = 3
        BY <4>2
      <4>3. CASE n = 15 /\ k = 4
        BY <4>3
      <4>4. CASE n = 12 /\ k = 5
        BY <4>4
      <4>5. CASE n = 10 /\ k = 6
        BY <4>5
      <4> QED
        BY <4>1, <4>2, <4>3, <4>4, <4>5
    <3> QED
      BY <3>1
  <2>2. 64 * l = g * k * 64 + r * 64
    BY <2>1
  <2>3. CASE r = k - 1
    BY <1>2, <2>2, <2>3
  <2>4. CASE r \in 0 .. k - 2
    <3>1. 64 * l \in {h * k * 64 + r * 64 : h \in 0 .. n - 1}
      BY <2>2
    <3>2. {h * k * 64 + r * 64 : h \in 0 .. n - 1}
            \in {{h * k * 64 + q * 64 : h \in 0 .. n - 1} : q \in 0 .. k - 2}
      BY <2>4
    <3> QED
      BY <1>2, <3>1, <3>2
  <2> QED
    BY <2>1, <2>3, <2>4
<1>6. ASSUME NEW l \in 0 .. 59
      PROVE  (64 * l) \div 64 <= l /\ l <= (64 * l + 8 - 1) \div 64
  OBVIOUS
<1>7. Regular(pat)
  <2>1. \A x \in pat.reads \cup pat.writes \cup pat.copies :
           x \in Nat /\ x + pat.width <= pat.chunk
    BY <1>1, <1>4
  <2>2. ASSUME NEW l \in 0 .. (pat.chunk - 1) \div LineBytes
        PROVE  \E x \in pat.reads \cup pat.writes :
                  x \div LineBytes <= l /\ l <= (x + pat.width - 1) \div LineBytes
    <3>1. l \in 0 .. 59
      BY <1>1, <1>3 DEF LineBytes
    <3> QED
      BY <1>1, <1>5, <1>6, <3>1 DEF LineBytes
  <2> QED
    BY <1>1, <2>1, <2>2 DEF Regular
<1> QED
  BY <1>1, <1>7 DEF pat

LEMMA Mem64pKernelsFit ==
  ASSUME NEW n \in Nat \ {0}, NEW w \in DOMAIN Mem64p!main(0)
  PROVE  /\ Regular(Mem64p!main(n)[w]) /\ Mem64p!main(n)[w].chunk = 3840
         /\ Mem64p!main(n)[w].copies = {}
<1>1. PICK g, k : /\ <<g, k>> \in {<<30, 2>>, <<20, 3>>, <<15, 4>>, <<12, 5>>, <<10, 6>>}
                  /\ Mem64p!main(n)[w] = Mem64p!Pattern(g, k)
  BY DEF Mem64p!main, Mem64p!rw21, Mem64p!rw31, Mem64p!rw41, Mem64p!rw51, Mem64p!rw61,
         Mem64p!rw21a, Mem64p!rw31a, Mem64p!rw41a, Mem64p!rw51a, Mem64p!rw61a
<1> QED
  BY <1>1, PatternRegular

----------------------------------------------------------------------------
(* The lines a sweep has touched when it is at place a. *)
Swept(a) == IF a = 0 THEN {} ELSE 0 .. (a - 1) \div LineBytes

LEMMA LineOf ==
  ASSUME NEW a \in Nat, NEW q \in Nat
  PROVE  /\ a \div 64 \in Nat
         /\ (64 * q + a) \div 64 = q + (a \div 64)
         /\ \A b \in Nat : a <= b => a \div 64 <= b \div 64
  OBVIOUS

LEMMA SweptOn ==
  ASSUME NEW a \in Nat, NEW n \in Nat \ {0}
  PROVE  Swept(a) \cup (a \div LineBytes .. (a + n - 1) \div LineBytes) = Swept(a + n)
<1>1. /\ a \div 64 \in Nat /\ (a + n - 1) \div 64 \in Nat
      /\ a # 0 => /\ (a - 1) \div 64 \in Nat /\ a \div 64 <= (a - 1) \div 64 + 1
                  /\ (a - 1) \div 64 <= (a + n - 1) \div 64
      /\ a \div 64 <= (a + n - 1) \div 64 /\ a + n # 0
  OBVIOUS
<1> QED
  BY <1>1 DEF Swept, LineBytes

LEMMA ChunkSwept ==
  ASSUME NEW k, Regular(k), NEW a \in Nat, a % 64 = 0
  PROVE  Lines(k, a) = a \div LineBytes .. (a + k.chunk - 1) \div LineBytes
<1> DEFINE P == k.reads \cup k.writes
           c == k.chunk
           w == k.width
<1>1. /\ c \in Nat \ {0} /\ w \in Nat \ {0}
      /\ \A x \in P : x \in Nat /\ x + w <= c
      /\ \A l \in 0 .. (c - 1) \div 64 :
            \E x \in P : x \div 64 <= l /\ l <= (x + w - 1) \div 64
  BY DEF Regular, LineBytes
<1>2. PICK q \in Nat : a = 64 * q
  <2>1. a \div 64 \in Nat /\ a = 64 * (a \div 64)
    OBVIOUS
  <2> QED
    BY <2>1
<1>3. Lines(k, a) = UNION {(a + x) \div 64 .. (a + x + w - 1) \div 64 : x \in P}
  BY DEF Lines, LineBytes
<1> HIDE DEF P, c, w
<1>4. ASSUME NEW x \in P
      PROVE  /\ (a + x) \div 64 = q + (x \div 64) /\ x \div 64 \in Nat
             /\ (a + x + w - 1) \div 64 = q + ((x + w - 1) \div 64)
             /\ (x + w - 1) \div 64 \in Nat /\ (x + w - 1) \div 64 <= (c - 1) \div 64
  <2>1. x \in Nat /\ x + w <= c /\ x + w - 1 \in Nat /\ c - 1 \in Nat /\ x + w - 1 <= c - 1
    BY <1>1
  <2>2. /\ (a + x) \div 64 = q + (x \div 64) /\ x \div 64 \in Nat
    BY <1>2, <2>1, LineOf
  <2>3. (64 * q + (x + w - 1)) \div 64 = q + ((x + w - 1) \div 64)
        /\ (x + w - 1) \div 64 \in Nat
    BY ZenonT(40), <2>1, LineOf
  <2>4. a + x + w - 1 = 64 * q + (x + w - 1)
    BY <1>1, <1>2, <2>1
  <2>5. (x + w - 1) \div 64 <= (c - 1) \div 64
    BY <2>1, LineOf
  <2> QED
    BY <2>2, <2>3, <2>4, <2>5
<1>5. /\ a \div 64 = q /\ (a + c - 1) \div 64 = q + ((c - 1) \div 64)
      /\ (c - 1) \div 64 \in Nat
  <2>1. c - 1 \in Nat
    BY <1>1
  <2>2. (64 * q + (c - 1)) \div 64 = q + ((c - 1) \div 64) /\ (c - 1) \div 64 \in Nat
    BY <2>1, LineOf
  <2>3. a + c - 1 = 64 * q + (c - 1) /\ a \div 64 = q
    BY <1>1, <1>2
  <2> QED
    BY <2>2, <2>3
<1> DEFINE e == (c - 1) \div 64
           Touched(x) == (a + x) \div 64 .. (a + x + w - 1) \div 64
<1>6. UNION {Touched(x) : x \in P} = q .. q + e
  <2>1. ASSUME NEW x \in P PROVE Touched(x) \subseteq q .. q + e
    BY <1>4, <1>5
  <2>2. ASSUME NEW l \in q .. q + e PROVE \E x \in P : l \in Touched(x)
    <3>1. l - q \in 0 .. e /\ l \in Nat
      BY <1>2, <1>5
    <3>2. PICK x \in P : x \div 64 <= l - q /\ l - q <= (x + w - 1) \div 64
      BY <1>1, <3>1
    <3>3. l \in Touched(x)
      BY <1>2, <1>4, <3>1, <3>2
    <3> QED
      BY <3>3
  <2> HIDE DEF Touched, e
  <2> QED
    BY <2>1, <2>2
<1> QED
  BY <1>3, <1>5, <1>6 DEF LineBytes, c

(* bread of bw_mmap_rd, which may start inside a line. *)
LEMMA BreadFits ==
  ASSUME NEW left \in Nat
  PROVE  LET k == Mmap!bread(left)
         IN  /\ k.chunk \in {8, 128, 1024} /\ k.width = 8 /\ k.copies = {} /\ k.writes = {}
             /\ k.reads = {8 * i : i \in 0 .. (k.chunk \div 8) - 1}
             /\ left >= 8 => k.chunk <= left
<1> USE DEF Mmap!bread, Mmap!Long, Mmap!Reads, Mmap!ReadsWrites, Mmap!Every
<1>1. CASE left >= 1024
  BY <1>1
<1>2. CASE left < 1024 /\ left >= 128
  BY <1>2
<1>3. CASE left < 128
  BY <1>3
<1> QED
  BY <1>1, <1>2, <1>3

LEMMA BreadSwept ==
  ASSUME NEW left \in Nat, NEW a \in Nat, a % 8 = 0
  PROVE  Lines(Mmap!bread(left), a)
           = a \div LineBytes .. (a + Mmap!bread(left).chunk - 1) \div LineBytes
<1> DEFINE k == Mmap!bread(left)
           c == k.chunk
           P == {8 * i : i \in 0 .. (c \div 8) - 1}
           Touched(x) == (a + x) \div 64 .. (a + x + 8 - 1) \div 64
           Swath == a \div 64 .. (a + c - 1) \div 64
<1>1. c \in {8, 128, 1024} /\ k.width = 8 /\ k.reads \cup k.writes = P
  BY BreadFits
<1>2. Lines(k, a) = UNION {Touched(x) : x \in P}
  BY <1>1 DEF Lines, LineBytes
<1> HIDE DEF k, c
<1>3. \A x \in P : x \in Nat /\ x + 8 <= c
  BY <1>1
<1>4. ASSUME NEW x \in P PROVE Touched(x) \subseteq Swath
  <2>1. x \in Nat /\ x + 8 <= c /\ c \in Nat
    BY <1>1, <1>3
  <2>2. a \div 64 <= (a + x) \div 64 /\ (a + x + 8 - 1) \div 64 <= (a + c - 1) \div 64
        /\ a \div 64 \in Nat /\ (a + x + 8 - 1) \div 64 \in Nat /\ (a + x) \div 64 \in Nat
        /\ (a + c - 1) \div 64 \in Nat
    BY <2>1
  <2> QED
    BY <2>2
<1>5. ASSUME NEW l \in Swath PROVE \E x \in P : l \in Touched(x)
  <2>1. l \in Nat /\ a \div 64 <= l /\ l <= (a + c - 1) \div 64 /\ c \in Nat \ {0}
    BY <1>1
  <2>2. PICK b \in Nat : a = 8 * b
    <3>1. a \div 8 \in Nat /\ a = 8 * (a \div 8)
      OBVIOUS
    <3> QED
      BY <3>1
  <2>3. CASE 64 * l <= a
    <3>1. 0 \in P
      <4>1. 0 = 8 * 0 /\ 0 \in 0 .. (c \div 8) - 1
        BY <1>1
      <4> QED
        BY <4>1
    <3>2. a \div 64 = l /\ l <= (a + 7) \div 64 /\ (a + 0) \div 64 = a \div 64
          /\ a + 0 + 8 - 1 = a + 7
      BY <2>1, <2>3
    <3>3. l \in Touched(0)
      BY <2>1, <3>2
    <3> QED
      BY <3>1, <3>3
  <2>4. CASE 64 * l > a
    <3>1. 64 * l <= a + c - 1
      BY <2>1
    <3>2. 64 * l - a = 8 * (8 * l - b) /\ 8 * l - b \in 0 .. (c \div 8) - 1
      BY <1>1, <2>1, <2>2, <2>4, <3>1
    <3>3. 64 * l - a \in P
      BY <3>2
    <3>4. a + (64 * l - a) = 64 * l /\ a + (64 * l - a) + 8 - 1 = 64 * l + 7
      BY <2>1
    <3>5. l \in Touched(64 * l - a)
      BY <2>1, <3>4
    <3> QED
      BY <3>3, <3>5
  <2> QED
    BY <2>1, <2>3, <2>4
<1> HIDE DEF Touched, P, Swath
<1>6. UNION {Touched(x) : x \in P} = Swath
  BY <1>4, <1>5
<1> QED
  BY <1>2, <1>6 DEF Swath, k, c, LineBytes

----------------------------------------------------------------------------
(* Which program runs, and what is there before anything is set up. *)
ChainRecords == [prog : ChainPrograms, len : Nat, maxlen : Nat, line : Nat, pagesize : Nat,
                 group : Nat]
Jobs == BandwidthJobs \cup StreamJobs \cup FileJobs \cup ChainRecords

JobFits == IF phase \in Early THEN job \in Jobs ELSE job = [prog |-> job.prog]

NothingYet ==
  phase = "main" => /\ p = 0 /\ dst = 0 /\ loads = 0 /\ turns = 0 /\ line = 0
                    /\ seen = {} /\ held = {} /\ chain = <<>> /\ m = none /\ mem = none

(* A bandwidth program has swept its buffer up to p. *)
SweepFits ==
  phase \in {"ready", "turn"} /\ Bandwidth =>
    /\ accepts(job) /\ mem = Buffers(job)
    /\ p \in Nat /\ p <= job.nbytes /\ seen = Swept(p)
    /\ p <= mem.lastone => p % (IF job.prog \in MmapRd THEN 8 ELSE 64) = 0
    /\ job.prog \notin MmapRd => p = 0 \/ p >= Kernel(job).chunk
    /\ phase = "turn" => dst = mem.buf2 + p /\ held = Allocated(job, mem) \cup Opened
    /\ phase = "ready" => held = Allocated(job, mem) /\ (turns > 0 => p > mem.lastone)

Moved(body) == Cardinality(body.reads) + Cardinality(body.writes)

StreamFits ==
  phase \in {"ready", "turn"} /\ Streaming =>
    /\ phase = "ready"
    /\ DOMAIN mem = {"a", "b", "c"} /\ Streams!cleanup(mem) = {"a", "b", "c"}
    /\ held = {"a", "b", "c"}
    /\ turns > 0 => loads = Moved(Streams!main[job.kernel].body)

LEMMA KindOf ==
  /\ \A j \in BandwidthJobs :
        /\ j \in [prog : BwPrograms, what : STRING, nbytes : Nat, aligned : BOOLEAN]
        /\ "nbytes" \in DOMAIN j /\ "kernel" \notin DOMAIN j /\ "pagesize" \notin DOMAIN j
        /\ "file" \notin DOMAIN j
  /\ \A j \in StreamJobs :
        /\ j \in [prog : {"stream"}, kernel : DOMAIN Streams!main]
        /\ "nbytes" \notin DOMAIN j /\ "kernel" \in DOMAIN j /\ "pagesize" \notin DOMAIN j
        /\ "file" \notin DOMAIN j
  /\ \A j \in ChainRecords :
        /\ "nbytes" \notin DOMAIN j /\ "kernel" \notin DOMAIN j /\ "pagesize" \in DOMAIN j
        /\ "file" \notin DOMAIN j
  /\ \A j \in FileJobs :
        /\ j \in [prog : FilePrograms, what : STRING, size : Nat, file : Nat, clone : BOOLEAN]
        /\ "nbytes" \notin DOMAIN j /\ "kernel" \notin DOMAIN j /\ "pagesize" \notin DOMAIN j
        /\ "file" \in DOMAIN j
  /\ \A x : LET j == [prog |-> x]
            IN  /\ "nbytes" \notin DOMAIN j /\ "kernel" \notin DOMAIN j
                /\ "pagesize" \notin DOMAIN j /\ "file" \notin DOMAIN j
<1>1. \A j \in BandwidthJobs :
        j \in [prog : BwPrograms, what : STRING, nbytes : Nat, aligned : BOOLEAN]
  BY MemoryAssumption
<1>2. \A j \in StreamJobs : j \in [prog : {"stream"}, kernel : DOMAIN Streams!main]
  BY MemoryAssumption
<1>3. \A j \in FileJobs :
        j \in [prog : FilePrograms, what : STRING, size : Nat, file : Nat, clone : BOOLEAN]
  BY FileAssumption
<1> QED
  BY <1>1, <1>2, <1>3 DEF ChainRecords

(* The kernel and the buffers of a job. *)
LEMMA BandFacts ==
  ASSUME NEW j \in BandwidthJobs, accepts(j), j.prog \notin MmapRd
  PROVE  /\ least(j) \in {512, 3840} /\ j.nbytes \in Nat /\ j.nbytes >= least(j)
         /\ Regular(Kernel(j)) /\ Kernel(j).chunk \in {least(j), j.nbytes}
         /\ Buffers(j).size = j.nbytes /\ Buffers(j).lastone = j.nbytes - least(j)
         /\ Buffers(j).buf2 \in Nat /\ Buffers(j).size2 \in Nat
         /\ WithBuffers(j) /\ Kernel(j).copies # {} =>
               Buffers(j).buf2 + j.nbytes <= Buffers(j).size2
<1>1. /\ j \in [prog : BwPrograms, what : STRING, nbytes : Nat, aligned : BOOLEAN]
      /\ j.prog \in {"bw_mem", "bw_mem64", "bw_mem64a", "bw_mem64d", "bw_mem64p"}
  BY KindOf DEF BwPrograms
<1>2. least(j) \in {512, 3840} /\ j.nbytes \in Nat /\ j.nbytes >= least(j)
      /\ j.nbytes \in Nat \ {0}
  BY <1>1 DEF least, accepts
<1>3. CASE j.prog = "bw_mem"
  <2>1. j.what \in DOMAIN Mem!main(0) /\ Kernel(j) = Mem!main(j.nbytes)[j.what]
        /\ Buffers(j) = Mem!init_loop(j.nbytes, j.what, j.aligned) /\ least(j) = 512
    BY <1>3, MemoryAssumption DEF Kernel, Buffers, least
  <2>2. /\ Buffers(j).size = j.nbytes /\ Buffers(j).lastone = j.nbytes - 512
        /\ Buffers(j).buf2 \in {0, 1920}
        /\ Buffers(j).size2
             = IF j.what \in {"cp", "fcp", "bcopy"} THEN j.nbytes + 2048 ELSE 0
    BY <2>1 DEF Mem!init_loop, Mem!Chunk, Mem!needBuf2
  <2>3. Regular(Kernel(j)) /\ Kernel(j).chunk \in {512, j.nbytes}
        /\ (Kernel(j).copies # {} => j.what \in {"cp", "fcp", "bcopy"})
    BY <1>2, <2>1, MemKernelsFit
  <2> QED
    BY <1>2, <2>1, <2>2, <2>3
<1>4. CASE j.prog = "bw_mem64"
  <2>1. j.what \in DOMAIN Mem64!main(0) /\ Kernel(j) = Mem64!main(j.nbytes)[j.what]
        /\ Buffers(j) = Mem64!init_loop(j.nbytes, j.what, j.aligned) /\ least(j) = 512
    BY <1>4, MemoryAssumption DEF Kernel, Buffers, least
  <2>2. /\ Buffers(j).size = j.nbytes /\ Buffers(j).lastone = j.nbytes - 512
        /\ Buffers(j).buf2 \in {0, 1920}
        /\ Buffers(j).size2
             = IF j.what \in {"cp", "fcp", "bcopy"} THEN j.nbytes + 2048 ELSE 0
    BY <2>1 DEF Mem64!init_loop, Mem64!Chunk, Mem64!needBuf2
  <2>3. Regular(Kernel(j)) /\ Kernel(j).chunk \in {512, j.nbytes}
    BY <1>2, <2>1, Mem64KernelsFit
  <2> QED
    BY <1>2, <2>1, <2>2, <2>3 DEF WithBuffers
<1>5. CASE j.prog = "bw_mem64a"
  <2>1. j.what \in DOMAIN Mem64a!main(0) /\ Kernel(j) = Mem64a!main(j.nbytes)[j.what]
        /\ Buffers(j) = Mem64a!init_loop(j.nbytes) /\ least(j) = 512
    BY <1>5, MemoryAssumption DEF Kernel, Buffers, least
  <2>2. /\ Buffers(j).size = j.nbytes /\ Buffers(j).lastone = j.nbytes - 512
        /\ Buffers(j).buf2 = 0 /\ Buffers(j).size2 = 0
    BY <2>1 DEF Mem64a!init_loop, Mem64a!Chunk
  <2>3. Regular(Kernel(j)) /\ Kernel(j).chunk = 512 /\ Kernel(j).copies = {}
    BY <1>2, <2>1, Mem64aKernelsFit
  <2> QED
    BY <1>2, <2>1, <2>2, <2>3
<1>6. CASE j.prog = "bw_mem64d"
  <2>1. j.what \in DOMAIN Mem64d!main(0) /\ Kernel(j) = Mem64d!main(j.nbytes)[j.what]
        /\ Buffers(j) = Mem64d!init_loop(j.nbytes) /\ least(j) = 512
    BY <1>6, MemoryAssumption DEF Kernel, Buffers, least
  <2>2. /\ Buffers(j).size = j.nbytes /\ Buffers(j).lastone = j.nbytes - 512
        /\ Buffers(j).buf2 = 0 /\ Buffers(j).size2 = 0
    BY <2>1 DEF Mem64d!init_loop, Mem64d!Chunk
  <2>3. Regular(Kernel(j)) /\ Kernel(j).chunk = 512 /\ Kernel(j).copies = {}
    BY <1>2, <2>1, Mem64dKernelsFit
  <2> QED
    BY <1>2, <2>1, <2>2, <2>3
<1>7. CASE j.prog = "bw_mem64p"
  <2>1. j.what \in DOMAIN Mem64p!main(0) /\ Kernel(j) = Mem64p!main(j.nbytes)[j.what]
        /\ Buffers(j) = Mem64p!init_loop(j.nbytes) /\ least(j) = 3840
    BY <1>7, MemoryAssumption DEF Kernel, Buffers, least
  <2>2. /\ Buffers(j).size = j.nbytes /\ Buffers(j).lastone = j.nbytes - 3840
        /\ Buffers(j).buf2 = 0 /\ Buffers(j).size2 = 0
    BY <2>1 DEF Mem64p!init_loop, Mem64p!Chunk
  <2>3. Regular(Kernel(j)) /\ Kernel(j).chunk = 3840 /\ Kernel(j).copies = {}
    BY <1>2, <2>1, Mem64pKernelsFit
  <2> QED
    BY <1>2, <2>1, <2>2, <2>3
<1> QED
  BY <1>1, <1>3, <1>4, <1>5, <1>6, <1>7

LEMMA MmapFacts ==
  ASSUME NEW j \in BandwidthJobs, accepts(j), j.prog \in MmapRd
  PROVE  /\ j.nbytes \in Nat /\ j.nbytes >= 512
         /\ Kernel(j) = Mmap!bread(j.nbytes - p)
         /\ Buffers(j).size = j.nbytes /\ Buffers(j).lastone = j.nbytes - 8
         /\ Buffers(j).buf2 = 0 /\ Buffers(j).size2 = 0
         /\ j.what \in {"open2close", "mmap_only"}
<1>1. j.nbytes \in Nat /\ j.nbytes >= 512
  BY KindOf DEF accepts, Mmap!main
<1>2. Kernel(j) = Mmap!bread(j.nbytes - p) /\ Buffers(j) = Mmap!initialize(j.nbytes)
  BY DEF Kernel, Buffers, MmapRd
<1>3. j.what \in {"open2close", "mmap_only"}
  BY MemoryAssumption DEF MmapRd
<1> QED
  BY <1>1, <1>2, <1>3 DEF Mmap!initialize, Mmap!Long

(* Every step leaves the kind of the program alone, and only main may change its arguments. *)
LEMMA KindsApart ==
  ASSUME JobFits
  PROVE  /\ Bandwidth => ~Streaming /\ ~Latency /\ ~Files /\ job \in BandwidthJobs
         /\ Streaming => ~Bandwidth /\ ~Latency /\ ~Files /\ job \in StreamJobs
         /\ Latency => ~Bandwidth /\ ~Streaming /\ ~Files /\ job \in ChainRecords
         /\ Files => ~Bandwidth /\ ~Streaming /\ ~Latency /\ job \in FileJobs
         /\ phase \notin Early => ~Bandwidth /\ ~Streaming /\ ~Latency /\ ~Files
<1>1. CASE phase \in Early
  <2>1. job \in Jobs
    BY <1>1 DEF JobFits
  <2> QED
    BY <1>1, <2>1, KindOf DEF Jobs, Bandwidth, Streaming, Latency, Files
<1>2. CASE phase \notin Early
  <2>1. job = [prog |-> job.prog]
    BY <1>2 DEF JobFits
  <2> QED
    BY <1>2, <2>1, KindOf DEF Bandwidth, Streaming, Latency, Files
<1> QED
  BY <1>1, <1>2

(* Which steps a program of each kind takes. *)
BandwidthStep ==
  Usage \/ InitLoop \/ InitLoopFails \/ Turn \/ TurnFails \/ ChunkLoop \/ TurnEnds \/ Cleanup
StreamStep == StreamInit \/ StreamInitFails \/ StreamBody \/ StreamCleanup
ChainStep ==
  Initialize \/ InitializeFails \/ Walk \/ Load \/ LineTest \/ WalkEnds \/ MemCleanup
FilesStep ==
  \/ FileRefused \/ FileInitialize \/ FileInitializeFails
  \/ FileTurn \/ FileTurnFails \/ FileStep \/ FileTurnEnds \/ FileCleanup
AnswerStep == Double \/ Halve \/ TlbFound \/ Merge \/ MemoryReport

LEMMA StepsOfKinds ==
  ASSUME FileNext
  PROVE  BandwidthStep \/ StreamStep \/ ChainStep \/ FilesStep \/ AnswerStep
BY DEF FileNext, MemoryNext, BandwidthStep, StreamStep, ChainStep, FilesStep, AnswerStep

LEMMA BandwidthStays ==
  ASSUME BandwidthStep
  PROVE  /\ Bandwidth /\ phase \in Early
         /\ \/ job' = job /\ phase' \in Early \ {"main"}
            \/ job' = [prog |-> job.prog] /\ phase' = "results"
BY DEF BandwidthStep, Usage, InitLoop, InitLoopFails, Turn, TurnFails, ChunkLoop, TurnEnds,
       Cleanup, Early, setup

LEMMA StreamStays ==
  ASSUME StreamStep
  PROVE  /\ Streaming /\ phase \in Early
         /\ \/ job' = job /\ phase' \in Early \ {"main"}
            \/ job' = [prog |-> job.prog] /\ phase' = "results"
BY DEF StreamStep, StreamInit, StreamInitFails, StreamBody, StreamCleanup, Early, setup

LEMMA ChainStays ==
  ASSUME ChainStep, JobFits
  PROVE  /\ Latency /\ phase \in Early
         /\ \/ job' = job /\ phase' \in Early \ {"main"}
            \/ job' \in ChainRecords /\ phase' \in Early /\ phase = "main"
               /\ UNCHANGED <<walk, mem, m, line, chain, turns, held, search, report>>
            \/ job' = [prog |-> job.prog] /\ phase' \in {"results", "search"}
<1>1. CASE InitializeFails
  <2>1. job \in ChainRecords /\ phase = "main" /\ Latency
    BY <1>1, KindsApart DEF InitializeFails
  <2>2. CASE job' = [job EXCEPT !.len = @ \div 2, !.maxlen = job.len \div 2]
    <3>1. job.len \div 2 \in Nat
      BY <2>1 DEF ChainRecords
    <3>2. job' \in ChainRecords
      BY <2>1, <2>2, <3>1 DEF ChainRecords
    <3> QED
      BY <1>1, <2>1, <3>2 DEF InitializeFails, Early
  <2> QED
    BY <1>1, <2>1, <2>2 DEF InitializeFails, Early
<1>2. CASE Initialize \/ Walk \/ Load \/ LineTest \/ WalkEnds \/ MemCleanup
  <2>1. phase' \in Early \ {"main"} \/ phase' \in {"results", "search"}
    BY <1>2 DEF Initialize, Walk, Load, LineTest, WalkEnds, MemCleanup, Early
  <2>2. Latency /\ phase \in Early
    <3>1. CASE LineTest
      <4>1. job \in Jobs /\ job.prog = "line"
        BY <3>1 DEF LineTest, JobFits, Early
      <4>2. job \in ChainRecords
        BY <4>1, KindOf DEF Jobs, BwPrograms, MmapRd, FilePrograms
      <4> QED
        BY <3>1, <4>2, KindOf DEF LineTest, Early, Latency
    <3> QED
      BY <1>2, <3>1 DEF Initialize, Walk, Load, WalkEnds, MemCleanup, Early
  <2> QED
    BY <1>2, <2>1, <2>2 DEF Initialize, Walk, Load, LineTest, WalkEnds, MemCleanup, Early, setup
<1> QED
  BY <1>1, <1>2 DEF ChainStep

LEMMA FilesStay ==
  ASSUME FilesStep
  PROVE  /\ Files /\ phase \in Early
         /\ \/ job' = job /\ phase' \in Early \ {"main"}
            \/ job' = [prog |-> job.prog] /\ phase' = "results"
<1>1. CASE FileTurnFails \/ FileStep
  <2>1. FileProgram # "none" => Files
    BY DEF FileProgram
  <2> QED
    BY <1>1, <2>1 DEF FileTurnFails, FileStep, ReadPiece, TouchMapped, TouchPage, Early, setup
<1> QED
  BY <1>1 DEF FilesStep, FileRefused, FileInitialize, FileInitializeFails, FileTurn,
              FileTurnEnds, FileCleanup, Early, setup

LEMMA AnswerStays ==
  ASSUME AnswerStep
  PROVE  phase \notin Early /\ phase' \notin Early /\ UNCHANGED <<walk, setup, held, turns>>
BY DEF AnswerStep, Double, Halve, TlbFound, Merge, MemoryReport, Early, setup, walk

LEMMA JobKept ==
  ASSUME JobFits, [FileNext]_memoryVars
  PROVE  JobFits'
<1>1. CASE UNCHANGED memoryVars
  BY <1>1 DEF memoryVars, setup, JobFits
<1>2. CASE AnswerStep
  BY <1>2, AnswerStays DEF JobFits, setup
<1>3. CASE BandwidthStep
  BY <1>3, BandwidthStays DEF JobFits, Early
<1>4. CASE StreamStep
  BY <1>4, StreamStays DEF JobFits, Early
<1>5. CASE ChainStep
  BY <1>5, ChainStays DEF JobFits, Early, Jobs
<1>6. CASE FilesStep
  BY <1>6, FilesStay DEF JobFits, Early
<1> QED
  BY <1>1, <1>2, <1>3, <1>4, <1>5, <1>6, StepsOfKinds

LEMMA NothingYetKept ==
  ASSUME JobFits, NothingYet, [FileNext]_memoryVars
  PROVE  NothingYet'
<1>1. CASE UNCHANGED memoryVars
  BY <1>1 DEF memoryVars, setup, walk, NothingYet
<1>2. CASE FileNext /\ phase' = "main"
  <2>1. ChainStep
    BY <1>2, StepsOfKinds, AnswerStays, BandwidthStays, StreamStays, FilesStay DEF Early
  <2>2. phase = "main" /\ UNCHANGED <<walk, mem, m, line, chain, turns, held, search, report>>
    BY <1>2, <2>1, ChainStays
  <2> QED
    BY <2>2 DEF NothingYet, walk
<1> QED
  BY <1>1, <1>2 DEF NothingYet

(* The kernel of a program that does not map a file does not depend on the place. *)
LEMMA KernelStays ==
  ASSUME job' = job, job.prog \in {"bw_mem", "bw_mem64", "bw_mem64a", "bw_mem64d", "bw_mem64p"}
  PROVE  Kernel(job)' = Kernel(job)
BY DEF Kernel, MmapRd

LEMMA TurnOfBandwidth ==
  ASSUME SweepFits, JobFits, NothingYet, InitLoop \/ Turn
  PROVE  SweepFits'
<1>1. /\ Bandwidth /\ Bandwidth' /\ job' = job /\ job \in BandwidthJobs
      /\ phase' \in {"ready", "turn"} /\ phase \in {"main", "ready"}
  BY KindsApart DEF InitLoop, Turn, setup, Bandwidth
<1>2. /\ accepts(job) /\ accepts(job)' /\ mem' = Buffers(job) /\ mem' = Buffers(job)'
      /\ Allocated(job, mem)' = Allocated(job, mem') /\ Opened' = Opened
  BY <1>1 DEF InitLoop, Turn, setup, SweepFits, Opened
<1>3. job.nbytes \in Nat /\ job.nbytes >= 512 /\ Buffers(job).buf2 \in Nat
  BY <1>1, <1>2, BandFacts, MmapFacts
<1>4. CASE InitLoop
  <2>1. p' = 0 /\ seen' = {} /\ turns' = 0 /\ held' = Allocated(job, mem') /\ phase' = "ready"
    BY <1>4 DEF InitLoop, NothingYet, walk
  <2> QED
    BY <1>1, <1>2, <1>3, <2>1 DEF SweepFits, Swept
<1>5. CASE Turn
  <2>1. /\ p' = 0 /\ seen' = {} /\ dst' = mem'.buf2 /\ held' = Allocated(job, mem') \cup Opened
        /\ phase' = "turn" /\ mem' = mem
    BY <1>1, <1>5 DEF Turn, SweepFits, setup
  <2> QED
    BY <1>1, <1>2, <1>3, <2>1 DEF SweepFits, Swept
<1> QED
  BY <1>4, <1>5

LEMMA LoopOfBandwidth ==
  ASSUME SweepFits, JobFits, ChunkLoop
  PROVE  SweepFits'
<1> DEFINE k == Kernel(job)
<1>1. /\ Bandwidth /\ Bandwidth' /\ job' = job /\ job \in BandwidthJobs
      /\ phase' = "turn" /\ phase = "turn" /\ mem' = mem /\ held' = held
      /\ p <= mem.lastone /\ p' = p + k.chunk /\ dst' = dst + k.chunk
      /\ seen' = seen \cup Lines(k, p)
  BY KindsApart DEF ChunkLoop, setup, Bandwidth
<1>2. /\ accepts(job) /\ accepts(job)' /\ mem = Buffers(job) /\ mem' = Buffers(job)'
      /\ Allocated(job, mem)' = Allocated(job, mem) /\ Opened' = Opened
      /\ held = Allocated(job, mem) \cup Opened /\ dst = mem.buf2 + p
      /\ p \in Nat /\ p <= job.nbytes /\ seen = Swept(p)
  BY <1>1 DEF SweepFits, Opened
<1>3. CASE job.prog \in MmapRd
  <2>1. /\ job.nbytes \in Nat /\ mem.lastone = job.nbytes - 8 /\ mem.buf2 = 0 /\ p % 8 = 0
        /\ k = Mmap!bread(job.nbytes - p)
    BY <1>1, <1>2, <1>3, MmapFacts DEF SweepFits
  <2>2. job.nbytes - p \in Nat /\ job.nbytes - p >= 8
    BY <1>1, <1>2, <2>1
  <2>3. k.chunk \in {8, 128, 1024} /\ k.chunk <= job.nbytes - p
    BY <2>1, <2>2, BreadFits
  <2>4. Lines(k, p) = p \div LineBytes .. (p + k.chunk - 1) \div LineBytes
    BY <1>2, <2>1, <2>2, BreadSwept
  <2> HIDE DEF k
  <2>5. seen' = Swept(p')
    <3>1. k.chunk \in Nat \ {0}
      BY <2>3
    <3>2. Swept(p) \cup (p \div LineBytes .. (p + k.chunk - 1) \div LineBytes)
            = Swept(p + k.chunk)
      BY <1>2, <3>1, SweptOn
    <3> QED
      BY <1>1, <1>2, <2>4, <3>2
  <2>6. p' \in Nat /\ p' <= job.nbytes /\ p' % 8 = 0 /\ dst' = mem.buf2 + p'
    BY <1>1, <1>2, <2>1, <2>3
  <2> QED
    BY <1>1, <1>2, <1>3, <2>5, <2>6 DEF SweepFits
<1>4. CASE job.prog \notin MmapRd
  <2> DEFINE n == least(job)
  <2>1. /\ n \in {512, 3840} /\ job.nbytes \in Nat /\ job.nbytes >= n
        /\ Regular(k) /\ k.chunk \in {n, job.nbytes} /\ mem.lastone = job.nbytes - n
        /\ mem.buf2 \in Nat /\ p % 64 = 0 /\ (p = 0 \/ p >= k.chunk)
    BY <1>1, <1>2, <1>4, BandFacts DEF SweepFits
  <2>2. Kernel(job)' = k
    <3>1. job.prog \in {"bw_mem", "bw_mem64", "bw_mem64a", "bw_mem64d", "bw_mem64p"}
      BY <1>1, <1>4, KindOf DEF BwPrograms
    <3> QED
      BY <1>1, <3>1, KernelStays
  <2>3. Lines(k, p) = p \div LineBytes .. (p + k.chunk - 1) \div LineBytes
    BY <1>2, <2>1, ChunkSwept
  <2> HIDE DEF k, n
  <2>4. p' \in Nat /\ p' <= job.nbytes /\ p' >= k.chunk /\ dst' = mem.buf2 + p'
        /\ (p' <= mem.lastone => p' % 64 = 0) /\ k.chunk \in Nat \ {0}
    BY <1>1, <1>2, <2>1
  <2>5. seen' = Swept(p')
    BY <1>1, <1>2, <2>3, <2>4, SweptOn
  <2> QED
    BY <1>1, <1>2, <1>4, <2>2, <2>4, <2>5 DEF SweepFits
<1> QED
  BY <1>3, <1>4

LEMMA EndOfBandwidth ==
  ASSUME SweepFits, JobFits, TurnEnds
  PROVE  SweepFits'
<1>1. /\ Bandwidth /\ Bandwidth' /\ job' = job /\ job \in BandwidthJobs
      /\ phase' = "ready" /\ phase = "turn" /\ mem' = mem
      /\ p > mem.lastone /\ p' = p /\ seen' = seen /\ held' = held \ Opened
  BY KindsApart DEF TurnEnds, setup, walk, Bandwidth
<1>2. /\ accepts(job) /\ accepts(job)' /\ mem = Buffers(job) /\ mem' = Buffers(job)'
      /\ Allocated(job, mem)' = Allocated(job, mem)
      /\ held = Allocated(job, mem) \cup Opened
      /\ p \in Nat /\ p <= job.nbytes /\ seen = Swept(p)
  BY <1>1 DEF SweepFits
<1>3. held' = Allocated(job, mem)'
  <2>1. CASE job.prog \in MmapRd
    <3>1. Opened \cap Allocated(job, mem) = {}
      BY <1>1, <1>2, <2>1, MmapFacts
         DEF Opened, Allocated, Mmap!copy, Mmap!init_open, Mmap!time_with_open
    <3> QED
      BY <1>1, <1>2, <3>1
  <2>2. CASE job.prog \notin MmapRd
    BY <1>1, <1>2, <2>2 DEF Opened
  <2> QED
    BY <2>1, <2>2
<1>4. CASE job.prog \in MmapRd
  BY <1>1, <1>2, <1>3, <1>4 DEF SweepFits
<1>5. CASE job.prog \notin MmapRd
  <2>1. Kernel(job)' = Kernel(job)
    <3>1. job.prog \in {"bw_mem", "bw_mem64", "bw_mem64a", "bw_mem64d", "bw_mem64p"}
      BY <1>1, <1>5, KindOf DEF BwPrograms
    <3> QED
      BY <1>1, <3>1, KernelStays
  <2>2. p = 0 \/ p >= Kernel(job).chunk
    BY <1>1, <1>5 DEF SweepFits
  <2>3. p <= mem.lastone => p % 64 = 0
    BY <1>1, <1>5 DEF SweepFits
  <2> QED
    BY <1>1, <1>2, <1>3, <1>5, <2>1, <2>2, <2>3 DEF SweepFits
<1> QED
  BY <1>4, <1>5

LEMMA SweepKept ==
  ASSUME SweepFits, JobFits, NothingYet, [FileNext]_memoryVars
  PROVE  SweepFits'
<1>1. CASE UNCHANGED memoryVars
  BY <1>1 DEF memoryVars, walk, setup, SweepFits, Bandwidth, accepts, Buffers, Kernel, Opened
<1>2. CASE BandwidthStep
  <2>1. CASE Usage \/ InitLoopFails \/ TurnFails \/ Cleanup
    BY <2>1 DEF Usage, InitLoopFails, TurnFails, Cleanup, SweepFits
  <2> QED
    BY <1>2, <2>1, TurnOfBandwidth, LoopOfBandwidth, EndOfBandwidth DEF BandwidthStep
<1>3. CASE StreamStep \/ ChainStep \/ FilesStep \/ AnswerStep
  <2>1. phase' \in {"ready", "turn"} => ~Bandwidth'
    <3>1. CASE StreamStep
      <4>1. ~Bandwidth
        BY <3>1, StreamStays, KindsApart
      <4> QED
        BY <3>1, <4>1, StreamStays DEF Bandwidth
    <3>2. CASE ChainStep
      <4>1. ~Bandwidth
        BY <3>2, ChainStays, KindsApart
      <4> QED
        BY <3>2, <4>1, ChainStays, KindOf DEF Bandwidth
    <3>3. CASE FilesStep
      <4>1. ~Bandwidth
        BY <3>3, FilesStay, KindsApart
      <4> QED
        BY <3>3, <4>1, FilesStay DEF Bandwidth
    <3>4. CASE AnswerStep
      BY <3>4, AnswerStays DEF Early
    <3> QED
      BY <1>3, <3>1, <3>2, <3>3, <3>4
  <2> QED
    BY <2>1 DEF SweepFits
<1> QED
  BY <1>1, <1>2, <1>3, StepsOfKinds

(* The STREAM kernels. *)
LEMMA StreamKept ==
  ASSUME StreamFits, JobFits, NothingYet, [FileNext]_memoryVars
  PROVE  StreamFits'
<1>1. CASE UNCHANGED memoryVars
  BY <1>1 DEF memoryVars, walk, setup, StreamFits, Streaming, Streams!cleanup
<1>2. CASE StreamInit
  <2>1. mem' = [a |-> "a", b |-> "b", c |-> "c"] /\ held' = {"a", "b", "c"} /\ turns' = 0
        /\ phase' = "ready"
    BY <1>2 DEF StreamInit, NothingYet, Streams!initialize, Streams!cleanup
  <2> QED
    BY <2>1 DEF StreamFits, Streams!cleanup
<1>3. CASE StreamBody
  <2>1. /\ phase = "ready" /\ phase' = "ready" /\ Streaming /\ job' = job /\ held' = held
        /\ mem' = [a |-> mem.b, b |-> mem.c, c |-> mem.a]
        /\ loads' = Moved(Streams!main[job.kernel].body)
    BY <1>3 DEF StreamBody, Streams!rotated, Moved
  <2>2. Streams!cleanup(mem)' = Streams!cleanup(mem) /\ DOMAIN mem' = {"a", "b", "c"}
    BY <2>1 DEF Streams!cleanup
  <2> QED
    BY <2>1, <2>2 DEF StreamFits
<1>4. CASE StreamInitFails \/ StreamCleanup
  BY <1>4 DEF StreamInitFails, StreamCleanup, StreamFits
<1>5. CASE BandwidthStep \/ ChainStep \/ FilesStep \/ AnswerStep
  <2>1. phase' \in {"ready", "turn"} => ~Streaming'
    <3>1. CASE BandwidthStep
      <4>1. ~Streaming
        BY <3>1, BandwidthStays, KindsApart
      <4> QED
        BY <3>1, <4>1, BandwidthStays DEF Streaming
    <3>2. CASE ChainStep
      <4>1. ~Streaming
        BY <3>2, ChainStays, KindsApart
      <4> QED
        BY <3>2, <4>1, ChainStays, KindOf DEF Streaming
    <3>3. CASE FilesStep
      <4>1. ~Streaming
        BY <3>3, FilesStay, KindsApart
      <4> QED
        BY <3>3, <4>1, FilesStay DEF Streaming
    <3>4. CASE AnswerStep
      BY <3>4, AnswerStays DEF Early
    <3> QED
      BY <1>5, <3>1, <3>2, <3>3, <3>4
  <2> QED
    BY <2>1 DEF StreamFits
<1> QED
  BY <1>1, <1>2, <1>3, <1>4, <1>5, StepsOfKinds DEF StreamStep

LEMMA StreamCredits ==
  ASSUME NEW k \in DOMAIN Streams!main
  PROVE  Moved(Streams!main[k].body) = IF k = "STREAM_add" THEN 1 ELSE Streams!main[k].credit
<1>1. /\ Cardinality({}) = 0 /\ Cardinality({"a"}) = 1 /\ Cardinality({"b"}) = 1
      /\ Cardinality({"c"}) = 1
  BY FS_EmptySet, FS_Singleton
<1>2. Cardinality({"b", "c"}) = 2 /\ Cardinality({"a", "b"}) = 2
  <2>1. /\ IsFiniteSet({"b"}) /\ IsFiniteSet({"a"}) /\ "c" \notin {"b"} /\ "b" \notin {"a"}
        /\ {"b", "c"} = {"b"} \cup {"c"} /\ {"a", "b"} = {"a"} \cup {"b"}
    BY FS_Singleton
  <2>2. Cardinality({"b"} \cup {"c"}) = Cardinality({"b"}) + 1
    BY <2>1, FS_AddElement
  <2>3. Cardinality({"a"} \cup {"b"}) = Cardinality({"a"}) + 1
    BY <2>1, FS_AddElement
  <2> QED
    BY <1>1, <2>1, <2>2, <2>3
<1>3. /\ Moved(Streams!copy) = 2 /\ Moved(Streams!scale) = 2 /\ Moved(Streams!triad) = 3
      /\ Moved(Streams!fill) = 1 /\ Moved(Streams!daxpy) = 3 /\ Moved(Streams!sum) = 1
  BY <1>1, <1>2 DEF Streams!copy, Streams!scale, Streams!triad, Streams!fill, Streams!daxpy,
                   Streams!sum, Streams!Body, Moved
<1> QED
  BY <1>3 DEF Streams!main

(* The programs that read a file. *)
PiecesRead == p \in Nat /\ p <= job.size /\ loads = Least(p, mem.file)

StepsTouched ==
  \E k \in Nat : /\ p = k * mapped.step
                 /\ seen = {i * (mapped.step \div PSIZE) : i \in 0 .. k - 1}
                 /\ k > 0 => (k - 1) * mapped.step < mapped.end

PagesTouched ==
  /\ p \in Nat /\ loads = p /\ p <= pagesOf(job.file)
  /\ seen = {m.pages[i] \div PageBytes : i \in 0 .. p - 1}
  /\ job.what # "benchmark" => p = 0

FileWork ==
  /\ job.prog = "bw_file_rd" => PiecesRead
  /\ job.prog = "lat_mmap" => StepsTouched
  /\ job.prog = "lat_pagefault" => PagesTouched

FileFits ==
  phase \in {"ready", "turn"} /\ Files =>
    /\ FileAccepts /\ mem.file \in Nat
    /\ job.prog = "lat_pagefault" =>
          m.pages \in permutation(pagesOf(job.file), PageBytes)
    /\ phase = "turn" \/ turns > 0 => FileWork
    /\ phase = "ready" /\ turns > 0 => TurnDone
    /\ held = IF phase = "turn" THEN FileHolds \cup FileOpens ELSE FileHolds

LEMMA JobsOfFiles ==
  ASSUME JobFits, Files
  PROVE  /\ job \in [prog : FilePrograms, what : STRING, size : Nat, file : Nat, clone : BOOLEAN]
         /\ FileProgram = job.prog /\ job.prog \in {"bw_file_rd", "lat_mmap", "lat_pagefault"}
BY KindsApart, KindOf DEF FileProgram, FilePrograms

LEMMA PieceRead ==
  ASSUME NEW size \in Nat, NEW file \in Nat, NEW at \in Nat, at <= size,
         NEW most \in Nat \ {0}, NEW piece, piece = Least(size - at, most),
         NEW gets, gets = IF at >= file THEN 0 ELSE Least(piece, file - at)
  PROVE  /\ gets > 0 => /\ piece \in Nat /\ at + piece <= size
                        /\ Least(at, file) + gets = Least(at + piece, file)
         /\ gets = 0 => Least(at, file) = Least(size, file)
BY DEF Least

LEMMA ReadKept ==
  ASSUME JobFits, Files, PiecesRead, ReadPiece, UNCHANGED <<job, mem>>, mem.file \in Nat
  PROVE  PiecesRead'
<1>1. job.size \in Nat /\ XFERSIZE \in Nat \ {0}
  BY JobsOfFiles, FileAssumption
<1>2. Got > 0 => /\ Piece \in Nat /\ p + Piece <= job.size
                 /\ Least(p, mem.file) + Got = Least(p + Piece, mem.file)
  <2>1. /\ Piece = Least(job.size - p, XFERSIZE)
        /\ Got = IF p >= mem.file THEN 0 ELSE Least(Piece, mem.file - p)
        /\ p \in Nat /\ p <= job.size
    BY DEF PiecesRead, Piece, Got
  <2> QED
    BY SMTT(30), <1>1, <2>1, PieceRead
<1> QED
  BY <1>1, <1>2 DEF PiecesRead, ReadPiece

LEMMA MappedFacts ==
  ASSUME JobFits, Files, job.prog = "lat_mmap"
  PROVE  \E c \in {1, 10} : /\ mapped.step = c * PSIZE /\ mapped.step \in Nat \ {0}
                            /\ mapped.step \div PSIZE = c /\ mapped.end \in Nat
<1>1. job.size \in Nat /\ PSIZE \in Nat \ {0}
  BY JobsOfFiles, FileAssumption
<1>2. (10 * PSIZE) \div PSIZE = 10 /\ PSIZE \div PSIZE = 1 /\ job.size \div 10 \in Nat
  BY <1>1
<1> QED
  BY <1>1, <1>2 DEF mapped, STRIDE, N

LEMMA Quotient ==
  ASSUME NEW k \in Nat, NEW c \in Nat, NEW d \in Nat \ {0}
  PROVE  (k * (c * d)) \div d = k * c /\ (k * d) \div d = k
<1>1. \A x \in Nat : (x * d) \div d = x
  OBVIOUS
<1>2. k * (c * d) = (k * c) * d /\ k * c \in Nat
  OBVIOUS
<1> QED
  BY <1>1, <1>2

LEMMA TouchKept ==
  ASSUME JobFits, Files, StepsTouched, TouchMapped, job' = job
  PROVE  StepsTouched'
<1>1. PICK c \in {1, 10} : /\ mapped.step = c * PSIZE /\ mapped.step \in Nat \ {0}
                           /\ mapped.step \div PSIZE = c /\ mapped.end \in Nat
  BY JobsOfFiles, MappedFacts DEF TouchMapped
<1>2. PICK k \in Nat : p = k * mapped.step /\ seen = {i * c : i \in 0 .. k - 1}
  BY <1>1 DEF StepsTouched
<1>3. p \div PSIZE = k * c
  BY <1>1, <1>2, FileAssumption, Quotient
<1>4. mapped' = mapped
  BY DEF mapped
<1>5. p' = (k + 1) * mapped.step /\ (k + 1 - 1) * mapped.step < mapped.end /\ k + 1 \in Nat
  BY <1>1, <1>2 DEF TouchMapped
<1>6. seen' = {i * c : i \in 0 .. k + 1 - 1}
  <2>1. 0 .. k + 1 - 1 = (0 .. k - 1) \cup {k}
    OBVIOUS
  <2> QED
    BY <1>2, <1>3, <2>1 DEF TouchMapped
<1>7. mapped'.step = mapped.step /\ mapped'.end = mapped.end
  BY <1>4
<1> DEFINE n == k + 1
<1>8. /\ n \in Nat /\ p' = n * mapped'.step /\ (n > 0 => (n - 1) * mapped'.step < mapped'.end)
      /\ mapped'.step \div PSIZE = c
  BY <1>1, <1>5, <1>7
<1>9. \A d : d = c => seen' = {i * d : i \in 0 .. n - 1}
  BY <1>6
<1> HIDE DEF n
<1> QED
  BY <1>8, <1>9 DEF StepsTouched

LEMMA PageKept ==
  ASSUME JobFits, Files, PagesTouched, TouchPage, UNCHANGED <<job, m>>
  PROVE  PagesTouched'
<1>1. pagesOf(job.file) \in Nat /\ pagesOf(job.file)' = pagesOf(job.file)
  BY JobsOfFiles, FileAssumption DEF pagesOf
<1>2. 0 .. p' - 1 = (0 .. p - 1) \cup {p}
  BY DEF PagesTouched, TouchPage
<1> QED
  BY <1>1, <1>2 DEF PagesTouched, TouchPage

(* What a finished turn has done. *)
LEMMA ImageCount ==
  ASSUME NEW k \in Nat, NEW c \in Nat \ {0}
  PROVE  Cardinality({i * c : i \in 0 .. k - 1}) = k
<1> DEFINE T == {i * c : i \in 0 .. k - 1}
           f == [i \in 0 .. k - 1 |-> i * c]
<1>1. IsFiniteSet(0 .. k - 1) /\ Cardinality(0 .. k - 1) = k
  BY FS_Interval
<1>2. ASSUME NEW i \in 0 .. k - 1, NEW j \in 0 .. k - 1, i * c = j * c PROVE i = j
  BY <1>2
<1>3. f \in Bijection(0 .. k - 1, T)
  BY <1>2 DEF Bijection, Injection, Surjection, IsInjective
<1> HIDE DEF T, f
<1> QED
  BY <1>1, <1>3, FS_Bijection DEF ExistsBijection, T

LEMMA CeilingOf ==
  ASSUME NEW size \in Nat, NEW s \in Nat \ {0}, NEW k \in Nat \ {0},
         (k - 1) * s < size, size <= k * s
  PROVE  Ceiling(size, s) = k
<1>1. (k - 1) * s = k * s - s /\ k * s \in Nat
  OBVIOUS
<1>2. size + s - 1 >= k * s /\ size + s - 1 < k * s + s /\ size + s - 1 \in Nat
  BY <1>1
<1>3. \A x \in Nat : x >= k * s /\ x < k * s + s => x \div s = k
  <2>1. \A x \in Nat : x >= k * s /\ x < k * s + s => (x - k * s) \div s = 0
    OBVIOUS
  <2> QED
    OBVIOUS
<1> QED
  BY <1>2, <1>3 DEF Ceiling

LEMMA TenthOf ==
  ASSUME NEW size \in Nat, NEW q \in Nat \ {0}, NEW k \in Nat \ {0},
         size % (10 * q) \notin 1 .. 9,
         (k - 1) * q < size \div 10, size \div 10 <= k * q
  PROVE  (k - 1) * (10 * q) < size /\ size <= k * (10 * q)
<1> DEFINE e == size \div 10
           r == size % 10
           a == k * q
<1>1. e \in Nat /\ r \in 0 .. 9 /\ size = 10 * e + r
  OBVIOUS
<1>2. a \in Nat /\ (k - 1) * q = a - q /\ k * (10 * q) = 10 * a
      /\ (k - 1) * (10 * q) = 10 * a - 10 * q
  OBVIOUS
<1>3. a - q < e /\ e <= a
  BY <1>2
<1>4. e = a => r = 0
  <2> SUFFICES ASSUME e = a, r # 0 PROVE FALSE
    OBVIOUS
  <2>1. size = k * (10 * q) + r /\ r \in 1 .. 9 /\ 10 * q \in Nat /\ 10 * q > r
    BY <1>1, <1>2
  <2> DEFINE x == 10 * q
  <2>2. size = k * x + r /\ x \in Nat /\ x > r /\ r \in Nat
    BY <2>1
  <2> HIDE DEF x, r
  <2>3. size % x = r
    BY SMTT(30), <2>2
  <2> QED
    BY <2>1, <2>3 DEF x
<1> HIDE DEF e, r, a
<1> QED
  BY <1>1, <1>2, <1>3, <1>4

LEMMA MappedCount ==
  ASSUME JobFits, Files, FileAccepts, job.prog = "lat_mmap", StepsTouched, p >= mapped.end,
         job.size % STRIDE \notin 1 .. N - 1
  PROVE  Cardinality(seen) = Ceiling(job.size, STRIDE)
<1>1. job.size \in Nat /\ PSIZE \in Nat \ {0}
  BY JobsOfFiles, FileAssumption
<1>2. job.size >= 2 * (10 * PSIZE) /\ STRIDE = 10 * PSIZE /\ STRIDE \in Nat \ {0}
  BY <1>1 DEF FileAccepts, STRIDE, N
<1>3. PICK c \in {1, 10} : /\ mapped.step = c * PSIZE /\ mapped.step \in Nat \ {0}
                           /\ mapped.step \div PSIZE = c /\ mapped.end \in Nat
  BY MappedFacts
<1>4. PICK k \in Nat : /\ p = k * mapped.step /\ seen = {i * c : i \in 0 .. k - 1}
                       /\ k > 0 => (k - 1) * mapped.step < mapped.end
  BY <1>3 DEF StepsTouched
<1>5. Cardinality(seen) = k
  <2>1. c \in Nat \ {0}
    OBVIOUS
  <2>2. Cardinality({i * c : i \in 0 .. k - 1}) = k
    BY <2>1, ImageCount
  <2> QED
    BY <1>4, <2>2
<1>6. k > 0
  <2>1. job.size \div 10 > 0
    BY <1>1, <1>2
  <2>2. mapped.end > 0
    BY <1>1, <1>2, <2>1 DEF mapped, N
  <2> SUFFICES ASSUME k = 0 PROVE FALSE
    BY <1>4
  <2>3. p = 0
    BY <1>3, <1>4
  <2> QED
    BY <1>3, <2>2, <2>3
<1>7. CASE job.what = "random"
  <2>1. mapped.end = job.size /\ mapped.step = STRIDE
    BY <1>7 DEF mapped
  <2>2. (k - 1) * STRIDE < job.size /\ job.size <= k * STRIDE
    BY <1>2, <1>4, <1>6, <2>1
  <2> QED
    BY <1>1, <1>2, <1>5, <1>6, <2>2, CeilingOf
<1>8. CASE job.what # "random"
  <2>1. mapped.end = job.size \div 10 /\ mapped.step = PSIZE
    BY <1>8 DEF mapped, N
  <2>2. (k - 1) * PSIZE < job.size \div 10 /\ job.size \div 10 <= k * PSIZE
    BY <1>1, <1>4, <1>6, <2>1
  <2>3. job.size % (10 * PSIZE) \notin 1 .. 9 /\ k \in Nat \ {0}
    BY <1>2, <1>6 DEF N
  <2>4. (k - 1) * (10 * PSIZE) < job.size /\ job.size <= k * (10 * PSIZE)
    BY <1>1, <2>2, <2>3, TenthOf
  <2> QED
    BY <1>1, <1>2, <1>5, <1>6, <2>4, CeilingOf
<1> QED
  BY <1>7, <1>8

LEMMA PagesCovered ==
  ASSUME NEW n \in Nat, NEW d \in Nat \ {0}, NEW pages \in permutation(n, d)
  PROVE  {pages[i] \div d : i \in 0 .. n - 1} = 0 .. n - 1
<1>1. PICK f \in Bijection(0 .. n - 1, 0 .. n - 1) : pages = [i \in 0 .. n - 1 |-> f[i] * d]
  BY DEF permutation
<1>2. /\ \A i \in 0 .. n - 1 : f[i] \in 0 .. n - 1
      /\ \A j \in 0 .. n - 1 : \E i \in 0 .. n - 1 : f[i] = j
  BY <1>1 DEF Bijection, Injection, Surjection
<1>3. \A i \in 0 .. n - 1 : pages[i] \div d = f[i]
  <2> SUFFICES ASSUME NEW i \in 0 .. n - 1 PROVE pages[i] \div d = f[i]
    OBVIOUS
  <2>1. f[i] \in Nat /\ pages[i] = f[i] * d
    BY <1>1, <1>2
  <2> QED
    BY <2>1, Quotient
<1>4. {pages[i] \div d : i \in 0 .. n - 1} = {f[i] : i \in 0 .. n - 1}
  BY <1>3
<1> QED
  BY <1>2, <1>4

LEMMA WorkSafe ==
  ASSUME JobFits, FileFits
  PROVE  WorkIsCredited
<1> SUFFICES ASSUME phase = "ready", Files, turns > 0
             PROVE  WorkIsCredited
  BY DEF WorkIsCredited
<1>1. /\ FileAccepts /\ mem.file \in Nat /\ FileWork /\ TurnDone
      /\ job \in [prog : FilePrograms, what : STRING, size : Nat, file : Nat, clone : BOOLEAN]
      /\ job.prog \in {"bw_file_rd", "lat_mmap", "lat_pagefault"}
  BY JobsOfFiles DEF FileFits
<1>2. CASE job.prog = "bw_file_rd"
  <2>1. /\ Piece = Least(job.size - p, XFERSIZE)
        /\ Got = IF p >= mem.file THEN 0 ELSE Least(Piece, mem.file - p)
        /\ Got = 0
    BY <1>1, <1>2 DEF Piece, Got, TurnDone
  <2>2. p \in Nat /\ p <= job.size /\ loads = Least(p, mem.file)
        /\ job.size \in Nat /\ XFERSIZE \in Nat \ {0}
    BY <1>1, <1>2, FileAssumption DEF FileWork, PiecesRead
  <2>3. Least(p, mem.file) = Least(job.size, mem.file)
    BY <1>1, <2>1, <2>2, PieceRead
  <2> QED
    BY <1>2, <2>2, <2>3 DEF WorkIsCredited
<1>3. CASE job.prog = "lat_mmap"
  <2>1. StepsTouched /\ p >= mapped.end
    BY <1>1, <1>3 DEF FileWork, TurnDone
  <2> QED
    BY <1>1, <1>3, <2>1, MappedCount DEF WorkIsCredited
<1>4. CASE job.prog = "lat_pagefault"
  <2> DEFINE n == pagesOf(job.file)
  <2>1. n \in Nat /\ PageBytes \in Nat \ {0} /\ m.pages \in permutation(n, PageBytes)
    BY <1>1, <1>4, FileAssumption DEF pagesOf, FileFits
  <2>2. PagesTouched /\ (job.what = "benchmark" => p = n)
    BY <1>1, <1>4 DEF FileWork, TurnDone
  <2> HIDE DEF n
  <2>3. CASE job.what = "benchmark"
    <3>1. seen = {m.pages[i] \div PageBytes : i \in 0 .. n - 1} /\ loads = n
      BY <2>2, <2>3 DEF PagesTouched
    <3>2. seen = 0 .. n - 1
      BY <2>1, <3>1, PagesCovered
    <3> QED
      BY <1>4, <2>3, <3>1, <3>2 DEF WorkIsCredited, n
  <2>4. CASE job.what # "benchmark"
    <3>1. loads = 0 /\ p = 0
      BY <2>2, <2>4 DEF PagesTouched
    <3>2. seen = 0 .. 0 - 1
      BY <2>2, <3>1 DEF PagesTouched
    <3> QED
      BY <1>4, <2>4, <3>1, <3>2 DEF WorkIsCredited
  <2> QED
    BY <2>3, <2>4
<1> QED
  BY <1>1, <1>2, <1>3, <1>4

LEMMA WorkStays ==
  ASSUME UNCHANGED <<job, mem, m, p, seen, loads>>
  PROVE  /\ FileAccepts' = FileAccepts /\ FileHolds' = FileHolds /\ FileOpens' = FileOpens
         /\ pagesOf(job.file)' = pagesOf(job.file)
         /\ TurnDone' = TurnDone /\ FileWork' = FileWork
<1>1. mapped' = mapped
  BY DEF mapped
<1>2. StepsTouched' = StepsTouched
  BY <1>1 DEF StepsTouched
<1>3. PiecesRead' = PiecesRead /\ Got' = Got
  BY DEF PiecesRead, Got, Piece
<1>4. pagesOf(job.file)' = pagesOf(job.file)
  BY DEF pagesOf
<1>5. PagesTouched' = PagesTouched
  BY <1>4 DEF PagesTouched
<1>6. FileAccepts' = FileAccepts /\ FileHolds' = FileHolds /\ FileOpens' = FileOpens
  BY DEF FileAccepts, FileHolds, FileOpens, pagesOf
<1>7. TurnDone' = TurnDone
  BY <1>1, <1>3, <1>4 DEF TurnDone
<1>8. FileWork' = FileWork
  BY <1>2, <1>3, <1>5 DEF FileWork
<1> QED
  BY <1>4, <1>6, <1>7, <1>8

LEMMA FilesStart ==
  ASSUME FileFits, JobFits, NothingYet, FileInitialize \/ FileTurn
  PROVE  FileFits'
<1>1. /\ Files /\ Files' /\ job' = job /\ phase \in {"main", "ready"}
      /\ phase' \in {"ready", "turn"} /\ FileAccepts
      /\ job \in [prog : FilePrograms, what : STRING, size : Nat, file : Nat, clone : BOOLEAN]
      /\ job.prog \in {"bw_file_rd", "lat_mmap", "lat_pagefault"}
  BY JobsOfFiles DEF FileInitialize, FileTurn, FileFits, Files
<1>2. /\ FileAccepts' /\ FileHolds' = FileHolds /\ FileOpens' = FileOpens /\ mapped' = mapped
      /\ pagesOf(job.file)' = pagesOf(job.file)
  BY ZenonT(40), <1>1 DEF FileAccepts, FileHolds, FileOpens, mapped, pagesOf
<1>3. CASE FileInitialize
  <2>1. /\ mem'.file = job.file /\ held' = FileHolds /\ phase' = "ready" /\ turns' = 0
        /\ job.prog = "lat_pagefault" => m'.pages \in permutation(pagesOf(job.file), PageBytes)
    BY <1>3 DEF FileInitialize, NothingYet
  <2> QED
    BY <1>1, <1>2, <2>1 DEF FileFits
<1>4. CASE FileTurn
  <2>1. /\ mem'.file \in Nat /\ m' = m /\ p' = 0 /\ seen' = {} /\ loads' = 0
        /\ held' = FileHolds \cup FileOpens /\ phase' = "turn"
        /\ job.prog = "lat_pagefault" => m.pages \in permutation(pagesOf(job.file), PageBytes)
    <3>1. phase = "ready"
      BY <1>4 DEF FileTurn
    <3> QED
      BY <1>1, <1>4, <3>1 DEF FileTurn, FileFits
  <2>2. job.prog = "bw_file_rd" => PiecesRead'
    BY <1>1, <2>1 DEF PiecesRead, Least
  <2>3. job.prog = "lat_mmap" => StepsTouched'
    <3> SUFFICES ASSUME job.prog = "lat_mmap" PROVE StepsTouched'
      OBVIOUS
    <3>1. mapped.step \in Nat /\ mapped'.step = mapped.step
      BY <1>1, <1>2, MappedFacts
    <3>2. \A c : {i * c : i \in 0 .. 0 - 1} = {}
      OBVIOUS
    <3>3. p' = 0 * mapped'.step /\ seen' = {i * (mapped'.step \div PSIZE) : i \in 0 .. 0 - 1}
      BY <2>1, <3>1, <3>2
    <3> QED
      BY <3>3 DEF StepsTouched
  <2>4. job.prog = "lat_pagefault" => PagesTouched'
    BY <1>1, <1>2, <2>1, FileAssumption DEF PagesTouched, pagesOf
  <2>5. FileWork'
    BY <1>1, <2>2, <2>3, <2>4 DEF FileWork
  <2> QED
    BY <1>1, <1>2, <2>1, <2>5 DEF FileFits
<1> QED
  BY <1>3, <1>4

LEMMA FilesProceed ==
  ASSUME FileFits, JobFits, FileStep
  PROVE  FileFits'
<1>1. /\ Files /\ Files' /\ job' = job /\ phase = "turn" /\ phase' = "turn"
      /\ mem' = mem /\ m' = m /\ held' = held /\ FileAccepts /\ FileWork
      /\ FileProgram = job.prog
      /\ ReadPiece \/ TouchMapped \/ TouchPage
  <2>1. Files
    BY DEF FileStep, ReadPiece, TouchMapped, TouchPage, FileProgram
  <2>2. FileProgram = job.prog
    BY <2>1, JobsOfFiles
  <2> QED
    BY <2>1, <2>2 DEF FileStep, setup, Files, FileFits
<1>2. /\ FileAccepts' /\ FileHolds' = FileHolds /\ FileOpens' = FileOpens
      /\ pagesOf(job.file)' = pagesOf(job.file)
  BY <1>1 DEF FileAccepts, FileHolds, FileOpens, pagesOf
<1>3. /\ mem.file \in Nat /\ held = FileHolds \cup FileOpens
      /\ job.prog = "lat_pagefault" => m.pages \in permutation(pagesOf(job.file), PageBytes)
  BY <1>1 DEF FileFits
<1>4. FileWork'
  <2>1. CASE ReadPiece
    <3>1. job.prog = "bw_file_rd" /\ PiecesRead
      BY <1>1, <2>1 DEF ReadPiece, FileWork
    <3>2. PiecesRead'
      BY <1>1, <1>3, <2>1, <3>1, ReadKept
    <3> QED
      BY <1>1, <3>1, <3>2 DEF FileWork
  <2>2. CASE TouchMapped
    <3>1. job.prog = "lat_mmap" /\ StepsTouched
      BY <1>1, <2>2 DEF TouchMapped, FileWork
    <3>2. StepsTouched'
      BY <1>1, <2>2, <3>1, TouchKept
    <3> QED
      BY <1>1, <3>1, <3>2 DEF FileWork
  <2>3. CASE TouchPage
    <3>1. job.prog = "lat_pagefault" /\ PagesTouched
      BY <1>1, <2>3 DEF TouchPage, FileWork
    <3>2. PagesTouched'
      BY <1>1, <2>3, <3>1, PageKept
    <3> QED
      BY <1>1, <3>1, <3>2 DEF FileWork
  <2> QED
    BY <1>1, <2>1, <2>2, <2>3
<1> QED
  BY <1>1, <1>2, <1>3, <1>4 DEF FileFits

LEMMA FilesEnd ==
  ASSUME FileFits, JobFits, FileTurnEnds
  PROVE  FileFits'
<1>1. /\ Files /\ Files' /\ job' = job /\ phase = "turn" /\ phase' = "ready" /\ TurnDone
      /\ UNCHANGED <<mem, m, p, seen, loads>> /\ held' = held \ FileOpens
      /\ job.prog \in {"bw_file_rd", "lat_mmap", "lat_pagefault"}
  BY JobsOfFiles DEF FileTurnEnds, setup, walk, Files
<1>2. /\ FileAccepts /\ FileWork /\ mem.file \in Nat /\ held = FileHolds \cup FileOpens
      /\ job.prog = "lat_pagefault" => m.pages \in permutation(pagesOf(job.file), PageBytes)
  BY <1>1 DEF FileFits
<1>3. /\ FileAccepts' /\ FileHolds' = FileHolds /\ TurnDone' /\ FileWork'
      /\ pagesOf(job.file)' = pagesOf(job.file)
  BY <1>1, <1>2, WorkStays
<1>4. FileHolds \cap FileOpens = {}
  BY <1>1 DEF FileHolds, FileOpens
<1> QED
  BY <1>1, <1>2, <1>3, <1>4 DEF FileFits

LEMMA FilesKept ==
  ASSUME FileFits, JobFits, NothingYet, [FileNext]_memoryVars
  PROVE  FileFits'
<1>1. CASE UNCHANGED memoryVars
  <2>1. UNCHANGED <<job, phase, mem, m, p, seen, loads, turns, held>>
    BY <1>1 DEF memoryVars, walk, setup
  <2> QED
    BY <2>1, WorkStays DEF FileFits, Files
<1>2. CASE FilesStep
  <2>1. CASE FileRefused \/ FileInitializeFails \/ FileTurnFails \/ FileCleanup
    <3>1. phase' \notin {"ready", "turn"}
      BY <2>1 DEF FileRefused, FileInitializeFails, FileTurnFails, FileCleanup
    <3> QED
      BY <3>1 DEF FileFits
  <2> QED
    BY <1>2, <2>1, FilesStart, FilesProceed, FilesEnd DEF FilesStep
<1>3. CASE BandwidthStep \/ StreamStep \/ ChainStep \/ AnswerStep
  <2>1. phase' \in {"ready", "turn"} => ~Files'
    <3>1. CASE BandwidthStep
      <4>1. ~Files
        BY <3>1, BandwidthStays, KindsApart
      <4> QED
        BY <3>1, <4>1, BandwidthStays DEF Files
    <3>2. CASE ChainStep
      <4>1. ~Files
        BY <3>2, ChainStays, KindsApart
      <4> QED
        BY <3>2, <4>1, ChainStays, KindOf DEF Files
    <3>3. CASE StreamStep
      <4>1. ~Files
        BY <3>3, StreamStays, KindsApart
      <4> QED
        BY <3>3, <4>1, StreamStays DEF Files
    <3>4. CASE AnswerStep
      BY <3>4, AnswerStays DEF Early
    <3> QED
      BY <1>3, <3>1, <3>2, <3>3, <3>4
  <2> QED
    BY <2>1 DEF FileFits
<1> QED
  BY <1>1, <1>2, <1>3, StepsOfKinds

(* Both programs credit what they did. *)
LEMMA SweepSafe ==
  ASSUME JobFits, SweepFits, StreamFits
  PROVE  EveryLineOnce /\ CreditIsMoved
<1>1. EveryLineOnce
  <2> SUFFICES ASSUME phase \in {"turn", "ready"}, Bandwidth PROVE EveryLineOnce
    BY DEF EveryLineOnce
  <2>1. /\ accepts(job) /\ mem = Buffers(job) /\ job \in BandwidthJobs
        /\ p \in Nat /\ p <= job.nbytes /\ seen = Swept(p)
        /\ job.prog \notin MmapRd => p = 0 \/ p >= Kernel(job).chunk
        /\ phase = "ready" /\ turns > 0 => p > mem.lastone
    BY KindsApart DEF SweepFits
  <2>2. CASE job.prog \in MmapRd
    <3>1. /\ job.nbytes \in Nat /\ mem.lastone = job.nbytes - 8
          /\ Kernel(job) = Mmap!bread(job.nbytes - p)
      BY <2>1, <2>2, MmapFacts
    <3>2. job.nbytes - p \in Nat
      BY <2>1, <3>1
    <3>3. Kernel(job).chunk \in {8, 128, 1024}
      BY <3>1, <3>2, BreadFits
    <3>4. phase = "ready" /\ turns > 0 => p + Kernel(job).chunk > job.nbytes
      BY <2>1, <3>1, <3>3
    <3> QED
      BY <2>1, <3>4 DEF EveryLineOnce, Swept
  <2>3. CASE job.prog \notin MmapRd
    <3>1. /\ least(job) \in {512, 3840} /\ job.nbytes \in Nat /\ job.nbytes >= least(job)
          /\ Kernel(job).chunk \in {least(job), job.nbytes}
          /\ mem.lastone = job.nbytes - least(job)
      BY <2>1, <2>3, BandFacts
    <3>2. phase = "ready" /\ turns > 0 => p + Kernel(job).chunk > job.nbytes
      BY <2>1, <2>3, <3>1
    <3> QED
      BY <2>1, <3>2 DEF EveryLineOnce, Swept
  <2> QED
    BY <2>2, <2>3
<1>2. CreditIsMoved
  <2> SUFFICES ASSUME phase = "ready", Streaming, turns > 0
               PROVE  loads = IF job.kernel = "STREAM_add" THEN 1
                              ELSE Streams!main[job.kernel].credit
    BY DEF CreditIsMoved
  <2>1. loads = Moved(Streams!main[job.kernel].body)
    BY DEF StreamFits
  <2>2. job.kernel \in DOMAIN Streams!main
    BY KindsApart, KindOf
  <2> QED
    BY <2>1, <2>2, StreamCredits
<1> QED
  BY <1>1, <1>2

EarnedInv == JobFits /\ NothingYet /\ SweepFits /\ StreamFits /\ FileFits

LEMMA EarnedBegins ==
  ASSUME MemoryInit \/ FileInit
  PROVE  EarnedInv
<1>1. phase = "main" /\ InitialState
  BY DEF MemoryInit, FileInit, InitialState
<1>2. job \in Jobs
  BY MemoryAssumption DEF MemoryInit, FileInit, Jobs, ChainRecords
<1>3. NothingYet
  BY <1>1 DEF NothingYet, InitialState
<1> QED
  BY <1>1, <1>2, <1>3 DEF EarnedInv, JobFits, Early, SweepFits, StreamFits, FileFits

(* What the memory and file programs do for what they are credited with, whatever   *)
(* the size of buffer, file or stride: a loop of bw_mem and its variants touches    *)
(* every line below its pointer and stops less than a chunk before the end; a       *)
(* kernel of stream moves the doubles it counts, but add moves one and counts       *)
(* three (stream.c:119); bw_file_rd reads the bytes that the file has of the        *)
(* <size> it counts, none if it could not open it (bw_file_rd.c:45, 100);           *)
(* lat_mmap touches a page for each stride of at least N bytes and lat_pagefault    *)
(* every page.                                                                      *)
THEOREM WorkDone == FileSpec => []WorkAgainstCredit
<1>1. MemoryInit \/ FileInit => EarnedInv
  BY EarnedBegins
<1>2. EarnedInv /\ [FileNext]_memoryVars => EarnedInv'
  BY JobKept, NothingYetKept, SweepKept, StreamKept, FilesKept DEF EarnedInv
<1>3. EarnedInv => WorkAgainstCredit
  BY SweepSafe, WorkSafe DEF EarnedInv, WorkAgainstCredit
<1> QED
  BY <1>1, <1>2, <1>3, PTL DEF FileSpec

----------------------------------------------------------------------------
(* Functions that are defined by what they are of a smaller number. *)
Recurring(n, e, h, base, b, E) ==
  DOMAIN e = 0 .. n
    /\ \A k \in 0 .. n : e[k] = IF k <= base THEN b[k] ELSE E[k][e[h[k]]]

Descends(h, base) ==
  h \in [Nat -> Nat] /\ base \in Nat /\ \A n \in Nat : n > base => h[n] < n
Steps(V, b, E) == b \in [Nat -> V] /\ E \in [Nat -> [V -> V]]
Solved(V, h, base, b, E) ==
  \E f \in [Nat -> V] :
     \A n \in Nat : f[n] = IF n <= base THEN b[n] ELSE E[n][f[h[n]]]

LEMMA Recursion ==
  ASSUME NEW V, NEW h, NEW base, NEW b, NEW E, Descends(h, base), Steps(V, b, E)
  PROVE  Solved(V, h, base, b, E)
<1> USE DEF Descends, Steps
<1> DEFINE Begun(n, e) == e \in [0 .. n -> V] /\ Recurring(n, e, h, base, b, E)
           T == {n \in Nat : \E e : Begun(n, e)}
<1>1. 0 \in T
  <2>1. PICK e : e = [k \in 0 .. 0 |-> b[0]]
    OBVIOUS
  <2>2. Begun(0, e)
    BY <2>1 DEF Recurring
  <2> QED
    BY <2>2
<1>2. ASSUME NEW n \in Nat, n \in T PROVE n + 1 \in T
  <2>1. PICK e : Begun(n, e)
    BY <1>2
  <2>2. PICK z \in V : z = IF n + 1 <= base THEN b[n + 1] ELSE E[n + 1][e[h[n + 1]]]
    <3>1. n + 1 > base => h[n + 1] \in 0 .. n
      OBVIOUS
    <3>2. e \in [0 .. n -> V] /\ b[n + 1] \in V
      BY <2>1
    <3>3. n + 1 > base => E[n + 1][e[h[n + 1]]] \in V
      BY <3>1, <3>2
    <3> QED
      BY <3>2, <3>3
  <2>3. PICK k : k = [i \in 0 .. n + 1 |-> IF i <= n THEN e[i] ELSE z]
    OBVIOUS
  <2>4. k \in [0 .. n + 1 -> V]
    BY <2>1, <2>3
  <2>5. \A i \in 0 .. n : k[i] = e[i]
    BY <2>3
  <2>6. k[n + 1] = z
    BY <2>3
  <2>7. ASSUME NEW i \in 0 .. n + 1
        PROVE  k[i] = IF i <= base THEN b[i] ELSE E[i][k[h[i]]]
    <3>1. i > base => h[i] \in 0 .. n
      OBVIOUS
    <3>2. i > base => k[h[i]] = e[h[i]]
      BY <2>5, <3>1
    <3>3. CASE i \in 0 .. n
      <4>1. k[i] = e[i] /\ e[i] = IF i <= base THEN b[i] ELSE E[i][e[h[i]]]
        BY <2>1, <2>5, <3>3 DEF Recurring
      <4> QED
        BY <3>2, <4>1
    <3>4. CASE i = n + 1
      BY <2>2, <2>6, <3>2, <3>4
    <3> QED
      BY <3>3, <3>4
  <2>8. Begun(n + 1, k)
    BY <2>4, <2>7 DEF Recurring
  <2> QED
    BY <2>8
<1> HIDE DEF T
<1>3. \A n \in Nat : n \in T
  BY <1>1, <1>2, Induction
<1>4. \A n \in Nat : \E e : Begun(n, e)
  BY <1>3 DEF T
<1> DEFINE e(n) == CHOOSE x : Begun(n, x)
<1>5. \A n \in Nat : Begun(n, e(n))
  BY <1>4
<1> HIDE DEF e
<1>6. ASSUME NEW n \in Nat, NEW k \in Nat PROVE k <= n => e(n)[k] = e(k)[k]
  <2> DEFINE S == {i \in Nat : \A l \in 0 .. i : \A x \in Nat :
                      l <= x => e(x)[l] = e(l)[l]}
  <2>1. ASSUME NEW i \in Nat, \A l \in Nat : l < i => l \in S,
               NEW x \in Nat, i <= x
        PROVE  e(x)[i] = e(i)[i]
    <3>1. i > base => h[i] \in Nat /\ h[i] < i
      OBVIOUS
    <3>2. ASSUME i > base
          PROVE  e(x)[h[i]] = e(h[i])[h[i]] /\ e(i)[h[i]] = e(h[i])[h[i]]
      <4>1. PICK l \in Nat : l = h[i] /\ l < i
        BY <3>1, <3>2
      <4>2. l \in S
        BY <2>1, <4>1
      <4>3. \A y \in Nat : l <= y => e(y)[l] = e(l)[l]
        BY <4>2
      <4> QED
        BY <2>1, <4>1, <4>3
    <3>3. e(x)[i] = IF i <= base THEN b[i] ELSE E[i][e(x)[h[i]]]
      BY <1>5, <2>1 DEF Recurring
    <3>4. e(i)[i] = IF i <= base THEN b[i] ELSE E[i][e(i)[h[i]]]
      BY <1>5 DEF Recurring
    <3> QED
      BY <3>2, <3>3, <3>4
  <2>2. 0 \in S
    <3>1. \A l \in 0 .. 0 : l = 0
      OBVIOUS
    <3>2. \A x \in Nat : e(x)[0] = e(0)[0]
      BY <2>1
    <3> QED
      BY <3>1, <3>2
  <2>3. ASSUME NEW i \in Nat, i \in S PROVE i + 1 \in S
    <3>1. \A l \in Nat : l < i + 1 => l \in S
      BY <2>3
    <3>2. ASSUME NEW x \in Nat, i + 1 <= x PROVE e(x)[i + 1] = e(i + 1)[i + 1]
      <4>1. i + 1 \in Nat
        OBVIOUS
      <4> HIDE DEF S
      <4> QED
        BY <2>1, <3>1, <3>2, <4>1
    <3>3. \A l \in 0 .. i + 1 : l \in 0 .. i \/ l = i + 1
      OBVIOUS
    <3> QED
      BY <2>3, <3>2, <3>3
  <2> HIDE DEF S
  <2>4. k \in S
    BY <2>2, <2>3, Induction
  <2> QED
    BY <2>4 DEF S
<1>7. PICK f : f = [n \in Nat |-> e(n)[n]]
  OBVIOUS
<1>8. f \in [Nat -> V]
  <2>1. \A n \in Nat : e(n) \in [0 .. n -> V] /\ n \in 0 .. n
    BY <1>5
  <2> QED
    BY <1>7, <2>1
<1>9. ASSUME NEW n \in Nat
      PROVE  f[n] = IF n <= base THEN b[n] ELSE E[n][f[h[n]]]
  <2>1. f[n] = IF n <= base THEN b[n] ELSE E[n][e(n)[h[n]]]
    BY <1>5, <1>7 DEF Recurring
  <2>2. n > base => h[n] \in Nat /\ h[n] <= n
    OBVIOUS
  <2>3. n > base => e(n)[h[n]] = f[h[n]]
    BY <1>6, <1>7, <2>2
  <2> QED
    BY <2>1, <2>3
<1> QED
  BY <1>8, <1>9 DEF Solved

LEMMA Halfway ==
  ASSUME NEW n \in Nat
  PROVE  n \div 2 \in Nat /\ (n > 1 => n \div 2 < n /\ n \div 2 >= 1) /\ 2 * (n \div 2) <= n
         /\ n % 2 \in {0, 1} /\ n = 2 * (n \div 2) + (n % 2)
<1>1. n \div 2 \in Nat /\ n % 2 \in 0 .. 1
  OBVIOUS
<1>2. n = 2 * (n \div 2) + (n % 2)
  OBVIOUS
<1> QED
  BY <1>1, <1>2

LEMMA SpanFacts ==
  ASSUME NEW n \in Nat \ {0}
  PROVE  Span[n] \in 1 .. n
<1>1. \E f \in [Nat -> Nat] :
         \A k \in Nat : f[k] = IF k <= 1 THEN 1 ELSE 2 * f[k \div 2]
  <2>1. PICK h, b, E : /\ h = [k \in Nat |-> k \div 2]
                       /\ b = [k \in Nat |-> 1]
                       /\ E = [k \in Nat |-> [v \in Nat |-> 2 * v]]
    OBVIOUS
  <2>2. h \in [Nat -> Nat] /\ b \in [Nat -> Nat] /\ E \in [Nat -> [Nat -> Nat]]
    BY <2>1, Halfway
  <2>3. \A k \in Nat : k > 1 => h[k] < k
    BY <2>1, Halfway
  <2>4. PICK f \in [Nat -> Nat] :
           \A k \in Nat : f[k] = IF k <= 1 THEN b[k] ELSE E[k][f[h[k]]]
    <3>1. Descends(h, 1) /\ Steps(Nat, b, E)
      BY <2>2, <2>3 DEF Descends, Steps
    <3>2. Solved(Nat, h, 1, b, E)
      BY <3>1, Recursion
    <3> QED
      BY <3>2 DEF Solved
  <2>5. \A k \in Nat : f[k] = IF k <= 1 THEN 1 ELSE 2 * f[k \div 2]
    BY <2>1, <2>4, Halfway
  <2> QED
    BY <2>5
<1>2. PICK f \in [Nat -> Nat] :
         \A k \in Nat : f[k] = IF k <= 1 THEN 1 ELSE 2 * f[k \div 2]
  BY <1>1
<1>3. f = [k \in Nat |-> IF k <= 1 THEN 1 ELSE 2 * f[k \div 2]]
  BY <1>2
<1>4. Span = [k \in Nat |-> IF k <= 1 THEN 1 ELSE 2 * Span[k \div 2]]
  BY <1>3, Zenon DEF Span
<1>5. \A k \in Nat : Span[k] = IF k <= 1 THEN 1 ELSE 2 * Span[k \div 2]
  BY <1>4
<1> DEFINE T == {k \in Nat : \A i \in 1 .. k : Span[i] \in 1 .. i}
<1>6. 0 \in T
  OBVIOUS
<1>7. ASSUME NEW k \in Nat, k \in T PROVE k + 1 \in T
  <2>1. Span[k + 1] \in 1 .. k + 1
    <3>1. CASE k + 1 <= 1
      BY <1>5, <3>1
    <3>2. CASE k + 1 > 1
      <4>1. PICK i \in Nat : i = (k + 1) \div 2 /\ i >= 1 /\ i <= k /\ 2 * i <= k + 1
        BY <3>2, Halfway
      <4>2. Span[i] \in 1 .. i
        BY <1>7, <4>1
      <4>3. Span[k + 1] = 2 * Span[i]
        BY <1>5, <3>2, <4>1
      <4> QED
        BY <4>1, <4>2, <4>3
    <3> QED
      BY <3>1, <3>2
  <2>2. \A i \in 1 .. k + 1 : i \in 1 .. k \/ i = k + 1
    OBVIOUS
  <2> QED
    BY <1>7, <2>1, <2>2
<1> HIDE DEF T
<1>8. n \in T
  BY <1>6, <1>7, Induction
<1> QED
  BY <1>8 DEF T

LEMMA ReversedExists ==
  \A s \in Nat : \A i \in Nat :
     Reversed[s][i] = IF s <= 1 THEN 0
                      ELSE (i % 2) * (s \div 2) + Reversed[s \div 2][i \div 2]
<1> DEFINE V == [Nat -> Nat]
<1>1. \A s \in Nat, i \in Nat, v \in V :
         (i % 2) * (s \div 2) + v[i \div 2] \in Nat
  <2>1. ASSUME NEW s \in Nat, NEW i \in Nat, NEW v \in V
        PROVE  (i % 2) * (s \div 2) + v[i \div 2] \in Nat
    <3>1. i % 2 \in {0, 1} /\ s \div 2 \in Nat /\ i \div 2 \in Nat
      BY Halfway
    <3>2. v[i \div 2] \in Nat /\ (i % 2) * (s \div 2) \in Nat
      BY <3>1
    <3> QED
      BY <3>2
  <2> QED
    BY <2>1
<1>2. PICK h, b, E :
         /\ h = [k \in Nat |-> k \div 2]
         /\ b = [k \in Nat |-> [i \in Nat |-> 0]]
         /\ E = [k \in Nat |-> [v \in V |->
                  [i \in Nat |-> (i % 2) * (k \div 2) + v[i \div 2]]]]
  OBVIOUS
<1>3. Descends(h, 1)
  BY <1>2, Halfway DEF Descends
<1>4. Steps(V, b, E)
  <2>1. b \in [Nat -> V]
    BY <1>2
  <2>2. \A k \in Nat : [v \in V |-> [i \in Nat |-> (i % 2) * (k \div 2) + v[i \div 2]]]
                          \in [V -> V]
    BY <1>1
  <2> HIDE DEF V
  <2>3. E \in [Nat -> [V -> V]]
    BY <1>2, <2>2
  <2> QED
    BY <2>1, <2>3 DEF Steps
<1>5. PICK f \in [Nat -> V] : \A n \in Nat : f[n] = IF n <= 1 THEN b[n] ELSE E[n][f[h[n]]]
  <2>1. Solved(V, h, 1, b, E)
    BY <1>3, <1>4, Recursion
  <2> QED
    BY <2>1 DEF Solved
<1> DEFINE Body(g, s) ==
      [i \in Nat |-> IF s <= 1 THEN 0 ELSE (i % 2) * (s \div 2) + g[s \div 2][i \div 2]]
<1>6. ASSUME NEW s \in Nat PROVE f[s] = Body(f, s)
  <2>1. s \div 2 \in Nat
    BY Halfway
  <2>2. CASE s <= 1
    <3>1. f[s] = [i \in Nat |-> 0]
      BY <1>2, <1>5, <2>2
    <3> QED
      BY <2>2, <3>1
  <2>3. CASE ~(s <= 1)
    <3>1. f[s] = E[s][f[s \div 2]] /\ f[s \div 2] \in V
      BY <1>2, <1>5, <2>1, <2>3
    <3>2. f[s] = [i \in Nat |-> (i % 2) * (s \div 2) + f[s \div 2][i \div 2]]
      BY <1>2, <3>1, Zenon
    <3> QED
      BY <2>3, <3>2
  <2> QED
    BY <2>2, <2>3
<1>7. f = [s \in Nat |-> Body(f, s)]
  <2>1. f = [s \in Nat |-> f[s]]
    OBVIOUS
  <2>2. [s \in Nat |-> f[s]] = [s \in Nat |-> Body(f, s)]
    BY <1>6, Zenon
  <2> QED
    BY <2>1, <2>2, Zenon
<1>8. Reversed = [s \in Nat |-> Body(Reversed, s)]
  BY <1>7, Zenon DEF Reversed
<1>9. \A s \in Nat : Reversed[s] = Body(Reversed, s)
  BY <1>8, Zenon
<1> QED
  BY <1>9

LEMMA ReversedFacts ==
  \A s \in Nat : \A i \in Nat :
     /\ Reversed[s][i] \in Nat /\ (s > 0 => Reversed[s][i] < s)
     /\ Reversed[s][0] = 0
<1> DEFINE Good(s) == \A i \in Nat : /\ Reversed[s][i] \in Nat /\ (s > 0 => Reversed[s][i] < s)
                                     /\ Reversed[s][0] = 0
           T == {k \in Nat : \A s \in 0 .. k : Good(s)}
<1>1. ASSUME NEW s \in Nat, s <= 1 PROVE Good(s)
  BY <1>1, ReversedExists
<1>2. 0 \in T
  BY <1>1
<1>3. ASSUME NEW k \in Nat, k \in T PROVE k + 1 \in T
  <2>1. ASSUME k + 1 > 1 PROVE Good(k + 1)
    <3>1. PICK h \in Nat : h = (k + 1) \div 2 /\ h \in 0 .. k /\ h >= 1 /\ 2 * h <= k + 1
      BY <2>1, Halfway
    <3>2. Good(h)
      BY <1>3, <3>1
    <3> DEFINE n == k + 1
    <3>5. n \in Nat /\ ~(n <= 1) /\ h = n \div 2
      BY <2>1, <3>1
    <3> HIDE DEF n, Good, T
    <3>6. \A i \in Nat : Reversed[n][i] = (i % 2) * h + Reversed[h][i \div 2]
      BY <3>5, ReversedExists
    <3>7. \A i \in Nat : Reversed[k + 1][i] = (i % 2) * h + Reversed[h][i \div 2]
      BY <3>6 DEF n
    <3> USE DEF Good
    <3>3. ASSUME NEW i \in Nat
          PROVE  Reversed[k + 1][i] \in Nat /\ Reversed[k + 1][i] < k + 1
      <4>1. Reversed[k + 1][i] = (i % 2) * h + Reversed[h][i \div 2]
        BY <3>7
      <4>2. i \div 2 \in Nat /\ i % 2 \in {0, 1}
        BY Halfway
      <4>3. Reversed[h][i \div 2] \in Nat /\ Reversed[h][i \div 2] < h
        BY <3>1, <3>2, <4>2
      <4>4. (i % 2) * h \in {0, h}
        BY <4>2
      <4> QED
        BY <3>1, <4>1, <4>3, <4>4
    <3>4. Reversed[k + 1][0] = 0
      <4>1. Reversed[k + 1][0] = (0 % 2) * h + Reversed[h][0 \div 2]
        BY <3>7
      <4>2. 0 % 2 = 0 /\ 0 \div 2 = 0 /\ Reversed[h][0] = 0
        BY <3>2
      <4> QED
        BY <4>1, <4>2
    <3> QED
      BY <3>3, <3>4
  <2>2. Good(k + 1)
    BY <1>1, <2>1
  <2>3. \A s \in 0 .. k + 1 : s \in 0 .. k \/ s = k + 1
    OBVIOUS
  <2> HIDE DEF Good
  <2> QED
    BY <1>3, <2>2, <2>3
<1> HIDE DEF T
<1>4. \A k \in Nat : k \in T
  BY <1>2, <1>3, Induction
<1>5. ASSUME NEW s \in Nat PROVE Good(s)
  <2>1. s \in T /\ s \in 0 .. s
    BY <1>4
  <2> HIDE DEF Good
  <2> QED
    BY <2>1 DEF T
<1> QED
  BY <1>5

(* The order of the words of a line, or of the lines of a page. *)
LEMMA WordFacts ==
  ASSUME NEW max \in Nat \ {0}, NEW scale \in Nat
  PROVE  LET words == words_initialize(max, scale)
         IN  /\ \A i \in 0 .. max - 1 :
                   /\ words[i] \in Nat /\ words[i] + scale <= max * scale
                   /\ \E k \in 0 .. max - 1 : words[i] = k * scale
             /\ words[0] = 0
<1> DEFINE words == words_initialize(max, scale)
<1>1. PICK s \in 1 .. max : s = Span[max]
  BY SpanFacts
<1>2. words = [i \in 0 .. max - 1 |-> Reversed[s][i] * scale]
  BY <1>1 DEF words_initialize
<1>3. ASSUME NEW i \in 0 .. max - 1
      PROVE  /\ words[i] \in Nat /\ words[i] + scale <= max * scale
             /\ \E k \in 0 .. max - 1 : words[i] = k * scale
  <2>1. PICK k \in 0 .. max - 1 : k = Reversed[s][i]
    BY ReversedFacts
  <2>2. words[i] = k * scale
    BY <1>2, <2>1
  <2>3. k * scale \in Nat /\ (k + 1) * scale <= max * scale
        /\ (k + 1) * scale = k * scale + scale
    <3>1. \E r \in Nat : max = (k + 1) + r
      <4>1. max - (k + 1) \in Nat /\ max = (k + 1) + (max - (k + 1))
        OBVIOUS
      <4> QED
        BY <4>1
    <3> QED
      BY <3>1
  <2> QED
    BY <2>2, <2>3
<1>4. words[0] = 0
  <2>1. Reversed[s][0] = 0 /\ 0 \in 0 .. max - 1
    BY ReversedFacts
  <2> QED
    BY <1>2, <2>1
<1> QED
  BY <1>3, <1>4

----------------------------------------------------------------------------
(* The chains of pointers. *)
LEMMA CeilingFacts ==
  ASSUME NEW a \in Nat \ {0}, NEW d \in Nat \ {0}
  PROVE  /\ Ceiling(a, d) \in Nat \ {0}
         /\ (Ceiling(a, d) - 1) * d < a /\ a <= Ceiling(a, d) * d
<1>1. PICK q \in Nat : q = Ceiling(a, d)
  BY DEF Ceiling
<1>2. \A x \in Nat : (x \div d) * d <= x /\ x < (x \div d) * d + d
  OBVIOUS
<1>3. q * d <= a + d - 1 /\ a + d - 1 < q * d + d
  BY <1>1, <1>2 DEF Ceiling
<1>4. q # 0
  BY <1>3
<1>5. (q - 1) * d = q * d - d
  OBVIOUS
<1> QED
  BY <1>1, <1>3, <1>4, <1>5

LEMMA CeilingGrows ==
  ASSUME NEW a \in Nat \ {0}, NEW c \in Nat \ {0}, NEW d \in Nat \ {0}, a <= c
  PROVE  Ceiling(a, d) <= Ceiling(c, d) /\ a \div d <= Ceiling(a, d)
<1>1. PICK q \in Nat : q = Ceiling(a, d) /\ (q - 1) * d < a /\ q # 0 /\ a <= q * d
  BY CeilingFacts
<1>2. PICK r \in Nat : r = Ceiling(c, d) /\ c <= r * d
  BY CeilingFacts
<1>3. (q - 1) * d < r * d /\ q - 1 \in Nat
  BY <1>1, <1>2
<1>4. q - 1 < r
  <2>1. r <= q - 1 => r * d <= (q - 1) * d
    BY <1>3, Multiplied
  <2> QED
    BY <1>3, <2>1
<1>5. a \div d \in Nat /\ (a \div d) * d <= q * d
  <2>1. a \div d \in Nat /\ (a \div d) * d <= a
    OBVIOUS
  <2> QED
    BY <1>1, <2>1
<1>6. a \div d <= q
  BY <1>5, Multiplied
<1> QED
  BY <1>1, <1>2, <1>4, <1>6

LEMMA DivideFacts ==
  ASSUME NEW a \in Nat, NEW d \in Nat \ {0}
  PROVE  a \div d \in Nat /\ (a \div d) * d <= a /\ (d <= a => a \div d # 0) /\ a % d \in 0 .. d - 1
<1>1. a \div d \in Nat /\ (a \div d) * d <= a /\ a < (a \div d) * d + d /\ a % d \in 0 .. d - 1
  OBVIOUS
<1>2. a \div d = 0 => a < d
  BY <1>1
<1> QED
  BY <1>1, <1>2

LEMMA ChainMade ==
  ASSUME NEW links, NEW D, \A l \in links : l[1] \in D /\ l[2] \in D,
         \A a \in D : \E l \in links : l[1] = a
  PROVE  /\ DOMAIN ChainOf(links) = D
         /\ \A a \in D : /\ ChainOf(links)[a] \in D
                         /\ \E l \in links : l[1] = a /\ l[2] = ChainOf(links)[a]
<1>1. {l[1] : l \in links} = D
  OBVIOUS
<1>2. ChainOf(links) = [a \in D |-> (CHOOSE l \in links : l[1] = a)[2]]
  BY <1>1, Zenon DEF ChainOf
<1>3. ASSUME NEW a \in D
      PROVE  /\ ChainOf(links)[a] \in D
             /\ \E l \in links : l[1] = a /\ l[2] = ChainOf(links)[a]
  <2>1. PICK l : l = CHOOSE x \in links : x[1] = a
    OBVIOUS
  <2>2. l \in links /\ l[1] = a
    BY <2>1
  <2>3. ChainOf(links)[a] = l[2]
    BY <1>2, <2>1, Zenon
  <2> QED
    BY <2>2, <2>3
<1> QED
  BY <1>2, <1>3

(* What a setup of a latency program is, and which offsets hold a pointer. *)
Laid(s) ==
  /\ s.len \in Nat /\ s.maxlen \in Nat /\ s.line \in Nat /\ s.pagesize \in Nat
  /\ Ptr <= s.line /\ Ptr <= s.pagesize
  /\ 0 < s.len /\ s.len <= s.maxlen
  /\ s.pages \in permutation(Ceiling(s.maxlen, s.pagesize), s.pagesize)

Holds(s, a) == a \in Nat /\ a + Ptr <= s.maxlen + s.pagesize

Closed(c, R) == R \subseteq DOMAIN c /\ \A a \in R : c[a] \in R

(* A walk that starts in R stays there, and all of R is in the buffer. *)
Circle(c, R, s) == Closed(c, R) /\ \A a \in R : Holds(s, a)

LEMMA LaidFacts ==
  ASSUME NEW s, Laid(s)
  PROVE  /\ Ptr \in Nat \ {0} /\ s.line \in Nat \ {0} /\ s.pagesize \in Nat \ {0}
         /\ s.len \in Nat \ {0} /\ s.maxlen \in Nat \ {0}
         /\ npages(s) \in Nat \ {0} /\ npages(s) <= Ceiling(s.maxlen, s.pagesize)
         /\ nlines(s) \in Nat /\ nlines(s) * s.line <= s.pagesize
         /\ npointers(s) \in Nat /\ npointers(s) * s.line <= s.len
         /\ nwords(s) \in Nat \ {0} /\ nwords(s) * Ptr <= s.line
<1>1. /\ Ptr \in Nat \ {0} /\ s.line \in Nat \ {0} /\ s.pagesize \in Nat \ {0}
      /\ s.len \in Nat \ {0} /\ s.maxlen \in Nat \ {0} /\ s.len <= s.maxlen
      /\ Ptr <= s.line
  BY PtrAssumption DEF Laid
<1>2. npages(s) \in Nat \ {0} /\ npages(s) <= Ceiling(s.maxlen, s.pagesize)
  BY <1>1, CeilingFacts, CeilingGrows DEF npages
<1>3. nlines(s) \in Nat /\ nlines(s) * s.line <= s.pagesize
  BY <1>1, DivideFacts DEF nlines
<1>4. npointers(s) \in Nat /\ npointers(s) * s.line <= s.len
  BY <1>1, DivideFacts DEF npointers
<1>5. nwords(s) \in Nat \ {0} /\ nwords(s) * Ptr <= s.line
  BY <1>1, DivideFacts DEF nwords
<1> QED
  BY <1>1, <1>2, <1>3, <1>4, <1>5

LEMMA PageFacts ==
  ASSUME NEW s, Laid(s)
  PROVE  LET n == Ceiling(s.maxlen, s.pagesize)
         IN  /\ \A i \in 0 .. n - 1 :
                   /\ s.pages[i] \in Nat /\ s.pages[i] < s.maxlen
                   /\ \E q \in Nat : s.pages[i] = q * s.pagesize
             /\ \A i, k \in 0 .. n - 1 : s.pages[i] = s.pages[k] => i = k
             /\ \E i \in 0 .. n - 1 : s.pages[i] = 0
<1>1. s.pagesize \in Nat \ {0} /\ s.maxlen \in Nat \ {0}
  BY LaidFacts
<1>2. PICK n \in Nat \ {0} : n = Ceiling(s.maxlen, s.pagesize)
                             /\ (n - 1) * s.pagesize < s.maxlen
  BY <1>1, CeilingFacts
<1>3. PICK f \in Bijection(0 .. n - 1, 0 .. n - 1) :
         s.pages = [i \in 0 .. n - 1 |-> f[i] * s.pagesize]
  BY <1>2 DEF Laid, permutation
<1>4. /\ f \in [0 .. n - 1 -> 0 .. n - 1]
      /\ \A i, k \in 0 .. n - 1 : f[i] = f[k] => i = k
      /\ \A q \in 0 .. n - 1 : \E i \in 0 .. n - 1 : f[i] = q
  BY <1>3 DEF Bijection, Injection, Surjection, IsInjective
<1>5. \A i \in 0 .. n - 1 : f[i] \in 0 .. n - 1 /\ s.pages[i] = f[i] * s.pagesize
  BY <1>3, <1>4
<1>6. ASSUME NEW i \in 0 .. n - 1
      PROVE  /\ s.pages[i] \in Nat /\ s.pages[i] < s.maxlen
             /\ \E q \in Nat : s.pages[i] = q * s.pagesize
  <2>1. PICK q \in Nat : q = f[i] /\ q <= n - 1 /\ s.pages[i] = q * s.pagesize
    BY <1>5
  <2>2. q * s.pagesize <= (n - 1) * s.pagesize /\ q * s.pagesize \in Nat
        /\ (n - 1) * s.pagesize \in Nat
    <3>1. n - 1 \in Nat
      OBVIOUS
    <3> QED
      BY <1>1, <2>1, <3>1, Multiplied
  <2>3. PICK x \in Nat, y \in Nat : /\ x = q * s.pagesize /\ y = (n - 1) * s.pagesize
                                    /\ x <= y /\ y < s.maxlen
    BY <1>2, <2>2
  <2>4. s.pages[i] = x /\ x < s.maxlen
    BY <1>1, <2>1, <2>3
  <2> QED
    BY <2>1, <2>3, <2>4
<1>7. ASSUME NEW i \in 0 .. n - 1, NEW k \in 0 .. n - 1, s.pages[i] = s.pages[k]
      PROVE  i = k
  <2>1. PICK x \in Nat, y \in Nat : x = f[i] /\ y = f[k]
                                    /\ x * s.pagesize = y * s.pagesize
    BY <1>5, <1>7
  <2>2. x = y
    <3>1. PICK c \in Nat \ {0} : c = s.pagesize
      BY <1>1
    <3>2. PICK z \in Nat : z = x * c
      OBVIOUS
    <3>3. x * c <= y * c /\ y * c <= x * c
      BY <2>1, <3>1, <3>2
    <3>4. x <= y /\ y <= x
      BY <3>3, Multiplied
    <3> QED
      BY <3>4
  <2> QED
    BY <1>4, <2>1, <2>2
<1>8. \E i \in 0 .. n - 1 : s.pages[i] = 0
  <2>1. PICK i \in 0 .. n - 1 : f[i] = 0
    <3>1. 0 \in 0 .. n - 1
      OBVIOUS
    <3> QED
      BY <1>4, <3>1
  <2>2. s.pages[i] = 0 * s.pagesize
    BY <1>5, <2>1
  <2> QED
    BY <1>1, <2>2
<1> QED
  BY <1>2, <1>6, <1>7, <1>8

LEMMA Modulo ==
  ASSUME NEW n \in Nat \ {0}, NEW q \in Nat, NEW r \in Nat, r < n
  PROVE  (q * n + r) % n = r /\ (q * n + r) \div n = q
OBVIOUS

LEMMA Wrapped ==
  ASSUME NEW n \in Nat \ {0}, NEW i \in Nat, NEW c \in 0 .. n - 1
  PROVE  \E k \in 0 .. n - 1 : (i + k) % n = c
<1>1. PICK q \in Nat, r \in 0 .. n - 1 : i = q * n + r
  <2>1. i \div n \in Nat /\ i % n \in 0 .. n - 1 /\ i = (i \div n) * n + (i % n)
    OBVIOUS
  <2> QED
    BY <2>1
<1>2. CASE c >= r
  <2>1. i + (c - r) = q * n + c /\ c - r \in 0 .. n - 1
    BY <1>1, <1>2
  <2>2. (q * n + c) % n = c
    BY Modulo
  <2> QED
    BY <2>1, <2>2
<1>3. CASE c < r
  <2>1. i + (c + n - r) = (q + 1) * n + c /\ c + n - r \in 0 .. n - 1
    <3>1. (q + 1) * n = q * n + n
      OBVIOUS
    <3> QED
      BY <1>1, <1>3, <3>1
  <2>2. ((q + 1) * n + c) % n = c
    BY Modulo
  <2> QED
    BY <2>1, <2>2
<1> QED
  BY <1>1, <1>2, <1>3

LEMMA PlaceHolds ==
  ASSUME NEW s, Laid(s), NEW i \in 0 .. npages(s) - 1, NEW off \in Nat,
         off + Ptr <= s.pagesize
  PROVE  Holds(s, s.pages[i] + off)
<1>1. i \in 0 .. Ceiling(s.maxlen, s.pagesize) - 1
  BY LaidFacts DEF Laid, Ceiling
<1>2. s.pages[i] \in Nat /\ s.pages[i] < s.maxlen
  BY <1>1, PageFacts
<1> QED
  BY <1>2, PtrAssumption DEF Holds, Laid

LEMMA StrideCircle ==
  ASSUME NEW s, Laid(s)
  PROVE  \E R : Circle(stride_initialize(s), R, s) /\ 0 \in R /\ DOMAIN stride_initialize(s) = R
<1> DEFINE n == Ceiling(s.len, s.line)
           places == {k * s.line : k \in 0 .. n - 1}
           links == {<<a, IF a + s.line \in places THEN a + s.line ELSE 0>> : a \in places}
<1>1. stride_initialize(s) = ChainOf(links)
  BY DEF stride_initialize
<1>2. s.line \in Nat \ {0} /\ s.len \in Nat \ {0} /\ s.len <= s.maxlen /\ Ptr <= s.pagesize
      /\ Ptr \in Nat /\ s.maxlen \in Nat /\ s.pagesize \in Nat
  BY LaidFacts DEF Laid
<1>3. n \in Nat \ {0} /\ (n - 1) * s.line < s.len
  BY <1>2, CeilingFacts
<1> HIDE DEF n
<1>4. 0 \in places
  <2>1. 0 = 0 * s.line /\ 0 \in 0 .. n - 1
    BY <1>2, <1>3
  <2> QED
    BY <2>1
<1>5. ASSUME NEW a \in places PROVE Holds(s, a)
  <2>1. PICK k \in 0 .. n - 1 : a = k * s.line
    OBVIOUS
  <2>2. k * s.line <= (n - 1) * s.line /\ k * s.line \in Nat /\ (n - 1) * s.line \in Nat
    <3>1. n - 1 \in Nat /\ k \in Nat /\ k <= n - 1
      BY <1>3
    <3> QED
      BY <1>2, <3>1, Multiplied
  <2>3. a \in Nat /\ a < s.len
    BY <1>2, <1>3, <2>1, <2>2
  <2> QED
    BY <1>2, <2>3 DEF Holds
<1> HIDE DEF places
<1>6. \A l \in links : l[1] \in places /\ l[2] \in places
  BY <1>4
<1>7. ASSUME NEW a \in places PROVE \E l \in links : l[1] = a
  <2>1. <<a, IF a + s.line \in places THEN a + s.line ELSE 0>> \in links
    OBVIOUS
  <2> HIDE DEF links
  <2> QED
    BY <2>1
<1> HIDE DEF links
<1>8. DOMAIN ChainOf(links) = places /\ \A a \in places : ChainOf(links)[a] \in places
  BY ZenonT(40), <1>6, <1>7, ChainMade
<1> QED
  BY <1>1, <1>4, <1>5, <1>8 DEF Circle, Closed

(* The first word of each line of the pages in use. *)
LinePlace(s, i, k) == s.pages[i] + words_initialize(nlines(s), s.line)[k]
Lined(s) == (0 .. npages(s) - 1) \X (0 .. nlines(s) - 1)
LinePlaces(s) == {LinePlace(s, x[1], x[2]) : x \in Lined(s)}

LEMMA LinePlaceHolds ==
  ASSUME NEW s, Laid(s), nlines(s) > 0
  PROVE  /\ \A a \in LinePlaces(s) : Holds(s, a)
         /\ \A i \in 0 .. npages(s) - 1, k \in 0 .. nlines(s) - 1 :
               LinePlace(s, i, k) \in LinePlaces(s)
         /\ LinePlace(s, 0, 0) = s.pages[0] /\ s.pages[0] \in LinePlaces(s)
<1> DEFINE words == words_initialize(nlines(s), s.line)
<1>1. /\ nlines(s) \in Nat \ {0} /\ s.line \in Nat /\ Ptr \in Nat /\ Ptr <= s.line
      /\ nlines(s) * s.line <= s.pagesize /\ npages(s) \in Nat \ {0} /\ s.pagesize \in Nat
  BY LaidFacts DEF Laid
<1>2. /\ words[0] = 0
      /\ \A k \in 0 .. nlines(s) - 1 : words[k] \in Nat
                                       /\ words[k] + s.line <= nlines(s) * s.line
  BY <1>1, WordFacts
<1>3. ASSUME NEW i \in 0 .. npages(s) - 1, NEW k \in 0 .. nlines(s) - 1
      PROVE  Holds(s, LinePlace(s, i, k)) /\ LinePlace(s, i, k) \in LinePlaces(s)
  <2>1. words[k] \in Nat /\ words[k] + Ptr <= s.pagesize
    <3>1. nlines(s) * s.line \in Nat
      BY <1>1
    <3> QED
      BY <1>1, <1>2, <3>1
  <2>2. <<i, k>> \in Lined(s) /\ <<i, k>>[1] = i /\ <<i, k>>[2] = k
    BY DEF Lined
  <2>3. LinePlace(s, i, k) \in LinePlaces(s)
    BY <2>2, Zenon DEF LinePlaces
  <2>4. Holds(s, s.pages[i] + words[k])
    BY <2>1, PlaceHolds
  <2> QED
    BY <2>3, <2>4 DEF LinePlace
<1>4. \A a \in LinePlaces(s) : Holds(s, a)
  BY <1>3 DEF LinePlaces, Lined
<1>5. 0 \in 0 .. npages(s) - 1 /\ 0 \in 0 .. nlines(s) - 1
  BY <1>1
<1>6. s.pages[0] \in Nat
  <2>1. 0 \in 0 .. Ceiling(s.maxlen, s.pagesize) - 1
    BY <1>5, LaidFacts DEF Laid, Ceiling
  <2> QED
    BY <2>1, PageFacts
<1>7. LinePlace(s, 0, 0) = s.pages[0]
  BY <1>2, <1>6 DEF LinePlace
<1> QED
  BY <1>3, <1>4, <1>5, <1>7

LEMMA ThrashPagesCircle ==
  ASSUME NEW s, Laid(s), nlines(s) > 0
  PROVE  Circle(thrashPages(s), LinePlaces(s), s) /\ DOMAIN thrashPages(s) = LinePlaces(s)
<1> DEFINE last == npages(s) - 1
           words == words_initialize(nlines(s), s.line)
           Place(i, k) == s.pages[i] + words[(i + k) % nlines(s)]
           Next2(i, k) == IF i < last THEN Place(i + 1, k) ELSE Place(0, k + 1)
           links == {<<Place(x[1], x[2]), Next2(x[1], x[2])>> :
                        x \in (0 .. last) \X (0 .. nlines(s) - 1)}
<1>1. thrashPages(s) = ChainOf(links)
  BY DEF thrashPages
<1>2. nlines(s) \in Nat \ {0} /\ npages(s) \in Nat \ {0} /\ last \in Nat
  BY LaidFacts
<1>3. \A i \in 0 .. last, k \in Nat : Place(i, k) \in LinePlaces(s)
  <2>1. ASSUME NEW i \in 0 .. last, NEW k \in Nat PROVE Place(i, k) \in LinePlaces(s)
    <3>1. (i + k) % nlines(s) \in 0 .. nlines(s) - 1
      <4>1. i + k \in Nat
        BY <1>2
      <4> QED
        BY <1>2, <4>1, DivideFacts
    <3>2. Place(i, k) = LinePlace(s, i, (i + k) % nlines(s))
      BY DEF LinePlace
    <3> QED
      BY <3>1, <3>2, LinePlaceHolds
  <2> QED
    BY <2>1
<1>4. ASSUME NEW i \in 0 .. last, NEW c \in 0 .. nlines(s) - 1
      PROVE  \E k \in 0 .. nlines(s) - 1 : Place(i, k) = LinePlace(s, i, c)
  <2>1. PICK k \in 0 .. nlines(s) - 1 : (i + k) % nlines(s) = c
    <3>1. i \in Nat /\ nlines(s) \in Nat \ {0}
      BY <1>2
    <3> QED
      BY <3>1, Wrapped
  <2> QED
    BY <2>1 DEF LinePlace
<1>5. ASSUME NEW i \in 0 .. last, NEW k \in 0 .. nlines(s) - 1
      PROVE  Place(i, k) \in LinePlaces(s) /\ Next2(i, k) \in LinePlaces(s)
  <2>1. i < last => i + 1 \in 0 .. last
    BY <1>2
  <2>2. 0 \in 0 .. last /\ k \in Nat /\ k + 1 \in Nat
    BY <1>2
  <2> HIDE DEF Place
  <2> QED
    BY <1>3, <2>1, <2>2
<1>6. \A l \in links : l[1] \in LinePlaces(s) /\ l[2] \in LinePlaces(s)
  <2> HIDE DEF Place, Next2
  <2> QED
    BY <1>5
<1>7. ASSUME NEW a \in LinePlaces(s) PROVE \E l \in links : l[1] = a
  <2>1. PICK x \in Lined(s) : a = LinePlace(s, x[1], x[2])
    BY DEF LinePlaces
  <2>2. x[1] \in 0 .. last /\ x[2] \in 0 .. nlines(s) - 1
    BY <2>1 DEF Lined
  <2>3. PICK k \in 0 .. nlines(s) - 1 : Place(x[1], k) = a
    BY <1>4, <2>1, <2>2
  <2>4. <<x[1], k>> \in (0 .. last) \X (0 .. nlines(s) - 1)
    BY <2>2
  <2>5. <<Place(x[1], k), Next2(x[1], k)>> \in links
    <3> HIDE DEF Place, Next2
    <3> QED
      BY <2>4
  <2> QED
    BY <2>3, <2>5
<1> HIDE DEF links
<1>8. DOMAIN ChainOf(links) = LinePlaces(s)
      /\ \A a \in LinePlaces(s) : ChainOf(links)[a] \in LinePlaces(s)
  BY <1>6, <1>7, ChainMade
<1> QED
  BY <1>1, <1>8, LinePlaceHolds DEF Circle, Closed

LEMMA ThrashWordsCircle ==
  ASSUME NEW s, Laid(s), s.line <= s.len
  PROVE  \E R : Circle(thrashWords(s), R, s) /\ 0 \in R /\ DOMAIN thrashWords(s) = R
<1> DEFINE n == npointers(s)
           words == words_initialize(n, s.line)
           Stored(i) == <<words[i], IF i = n - 1 THEN 0 ELSE words[i + 1]>>
           Lasting == {k \in 0 .. n - 1 : \A l \in k + 1 .. n - 1 : words[l] # words[k]}
           links == {Stored(i) : i \in Lasting}
           R == {words[i] : i \in 0 .. n - 1}
<1>1. thrashWords(s) = ChainOf(links)
  BY DEF thrashWords
<1>2. /\ n \in Nat \ {0} /\ n * s.line <= s.len /\ s.line \in Nat \ {0}
      /\ Ptr \in Nat /\ Ptr <= s.pagesize /\ s.len <= s.maxlen
      /\ s.len \in Nat /\ s.maxlen \in Nat /\ s.pagesize \in Nat
  <2>1. n # 0
    BY LaidFacts, DivideFacts DEF npointers
  <2> QED
    BY <2>1, LaidFacts DEF Laid
<1>3. /\ words[0] = 0
      /\ \A i \in 0 .. n - 1 : words[i] \in Nat /\ words[i] + s.line <= n * s.line
  <2> HIDE DEF n
  <2> QED
    BY <1>2, WordFacts
<1>4. ASSUME NEW a \in R PROVE Holds(s, a)
  <2>1. a \in Nat /\ a + s.line <= n * s.line /\ n * s.line \in Nat
    BY <1>2, <1>3
  <2> HIDE DEF n, R
  <2> QED
    BY <1>2, <2>1 DEF Holds
<1> HIDE DEF n, words
<1>5. 0 \in R
  <2>1. 0 \in 0 .. n - 1
    BY <1>2
  <2> QED
    BY <1>3, <2>1
<1>6. \A l \in links : l[1] \in R /\ l[2] \in R
  <2>1. ASSUME NEW i \in 0 .. n - 1 PROVE words[i] \in R /\ (i # n - 1 => words[i + 1] \in R)
    <3>1. i # n - 1 => i + 1 \in 0 .. n - 1
      BY <1>2
    <3> QED
      BY <3>1
  <2> HIDE DEF R
  <2> QED
    BY <1>5, <2>1
<1>7. ASSUME NEW a \in R PROVE \E l \in links : l[1] = a
  <2>1. PICK i \in 0 .. n - 1 : words[i] = a
    OBVIOUS
  <2> DEFINE T == {t \in Nat : t <= n /\ words[n - t] = a}
  <2>2. PICK t \in 1 .. n + 1 : /\ t <= n => t \in T
                                /\ \A x \in 1 .. t - 1 : x \notin T
    BY <1>2, FirstPlace
  <2>3. t <= n
    <3>1. n - i \in 1 .. n /\ n - (n - i) = i
      BY <1>2
    <3>2. n - i \in T
      BY <1>2, <2>1, <3>1
    <3> QED
      BY <1>2, <2>2, <3>1, <3>2
  <2>4. n - t \in 0 .. n - 1 /\ words[n - t] = a
    BY <1>2, <2>2, <2>3
  <2>5. ASSUME NEW l \in n - t + 1 .. n - 1 PROVE words[l] # a
    <3>1. n - l \in 1 .. t - 1 /\ n - l <= n /\ n - (n - l) = l
      BY <1>2, <2>2, <2>3
    <3>2. n - l \notin T /\ n - l \in Nat
      BY <2>2, <3>1
    <3> QED
      BY <3>1, <3>2
  <2> HIDE DEF T
  <2>6. n - t \in Lasting
    BY <2>4, <2>5
  <2>7. Stored(n - t) \in links /\ Stored(n - t)[1] = words[n - t]
    <3> HIDE DEF Lasting
    <3> QED
      BY <2>6
  <2> QED
    BY <2>4, <2>7
<1> HIDE DEF links, R
<1>8. DOMAIN ChainOf(links) = R /\ \A a \in R : ChainOf(links)[a] \in R
  BY ZenonT(40), <1>6, <1>7, ChainMade
<1> QED
  BY <1>1, <1>4, <1>5, <1>8 DEF Circle, Closed

LEMMA LineCircle ==
  ASSUME NEW s, Laid(s), nlines(s) > 0
  PROVE  Circle(line_initialize(s), LinePlaces(s), s)
         /\ DOMAIN line_initialize(s) = LinePlaces(s)
<1> DEFINE last == npages(s) - 1
           words == words_initialize(nlines(s), s.line)
           Place(i, k) == s.pages[i] + words[k]
           Next2(i, k) == IF k < nlines(s) - 1 THEN Place(i, k + 1)
                          ELSE Place(IF i < last THEN i + 1 ELSE 0, 0)
           links == {<<Place(x[1], x[2]), Next2(x[1], x[2])>> :
                        x \in (0 .. last) \X (0 .. nlines(s) - 1)}
<1>1. line_initialize(s) = ChainOf(links)
  BY DEF line_initialize
<1>2. nlines(s) \in Nat \ {0} /\ npages(s) \in Nat \ {0}
  BY LaidFacts
<1>3. \A i \in 0 .. last, k \in 0 .. nlines(s) - 1 :
         Place(i, k) = LinePlace(s, i, k) /\ Place(i, k) \in LinePlaces(s)
  BY LinePlaceHolds DEF LinePlace
<1> HIDE DEF Place
<1>4. ASSUME NEW i \in 0 .. last, NEW k \in 0 .. nlines(s) - 1
      PROVE  Place(i, k) \in LinePlaces(s) /\ Next2(i, k) \in LinePlaces(s)
  <2>1. /\ i < last => i + 1 \in 0 .. last
        /\ k < nlines(s) - 1 => k + 1 \in 0 .. nlines(s) - 1
        /\ 0 \in 0 .. last /\ 0 \in 0 .. nlines(s) - 1
    BY <1>2
  <2> QED
    BY <1>3, <2>1
<1>5. \A l \in links : l[1] \in LinePlaces(s) /\ l[2] \in LinePlaces(s)
  <2> HIDE DEF Next2
  <2> QED
    BY <1>4
<1>6. ASSUME NEW a \in LinePlaces(s) PROVE \E l \in links : l[1] = a
  <2>1. PICK i \in 0 .. last, k \in 0 .. nlines(s) - 1 : a = Place(i, k)
    BY <1>3 DEF LinePlaces, Lined
  <2>2. <<Place(i, k), Next2(i, k)>> \in links
    <3>1. <<i, k>> \in (0 .. last) \X (0 .. nlines(s) - 1)
          /\ <<i, k>>[1] = i /\ <<i, k>>[2] = k
      OBVIOUS
    <3> HIDE DEF Next2
    <3> QED
      BY <3>1
  <2> QED
    BY <2>1, <2>2
<1> HIDE DEF links
<1>7. DOMAIN ChainOf(links) = LinePlaces(s)
      /\ \A a \in LinePlaces(s) : ChainOf(links)[a] \in LinePlaces(s)
  BY <1>5, <1>6, ChainMade
<1> QED
  BY <1>1, <1>7, LinePlaceHolds DEF Circle, Closed

LEMMA TlbCircle ==
  ASSUME NEW s, Laid(s), s.pagesize <= s.len
  PROVE  \E R : /\ Circle(tlb_initialize(s), R, s) /\ s.pages[0] \in R
                /\ DOMAIN tlb_initialize(s) = R
<1> DEFINE n == s.len \div s.pagesize
           w == s.pagesize \div Ptr
           lines == words_initialize(w, Ptr)
           Place(i) == s.pages[i] + lines[i % w]
           links == {<<Place(i), IF i < n - 1 THEN Place(i + 1) ELSE Place(0)>> :
                        i \in 0 .. n - 1}
           R == {Place(i) : i \in 0 .. n - 1}
<1>1. tlb_initialize(s) = ChainOf(links)
  BY DEF tlb_initialize
<1>2. /\ n \in Nat \ {0} /\ n <= npages(s) /\ npages(s) \in Nat
      /\ w \in Nat \ {0} /\ w * Ptr <= s.pagesize /\ Ptr \in Nat /\ s.pagesize \in Nat
  <2>1. n \in Nat \ {0} /\ w \in Nat \ {0} /\ w * Ptr <= s.pagesize
    BY LaidFacts, DivideFacts DEF Laid
  <2>2. n <= npages(s)
    BY LaidFacts, CeilingGrows DEF npages
  <2> QED
    BY <2>1, <2>2, LaidFacts
<1> HIDE DEF n, w
<1>3. /\ lines[0] = 0
      /\ \A i \in 0 .. w - 1 : lines[i] \in Nat /\ lines[i] + Ptr <= w * Ptr
  BY <1>2, WordFacts
<1> HIDE DEF lines
<1>4. ASSUME NEW i \in 0 .. n - 1 PROVE Holds(s, Place(i))
  <2>1. i \in 0 .. npages(s) - 1 /\ i \in Nat
    BY <1>2
  <2>2. i % w \in 0 .. w - 1
    BY <1>2, <2>1, DivideFacts
  <2>3. lines[i % w] \in Nat /\ lines[i % w] + Ptr <= s.pagesize
    <3>1. w * Ptr \in Nat
      BY <1>2
    <3> QED
      BY <1>2, <1>3, <2>2, <3>1
  <2> QED
    BY <2>1, <2>3, PlaceHolds
<1>5. s.pages[0] \in R
  <2>1. 0 % w = 0 /\ 0 \in 0 .. n - 1
    BY <1>2
  <2>2. s.pages[0] \in Nat
    <3>1. 0 \in 0 .. Ceiling(s.maxlen, s.pagesize) - 1
      BY <1>2, <2>1, LaidFacts DEF Laid, Ceiling
    <3> QED
      BY <3>1, PageFacts
  <2>3. Place(0) = s.pages[0]
    BY <1>3, <2>1, <2>2
  <2> HIDE DEF Place
  <2> QED
    BY <2>1, <2>3
<1> HIDE DEF Place
<1>6. \A l \in links : l[1] \in R /\ l[2] \in R
  <2>1. ASSUME NEW i \in 0 .. n - 1
        PROVE  Place(i) \in R /\ (IF i < n - 1 THEN Place(i + 1) ELSE Place(0)) \in R
    <3>1. 0 \in 0 .. n - 1 /\ (i < n - 1 => i + 1 \in 0 .. n - 1)
      BY <1>2
    <3> QED
      BY <3>1
  <2> HIDE DEF R
  <2> QED
    BY <2>1
<1>7. ASSUME NEW a \in R PROVE \E l \in links : l[1] = a
  <2>1. PICK i \in 0 .. n - 1 : a = Place(i)
    OBVIOUS
  <2>2. <<Place(i), IF i < n - 1 THEN Place(i + 1) ELSE Place(0)>> \in links
    OBVIOUS
  <2> HIDE DEF links
  <2> QED
    BY <2>1, <2>2
<1>8. \A a \in R : Holds(s, a)
  BY <1>4
<1> HIDE DEF links, R
<1>9. DOMAIN ChainOf(links) = R /\ \A a \in R : ChainOf(links)[a] \in R
  BY ZenonT(40), <1>6, <1>7, ChainMade
<1> QED
  BY <1>1, <1>5, <1>8, <1>9 DEF Circle, Closed

LEMMA Patched ==
  ASSUME NEW links, NEW c, NEW R, NEW s, Circle(c, R, s), DOMAIN c = R,
         \A l \in links : l[1] \in R /\ l[2] \in R
  PROVE  Circle(Overwritten(c, ChainOf(links)), R, s) /\ DOMAIN Overwritten(c, ChainOf(links)) = R
<1> DEFINE S == {l[1] : l \in links}
           cut == ChainOf(links)
           d == Overwritten(c, cut)
<1>1. cut = [a \in S |-> (CHOOSE l \in links : l[1] = a)[2]]
  BY Zenon DEF ChainOf
<1>2. DOMAIN cut = S /\ S \subseteq R
  BY <1>1
<1>3. \A a \in S : cut[a] \in R
  <2>1. ASSUME NEW a \in S PROVE cut[a] \in R
    <3>1. PICK l : l = CHOOSE x \in links : x[1] = a
      OBVIOUS
    <3>2. l \in links
      BY <3>1
    <3>3. cut[a] = l[2]
      BY <1>1, <3>1, Zenon
    <3> QED
      BY <3>2, <3>3
  <2> QED
    BY <2>1
<1> HIDE DEF cut, S
<1>4. d = [a \in S \cup R |-> IF a \in S THEN cut[a] ELSE c[a]]
  BY <1>2 DEF Overwritten
<1>5. DOMAIN d = R /\ \A a \in R : d[a] = IF a \in S THEN cut[a] ELSE c[a]
  BY <1>2, <1>4
<1> HIDE DEF d
<1>6. Circle(d, R, s)
  BY <1>3, <1>5 DEF Circle, Closed
<1> QED
  BY <1>5, <1>6 DEF d, cut

LEMMA LineTested ==
  ASSUME NEW s, Laid(s), nlines(s) > 0, NEW c, Circle(c, LinePlaces(s), s),
         DOMAIN c = LinePlaces(s), NEW l \in Nat \ {0}, l <= s.pagesize
  PROVE  /\ Circle(narrowed(s, c, l), LinePlaces(s), s)
         /\ DOMAIN narrowed(s, c, l) = LinePlaces(s)
         /\ Circle(fixedUp(s, c, l), LinePlaces(s), s)
         /\ DOMAIN fixedUp(s, c, l) = LinePlaces(s)
<1> DEFINE n == s.pagesize \div l
           last == npages(s) - 1
           words == words_initialize(nlines(s), s.line)
           Onward(i) == IF i < last THEN i + 1 ELSE 0
           cut == {<<s.pages[i] + words[n - 1], s.pages[Onward(i)] + words[0]>> :
                      i \in 0 .. last}
           path == {<<s.pages[i] + words[n - 1], s.pages[i] + words[n]>> : i \in 0 .. last}
<1>1. n \in Nat \ {0} /\ nlines(s) \in Nat \ {0} /\ npages(s) \in Nat \ {0}
  <2>1. s.pagesize \in Nat /\ nlines(s) \in Nat \ {0} /\ npages(s) \in Nat \ {0}
    BY LaidFacts
  <2>2. n \in Nat /\ n # 0
    BY <2>1, DivideFacts
  <2> QED
    BY <2>1, <2>2
<1>2. narrowed(s, c, l) = IF n < nlines(s) THEN Overwritten(c, ChainOf(cut)) ELSE c
  BY DEF narrowed
<1>3. fixedUp(s, c, l) = IF n < nlines(s) THEN Overwritten(c, ChainOf(path)) ELSE c
  BY DEF fixedUp
<1>4. \A i \in 0 .. last, k \in 0 .. nlines(s) - 1 : s.pages[i] + words[k] \in LinePlaces(s)
  BY LinePlaceHolds DEF LinePlace
<1> HIDE DEF n, words
<1>5. ASSUME n < nlines(s)
      PROVE  /\ \A x \in cut : x[1] \in LinePlaces(s) /\ x[2] \in LinePlaces(s)
             /\ \A x \in path : x[1] \in LinePlaces(s) /\ x[2] \in LinePlaces(s)
  <2>1. n - 1 \in 0 .. nlines(s) - 1 /\ n \in 0 .. nlines(s) - 1 /\ 0 \in 0 .. nlines(s) - 1
    BY <1>1, <1>5
  <2>2. \A i \in 0 .. last : Onward(i) \in 0 .. last
    BY <1>1
  <2> HIDE DEF last, Onward
  <2> QED
    BY <1>4, <2>1, <2>2
<1> HIDE DEF cut, path
<1>6. n < nlines(s) =>
        /\ Circle(Overwritten(c, ChainOf(cut)), LinePlaces(s), s)
        /\ DOMAIN Overwritten(c, ChainOf(cut)) = LinePlaces(s)
        /\ Circle(Overwritten(c, ChainOf(path)), LinePlaces(s), s)
        /\ DOMAIN Overwritten(c, ChainOf(path)) = LinePlaces(s)
  BY <1>5, Patched
<1> QED
  BY <1>2, <1>3, <1>6

(* What mem_initialize links, page by page. *)
MemPlace(s, i, k, w) ==
  s.pages[i] + words_initialize(nlines(s), s.line)[k] + words_initialize(nwords(s), Ptr)[w]
InPage(s, i, h, a) == \E k \in 0 .. h, w \in 0 .. nwords(s) - 1 : a = MemPlace(s, i, k, w)
MemPlaces(s) ==
  {a \in Nat : \E i \in 0 .. npages(s) - 1 : InPage(s, i, linked(s, i), a)}

Many(s) == Laid(s) /\ npointers(s) > 1 /\ nlines(s) > 1

LEMMA LinkedFacts ==
  ASSUME NEW s, Many(s), NEW i \in Nat
  PROVE  /\ linked(s, i) \in 0 .. nlines(s) - 1
         /\ \A k \in Nat : i <= k => linked(s, k) <= linked(s, i)
<1>1. PICK n \in Nat \ {0}, q \in Nat \ {0} : n = nlines(s) - 1 /\ q = npointers(s) - 1
  BY LaidFacts DEF Many
<1>2. \A k \in Nat : linked(s, k) = Least(n, q - Least(k * n, q))
  BY <1>1 DEF linked
<1>3. ASSUME NEW k \in Nat, i <= k PROVE i * n <= k * n /\ i * n \in Nat /\ k * n \in Nat
  BY <1>3, Multiplied
<1>4. i * n \in Nat
  OBVIOUS
<1>5. linked(s, i) \in 0 .. n
  BY <1>2, <1>4 DEF Least
<1>6. ASSUME NEW k \in Nat, i <= k PROVE linked(s, k) <= linked(s, i)
  BY <1>2, <1>3, <1>6 DEF Least
<1> QED
  BY <1>1, <1>5, <1>6

LEMMA MemPlaceFacts ==
  ASSUME NEW s, Many(s), NEW i \in 0 .. npages(s) - 1, NEW k \in 0 .. nlines(s) - 1,
         NEW w \in 0 .. nwords(s) - 1
  PROVE  LET a == MemPlace(s, i, k, w)
         IN  /\ Holds(s, a)
             /\ a % s.pagesize \in Nat
             /\ a - (a % s.pagesize) = s.pages[i] /\ s.pages[i] \in Nat
             /\ \A l \in 0 .. npages(s) - 1 : s.pages[l] + (a % s.pagesize) = MemPlace(s, l, k, w)
<1> DEFINE lines == words_initialize(nlines(s), s.line)
           words == words_initialize(nwords(s), Ptr)
           off == lines[k] + words[w]
<1>1. /\ nlines(s) \in Nat \ {0} /\ nlines(s) * s.line <= s.pagesize
      /\ nwords(s) \in Nat \ {0} /\ nwords(s) * Ptr <= s.line
      /\ s.line \in Nat \ {0} /\ Ptr \in Nat \ {0} /\ s.pagesize \in Nat \ {0}
      /\ npages(s) \in Nat \ {0} /\ npages(s) <= Ceiling(s.maxlen, s.pagesize)
  BY LaidFacts DEF Many
<1>2. lines[k] \in Nat /\ lines[k] + s.line <= nlines(s) * s.line
  BY <1>1, WordFacts
<1>3. words[w] \in Nat /\ words[w] + Ptr <= nwords(s) * Ptr
  BY <1>1, WordFacts
<1>4. off \in Nat /\ off + Ptr <= s.pagesize
  <2>1. nlines(s) * s.line \in Nat /\ nwords(s) * Ptr \in Nat
    BY <1>1
  <2> HIDE DEF lines, words
  <2> QED
    BY <1>1, <1>2, <1>3, <2>1
<1>5. \A l \in 0 .. npages(s) - 1 : /\ s.pages[l] \in Nat
                                    /\ \E q \in Nat : s.pages[l] = q * s.pagesize
  <2>1. \A l \in 0 .. npages(s) - 1 : l \in 0 .. Ceiling(s.maxlen, s.pagesize) - 1
    BY <1>1 DEF Ceiling, Many, Laid
  <2> QED
    BY <2>1, PageFacts DEF Many
<1>6. \A l \in 0 .. npages(s) - 1 : MemPlace(s, l, k, w) = s.pages[l] + off
  <2>1. \A l \in 0 .. npages(s) - 1 : MemPlace(s, l, k, w) = s.pages[l] + lines[k] + words[w]
    BY DEF MemPlace
  <2> HIDE DEF lines, words
  <2> QED
    BY <1>2, <1>3, <1>5, <2>1
<1> HIDE DEF off
<1>7. MemPlace(s, i, k, w) % s.pagesize = off
  <2>1. PICK q \in Nat : s.pages[i] = q * s.pagesize
    BY <1>5
  <2>2. (q * s.pagesize + off) % s.pagesize = off
    <3>1. off < s.pagesize
      BY <1>1, <1>4
    <3> QED
      BY <1>1, <1>4, <3>1, Modulo
  <2> QED
    BY <1>6, <2>1, <2>2
<1>8. Holds(s, MemPlace(s, i, k, w))
  BY <1>4, <1>6, PlaceHolds DEF Many
<1> QED
  BY <1>4, <1>5, <1>6, <1>7, <1>8

(* A pointer leads to the same page, or to the first line of another one. *)
Target(s, i, a) ==
  InPage(s, i, linked(s, i), a) \/ \E l \in 0 .. npages(s) - 1 : InPage(s, l, 0, a)

LEMMA InPageFacts ==
  ASSUME NEW s, Many(s), NEW i \in 0 .. npages(s) - 1
  PROVE  /\ \A a : InPage(s, i, linked(s, i), a) => a \in MemPlaces(s) /\ Holds(s, a)
         /\ \A a : InPage(s, i, 0, a) => InPage(s, i, linked(s, i), a)
         /\ InPage(s, i, 0, s.pages[i])
<1>1. linked(s, i) \in 0 .. nlines(s) - 1 /\ nlines(s) \in Nat \ {0} /\ nwords(s) \in Nat \ {0}
  BY LinkedFacts, LaidFacts DEF Many
<1>2. ASSUME NEW a, InPage(s, i, linked(s, i), a) PROVE a \in MemPlaces(s) /\ Holds(s, a)
  <2>1. PICK k \in 0 .. linked(s, i), w \in 0 .. nwords(s) - 1 : a = MemPlace(s, i, k, w)
    BY <1>2 DEF InPage
  <2>2. k \in 0 .. nlines(s) - 1
    BY <1>1
  <2>3. Holds(s, a)
    BY <2>1, <2>2, MemPlaceFacts
  <2> QED
    BY <1>2, <2>3 DEF MemPlaces, Holds
<1>3. \A a : InPage(s, i, 0, a) => InPage(s, i, linked(s, i), a)
  BY <1>1 DEF InPage
<1>4. InPage(s, i, 0, s.pages[i])
  <2>1. 0 \in 0 .. nwords(s) - 1 /\ 0 \in 0 .. nlines(s) - 1 /\ 0 \in 0 .. 0
    BY <1>1
  <2>2. words_initialize(nlines(s), s.line)[0] = 0 /\ words_initialize(nwords(s), Ptr)[0] = 0
    BY <1>1, LaidFacts, WordFacts DEF Many
  <2>3. s.pages[i] \in Nat
    BY <2>1, MemPlaceFacts
  <2>4. MemPlace(s, i, 0, 0) = s.pages[i]
    BY <2>2, <2>3 DEF MemPlace
  <2> QED
    BY <2>1, <2>4, Zenon DEF InPage
<1> QED
  BY <1>2, <1>3, <1>4

LEMMA MemLinks ==
  ASSUME NEW s, Many(s)
  PROVE  LET c == mem_initialize(s)
         IN  /\ DOMAIN c = MemPlaces(s)
             /\ \A a \in MemPlaces(s) :
                   \E i \in 0 .. npages(s) - 1 :
                      InPage(s, i, linked(s, i), a) /\ Target(s, i, c[a])
<1> DEFINE last == npages(s) - 1
           Next2(i, w) == IF i < last THEN MemPlace(s, i + 1, 0, w)
                          ELSE MemPlace(s, 0, 0, (w + 1) % nwords(s))
           Inside(i, w) == {<<MemPlace(s, i, k, w), MemPlace(s, i, k + 1, w)>> :
                                k \in 0 .. linked(s, i) - 1}
           Out(i, w) == <<MemPlace(s, i, linked(s, i), w), Next2(i, w)>>
           links == UNION {UNION {Inside(i, w) \cup {Out(i, w)} :
                              w \in 0 .. nwords(s) - 1} : i \in 0 .. last}
<1>1. mem_initialize(s) = ChainOf(links)
  BY DEF mem_initialize, MemPlace
<1>2. nwords(s) \in Nat \ {0} /\ npages(s) \in Nat \ {0}
  BY LaidFacts DEF Many
<1>3. \A i \in 0 .. last : linked(s, i) \in Nat
  BY <1>2, LinkedFacts
<1> HIDE DEF Inside, Out
<1>4. ASSUME NEW l \in links
      PROVE  \E i \in 0 .. last : InPage(s, i, linked(s, i), l[1]) /\ Target(s, i, l[2])
  <2>1. PICK i \in 0 .. last, w \in 0 .. nwords(s) - 1 : l \in Inside(i, w) \cup {Out(i, w)}
    OBVIOUS
  <2>2. CASE l \in Inside(i, w)
    <3>1. PICK k \in 0 .. linked(s, i) - 1 :
             l = <<MemPlace(s, i, k, w), MemPlace(s, i, k + 1, w)>>
      BY <2>2 DEF Inside
    <3>2. k \in 0 .. linked(s, i) /\ k + 1 \in 0 .. linked(s, i)
      BY <1>3
    <3>3. l[1] = MemPlace(s, i, k, w) /\ l[2] = MemPlace(s, i, k + 1, w)
      BY <3>1
    <3>4. InPage(s, i, linked(s, i), l[1]) /\ InPage(s, i, linked(s, i), l[2])
      BY <3>2, <3>3, Zenon DEF InPage
    <3> QED
      BY <3>4 DEF Target
  <2>3. CASE l = Out(i, w)
    <3>1. l[1] = MemPlace(s, i, linked(s, i), w) /\ l[2] = Next2(i, w)
      BY <2>3 DEF Out
    <3>2. linked(s, i) \in 0 .. linked(s, i)
      BY <1>3
    <3>3. InPage(s, i, linked(s, i), l[1])
      BY <3>1, <3>2, Zenon DEF InPage
    <3>4. PICK x \in 0 .. last, v \in 0 .. nwords(s) - 1 : l[2] = MemPlace(s, x, 0, v)
      <4>1. i < last => i + 1 \in 0 .. last
        BY <1>2
      <4>2. (w + 1) % nwords(s) \in 0 .. nwords(s) - 1
        <5>1. w + 1 \in Nat /\ nwords(s) \in Nat \ {0}
          BY <1>2
        <5> HIDE DEF links, last
        <5> QED
          BY <5>1, DivideFacts
      <4>3. 0 \in 0 .. last
        BY <1>2
      <4> QED
        BY <3>1, <4>1, <4>2, <4>3
    <3>5. 0 \in 0 .. 0
      OBVIOUS
    <3>6. InPage(s, x, 0, l[2])
      BY <3>4, <3>5, Zenon DEF InPage
    <3> QED
      BY <3>3, <3>6 DEF Target
  <2> QED
    BY <2>1, <2>2, <2>3
<1>5. ASSUME NEW i \in 0 .. last, NEW a, InPage(s, i, linked(s, i), a)
      PROVE  \E l \in links : l[1] = a
  <2>1. PICK k \in 0 .. linked(s, i), w \in 0 .. nwords(s) - 1 : a = MemPlace(s, i, k, w)
    BY <1>5 DEF InPage
  <2>2. CASE k = linked(s, i)
    <3>1. Out(i, w) \in links /\ Out(i, w)[1] = a
      BY <2>1, <2>2 DEF Out
    <3> QED
      BY <3>1
  <2>3. CASE k # linked(s, i)
    <3>1. k \in 0 .. linked(s, i) - 1
      BY <1>3, <2>3
    <3>2. <<MemPlace(s, i, k, w), MemPlace(s, i, k + 1, w)>> \in Inside(i, w)
      BY <3>1 DEF Inside
    <3>3. <<MemPlace(s, i, k, w), MemPlace(s, i, k + 1, w)>> \in links
      BY <3>2
    <3>4. <<MemPlace(s, i, k, w), MemPlace(s, i, k + 1, w)>>[1] = a
      BY <2>1
    <3> QED
      BY <3>3, <3>4
  <2> QED
    BY <2>2, <2>3
<1> HIDE DEF links
<1>6. \A l \in links : l[1] \in MemPlaces(s) /\ l[2] \in MemPlaces(s)
  <2>1. ASSUME NEW l \in links PROVE l[1] \in MemPlaces(s) /\ l[2] \in MemPlaces(s)
    <3>1. PICK i \in 0 .. last : InPage(s, i, linked(s, i), l[1]) /\ Target(s, i, l[2])
      BY <1>4
    <3> QED
      BY <3>1, InPageFacts DEF Target
  <2> QED
    BY <2>1
<1>7. \A a \in MemPlaces(s) : \E l \in links : l[1] = a
  BY <1>5 DEF MemPlaces
<1>8. DOMAIN ChainOf(links) = MemPlaces(s)
      /\ \A a \in MemPlaces(s) : \E l \in links : l[1] = a /\ l[2] = ChainOf(links)[a]
  <2>1. \A l \in links : l[1] \in MemPlaces(s) /\ l[2] \in MemPlaces(s)
    BY <1>6
  <2>2. /\ DOMAIN ChainOf(links) = MemPlaces(s)
        /\ \A a \in MemPlaces(s) :
              /\ ChainOf(links)[a] \in MemPlaces(s)
              /\ \E l \in links : l[1] = a /\ l[2] = ChainOf(links)[a]
    BY <1>7, <2>1, ChainMade, Zenon
  <2> QED
    BY <2>2
<1>9. ASSUME NEW a \in MemPlaces(s)
      PROVE  \E i \in 0 .. npages(s) - 1 :
                InPage(s, i, linked(s, i), a) /\ Target(s, i, ChainOf(links)[a])
  <2>1. PICK l \in links : l[1] = a /\ l[2] = ChainOf(links)[a]
    BY <1>8
  <2>2. PICK i \in 0 .. last : InPage(s, i, linked(s, i), l[1]) /\ Target(s, i, l[2])
    BY <1>4
  <2> QED
    BY <2>1, <2>2
<1> QED
  BY <1>1, <1>8, <1>9

LEMMA MemCircle ==
  ASSUME NEW s, Many(s)
  PROVE  /\ Circle(mem_initialize(s), MemPlaces(s), s) /\ s.pages[0] \in MemPlaces(s)
         /\ DOMAIN mem_initialize(s) = MemPlaces(s)
<1>1. \A a \in MemPlaces(s) : mem_initialize(s)[a] \in MemPlaces(s)
  <2>1. ASSUME NEW a \in MemPlaces(s) PROVE mem_initialize(s)[a] \in MemPlaces(s)
    <3>1. PICK i \in 0 .. npages(s) - 1 : Target(s, i, mem_initialize(s)[a])
      BY MemLinks
    <3> QED
      BY <3>1, InPageFacts DEF Target
  <2> QED
    BY <2>1
<1>2. \A a \in MemPlaces(s) : Holds(s, a)
  BY InPageFacts DEF MemPlaces
<1>3. 0 \in 0 .. npages(s) - 1
  BY LaidFacts DEF Many
<1>4. s.pages[0] \in MemPlaces(s)
  BY <1>3, InPageFacts
<1> QED
  BY <1>1, <1>2, <1>4, MemLinks DEF Circle, Closed

(* The groups of dram_page_initialize.  In its last page a group may hold fewer lines *)
(* than in the others, and a walk only comes to the lines that all of its pages hold.  *)
EndOf(s, group, i) == Least((i \div group) * group + group, npages(s)) - 1
GroupPlaces(s, group) ==
  {a \in Nat : \E i \in 0 .. npages(s) - 1 : InPage(s, i, linked(s, EndOf(s, group, i)), a)}

LEMMA OnPage ==
  ASSUME NEW s, Many(s), NEW i \in 0 .. npages(s) - 1, NEW h \in 0 .. nlines(s) - 1,
         NEW a, InPage(s, i, h, a)
  PROVE  /\ a \in Nat /\ a % s.pagesize \in Nat
         /\ a - (a % s.pagesize) = s.pages[i]
         /\ \A l \in 0 .. npages(s) - 1 : InPage(s, l, h, s.pages[l] + (a % s.pagesize))
<1>1. PICK k \in 0 .. h, w \in 0 .. nwords(s) - 1 : a = MemPlace(s, i, k, w)
  BY DEF InPage
<1>2. k \in 0 .. nlines(s) - 1
  BY LaidFacts DEF Many
<1>3. /\ Holds(s, a) /\ a % s.pagesize \in Nat /\ a - (a % s.pagesize) = s.pages[i]
      /\ \A l \in 0 .. npages(s) - 1 : s.pages[l] + (a % s.pagesize) = MemPlace(s, l, k, w)
  BY <1>1, <1>2, MemPlaceFacts
<1> QED
  BY <1>3 DEF Holds, InPage

LEMMA PageUnique ==
  ASSUME NEW s, Many(s), NEW i \in 0 .. npages(s) - 1, NEW l \in 0 .. npages(s) - 1
  PROVE  s.pages[i] = s.pages[l] => i = l
<1>1. /\ i \in 0 .. Ceiling(s.maxlen, s.pagesize) - 1
      /\ l \in 0 .. Ceiling(s.maxlen, s.pagesize) - 1
  BY LaidFacts DEF Many, Laid, Ceiling
<1> QED
  BY <1>1, PageFacts DEF Many

LEMMA Regrouped ==
  ASSUME NEW s, Many(s), NEW from \in Nat, NEW size \in Nat \ {0},
         from + size <= npages(s), NEW c \in [MemPlaces(s) -> Nat]
  PROVE  LET r == regroup(s, c, from, size)
         IN  /\ r \in [MemPlaces(s) -> Nat]
             /\ \A i \in 0 .. npages(s) - 1 : \A a :
                   InPage(s, i, linked(s, i), a) =>
                      r[a] = IF i \in from .. from + size - 2
                             THEN s.pages[i + 1] + (a % s.pagesize)
                             ELSE IF i = from + size - 1
                                     /\ c[a] - (c[a] % s.pagesize) = s.pages[i]
                             THEN s.pages[from] + (c[a] % s.pagesize)
                             ELSE c[a]
<1> DEFINE r == regroup(s, c, from, size)
           pg == s.pagesize
           last == s.pages[from + size - 1]
           Of(a) == CHOOSE i \in 0 .. npages(s) - 1 : s.pages[i] = a - (a % pg)
           To(a, i) == IF i \in from .. from + size - 2
                       THEN s.pages[i + 1] + (a % pg)
                       ELSE IF i = from + size - 1 /\ c[a] - (c[a] % pg) = last
                       THEN s.pages[from] + (c[a] % pg)
                       ELSE c[a]
<1>1. r = [a \in MemPlaces(s) |-> To(a, Of(a))]
  <2>1. DOMAIN c = MemPlaces(s)
    OBVIOUS
  <2>2. r = [a \in DOMAIN c |-> To(a, Of(a))]
    BY DEF regroup
  <2> QED
    BY <2>1, <2>2, Zenon
<1>2. pg \in Nat \ {0} /\ npages(s) \in Nat /\ from + size - 1 \in 0 .. npages(s) - 1
      /\ from \in 0 .. npages(s) - 1
  BY LaidFacts DEF Many
<1>3. ASSUME NEW i \in 0 .. npages(s) - 1, NEW a, InPage(s, i, linked(s, i), a)
      PROVE  Of(a) = i /\ a \in MemPlaces(s) /\ a % pg \in Nat
  <2>1. a - (a % pg) = s.pages[i] /\ a % pg \in Nat
    BY <1>3, OnPage, LinkedFacts
  <2>2. \A l \in 0 .. npages(s) - 1 : s.pages[l] = a - (a % pg) <=> l = i
    BY <2>1, PageUnique
  <2>3. Of(a) = i
    BY <2>2
  <2> QED
    BY <1>3, <2>1, <2>3, InPageFacts
<1>4. \A l \in 0 .. npages(s) - 1 : s.pages[l] \in Nat
  <2>1. 0 \in 0 .. nlines(s) - 1 /\ 0 \in 0 .. nwords(s) - 1
    BY LaidFacts DEF Many
  <2> QED
    BY <2>1, MemPlaceFacts
<1> HIDE DEF Of
<1>5. ASSUME NEW a \in MemPlaces(s) PROVE To(a, Of(a)) \in Nat
  <2>1. PICK i \in 0 .. npages(s) - 1 : InPage(s, i, linked(s, i), a)
    BY DEF MemPlaces
  <2>2. Of(a) = i /\ a % pg \in Nat
    BY <1>3, <2>1
  <2>3. c[a] \in Nat
    OBVIOUS
  <2>4. c[a] % pg \in Nat
    <3>1. \A x \in Nat, d \in Nat \ {0} : x % d \in Nat
      OBVIOUS
    <3> QED
      BY <1>2, <2>3, <3>1
  <2>5. i \in from .. from + size - 2 => i + 1 \in 0 .. npages(s) - 1
    BY <1>2
  <2> QED
    BY <1>2, <1>4, <2>2, <2>3, <2>4, <2>5
<1> HIDE DEF To
<1>6. r \in [MemPlaces(s) -> Nat]
  BY <1>1, <1>5
<1>7. ASSUME NEW i \in 0 .. npages(s) - 1, NEW a, InPage(s, i, linked(s, i), a)
      PROVE  r[a] = To(a, i)
  BY <1>1, <1>3, <1>7
<1>8. \A i \in 0 .. npages(s) - 1 : \A a :
         To(a, i) = IF i \in from .. from + size - 2
                    THEN s.pages[i + 1] + (a % pg)
                    ELSE IF i = from + size - 1 /\ c[a] - (c[a] % pg) = s.pages[i]
                    THEN s.pages[from] + (c[a] % pg)
                    ELSE c[a]
  BY DEF To
<1> HIDE DEF r
<1> QED
  BY <1>6, <1>7, <1>8 DEF r

(* The first k groups are made, and the rest of the pages as mem_initialize left them. *)
GroupedTo(s, group, k, c) ==
  /\ c \in [MemPlaces(s) -> Nat]
  /\ \A i \in 0 .. npages(s) - 1 : \A a :
        InPage(s, i, linked(s, i), a) =>
           IF i >= k * group THEN c[a] = mem_initialize(s)[a]
           ELSE a \in GroupPlaces(s, group) => c[a] \in GroupPlaces(s, group)

LEMMA EndFacts ==
  ASSUME NEW s, Many(s), NEW group \in Nat \ {0}, NEW i \in 0 .. npages(s) - 1
  PROVE  /\ EndOf(s, group, i) \in i .. npages(s) - 1
         /\ \A k \in Nat : i >= k * group /\ i < k * group + group =>
               EndOf(s, group, i) = k * group + Least(group, npages(s) - k * group) - 1
<1>1. npages(s) \in Nat /\ i \in Nat
  BY LaidFacts DEF Many
<1>2. PICK q \in Nat : q = i \div group /\ q * group <= i /\ i < q * group + group
                       /\ q * group \in Nat
  OBVIOUS
<1>3. EndOf(s, group, i) = Least(q * group + group, npages(s)) - 1
  BY <1>2 DEF EndOf
<1>4. ASSUME NEW k \in Nat, i >= k * group, i < k * group + group PROVE k = q
  <2>1. k * group \in Nat /\ (k + 1) * group = k * group + group
        /\ (q + 1) * group = q * group + group
    OBVIOUS
  <2>2. k * group < (q + 1) * group /\ q * group < (k + 1) * group
    BY <1>1, <1>2, <1>4, <2>1
  <2>3. \A x, y \in Nat : x * group < y * group => x < y
    OBVIOUS
  <2>4. k < q + 1 /\ q < k + 1
    BY <2>2, <2>3
  <2> QED
    BY <2>4
<1>5. EndOf(s, group, i) \in i .. npages(s) - 1
  BY <1>1, <1>2, <1>3 DEF Least
<1>6. ASSUME NEW k \in Nat, i >= k * group, i < k * group + group
      PROVE  EndOf(s, group, i) = k * group + Least(group, npages(s) - k * group) - 1
  <2>1. k = q
    BY <1>4, <1>6
  <2> QED
    BY <1>1, <1>2, <1>3, <2>1 DEF Least
<1> QED
  BY <1>5, <1>6

LEMMA GroupPlaceFacts ==
  ASSUME NEW s, Many(s), NEW group \in Nat \ {0}, NEW i \in 0 .. npages(s) - 1
  PROVE  /\ linked(s, EndOf(s, group, i)) \in 0 .. nlines(s) - 1
         /\ \A a : InPage(s, i, linked(s, EndOf(s, group, i)), a) =>
               InPage(s, i, linked(s, i), a) /\ a \in GroupPlaces(s, group)
         /\ \A a : InPage(s, i, 0, a) => a \in GroupPlaces(s, group)
         /\ \A a \in GroupPlaces(s, group) : InPage(s, i, linked(s, i), a) =>
               InPage(s, i, linked(s, EndOf(s, group, i)), a)
<1>1. /\ linked(s, EndOf(s, group, i)) \in 0 .. nlines(s) - 1
      /\ linked(s, EndOf(s, group, i)) <= linked(s, i)
      /\ linked(s, i) \in 0 .. nlines(s) - 1 /\ nlines(s) \in Nat
  <2>1. EndOf(s, group, i) \in Nat /\ i <= EndOf(s, group, i) /\ i \in Nat
    BY EndFacts, LaidFacts DEF Many
  <2> QED
    BY <2>1, LinkedFacts, LaidFacts DEF Many
<1>2. ASSUME NEW a, InPage(s, i, linked(s, EndOf(s, group, i)), a)
      PROVE  InPage(s, i, linked(s, i), a) /\ a \in GroupPlaces(s, group)
  <2>1. InPage(s, i, linked(s, i), a)
    BY <1>1, <1>2 DEF InPage
  <2>2. a \in Nat
    BY <1>1, <1>2, OnPage
  <2> QED
    BY <1>2, <2>1, <2>2 DEF GroupPlaces
<1>3. ASSUME NEW a, InPage(s, i, 0, a) PROVE a \in GroupPlaces(s, group)
  <2>1. InPage(s, i, linked(s, EndOf(s, group, i)), a)
    BY <1>1, <1>3 DEF InPage
  <2> QED
    BY <1>2, <2>1
<1>4. ASSUME NEW a \in GroupPlaces(s, group), InPage(s, i, linked(s, i), a)
      PROVE  InPage(s, i, linked(s, EndOf(s, group, i)), a)
  <2>1. PICK l \in 0 .. npages(s) - 1 : InPage(s, l, linked(s, EndOf(s, group, l)), a)
    BY DEF GroupPlaces
  <2>2. linked(s, EndOf(s, group, l)) \in 0 .. nlines(s) - 1
    <3>1. EndOf(s, group, l) \in Nat
      BY EndFacts, LaidFacts DEF Many
    <3> QED
      BY <3>1, LinkedFacts
  <2>3. a - (a % s.pagesize) = s.pages[l] /\ a - (a % s.pagesize) = s.pages[i]
    BY <1>1, <1>4, <2>1, <2>2, OnPage
  <2>4. l = i
    BY <2>3, PageUnique
  <2> QED
    BY <2>1, <2>4
<1> QED
  BY <1>1, <1>2, <1>3, <1>4

LEMMA GroupStep ==
  ASSUME NEW s, Many(s), NEW group \in Nat \ {0}, NEW k \in Nat,
         k * group < npages(s), NEW c, GroupedTo(s, group, k, c)
  PROVE  GroupedTo(s, group, k + 1,
                   regroup(s, c, k * group, Least(group, npages(s) - k * group)))
<1> DEFINE from == k * group
           size == Least(group, npages(s) - k * group)
           r == regroup(s, c, from, size)
           pg == s.pagesize
           GP == GroupPlaces(s, group)
<1>1. /\ from \in Nat /\ size \in Nat \ {0} /\ from + size <= npages(s) /\ npages(s) \in Nat
      /\ (k + 1) * group = from + group /\ (from + size = npages(s) \/ size = group)
      /\ size <= group
  <2>1. from \in Nat /\ (k + 1) * group = from + group /\ npages(s) \in Nat
    BY LaidFacts DEF Many
  <2>2. from < npages(s)
    OBVIOUS
  <2>3. size = Least(group, npages(s) - from)
    OBVIOUS
  <2> HIDE DEF from, size
  <2> QED
    BY <2>1, <2>2, <2>3 DEF Least
<1>2. c \in [MemPlaces(s) -> Nat]
  BY DEF GroupedTo
<1>3. /\ r \in [MemPlaces(s) -> Nat]
      /\ \A i \in 0 .. npages(s) - 1 : \A a :
            InPage(s, i, linked(s, i), a) =>
               r[a] = IF i \in from .. from + size - 2 THEN s.pages[i + 1] + (a % pg)
                      ELSE IF i = from + size - 1 /\ c[a] - (c[a] % pg) = s.pages[i]
                      THEN s.pages[from] + (c[a] % pg)
                      ELSE c[a]
  <2> HIDE DEF from, size
  <2> QED
    BY <1>1, <1>2, Regrouped
<1>4. \A i \in from .. from + size - 1 : EndOf(s, group, i) = from + size - 1
  <2>1. ASSUME NEW i \in from .. from + size - 1
        PROVE  EndOf(s, group, i) = from + size - 1
    <3>1. i \in 0 .. npages(s) - 1 /\ i >= k * group /\ i < k * group + group
      BY <1>1
    <3> QED
      BY <3>1, EndFacts
  <2> QED
    BY <2>1
<1> HIDE DEF from, size, r
<1>5. ASSUME NEW i \in 0 .. npages(s) - 1, NEW a, InPage(s, i, linked(s, i), a)
      PROVE  IF i >= (k + 1) * group THEN r[a] = mem_initialize(s)[a]
             ELSE a \in GP => r[a] \in GP
  <2>1. CASE i >= (k + 1) * group
    <3>1. i \notin from .. from + size - 2 /\ i # from + size - 1 /\ i >= from
      BY <1>1, <2>1
    <3>2. r[a] = c[a]
      BY <1>3, <1>5, <3>1
    <3>3. c[a] = mem_initialize(s)[a]
      BY <1>5, <3>1 DEF GroupedTo, from
    <3> QED
      BY <2>1, <3>2, <3>3
  <2>2. CASE i < from
    <3>1. i \notin from .. from + size - 2 /\ i # from + size - 1 /\ ~(i >= (k + 1) * group)
      BY <1>1, <2>2
    <3>2. r[a] = c[a]
      BY <1>3, <1>5, <3>1
    <3>3. a \in GP => c[a] \in GP
      <4>1. ~(i >= k * group)
        BY <1>1, <2>2 DEF from
      <4> QED
        BY <1>5, <4>1 DEF GroupedTo
    <3> QED
      BY <3>1, <3>2, <3>3
  <2>3. CASE i \in from .. from + size - 1
    <3>1. ~(i >= (k + 1) * group) /\ i >= k * group
      BY <1>1, <2>3 DEF from
    <3>2. ASSUME a \in GP PROVE r[a] \in GP
      <4>1. InPage(s, i, linked(s, EndOf(s, group, i)), a)
        BY <1>5, <3>2, GroupPlaceFacts
      <4>2. linked(s, EndOf(s, group, i)) \in 0 .. nlines(s) - 1
        BY GroupPlaceFacts
      <4>3. CASE i \in from .. from + size - 2
        <5>1. i + 1 \in 0 .. npages(s) - 1 /\ i + 1 \in from .. from + size - 1
          BY <1>1, <4>3
        <5>2. EndOf(s, group, i + 1) = EndOf(s, group, i)
          BY <1>4, <2>3, <5>1
        <5>3. InPage(s, i + 1, linked(s, EndOf(s, group, i + 1)), s.pages[i + 1] + (a % pg))
          BY <4>1, <4>2, <5>1, <5>2, OnPage
        <5>4. s.pages[i + 1] + (a % pg) \in GP
          BY <5>1, <5>3, GroupPlaceFacts
        <5> QED
          BY <1>3, <1>5, <4>3, <5>4
      <4>4. CASE i = from + size - 1
        <5> DEFINE b == mem_initialize(s)[a]
        <5>1. c[a] = b
          BY <1>5, <3>1 DEF GroupedTo
        <5>2. i \notin from .. from + size - 2
          BY <1>1, <4>4
        <5>3. r[a] = IF b - (b % pg) = s.pages[i] THEN s.pages[from] + (b % pg) ELSE b
          BY <1>3, <1>5, <4>4, <5>1, <5>2
        <5>4. from \in 0 .. npages(s) - 1 /\ from \in from .. from + size - 1
          BY <1>1
        <5>5. EndOf(s, group, from) = i /\ EndOf(s, group, i) = i
          BY <1>4, <2>3, <4>4, <5>4
        <5>6. Target(s, i, b)
          <6>1. a \in MemPlaces(s)
            BY <1>5, InPageFacts
          <6>2. PICK l \in 0 .. npages(s) - 1 : InPage(s, l, linked(s, l), a) /\ Target(s, l, b)
            BY <6>1, MemLinks
          <6>3. a - (a % pg) = s.pages[l] /\ a - (a % pg) = s.pages[i]
            <7>1. linked(s, l) \in 0 .. nlines(s) - 1 /\ linked(s, i) \in 0 .. nlines(s) - 1
              BY LinkedFacts
            <7> QED
              BY <1>5, <6>2, <7>1, OnPage
          <6>4. l = i
            BY <6>3, PageUnique
          <6> QED
            BY <6>2, <6>4
        <5> HIDE DEF b
        <5>7. CASE InPage(s, i, linked(s, i), b)
          <6>1. /\ b - (b % pg) = s.pages[i]
                /\ InPage(s, from, linked(s, i), s.pages[from] + (b % pg))
            BY <5>4, <5>7, OnPage, LinkedFacts
          <6>2. s.pages[from] + (b % pg) \in GP
            BY <5>4, <5>5, <6>1, GroupPlaceFacts
          <6> QED
            BY <5>3, <6>1, <6>2
        <5>8. ASSUME NEW l \in 0 .. npages(s) - 1, InPage(s, l, 0, b) PROVE r[a] \in GP
          <6>1. 0 \in 0 .. nlines(s) - 1
            BY LaidFacts DEF Many
          <6>2. b \in GP
            BY <5>8, GroupPlaceFacts
          <6>3. s.pages[from] + (b % pg) \in GP
            <7>1. InPage(s, from, 0, s.pages[from] + (b % pg))
              BY <5>4, <5>8, <6>1, OnPage
            <7> QED
              BY <5>4, <7>1, GroupPlaceFacts
          <6> QED
            BY <5>3, <6>2, <6>3
        <5> QED
          BY <5>6, <5>7, <5>8 DEF Target
      <4> QED
        BY <1>1, <2>3, <4>3, <4>4
    <3> QED
      BY <3>1, <3>2
  <2> QED
    BY <1>1, <2>1, <2>2, <2>3
<1>6. GroupedTo(s, group, k + 1, r)
  BY <1>3, <1>5 DEF GroupedTo
<1> QED
  BY <1>6 DEF r, from, size

LEMMA DramCircle ==
  ASSUME NEW s, Many(s), NEW group \in Nat, s.len = s.maxlen
  PROVE  \E R : /\ Circle(dram_page_initialize(s, group), R, s) /\ 0 \in R
                /\ DOMAIN dram_page_initialize(s, group) \subseteq Nat
<1> DEFINE K == Ceiling(npages(s), group)
           Body(g, k) == IF k = 0 THEN mem_initialize(s)
                         ELSE regroup(s, g[k - 1], (k - 1) * group,
                                      Least(group, npages(s) - (k - 1) * group))
           Grouped == CHOOSE g : g = [k \in 0 .. K |-> Body(g, k)]
           V == [MemPlaces(s) -> Nat]
<1>1. dram_page_initialize(s, group)
        = IF group <= 1 THEN mem_initialize(s) ELSE Grouped[K]
  BY DEF dram_page_initialize
<1>2. npages(s) \in Nat \ {0} /\ MemPlaces(s) \subseteq Nat
  BY LaidFacts DEF Many, MemPlaces
<1>3. PICK z \in 0 .. npages(s) - 1 : s.pages[z] = 0
  <2>1. npages(s) = Ceiling(s.maxlen, s.pagesize)
    BY DEF npages
  <2> QED
    BY <2>1, PageFacts DEF Many
<1>4. InPage(s, z, 0, 0)
  BY <1>3, InPageFacts
<1>5. Circle(mem_initialize(s), MemPlaces(s), s) /\ DOMAIN mem_initialize(s) = MemPlaces(s)
      /\ 0 \in MemPlaces(s)
  BY <1>4, MemCircle, InPageFacts
<1>6. CASE group <= 1
  BY <1>1, <1>2, <1>5, <1>6
<1>7. CASE group > 1
  <2>1. K \in Nat \ {0} /\ (K - 1) * group < npages(s) /\ npages(s) <= K * group
    BY <1>2, <1>7, CeilingFacts
  <2> HIDE DEF K
  <2>2. ASSUME NEW k \in Nat, k < K PROVE k * group < npages(s)
    <3>1. K - 1 \in Nat /\ k <= K - 1
      BY <2>1, <2>2
    <3>2. k * group <= (K - 1) * group
      BY <1>7, <3>1, Multiplied
    <3>3. k * group \in Nat /\ (K - 1) * group \in Nat
      BY <3>1
    <3> QED
      BY <1>2, <2>1, <3>2, <3>3
  <2> DEFINE Made(k, c) == regroup(s, c, (k - 1) * group,
                                   Least(group, npages(s) - (k - 1) * group))
  <2>3. ASSUME NEW k \in 1 .. K, NEW c \in V PROVE Made(k, c) \in V
    <3>1. PICK x \in Nat : x = k - 1 /\ x < K
      <4>1. k - 1 \in Nat /\ k - 1 < K
        BY <2>1
      <4> QED
        BY <4>1
    <3>2. PICK from \in Nat : from = x * group /\ from < npages(s)
      BY <2>2, <3>1
    <3>3. PICK size \in Nat \ {0} : size = Least(group, npages(s) - from)
                                    /\ from + size <= npages(s)
      BY <1>2, <1>7, <3>2 DEF Least
    <3>4. Made(k, c) = regroup(s, c, from, size)
      BY <3>1, <3>2, <3>3
    <3> HIDE DEF Made
    <3> QED
      BY <3>3, <3>4, Regrouped
  <2>4. mem_initialize(s) \in V
    <3>1. mem_initialize(s) = [a \in DOMAIN mem_initialize(s) |-> mem_initialize(s)[a]]
      BY DEF mem_initialize, ChainOf
    <3>2. \A a \in MemPlaces(s) : mem_initialize(s)[a] \in Nat
      BY <1>2, <1>5 DEF Circle, Closed
    <3> QED
      BY <1>5, <3>1, <3>2
  <2> HIDE DEF Made
  <2>5. PICK h, b, E : /\ h = [k \in Nat |-> IF k = 0 THEN 0 ELSE k - 1]
                       /\ b = [k \in Nat |-> mem_initialize(s)]
                       /\ E = [k \in Nat |-> [c \in V |->
                                IF k \in 1 .. K THEN Made(k, c) ELSE c]]
    OBVIOUS
  <2>6. Descends(h, 0)
    BY <2>5 DEF Descends
  <2>7. Steps(V, b, E)
    <3>1. b \in [Nat -> V]
      BY <2>4, <2>5
    <3>2. \A k \in Nat : [c \in V |-> IF k \in 1 .. K THEN Made(k, c) ELSE c] \in [V -> V]
      BY <2>3
    <3> HIDE DEF V
    <3> QED
      BY <2>5, <3>1, <3>2 DEF Steps
  <2>8. PICK f \in [Nat -> V] : \A n \in Nat : f[n] = IF n <= 0 THEN b[n] ELSE E[n][f[h[n]]]
    <3>1. Solved(V, h, 0, b, E)
      BY <2>6, <2>7, Recursion
    <3> QED
      BY <3>1 DEF Solved
  <2>9. PICK g : g = [k \in 0 .. K |-> f[k]]
    OBVIOUS
  <2> HIDE DEF V
  <2>10. ASSUME NEW k \in 0 .. K PROVE g[k] = Body(g, k)
    <3>1. CASE k = 0
      BY SMTT(30), <2>1, <2>5, <2>8, <2>9, <3>1
    <3>2. CASE k # 0
      <4>1. k \in 1 .. K /\ k \in Nat /\ k - 1 \in 0 .. K /\ k - 1 \in Nat /\ ~(k <= 0)
        BY <2>1, <3>2
      <4>2. h[k] = k - 1
        BY <2>5, <3>2, <4>1
      <4>3. f[k] = E[k][f[k - 1]] /\ f[k - 1] \in V
        BY <2>8, <4>1, <4>2
      <4>4. f[k] = Made(k, f[k - 1])
        BY <2>5, <4>1, <4>3
      <4>5. g[k] = Made(k, g[k - 1])
        BY <2>9, <4>1, <4>4
      <4> QED
        BY <3>2, <4>5 DEF Made
    <3> QED
      BY <3>1, <3>2
  <2>11. g = [k \in 0 .. K |-> Body(g, k)]
    <3>1. g = [k \in 0 .. K |-> g[k]]
      BY <2>9
    <3>2. [k \in 0 .. K |-> g[k]] = [k \in 0 .. K |-> Body(g, k)]
      BY <2>10, Zenon
    <3> QED
      BY <3>1, <3>2, Zenon
  <2>12. Grouped = [k \in 0 .. K |-> Body(Grouped, k)]
    BY <2>11, Zenon
  <2> HIDE DEF Grouped
  <2>13. \A k \in 0 .. K : Grouped[k] = Body(Grouped, k)
    BY <2>12, Zenon
  <2> DEFINE T == {k \in Nat : k <= K => GroupedTo(s, group, k, Grouped[k])}
  <2>14. 0 \in T
    <3>1. Grouped[0] = mem_initialize(s)
      BY <2>1, <2>13
    <3>2. \A i \in 0 .. npages(s) - 1 : i >= 0 * group
      OBVIOUS
    <3>3. GroupedTo(s, group, 0, mem_initialize(s))
      BY <2>4, <3>2 DEF GroupedTo, V
    <3> QED
      BY <3>1, <3>3
  <2>15. ASSUME NEW k \in Nat, k \in T PROVE k + 1 \in T
    <3> SUFFICES ASSUME k + 1 <= K PROVE GroupedTo(s, group, k + 1, Grouped[k + 1])
      OBVIOUS
    <3>1. k < K /\ k <= K /\ k + 1 \in 0 .. K /\ k + 1 # 0 /\ k + 1 - 1 = k
      BY <2>1
    <3>2. GroupedTo(s, group, k, Grouped[k])
      BY <2>15, <3>1
    <3>3. Grouped[k + 1] = regroup(s, Grouped[k], k * group,
                                   Least(group, npages(s) - k * group))
      BY <2>13, <3>1
    <3>4. k * group < npages(s) /\ group \in Nat \ {0}
      BY <1>7, <2>2, <3>1
    <3> QED
      BY <3>2, <3>3, <3>4, GroupStep
  <2> HIDE DEF T
  <2>16. K \in T
    BY <2>1, <2>14, <2>15, Induction
  <2>17. GroupedTo(s, group, K, Grouped[K])
    BY <2>1, <2>16 DEF T
  <2>18. PICK c : c = Grouped[K]
    OBVIOUS
  <2>19. DOMAIN c = MemPlaces(s)
    BY <2>17, <2>18 DEF GroupedTo
  <2>20. ASSUME NEW a \in GroupPlaces(s, group)
         PROVE  a \in MemPlaces(s) /\ Holds(s, a) /\ c[a] \in GroupPlaces(s, group)
    <3>1. PICK i \in 0 .. npages(s) - 1 : InPage(s, i, linked(s, EndOf(s, group, i)), a)
      BY DEF GroupPlaces
    <3>2. InPage(s, i, linked(s, i), a)
      BY <1>7, <3>1, GroupPlaceFacts
    <3>3. ~(i >= K * group)
      BY <1>2, <2>1
    <3>4. c[a] \in GroupPlaces(s, group)
      BY <2>17, <2>18, <3>2, <3>3 DEF GroupedTo
    <3> QED
      BY <3>2, <3>4, InPageFacts
  <2>21. 0 \in GroupPlaces(s, group)
    BY <1>4, <1>7, GroupPlaceFacts
  <2>22. Circle(c, GroupPlaces(s, group), s)
    BY <2>19, <2>20 DEF Circle, Closed
  <2>23. dram_page_initialize(s, group) = c
    BY <1>1, <1>7, <2>18 DEF K
  <2> QED
    BY <1>2, <2>19, <2>21, <2>22, <2>23
<1> QED
  BY <1>6, <1>7

----------------------------------------------------------------------------
(* Where the walk of a program starts, and what holds of the chain it walks. *)
StartOf(prog, s) ==
  IF prog \in {"lat_mem_rd", "lat_dram_page"} THEN 0
  ELSE IF prog = "lat_mem_rd -t" /\ s.len % s.pagesize # 0 THEN 0
  ELSE s.pages[0]

ChainHolds(prog, s, c, R) ==
  /\ Circle(c, R, s) /\ DOMAIN c \subseteq Nat /\ StartOf(prog, s) \in R
  /\ prog = "line" => R = LinePlaces(s) /\ DOMAIN c = R /\ nlines(s) > 0

SetUp(s) ==
  s.len = job.len /\ s.maxlen = job.maxlen /\ s.line = job.line /\ s.pagesize = job.pagesize

LEMMA AllPlaced ==
  ASSUME NEW prog, NEW s, NEW c, NEW R, Circle(c, R, s), DOMAIN c = R, StartOf(prog, s) \in R,
         prog = "line" => R = LinePlaces(s) /\ nlines(s) > 0
  PROVE  ChainHolds(prog, s, c, R)
BY DEF ChainHolds, Circle, Holds

(* Every initialize function builds a circle that its walk starts on. *)
LEMMA ChainLaid ==
  ASSUME job \in ChainRecords, Walkable(job), NEW s, Laid(s), SetUp(s), FirstPointerSet(s)
  PROVE  \E R : ChainHolds(job.prog, s, Chain(s), R)
<1>1. /\ job.prog \in {"lat_mem_rd", "lat_mem_rd -t", "line", "tlb", "par_mem", "lat_dram_page"}
      /\ job.group \in Nat
  BY DEF ChainRecords, ChainPrograms
<1>2. CASE job.prog = "lat_mem_rd"
  <2>1. Chain(s) = stride_initialize(s) /\ StartOf(job.prog, s) = 0
    BY <1>2 DEF Chain, StartOf
  <2>2. PICK R : /\ Circle(stride_initialize(s), R, s) /\ 0 \in R
                 /\ DOMAIN stride_initialize(s) = R
    BY StrideCircle
  <2> QED
    BY <1>2, <2>1, <2>2, AllPlaced
<1>3. CASE job.prog = "lat_mem_rd -t" /\ s.len % s.pagesize # 0
  <2>1. Chain(s) = thrashWords(s) /\ StartOf(job.prog, s) = 0 /\ s.line <= s.len
    BY <1>3 DEF Chain, StartOf, thrash_initialize, Walkable, SetUp
  <2>2. PICK R : Circle(thrashWords(s), R, s) /\ 0 \in R /\ DOMAIN thrashWords(s) = R
    BY <2>1, ThrashWordsCircle
  <2> QED
    BY <1>3, <2>1, <2>2, AllPlaced
<1>4. CASE job.prog = "lat_mem_rd -t" /\ s.len % s.pagesize = 0
  <2>1. Chain(s) = thrashPages(s) /\ StartOf(job.prog, s) = s.pages[0] /\ nlines(s) > 0
    BY <1>4 DEF Chain, StartOf, thrash_initialize, FirstPointerSet
  <2> QED
    BY <1>4, <2>1, ThrashPagesCircle, LinePlaceHolds, AllPlaced
<1>5. CASE job.prog = "line"
  <2>1. Chain(s) = line_initialize(s) /\ StartOf(job.prog, s) = s.pages[0]
        /\ s.line <= s.pagesize
    BY <1>5 DEF Chain, StartOf, Walkable, SetUp
  <2>2. nlines(s) > 0
    <3>1. s.line \in Nat \ {0} /\ s.pagesize \in Nat
      BY LaidFacts
    <3>2. s.pagesize \div s.line \in Nat /\ s.pagesize \div s.line # 0
      BY <2>1, <3>1, DivideFacts
    <3> QED
      BY <3>2 DEF nlines
  <2>3. /\ Circle(line_initialize(s), LinePlaces(s), s)
        /\ DOMAIN line_initialize(s) = LinePlaces(s) /\ s.pages[0] \in LinePlaces(s)
    BY <2>2, LineCircle, LinePlaceHolds
  <2> QED
    BY <2>1, <2>2, <2>3, AllPlaced
<1>6. CASE job.prog = "tlb"
  <2>1. Chain(s) = tlb_initialize(s) /\ StartOf(job.prog, s) = s.pages[0]
        /\ s.pagesize <= s.len
    BY <1>6 DEF Chain, StartOf, Walkable, SetUp
  <2>2. PICK R : /\ Circle(tlb_initialize(s), R, s) /\ s.pages[0] \in R
                 /\ DOMAIN tlb_initialize(s) = R
    BY <2>1, TlbCircle
  <2> QED
    BY <1>6, <2>1, <2>2, AllPlaced
<1>7. CASE job.prog = "par_mem"
  <2>1. Chain(s) = mem_initialize(s) /\ StartOf(job.prog, s) = s.pages[0] /\ Many(s)
    BY <1>7 DEF Chain, StartOf, FirstPointerSet, Many
  <2> QED
    BY <1>7, <2>1, MemCircle, AllPlaced
<1>8. CASE job.prog = "lat_dram_page"
  <2>1. Chain(s) = dram_page_initialize(s, job.group) /\ StartOf(job.prog, s) = 0
        /\ Many(s) /\ s.len = s.maxlen
    BY <1>8 DEF Chain, StartOf, FirstPointerSet, Many, Walkable, SetUp
  <2>2. PICK R : /\ Circle(dram_page_initialize(s, job.group), R, s) /\ 0 \in R
                 /\ DOMAIN dram_page_initialize(s, job.group) \subseteq Nat
    BY <1>1, <2>1, DramCircle
  <2> QED
    BY <1>8, <2>1, <2>2 DEF ChainHolds
<1> QED
  BY <1>1, <1>2, <1>3, <1>4, <1>5, <1>6, <1>7, <1>8

(* The invariant of the latency programs. *)
Reachable(j) == Walkable(j) /\ \A o \in Offsets : o < j.pagesize

Buffered ==
  /\ mem.size = m.maxlen + 2 * m.pagesize /\ mem.base \in Nat /\ mem.base <= m.pagesize
  /\ held = {"addr"}

Tested == line \in Nat \ {0} /\ (job.prog = "line" => line <= m.pagesize)

OnChain ==
  \E R : ChainHolds(job.prog, m, chain, R) /\ (phase = "turn" => p \in R)

ChainFits ==
  /\ phase \in {"main", "ready", "turn"} /\ Latency => Reachable(job)
  /\ phase \in {"ready", "turn"} /\ Latency =>
        Laid(m) /\ SetUp(m) /\ Buffered /\ Tested /\ OnChain

LEMMA StartIs ==
  WalkStart = StartOf(job.prog, m)
BY DEF WalkStart, StartOf

LEMMA ChainInitialized ==
  ASSUME ChainFits, JobFits, Initialize
  PROVE  ChainFits'
<1>1. Latency /\ phase = "main" /\ job \in ChainRecords /\ Walkable(job) /\ Reachable(job)
      /\ job' = job /\ held' = {"addr"} /\ line' = job.line
  BY KindsApart DEF Initialize, ChainFits, Reachable
<1>2. PICK pages \in permutation(Ceiling(job.maxlen, job.pagesize), job.pagesize),
           misaligned \in Offsets :
        LET s == [len |-> job.len, maxlen |-> job.maxlen, line |-> job.line,
                  pagesize |-> job.pagesize, pages |-> pages]
        IN  /\ m' = s
            /\ mem' = base_initialize(s, misaligned)
            /\ chain' = IF FirstPointerSet(s) THEN Chain(s) ELSE <<>>
            /\ phase' = IF FirstPointerSet(s) THEN "ready" ELSE "astray"
  BY DEF Initialize
<1> DEFINE s == [len |-> job.len, maxlen |-> job.maxlen, line |-> job.line,
                 pagesize |-> job.pagesize, pages |-> pages]
<1>3. /\ m' = s /\ mem' = base_initialize(s, misaligned)
      /\ chain' = (IF FirstPointerSet(s) THEN Chain(s) ELSE <<>>)
      /\ phase' = IF FirstPointerSet(s) THEN "ready" ELSE "astray"
  BY <1>2
<1>4. /\ s.len = job.len /\ s.maxlen = job.maxlen /\ s.line = job.line
      /\ s.pagesize = job.pagesize /\ s.pages = pages
  OBVIOUS
<1> HIDE DEF s
<1>5. Laid(s)
  <2>1. /\ job.len \in Nat /\ job.maxlen \in Nat /\ job.line \in Nat /\ job.pagesize \in Nat
    BY <1>1 DEF ChainRecords
  <2> QED
    BY <1>1, <1>2, <1>4, <2>1 DEF Laid, Walkable
<1>6. CASE ~FirstPointerSet(s)
  BY <1>3, <1>6 DEF ChainFits
<1>7. CASE FirstPointerSet(s)
  <2>1. chain' = Chain(s) /\ phase' = "ready"
    BY <1>3, <1>7
  <2>2. SetUp(s)
    BY <1>4 DEF SetUp
  <2>3. PICK R : ChainHolds(job.prog, s, Chain(s), R)
    BY <1>1, <1>5, <1>7, <2>2, ChainLaid
  <2>4. OnChain'
    BY <1>1, <1>3, <2>1, <2>3 DEF OnChain
  <2>5. Buffered'
    <3>1. misaligned \in Nat /\ misaligned < s.pagesize /\ s.pagesize \in Nat
      BY <1>1, <1>4, <1>5, ChainAssumption DEF Reachable, Laid
    <3> QED
      BY <1>1, <1>3, <3>1 DEF Buffered, base_initialize
  <2>6. Tested'
    <3>1. line' \in Nat \ {0}
      BY <1>1, <1>4, <1>5, LaidFacts
    <3>2. job.prog = "line" => job.line <= job.pagesize
      BY <1>1 DEF Walkable
    <3> QED
      BY <1>1, <1>3, <1>4, <3>1, <3>2 DEF Tested
  <2>7. SetUp(m)' /\ Laid(m)'
    BY <1>1, <1>3, <1>4, <1>5 DEF SetUp
  <2> QED
    BY <1>1, <2>1, <2>4, <2>5, <2>6, <2>7 DEF ChainFits, Reachable
<1> QED
  BY <1>6, <1>7

(* With half the length, line_find and par_mem are as well set up as before. *)
LEMMA ChainHalved ==
  ASSUME ChainFits, JobFits, InitializeFails
  PROVE  ChainFits'
<1>1. Latency /\ phase = "main" /\ job \in ChainRecords /\ Walkable(job) /\ Reachable(job)
  BY KindsApart DEF InitializeFails, ChainFits, Reachable
<1>2. CASE job.prog \in {"line", "par_mem"}
  <2>1. /\ job' = [job EXCEPT !.len = @ \div 2, !.maxlen = job.len \div 2]
        /\ phase' = IF job.len \div 2 = 0 THEN "exit" ELSE "main"
    BY <1>2 DEF InitializeFails
  <2>2. /\ job'.prog = job.prog /\ job'.line = job.line /\ job'.pagesize = job.pagesize
        /\ job'.len = job.len \div 2 /\ job'.maxlen = job.len \div 2
    BY <1>1, <2>1 DEF ChainRecords
  <2>3. job.len \div 2 \in Nat
    BY <1>1 DEF ChainRecords
  <2>4. phase' = "main" => Reachable(job)'
    <3> SUFFICES ASSUME phase' = "main" PROVE Reachable(job)'
      OBVIOUS
    <3>1. 0 < job'.len /\ job'.len <= job'.maxlen
      BY <2>1, <2>2, <2>3
    <3>2. /\ Ptr <= job'.line /\ Ptr <= job'.pagesize
          /\ job'.prog = "line" => job'.line <= job'.pagesize
          /\ \A o \in Offsets : o < job'.pagesize
      BY <1>1, <2>2 DEF Reachable, Walkable
    <3>3. job'.prog \notin {"lat_mem_rd", "lat_mem_rd -t", "tlb", "lat_dram_page"}
      BY <1>2, <2>2
    <3> QED
      BY <3>1, <3>2, <3>3 DEF Reachable, Walkable
  <2> QED
    BY <2>1, <2>4 DEF ChainFits
<1>3. CASE job.prog \notin {"line", "par_mem"}
  BY <1>3 DEF InitializeFails, ChainFits
<1> QED
  BY <1>2, <1>3

LEMMA ChainWalked ==
  ASSUME ChainFits, JobFits, Walk \/ Load \/ LineTest \/ WalkEnds
  PROVE  ChainFits'
<1>1. /\ Latency /\ phase \in {"ready", "turn"} /\ phase' \in {"ready", "turn"}
      /\ job' = job /\ m' = m /\ mem' = mem /\ held' = held
  <2>1. Latency
    <3>1. ChainStep
      BY DEF ChainStep
    <3> QED
      BY <3>1, ChainStays
  <2> QED
    BY <2>1 DEF Walk, Load, LineTest, WalkEnds, setup
<1>2. /\ Reachable(job) /\ Laid(m) /\ SetUp(m) /\ Buffered /\ Tested /\ job \in ChainRecords
  BY <1>1, KindsApart DEF ChainFits
<1>3. PICK R : ChainHolds(job.prog, m, chain, R) /\ (phase = "turn" => p \in R)
  BY <1>1 DEF ChainFits, OnChain
<1>4. WalkStart \in R /\ Circle(chain, R, m)
  BY <1>3, StartIs DEF ChainHolds
<1>5. Reachable(job)' /\ Laid(m)' /\ SetUp(m)' /\ Buffered'
  BY <1>1, <1>2 DEF SetUp, Buffered, Reachable, Walkable
<1>6. CASE Walk
  <2>1. p' = WalkStart /\ chain' = chain /\ line' = line
    BY <1>6 DEF Walk, setup
  <2>2. OnChain' /\ Tested'
    BY <1>1, <1>2, <1>3, <1>4, <2>1 DEF OnChain, Tested
  <2> QED
    BY <1>1, <1>5, <2>2 DEF ChainFits
<1>7. CASE Load
  <2>1. p' = chain[p] /\ chain' = chain /\ line' = line /\ phase = "turn"
    BY <1>7 DEF Load, setup
  <2>2. p' \in R
    BY <1>3, <1>4, <2>1 DEF Circle, Closed
  <2>3. OnChain' /\ Tested'
    BY <1>1, <1>2, <1>3, <2>1, <2>2 DEF OnChain, Tested
  <2> QED
    BY <1>1, <1>5, <2>3 DEF ChainFits
<1>8. CASE LineTest
  <2>1. /\ p' = WalkStart /\ chain' = narrowed(m, chain, 2 * line) /\ line' = 2 * line
        /\ job.prog = "line" /\ 2 * line <= m.pagesize \div 16
    BY <1>8 DEF LineTest
  <2>2. 2 * line \in Nat \ {0} /\ 2 * line <= m.pagesize
    <3>1. line \in Nat \ {0} /\ m.pagesize \in Nat
      BY <1>2 DEF Tested, Laid
    <3> QED
      BY <2>1, <3>1
  <2>3. R = LinePlaces(m) /\ DOMAIN chain = R /\ nlines(m) > 0
    BY <1>3, <2>1 DEF ChainHolds
  <2>4. Circle(chain', R, m) /\ DOMAIN chain' = R
    BY <1>2, <1>4, <2>1, <2>2, <2>3, LineTested
  <2>5. ChainHolds(job.prog, m, chain', R)
    BY <1>4, <2>3, <2>4, StartIs, AllPlaced
  <2>6. OnChain' /\ Tested'
    BY <1>1, <1>4, <2>1, <2>2, <2>5 DEF OnChain, Tested
  <2> QED
    BY <1>1, <1>5, <2>6 DEF ChainFits
<1>9. CASE WalkEnds
  <2>1. chain' = (IF job.prog = "line" THEN fixedUp(m, chain, line) ELSE chain)
        /\ line' = line /\ phase' = "ready"
    BY <1>9 DEF WalkEnds, setup
  <2>2. ChainHolds(job.prog, m, chain', R)
    <3>1. CASE job.prog = "line"
      <4>1. line \in Nat \ {0} /\ line <= m.pagesize
        BY <1>2, <3>1 DEF Tested
      <4>2. R = LinePlaces(m) /\ DOMAIN chain = R /\ nlines(m) > 0
        BY <1>3, <3>1 DEF ChainHolds
      <4>3. Circle(chain', R, m) /\ DOMAIN chain' = R
        BY <1>2, <1>4, <2>1, <3>1, <4>1, <4>2, LineTested
      <4> QED
        BY <1>4, <4>2, <4>3, StartIs, AllPlaced
    <3>2. CASE job.prog # "line"
      BY <1>3, <2>1, <3>2
    <3> QED
      BY <3>1, <3>2
  <2>3. OnChain' /\ Tested'
    BY <1>1, <1>2, <2>1, <2>2 DEF OnChain, Tested
  <2> QED
    BY <1>1, <1>5, <2>3 DEF ChainFits
<1> QED
  BY <1>6, <1>7, <1>8, <1>9

LEMMA ChainKept ==
  ASSUME ChainFits, JobFits, [FileNext]_memoryVars
  PROVE  ChainFits'
<1>1. CASE UNCHANGED memoryVars
  <2>1. UNCHANGED <<job, phase, mem, m, chain, line, p, held>>
    BY <1>1 DEF memoryVars, walk, setup
  <2> QED
    BY <2>1 DEF ChainFits, Latency, Reachable, Walkable, SetUp, Buffered, Tested, OnChain
<1>2. CASE ChainStep
  <2>1. CASE MemCleanup
    BY <2>1 DEF MemCleanup, ChainFits
  <2> QED
    BY <1>2, <2>1, ChainInitialized, ChainHalved, ChainWalked DEF ChainStep
<1>3. CASE BandwidthStep \/ StreamStep \/ FilesStep \/ AnswerStep
  <2>1. phase' \in {"main", "ready", "turn"} => ~Latency'
    <3>1. CASE BandwidthStep
      <4>1. ~Latency
        BY <3>1, BandwidthStays, KindsApart
      <4> QED
        BY <3>1, <4>1, BandwidthStays DEF Latency
    <3>2. CASE StreamStep
      <4>1. ~Latency
        BY <3>2, StreamStays, KindsApart
      <4> QED
        BY <3>2, <4>1, StreamStays DEF Latency
    <3>3. CASE FilesStep
      <4>1. ~Latency
        BY <3>3, FilesStay, KindsApart
      <4> QED
        BY <3>3, <4>1, FilesStay DEF Latency
    <3>4. CASE AnswerStep
      BY <3>4, AnswerStays DEF Early
    <3> QED
      BY <1>3, <3>1, <3>2, <3>3, <3>4
  <2> QED
    BY <2>1 DEF ChainFits
<1> QED
  BY <1>1, <1>2, <1>3, StepsOfKinds

(* What is inside at every step. *)
LEMMA BlockInside ==
  ASSUME JobFits, SweepFits, phase = "turn", Bandwidth, p <= mem.lastone, WithBuffers(job)
  PROVE  LET k == Kernel(job)
         IN  /\ Within(k.reads \cup k.writes, k.width, p, mem.size)
             /\ Within(k.copies, k.width, dst, mem.size2)
<1> DEFINE k == Kernel(job)
<1>1. /\ accepts(job) /\ mem = Buffers(job) /\ job \in BandwidthJobs
      /\ p \in Nat /\ p <= job.nbytes /\ dst = mem.buf2 + p
      /\ job.prog \notin MmapRd => p = 0 \/ p >= Kernel(job).chunk
  BY KindsApart DEF SweepFits
<1>2. CASE job.prog \in MmapRd
  <2>1. /\ job.nbytes \in Nat /\ mem.lastone = job.nbytes - 8 /\ mem.size = job.nbytes
        /\ k = Mmap!bread(job.nbytes - p)
    BY <1>1, <1>2, MmapFacts
  <2>2. job.nbytes - p \in Nat /\ job.nbytes - p >= 8
    BY <1>1, <2>1
  <2>3. /\ k.chunk \in {8, 128, 1024} /\ k.width = 8 /\ k.copies = {} /\ k.writes = {}
        /\ k.reads = {8 * i : i \in 0 .. (k.chunk \div 8) - 1} /\ k.chunk <= job.nbytes - p
    BY <2>1, <2>2, BreadFits
  <2> HIDE DEF k
  <2>4. \A x \in k.reads : x \in Nat /\ x + 8 <= k.chunk
    BY <2>3
  <2>5. \A x \in k.reads \cup k.writes : p + x + k.width <= mem.size
    BY <1>1, <2>1, <2>3, <2>4
  <2> QED
    BY <2>3, <2>5 DEF Within, k
<1>3. CASE job.prog \notin MmapRd
  <2> DEFINE n == least(job)
  <2>1. /\ n \in {512, 3840} /\ job.nbytes \in Nat /\ job.nbytes >= n
        /\ Regular(k) /\ k.chunk \in {n, job.nbytes} /\ mem.lastone = job.nbytes - n
        /\ mem.buf2 \in Nat /\ (p = 0 \/ p >= k.chunk) /\ mem.size = job.nbytes
        /\ mem.size2 \in Nat /\ (k.copies # {} => mem.buf2 + job.nbytes <= mem.size2)
    BY <1>1, <1>3, BandFacts
  <2> HIDE DEF k, n
  <2>2. p + k.chunk <= job.nbytes
    BY <1>1, <2>1
  <2>3. \A x \in k.reads \cup k.writes \cup k.copies : x \in Nat /\ x + k.width <= k.chunk
        /\ k.chunk \in Nat /\ k.width \in Nat
    BY <2>1 DEF Regular
  <2>4. \A x \in k.reads \cup k.writes : p + x + k.width <= mem.size
    BY <1>1, <2>1, <2>2, <2>3
  <2>5. \A x \in k.copies : dst + x + k.width <= mem.size2
    BY <1>1, <2>1, <2>2, <2>3
  <2> QED
    BY <2>4, <2>5 DEF Within, k
<1> QED
  BY <1>2, <1>3

LEMMA AlwaysInside ==
  ASSUME JobFits, SweepFits, ChainFits
  PROVE  StaysInside
<1>1. ASSUME phase = "turn", Latency PROVE mem.base + p + Ptr <= mem.size
  <2>1. Laid(m) /\ Buffered /\ OnChain
    BY <1>1 DEF ChainFits
  <2>2. PICK R : Circle(chain, R, m) /\ p \in R
    BY <1>1, <2>1 DEF OnChain, ChainHolds
  <2>3. p \in Nat /\ p + Ptr <= m.maxlen + m.pagesize
    BY <2>2 DEF Circle, Holds
  <2>4. Ptr \in Nat /\ m.maxlen \in Nat /\ m.pagesize \in Nat
    BY <2>1, LaidFacts
  <2> QED
    BY <2>1, <2>3, <2>4 DEF Buffered
<1> QED
  BY <1>1, BlockInside DEF StaysInside

(* The types of the variables, and that nothing is held when results are merged. *)
Holdings == {"buf", "buf2", "addr", "a", "b", "c", "fd", "map", "copy", "pages"}

TypesFit ==
  /\ p \in Nat /\ dst \in Nat /\ loads \in Nat /\ line \in Nat
  /\ seen \subseteq Nat /\ turns \in 0 .. Turns /\ held \subseteq Holdings
  /\ DOMAIN chain \subseteq Nat /\ NothingKept

LEMMA NoneHeld ==
  ASSUME held' = {}
  PROVE  NothingKept' /\ held' \subseteq Holdings
BY DEF NothingKept

LEMMA StillHeld ==
  ASSUME phase' \in Early
  PROVE  NothingKept'
BY DEF NothingKept, Early

LEMMA OneBuffer ==
  ASSUME NEW j, j.prog \in {"bw_mem64a", "bw_mem64d", "bw_mem64p"}
  PROVE  Buffers(j).size2 = 0
<1>1. CASE j.prog = "bw_mem64a"
  <2>1. Buffers(j) = Mem64a!init_loop(j.nbytes)
    BY <1>1 DEF Buffers, MmapRd
  <2> QED
    BY <2>1 DEF Mem64a!init_loop
<1>2. CASE j.prog = "bw_mem64d"
  <2>1. Buffers(j) = Mem64d!init_loop(j.nbytes)
    BY <1>2 DEF Buffers, MmapRd
  <2> QED
    BY <2>1 DEF Mem64d!init_loop
<1>3. CASE j.prog = "bw_mem64p"
  <2>1. Buffers(j) = Mem64p!init_loop(j.nbytes)
    BY <1>3 DEF Buffers, MmapRd
  <2> QED
    BY <2>1 DEF Mem64p!init_loop
<1> QED
  BY <1>1, <1>2, <1>3

LEMMA BandTypes ==
  ASSUME TypesFit, JobFits, SweepFits, SweepFits', BandwidthStep
  PROVE  TypesFit'
<1>1. Bandwidth /\ job \in BandwidthJobs /\ Turns \in Nat
  BY BandwidthStays, KindsApart, MemoryAssumption
<1>2. CASE Usage \/ TurnFails
  <2>1. UNCHANGED <<p, dst, loads, line, seen, turns, held, chain>> /\ phase' \in Early
    BY <1>2 DEF Usage, TurnFails, walk, setup, Early
  <2> QED
    BY <2>1, StillHeld DEF TypesFit
<1>3. CASE InitLoop \/ InitLoopFails
  <2>1. UNCHANGED <<p, dst, loads, line, seen, turns, chain>> /\ phase' \in Early
    BY <1>3 DEF InitLoop, InitLoopFails, walk, setup, Early
  <2>2. Mmap!copy(job.prog) \subseteq Holdings /\ Mmap!init_open(job.what) \subseteq Holdings
    BY DEF Mmap!copy, Mmap!init_open, Holdings
  <2>3. \A buffers : Allocated(job, buffers) \subseteq Holdings
    BY <2>2 DEF Allocated, Holdings
  <2>4. held' \subseteq Holdings
    BY <1>3, <2>2, <2>3 DEF InitLoop, InitLoopFails
  <2> QED
    BY <2>1, <2>4, StillHeld DEF TypesFit
<1>4. CASE Turn \/ ChunkLoop
  <2>1. /\ UNCHANGED <<job, mem, line, loads, chain>> /\ phase' = "turn" /\ phase' \in Early
        /\ phase \in {"ready", "turn"}
    BY <1>4 DEF Turn, ChunkLoop, setup, Early
  <2>2. accepts(job) /\ mem = Buffers(job)
    BY <1>1, <2>1 DEF SweepFits
  <2>3. mem.buf2 \in Nat
    BY <1>1, <2>2, BandFacts, MmapFacts
  <2>4. p' \in Nat /\ seen' = Swept(p)' /\ dst' = mem.buf2 + p'
    BY <1>1, <2>1 DEF SweepFits, Bandwidth
  <2>5. seen' \subseteq Nat
    BY <2>4 DEF Swept
  <2>6. turns' \in 0 .. Turns
    BY <1>1, <1>4 DEF Turn, ChunkLoop, TypesFit
  <2>7. held' \subseteq Holdings
    <3>1. Opened \subseteq Holdings
      BY DEF Opened, Mmap!time_with_open, Holdings
    <3> QED
      BY <1>4, <3>1 DEF Turn, ChunkLoop, TypesFit
  <2> QED
    BY <2>1, <2>3, <2>4, <2>5, <2>6, <2>7, StillHeld DEF TypesFit
<1>5. CASE TurnEnds
  <2>1. UNCHANGED <<p, dst, loads, line, seen, turns, chain>> /\ phase' \in Early
        /\ held' \subseteq held
    BY <1>5 DEF TurnEnds, walk, setup, Early
  <2> QED
    BY <2>1, StillHeld DEF TypesFit
<1>6. CASE Cleanup
  <2>1. /\ p' = 0 /\ dst' = 0 /\ seen' = {} /\ turns' = 0 /\ UNCHANGED <<loads, line, chain>>
        /\ held' = held \ Freed /\ phase = "ready"
    BY <1>6 DEF Cleanup
  <2>2. held = Allocated(job, mem) /\ mem = Buffers(job) /\ accepts(job)
    BY <1>1, <2>1 DEF SweepFits
  <2>3. Allocated(job, mem) \subseteq Freed
    <3>1. CASE job.prog \in MmapRd
      BY <3>1 DEF Allocated, Freed, Mmap!cleanup, MmapRd
    <3>2. CASE job.prog \notin MmapRd
      <4>1. job.prog \in {"bw_mem", "bw_mem64", "bw_mem64a", "bw_mem64d", "bw_mem64p"}
        BY <1>1, <3>2, KindOf DEF BwPrograms
      <4>2. job.prog \in {"bw_mem64a", "bw_mem64d", "bw_mem64p"} => mem.size2 = 0
        BY <2>2, OneBuffer
      <4> QED
        BY <3>2, <4>1, <4>2
           DEF Allocated, Freed, Mem!cleanup, Mem64!cleanup, Mem64a!cleanup, Mem64d!cleanup,
               Mem64p!cleanup
    <3> QED
      BY <3>1, <3>2
  <2>4. held' = {}
    BY <2>1, <2>2, <2>3
  <2> QED
    BY <1>1, <2>1, <2>4, NoneHeld DEF TypesFit
<1> QED
  BY <1>2, <1>3, <1>4, <1>5, <1>6 DEF BandwidthStep

LEMMA StreamTypes ==
  ASSUME TypesFit, JobFits, StreamFits, StreamStep
  PROVE  TypesFit'
<1>1. Streaming /\ job \in StreamJobs /\ job.kernel \in DOMAIN Streams!main /\ Turns \in Nat
  BY StreamStays, KindsApart, KindOf, MemoryAssumption
<1>2. CASE StreamInit \/ StreamInitFails
  <2>1. UNCHANGED <<p, dst, loads, line, seen, turns, chain>> /\ phase' \in Early
    BY <1>2 DEF StreamInit, StreamInitFails, walk, setup, Early
  <2>2. held' \subseteq Holdings
    <3>1. CASE StreamInit
      <4>1. mem' = [a |-> "a", b |-> "b", c |-> "c"] /\ held' = Streams!cleanup(mem')
        BY <3>1 DEF StreamInit, Streams!initialize
      <4>2. held' = {"a", "b", "c"}
        BY <4>1 DEF Streams!cleanup
      <4> QED
        BY <4>2 DEF Holdings
    <3>2. CASE StreamInitFails
      BY <3>2 DEF StreamInitFails, TypesFit
    <3> QED
      BY <1>2, <3>1, <3>2
  <2> QED
    BY <2>1, <2>2, StillHeld DEF TypesFit
<1>3. CASE StreamBody
  <2>1. /\ UNCHANGED <<p, dst, line, seen, held, chain>> /\ phase' \in Early
        /\ loads' = Moved(Streams!main[job.kernel].body) /\ turns' = turns + 1 /\ turns < Turns
    BY <1>3 DEF StreamBody, Early, Moved
  <2>2. loads' \in Nat
    <3>1. \E x, y \in SUBSET {"a", "b", "c"} : Streams!main[job.kernel].body = Streams!Body(x, y)
      BY <1>1 DEF Streams!main, Streams!copy, Streams!scale, Streams!triad, Streams!fill,
                  Streams!daxpy, Streams!sum
    <3>2. PICK x \in SUBSET {"a", "b", "c"}, y \in SUBSET {"a", "b", "c"} :
                 Streams!main[job.kernel].body = Streams!Body(x, y)
      BY <3>1
    <3>3. IsFiniteSet(x) /\ IsFiniteSet(y)
      <4>1. {"a", "b", "c"} = ({"a"} \cup {"b"}) \cup {"c"}
        OBVIOUS
      <4>2. IsFiniteSet({"a"}) /\ IsFiniteSet({"a"} \cup {"b"})
        BY FS_Singleton, FS_AddElement
      <4>3. IsFiniteSet({"a", "b", "c"})
        BY <4>1, <4>2, FS_AddElement
      <4> QED
        BY <4>3, FS_Subset
    <3>4. Cardinality(x) \in Nat /\ Cardinality(y) \in Nat
      BY <3>3, FS_CardinalityType
    <3> QED
      BY <2>1, <3>2, <3>4 DEF Moved, Streams!Body
  <2> QED
    BY <1>1, <2>1, <2>2, StillHeld DEF TypesFit
<1>4. CASE StreamCleanup
  <2>1. /\ UNCHANGED <<p, dst, line, seen, chain>> /\ loads' = 0 /\ turns' = 0
        /\ held' = held \ Streams!cleanup(mem) /\ phase = "ready"
    BY <1>4 DEF StreamCleanup
  <2>2. held' = {}
    BY <1>1, <2>1 DEF StreamFits
  <2> QED
    BY <1>1, <2>1, <2>2, NoneHeld DEF TypesFit
<1> QED
  BY <1>2, <1>3, <1>4 DEF StreamStep

LEMMA ChainTypes ==
  ASSUME TypesFit, JobFits, ChainFits, ChainFits', ChainStep
  PROVE  TypesFit'
<1>1. Latency /\ job \in ChainRecords /\ Turns \in Nat
  BY ChainStays, KindsApart, MemoryAssumption
<1>2. CASE Initialize
  <2>1. /\ UNCHANGED <<p, dst, loads, seen, turns>> /\ phase' \in Early /\ line' = job.line
        /\ held' = {"addr"} /\ job' = job
        /\ phase' = "ready" \/ chain' = <<>>
    BY <1>2 DEF Initialize, walk, Early
  <2>2. line' \in Nat /\ held' \subseteq Holdings
    BY <1>1, <2>1 DEF ChainRecords, Holdings
  <2>3. DOMAIN chain' \subseteq Nat
    <3>1. CASE phase' = "ready"
      <4>1. OnChain'
        BY <1>1, <2>1, <3>1 DEF ChainFits, Latency
      <4> QED
        BY <4>1 DEF OnChain, ChainHolds
    <3>2. CASE chain' = <<>>
      BY <3>2
    <3> QED
      BY <2>1, <3>1, <3>2
  <2> QED
    BY <2>1, <2>2, <2>3, StillHeld DEF TypesFit
<1>3. CASE InitializeFails
  <2>1. UNCHANGED <<p, dst, loads, line, seen, turns, held, chain>> /\ phase' \in Early
    BY <1>3 DEF InitializeFails, walk, Early
  <2> QED
    BY <2>1, StillHeld DEF TypesFit
<1>4. CASE Walk \/ Load \/ LineTest \/ WalkEnds
  <2>1. /\ UNCHANGED <<dst, seen, held, job>> /\ phase' \in {"ready", "turn"} /\ phase' \in Early
        /\ turns' \in {turns, turns + 1} /\ (turns' = turns \/ turns < Turns)
        /\ loads' \in {0, loads, loads + 1} /\ line' \in {line, 2 * line}
        /\ phase' = "turn" \/ p' = p
    BY <1>4 DEF Walk, Load, LineTest, WalkEnds, walk, setup, Early
  <2>2. OnChain'
    BY <1>1, <2>1 DEF ChainFits, Latency
  <2>3. DOMAIN chain' \subseteq Nat /\ (phase' = "turn" => p' \in Nat)
    BY <2>2 DEF OnChain, ChainHolds, Circle, Holds
  <2> QED
    BY <1>1, <2>1, <2>3, StillHeld DEF TypesFit
<1>5. CASE MemCleanup
  <2>1. /\ UNCHANGED <<dst, seen>> /\ p' = 0 /\ loads' = 0 /\ turns' = 0 /\ line' = 0
        /\ chain' = <<>> /\ held' = held \ {"addr"} /\ phase = "ready"
    BY <1>5 DEF MemCleanup
  <2>2. held' = {}
    BY <1>1, <2>1 DEF ChainFits, Buffered
  <2>3. DOMAIN chain' \subseteq Nat
    BY <2>1
  <2> QED
    BY <1>1, <2>1, <2>2, <2>3, NoneHeld DEF TypesFit
<1> QED
  BY <1>2, <1>3, <1>4, <1>5 DEF ChainStep

LEMMA FileTypes ==
  ASSUME TypesFit, JobFits, FileFits, FileFits', FilesStep
  PROVE  TypesFit'
<1>1. /\ Files /\ Turns \in Nat
      /\ job \in [prog : FilePrograms, what : STRING, size : Nat, file : Nat, clone : BOOLEAN]
      /\ FileProgram = job.prog /\ job.prog \in {"bw_file_rd", "lat_mmap", "lat_pagefault"}
      /\ XFERSIZE \in Nat \ {0} /\ PSIZE \in Nat \ {0} /\ PageBytes \in Nat \ {0}
  BY FilesStay, JobsOfFiles, MemoryAssumption, FileAssumption
<1>2. FileHolds \subseteq Holdings /\ FileOpens \subseteq Holdings
  BY <1>1 DEF FileHolds, FileOpens, Holdings
<1>3. CASE FileRefused \/ FileInitialize \/ FileInitializeFails \/ FileTurnFails \/ FileTurnEnds
  <2>1. UNCHANGED <<p, dst, loads, line, seen, turns, chain>> /\ phase' \in Early
        /\ held' \subseteq Holdings
    BY <1>2, <1>3 DEF FileRefused, FileInitialize, FileInitializeFails, FileTurnFails,
                      FileTurnEnds, walk, setup, Early, TypesFit, Holdings
  <2> QED
    BY <2>1, StillHeld DEF TypesFit
<1>4. CASE FileTurn
  <2>1. /\ UNCHANGED <<dst, line, chain>> /\ p' = 0 /\ loads' = 0 /\ seen' = {}
        /\ turns' = turns + 1 /\ turns < Turns /\ held' = held \cup FileOpens /\ phase' \in Early
    BY <1>4 DEF FileTurn, Early
  <2> QED
    BY <1>1, <1>2, <2>1, StillHeld DEF TypesFit
<1>5. CASE FileStep
  <2>1. /\ UNCHANGED <<dst, line, turns, held, chain, job, m, mem>> /\ phase = "turn"
        /\ phase' = "turn" /\ phase' \in Early
    BY <1>5 DEF FileStep, setup, Early
  <2>2. FileWork /\ mem.file \in Nat
    BY <1>1, <2>1 DEF FileFits
  <2>3. p' \in Nat /\ loads' \in Nat /\ seen' \subseteq Nat
    <3>1. CASE ReadPiece
      <4>1. job.prog = "bw_file_rd" /\ PiecesRead
        BY <1>1, <2>2, <3>1 DEF ReadPiece, FileWork
      <4>2. /\ p' = p + Piece /\ loads' = loads + Got /\ seen' = seen
            /\ Piece = Least(job.size - p, XFERSIZE)
            /\ Got = (IF p >= mem.file THEN 0 ELSE Least(Piece, mem.file - p))
            /\ p \in Nat /\ p <= job.size /\ job.size \in Nat
        BY <1>1, <3>1, <4>1 DEF ReadPiece, Piece, Got, PiecesRead
      <4>3. Piece \in Nat
        BY <1>1, <4>2 DEF Least
      <4>4. Got \in Nat
        BY <2>2, <4>2, <4>3 DEF Least
      <4> QED
        BY <4>2, <4>3, <4>4 DEF TypesFit
    <3>2. CASE TouchMapped
      <4>1. job.prog = "lat_mmap"
        BY <1>1, <3>2 DEF TouchMapped
      <4>2. mapped.step \in Nat
        BY <1>1, <4>1, MappedFacts
      <4>3. p \in Nat /\ p \div PSIZE \in Nat
        BY <1>1, DivideFacts DEF TypesFit
      <4>4. p' = p + mapped.step /\ loads' = loads /\ seen' = seen \cup {p \div PSIZE}
        BY <3>2 DEF TouchMapped
      <4>5. seen' \subseteq Nat
        BY <4>3, <4>4 DEF TypesFit
      <4> QED
        BY <4>2, <4>3, <4>4, <4>5 DEF TypesFit
    <3>3. CASE TouchPage
      <4>1. /\ job.prog = "lat_pagefault" /\ p \in Nat /\ p < pagesOf(job.file)
            /\ seen' = seen \cup {m.pages[p] \div PageBytes} /\ loads' = loads + 1 /\ p' = p + 1
        BY <1>1, <3>3 DEF TouchPage, TypesFit
      <4>2. m.pages \in permutation(pagesOf(job.file), PageBytes)
        BY <1>1, <2>1, <4>1 DEF FileFits
      <4>3. pagesOf(job.file) \in Nat /\ p \in 0 .. pagesOf(job.file) - 1
        <5>1. pagesOf(job.file) \in Nat
          BY <1>1, DivideFacts DEF pagesOf
        <5> QED
          BY <4>1, <5>1
      <4>4. m.pages[p] \in Nat
        <5>1. PICK f \in Bijection(0 .. pagesOf(job.file) - 1, 0 .. pagesOf(job.file) - 1) :
                     m.pages = [i \in 0 .. pagesOf(job.file) - 1 |-> f[i] * PageBytes]
          BY <4>2 DEF permutation
        <5>2. f \in [0 .. pagesOf(job.file) - 1 -> 0 .. pagesOf(job.file) - 1]
          BY DEF Bijection, Injection
        <5>3. f[p] \in Nat
          BY <4>3, <5>2
        <5> QED
          BY <1>1, <4>3, <5>1, <5>3
      <4>5. m.pages[p] \div PageBytes \in Nat
        BY <1>1, <4>4, DivideFacts
      <4>6. seen' \subseteq Nat
        BY <4>1, <4>5 DEF TypesFit
      <4> QED
        BY <4>1, <4>6 DEF TypesFit
    <3> QED
      BY <1>5, <3>1, <3>2, <3>3 DEF FileStep
  <2> QED
    BY <2>1, <2>3, StillHeld DEF TypesFit
<1>6. CASE FileCleanup
  <2>1. /\ UNCHANGED <<dst, line, chain>> /\ p' = 0 /\ loads' = 0 /\ seen' = {} /\ turns' = 0
        /\ held' = held \ FileHolds /\ phase = "ready"
    BY <1>6 DEF FileCleanup
  <2>2. held' = {}
    BY <1>1, <2>1 DEF FileFits
  <2> QED
    BY <1>1, <2>1, <2>2, NoneHeld DEF TypesFit
<1> QED
  BY <1>3, <1>4, <1>5, <1>6 DEF FilesStep

LEMMA AnswerTypes ==
  ASSUME TypesFit, AnswerStep
  PROVE  TypesFit'
<1>1. UNCHANGED <<p, dst, loads, line, seen, turns, held, chain>>
      /\ phase \in {"search", "results"}
  BY DEF AnswerStep, Double, Halve, TlbFound, Merge, MemoryReport, setup, walk
<1> QED
  BY <1>1 DEF TypesFit, NothingKept

MemoryInv == ReportInv /\ EarnedInv /\ ChainFits /\ TypesFit

LEMMA MemoryTypesKept ==
  ASSUME TypesFit, EarnedInv, ChainFits, EarnedInv', ChainFits', [FileNext]_memoryVars
  PROVE  TypesFit'
<1>1. CASE UNCHANGED memoryVars
  BY <1>1 DEF memoryVars, walk, setup, TypesFit, NothingKept
<1> QED
  BY <1>1, StepsOfKinds, BandTypes, StreamTypes, ChainTypes, FileTypes, AnswerTypes
     DEF EarnedInv

LEMMA EarnedStep ==
  ASSUME EarnedInv, [FileNext]_memoryVars
  PROVE  EarnedInv'
BY JobKept, NothingYetKept, SweepKept, StreamKept, FilesKept DEF EarnedInv

LEMMA MemoryBegins ==
  ASSUME MemoryInit \/ FileInit
  PROVE  ChainFits /\ TypesFit
<1>1. InitialState
  BY DEF MemoryInit, FileInit
<1>2. Latency => job \in ChainJobs
  <2>1. JobFits /\ job \in BandwidthJobs \cup StreamJobs \cup ChainJobs \cup FileJobs
    BY EarnedBegins DEF MemoryInit, FileInit, EarnedInv
  <2> QED
    BY <2>1, KindOf DEF Latency
<1>3. ChainFits
  BY <1>1, <1>2, ChainAssumption DEF InitialState, ChainFits, Reachable
<1>4. TypesFit
  BY <1>1, MemoryAssumption DEF InitialState, TypesFit, NothingKept, Holdings
<1> QED
  BY <1>3, <1>4

LEMMA MemorySafe ==
  ASSUME MemoryInv
  PROVE  MemoryIsKept
<1>1. MemoryTypeOK
  <2>1. \A r \in Range(results) : r.u \in Times \ {0} /\ r.n \in Counts
    <3>1. results \in Seq(Measured)
      BY DEF MemoryInv, ReportInv, ListFits
    <3>2. Range(results) \subseteq Measured
      BY <3>1 DEF Range
    <3> QED
      BY <3>2 DEF Measured
  <2> QED
    BY <2>1 DEF MemoryTypeOK, MemoryInv, ReportInv, Early, TypesFit, Holdings
<1> QED
  BY <1>1, AlwaysInside DEF MemoryInv, EarnedInv, TypesFit, MemoryIsKept

(* No buffer of a memory or file program is overrun or lost, wherever malloc puts   *)
(* it: no kernel that has the buffers it needs reads or writes past the end of      *)
(* those init_loop made (cp8, cp16, cp32 and cp64 of bw_mem64, for which it makes   *)
(* no second buffer, are left out by WithBuffers), no pointer of a chain leads out  *)
(* of the allocation of base_initialize, also when line_test cuts the chain or      *)
(* malloc fails and half as much is taken, and all that was allocated, opened or    *)
(* copied is given back before the results are merged.  Runs that end in exit or    *)
(* go astray have no such obligation.                                               *)
THEOREM MemoryKept == FileSpec => []MemoryIsKept
<1>1. MemoryInit \/ FileInit => MemoryInv
  BY ReportBegins, EarnedBegins, MemoryBegins DEF MemoryInv
<1>2. MemoryInv /\ [FileNext]_memoryVars => MemoryInv'
  BY ReportInvKept, EarnedStep, ChainKept, MemoryTypesKept DEF MemoryInv, EarnedInv
<1>3. MemoryInv => MemoryIsKept
  BY MemorySafe
<1> QED
  BY <1>1, <1>2, <1>3, PTL DEF FileSpec
=============================================================================
