------------------------ MODULE TokenProgramsProofs ------------------------
(***************************************************************************)
(* Proofs about the token programs, the locks of lat_fcntl included, for   *)
(* every size of the lat_ctx ring and every number of iterations, whatever *)
(* fails or is killed.                                                     *)
(***************************************************************************)
EXTENDS FcntlLocks, FiniteSetTheorems, TLAPS

MainLabel ==
  {"setup", "open", "open2", "trip", "tripread", "loop0", "loop", "write", "read",
   "wait", "await", "gone", "release1", "release2", "wait2"}
DaemonLabel ==
  {"unborn", "new", "open2", "read", "write", "gone", "release2", "wait1", "wait2"}

(* Which labels belong to which program. *)
Labels ==
  /\ pc \in {"open", "open2"} => prog = "lat_fifo"
  /\ pc \in {"trip", "tripread"} => prog \in {"lat_ctx", "lat_pipe", "lat_fifo"}
  /\ pc \in {"read", "wait"} => prog \notin {"lat_sem", "lat_fcntl"}
  /\ pc \in {"release2", "wait2", "release1"} => prog = "lat_fcntl"
  /\ pc = "wait" => prog # "lat_ctx"
  /\ pc = "loop0" => prog \notin Small
  /\ pc = "setup" /\ prog # "lat_ctx" => st[1] \in {"unborn", "new", "read", "write", "gone", "wait2"}
  /\ \A i \in Daemons : st[i] \in {"release2", "wait1", "wait2"} => prog = "lat_fcntl"
  /\ \A i \in Daemons : st[i] = "open2" => prog = "lat_fifo"
  /\ \A i \in Daemons : st[i] = "write" => prog # "lat_fcntl"

(* Process 0 stops at MaxTrips, but for the trip that initialize makes. *)
Trips ==
  /\ pc \in {"setup", "open", "open2", "trip"} => turns[0] = 0
  /\ pc \in {"write", "release2", "wait2", "release1"} => turns[0] < MaxTrips
  /\ turns[0] <= MaxTrips \/ (turns[0] = 1 /\ prog \in {"lat_ctx", "lat_pipe", "lat_fifo"})
  /\ prog \in Small /\ st[1] \in {"write"} => turns[1] < MaxTrips
  /\ prog \in Small => turns[1] <= MaxTrips
  /\ prog = "lat_fcntl" => turns[1] <= MaxTrips + 1

(* The token goes round in pipes: not in lat_sem, whose partner makes the  *)
(* first move, nor in lat_fcntl, and in process_vs_thread until the parent *)
(* has died.                                                               *)
InRing ==
  prog \notin {"lat_sem", "lat_fcntl"} /\ ~(prog = "process_vs_thread" /\ pc = "gone")

(* What daemon j has handed on, has in its pipe or has in its hand, every  *)
(* process before it has handed on.                                        *)
InHand(j) == IF st[j] = "write" THEN 1 ELSE 0
TokenComesFrom ==
  InRing => \A j \in Daemons : \A i \in 0 .. j-1 : turns[i] >= turns[j] + buf[j-1] + InHand(j)

(* Process 0 hands on no token before it has the last one back. *)
TokenReturns == InRing => turns[0] + buf[procs-1] <= turns[procs-1] + 1

HasToken == {"setup", "open", "open2", "trip", "loop0", "loop", "write"}
TokenIsBack ==
  InRing /\ pc \in HasToken /\ (prog \in Small => pc = "setup" \/ Live(1))
    => turns[0] + buf[procs-1] <= turns[procs-1]

SemToken ==
  prog = "lat_sem" =>
    /\ buf[0] + buf[1] + InHand(1) <= 1
    /\ turns[1] = turns[0] + buf[1]
    /\ st[1] \in {"unborn", "new"} => buf[0] = 0 /\ buf[1] = 0

(* The ends of the small programs. *)
SmallEnds ==
  prog \in Small =>
    /\ pc = "setup" => rd[0] = {0, 1} /\ wr[0] = {0, 1}
    /\ pc \in {"loop", "write", "read"} => rd[0] = {1} /\ wr[0] = {0}
    /\ pc \in {"wait", "await"} /\ prog = "process_vs_thread" => 0 \in wr[0]
    /\ pc = "gone" => rd[0] = {} /\ wr[0] = {}
    /\ st[1] = "new" => 1 \in wr[1]
    /\ st[1] \in {"read", "write"} => rd[1] = {0} /\ wr[1] = {1}
    /\ st[1] \in {"unborn", "gone"} => rd[1] = {} /\ wr[1] = {}

(* Left alone, the child of a small program leaves after its last round. *)
SmallChild ==
  /\ prog \in Small /\ ok /\ pc \in {"setup", "loop", "write", "read"} =>
       /\ pc # "setup" => st[1] # "unborn"
       /\ st[1] = "gone" => turns[1] = MaxTrips
  /\ prog = "process_vs_thread" /\ pc = "gone" => buf[0] <= 1 /\ buf[1] <= 1

(* The locks.  Process 0 has both, but for what it has released in its     *)
(* round; the partner gets at most as far as process 0 has released.       *)
AHas(k) == IF k = 1 THEN pc \notin {"loop", "write"} \/ turns[0] = 0 ELSE pc # "wait2"
FcntlLocked ==
  prog = "lat_fcntl" =>
    /\ rd[0] = {} /\ wr[0] = {} /\ rd[1] = {} /\ wr[1] = {} /\ buf[0] = 0 /\ buf[1] = 0
    /\ held[0] \cap held[1] = {}
    /\ pc \notin {"await", "gone"} =>
         /\ \A k \in {1, 2} : AHas(k) => k \in held[0]
         /\ turns[1] <= turns[0]
         /\ st[1] \in {"release2", "wait1"} =>
              turns[1] + 1 <= turns[0] + (IF pc \in {"wait2", "release1"} THEN 1 ELSE 0)

Types ==
  /\ prog \in Programs
  /\ pc \in MainLabel
  /\ sigchld \in {"exit", "default"}
  /\ st \in [Daemons -> DaemonLabel]
  /\ buf \in [Pipes -> Nat]
  /\ rd \in [Pipes -> SUBSET Pipes] /\ wr \in [Pipes -> SUBSET Pipes]
  /\ turns \in [Pipes -> Nat]
  /\ ok \in BOOLEAN
  /\ held \in [{0, 1} -> SUBSET {1, 2}]

IInv ==
  /\ Types /\ Labels /\ Trips /\ TokenComesFrom /\ TokenReturns /\ TokenIsBack
  /\ SemToken /\ SmallEnds /\ SmallChild /\ FcntlLocked

(* The sizes, as the proofs use them. *)
LEMMA Size ==
  /\ procs \in Nat /\ procs >= 2 /\ MaxTrips \in Nat
  /\ 0 \in Pipes /\ 0 \notin Daemons /\ 1 \in Pipes /\ 1 \in Daemons
  /\ procs-1 \in Daemons /\ procs-1 \in Pipes
  /\ \A i \in Daemons : i \in Nat /\ i >= 1 /\ i <= procs-1 /\ i \in Pipes /\ i-1 \in Pipes
  /\ \A p \in Pipes : p \in Nat /\ p <= procs-1 /\ (p = 0 \/ p \in Daemons)
  /\ prog # "lat_ctx" => procs = 2 /\ Pipes = {0, 1} /\ Daemons = {1}
  BY TokenProgramsAssumption DEF procs, Pipes, Daemons

LEMMA SameSize ==
  prog' = prog => procs' = procs /\ Pipes' = Pipes /\ Daemons' = Daemons
  BY DEF procs, Pipes, Daemons

LEMMA SameProgram == [FcntlNext]_fcntlVars => prog' = prog
  BY DEF FcntlNext, Next, Main, Failure, Daemon, procA, procB, Fork, ForksDone, OpenFifo,
         Send, Receive, ReadUnchecked, SemTrip, MainGivesUp, NextInterval, Cleanup, Reap,
         Exit, SetupFails, CtxForkFails, ForkFails, MainKilled, DaemonKilled, Settle,
         DaemonRead, DaemonWrite, DaemonGivesUp, ProcChildMisreads,
         fcntlVars, vars

LEMMA TypesKept == IInv /\ [FcntlNext]_fcntlVars => Types'
<1> SUFFICES ASSUME IInv, [FcntlNext]_fcntlVars PROVE Types'
  OBVIOUS
<1>a. prog' = prog /\ procs' = procs /\ Pipes' = Pipes /\ Daemons' = Daemons
  BY SameProgram, SameSize
<1>b. Types
  BY DEF IInv
<1>1. ASSUME NEW i \in Daemons, Fork(i), Unlocked PROVE Types'
  BY <1>a, <1>b, <1>1, Size DEF Types, Fork, Move, Hold, MainLabel, DaemonLabel, Unlocked
<1>2. CASE ForksDone /\ Unlocked
  BY <1>a, <1>b, <1>2, Size
     DEF Types, ForksDone, CtxForked, PipeForked, FifoForked, UnixForked, SemForked,
         FcntlForked, ProcForked, FixedForked, Goto, Hold, MainLabel, DaemonLabel, Unlocked
<1>3. CASE OpenFifo /\ Unlocked
  BY <1>a, <1>b, <1>3, Size
     DEF Types, OpenFifo, Goto, Move, MainLabel, DaemonLabel, Unlocked
<1>4. CASE Send /\ Unlocked
  BY <1>a, <1>b, <1>4, Size
     DEF Types, Send, Goto, Put, Turn, MainLabel, DaemonLabel, Unlocked
<1>5. CASE Receive /\ Unlocked
  BY <1>a, <1>b, <1>5, Size
     DEF Types, Receive, Goto, Take, Readable, MainLabel, DaemonLabel, Unlocked
<1>6. CASE ReadUnchecked /\ Unlocked
  BY <1>a, <1>b, <1>6, Size
     DEF Types, ReadUnchecked, Goto, AtEof, MainLabel, DaemonLabel, Unlocked
<1>7. CASE SemTrip /\ Unlocked
  BY <1>a, <1>b, <1>7, Size
     DEF Types, SemTrip, Goto, Turn, Readable, MainLabel, DaemonLabel, Unlocked
<1>8. CASE MainGivesUp /\ Unlocked
  BY <1>a, <1>b, <1>8, Size
     DEF Types, MainGivesUp, MainGone, Goto, Hold, MainLabel, DaemonLabel, Unlocked
<1>9. CASE NextInterval /\ Unlocked
  BY <1>a, <1>b, <1>9, Size DEF Types, NextInterval, Goto, MainLabel, DaemonLabel, Unlocked
<1>10. CASE Cleanup /\ Unlocked
  BY <1>a, <1>b, <1>10, Size
     DEF Types, Cleanup, CtxCleanup, PipeCleanup, UnixCleanup, SemCleanup, FifoCleanup,
         FcntlCleanup, ProcEnds, FixedEnds, AllRounds, KillDaemons, Goto, Hold, MainLabel,
         DaemonLabel, Unlocked, Live
<1>11. CASE Reap /\ Unlocked
  BY <1>a, <1>b, <1>11, Size DEF Types, Reap, Goto, MainLabel, DaemonLabel, Unlocked, Live
<1>12. CASE Exit /\ Unlocked
  BY <1>a, <1>b, <1>12, Size
     DEF Types, Exit, MainGone, Goto, Hold, MainLabel, DaemonLabel, Unlocked
<1>13. CASE SetupFails /\ Unlocked
  BY <1>a, <1>b, <1>13, Size
     DEF Types, SetupFails, MainGone, Goto, Hold, MainLabel, DaemonLabel, Unlocked
<1>14. CASE CtxForkFails /\ Unlocked
  BY <1>a, <1>b, <1>14, Size
     DEF Types, CtxForkFails, Goto, MainLabel, DaemonLabel, Unlocked, Live
<1>15. CASE ForkFails /\ Unlocked
  <2>1. rd' \in [Pipes -> SUBSET Pipes] /\ wr' \in [Pipes -> SUBSET Pipes]
    BY <1>a, <1>b, <1>15, Size
       DEF Types, ForkFails, FixedForkFails, ProcForkFails, PairForkFails, MainGone, Hold
  <2>2. pc' \in MainLabel /\ held' \in [{0, 1} -> SUBSET {1, 2}]
    BY <1>a, <1>b, <1>15
       DEF Types, ForkFails, FixedForkFails, ProcForkFails, PairForkFails, MainGone, Goto,
           MainLabel, Unlocked
  <2> QED
    BY <1>a, <1>b, <1>15, <2>1, <2>2 DEF Types, ForkFails
<1>16. CASE MainKilled /\ Unlocked
  BY <1>a, <1>b, <1>16, Size
     DEF Types, MainKilled, MainGone, Goto, Hold, MainLabel, DaemonLabel, Unlocked
<1>17. ASSUME NEW i \in Daemons, DaemonKilled(i), Unlocked PROVE Types'
  BY <1>a, <1>b, <1>17, Size
     DEF Types, DaemonKilled, DaemonGone, Move, MainLabel, DaemonLabel, Unlocked, Live
<1>18. ASSUME NEW i \in Daemons, Settle(i), Unlocked PROVE Types'
  <2>1. rd' \in [Pipes -> SUBSET Pipes] /\ wr' \in [Pipes -> SUBSET Pipes]
    BY <1>a, <1>b, <1>18, Size
       DEF Types, Settle, CtxDaemonStart, PipeWriterStart, UnixPartnerStart, SemWriterStart,
           ProcChildStart, FixedChildStart, FcntlPartnerStart, Hold
  <2>2. buf' \in [Pipes -> Nat] /\ turns' \in [Pipes -> Nat]
    BY <1>a, <1>b, <1>18, Size
       DEF Types, Settle, CtxDaemonStart, PipeWriterStart, UnixPartnerStart, SemWriterStart,
           ProcChildStart, FixedChildStart, FcntlPartnerStart, Put, Turn
  <2>3. held' \in [{0, 1} -> SUBSET {1, 2}]
    BY <1>a, <1>b, <1>18 DEF Types, Unlocked
  <2>4. st' \in [Daemons -> DaemonLabel]
    BY <1>a, <1>b, <1>18 DEF Types, Settle, Move, DaemonLabel
  <2> QED
    BY <1>a, <1>b, <1>18, <2>1, <2>2, <2>3, <2>4 DEF Types, Settle
<1>19. ASSUME NEW i \in Daemons, DaemonRead(i), Unlocked PROVE Types'
  BY <1>a, <1>b, <1>19, Size
     DEF Types, DaemonRead, Readable, RoundsLeft, Take, Move, MainLabel, DaemonLabel,
         Unlocked
<1>20. ASSUME NEW i \in Daemons, DaemonWrite(i), Unlocked PROVE Types'
  BY <1>a, <1>b, <1>20, Size
     DEF Types, DaemonWrite, Put, Turn, Move, MainLabel, DaemonLabel, Unlocked
<1>21. ASSUME NEW i \in Daemons, DaemonGivesUp(i), Unlocked PROVE Types'
  BY <1>a, <1>b, <1>21, Size
     DEF Types, DaemonGivesUp, DaemonGone, CtxDoitEnds, UnixEchoEnds, FixedChildEnds,
         AllDone, WriteFails, Move, MainLabel, DaemonLabel, Unlocked
<1>22. ASSUME NEW i \in Daemons, ProcChildMisreads(i), Unlocked PROVE Types'
  BY <1>a, <1>b, <1>22, Size
     DEF Types, ProcChildMisreads, RoundsLeft, Move, AtEof, MainLabel, DaemonLabel, Unlocked
<1>23. CASE procA
  BY <1>a, <1>b, <1>23, Size
     DEF Types, procA, waiton, release, Goto, Turn, MainLabel, DaemonLabel
<1>24. CASE procB
  BY <1>a, <1>b, <1>24, Size
     DEF Types, procB, waiton, release, Move, Turn, MainLabel, DaemonLabel
<1>25. CASE UNCHANGED fcntlVars
  BY <1>a, <1>b, <1>25 DEF fcntlVars, vars, Types, MainLabel, DaemonLabel
<1> QED
  BY <1>1, <1>2, <1>3, <1>4, <1>5, <1>6, <1>7, <1>8, <1>9, <1>10, <1>11, <1>12, <1>13,
     <1>14, <1>15, <1>16, <1>17, <1>18, <1>19, <1>20, <1>21, <1>22, <1>23, <1>24, <1>25
     DEF FcntlNext, Next, Main, Failure, Daemon

LEMMA LabelsKept == IInv /\ [FcntlNext]_fcntlVars => Labels'
<1> SUFFICES ASSUME IInv, [FcntlNext]_fcntlVars PROVE Labels'
  OBVIOUS
<1>a. prog' = prog /\ procs' = procs /\ Pipes' = Pipes /\ Daemons' = Daemons
  BY SameProgram, SameSize
<1>b. Types /\ Labels /\ FcntlLocked
  BY DEF IInv
<1>1. ASSUME NEW i \in Daemons, Fork(i), Unlocked PROVE Labels'
  BY <1>a, <1>b, <1>1, Size
     DEF Labels, MainLabel, DaemonLabel, Small, FcntlLocked, AHas, Types, Fork, Move, Hold
<1>2. CASE ForksDone /\ Unlocked
  BY <1>a, <1>b, <1>2, Size
     DEF Labels, MainLabel, DaemonLabel, Small, FcntlLocked, AHas, Types, ForksDone,
         CtxForked, PipeForked, FifoForked, UnixForked, SemForked, FcntlForked, ProcForked,
         FixedForked, Goto, Hold
<1>3. CASE OpenFifo /\ Unlocked
  BY <1>a, <1>b, <1>3, Size
     DEF Labels, MainLabel, DaemonLabel, Small, FcntlLocked, AHas, Types, OpenFifo, Goto,
         Move
<1>4. CASE Send /\ Unlocked
  BY <1>a, <1>b, <1>4, Size
     DEF Labels, MainLabel, DaemonLabel, Small, FcntlLocked, AHas, Types, Send, Goto, Put,
         Turn
<1>5. CASE Receive /\ Unlocked
  BY <1>a, <1>b, <1>5, Size
     DEF Labels, MainLabel, DaemonLabel, Small, FcntlLocked, AHas, Types, Receive, Goto,
         Take, Readable
<1>6. CASE ReadUnchecked /\ Unlocked
  BY <1>a, <1>b, <1>6, Size
     DEF Labels, MainLabel, DaemonLabel, Small, FcntlLocked, AHas, Types, ReadUnchecked,
         Goto, AtEof
<1>7. CASE SemTrip /\ Unlocked
  BY <1>a, <1>b, <1>7, Size
     DEF Labels, MainLabel, DaemonLabel, Small, FcntlLocked, AHas, Types, SemTrip, Goto,
         Turn, Readable
<1>8. CASE MainGivesUp /\ Unlocked
  BY <1>a, <1>b, <1>8, Size
     DEF Labels, MainLabel, DaemonLabel, Small, FcntlLocked, AHas, Types, MainGivesUp,
         MainGone, Goto, Hold
<1>9. CASE NextInterval /\ Unlocked
  BY <1>a, <1>b, <1>9, Size
     DEF Labels, MainLabel, DaemonLabel, Small, FcntlLocked, AHas, Types, NextInterval, Goto
<1>10. CASE Cleanup /\ Unlocked
  BY <1>a, <1>b, <1>10, Size
     DEF Labels, MainLabel, DaemonLabel, Live, Small, FcntlLocked, AHas, Types, Cleanup,
         CtxCleanup, PipeCleanup, UnixCleanup, SemCleanup, FifoCleanup, FcntlCleanup,
         ProcEnds, FixedEnds, AllRounds, KillDaemons, Goto, Hold
<1>11. CASE Reap /\ Unlocked
  BY <1>a, <1>b, <1>11, Size
     DEF Labels, MainLabel, DaemonLabel, Live, Small, FcntlLocked, AHas, Types, Reap, Goto
<1>12. CASE Exit /\ Unlocked
  BY <1>a, <1>b, <1>12, Size
     DEF Labels, MainLabel, DaemonLabel, Small, FcntlLocked, AHas, Types, Exit, MainGone,
         Goto, Hold
<1>13. CASE SetupFails /\ Unlocked
  BY <1>a, <1>b, <1>13, Size
     DEF Labels, MainLabel, DaemonLabel, Small, FcntlLocked, AHas, Types, SetupFails,
         MainGone, Goto, Hold
<1>14. CASE CtxForkFails /\ Unlocked
  BY <1>a, <1>b, <1>14, Size
     DEF Labels, MainLabel, DaemonLabel, Live, Small, FcntlLocked, AHas, Types,
         CtxForkFails, Goto
<1>15. CASE ForkFails /\ Unlocked
  BY <1>a, <1>b, <1>15, Size
     DEF Labels, MainLabel, DaemonLabel, Small, FcntlLocked, AHas, Types, ForkFails,
         FixedForkFails, ProcForkFails, PairForkFails, MainGone, Goto, Hold
<1>16. CASE MainKilled /\ Unlocked
  BY <1>a, <1>b, <1>16, Size
     DEF Labels, MainLabel, DaemonLabel, Small, FcntlLocked, AHas, Types, MainKilled,
         MainGone, Goto, Hold
<1>17. ASSUME NEW i \in Daemons, DaemonKilled(i), Unlocked PROVE Labels'
  BY <1>a, <1>b, <1>17, Size
     DEF Labels, MainLabel, DaemonLabel, Live, Small, FcntlLocked, AHas, Types,
         DaemonKilled, DaemonGone, Move
<1>18. ASSUME NEW i \in Daemons, Settle(i), Unlocked PROVE Labels'
  BY <1>a, <1>b, <1>18, Size
     DEF Labels, MainLabel, DaemonLabel, Small, FcntlLocked, AHas, Types, Settle,
         CtxDaemonStart, PipeWriterStart, UnixPartnerStart, SemWriterStart, ProcChildStart,
         FixedChildStart, FcntlPartnerStart, Move, Hold, Put, Turn
<1>19. ASSUME NEW i \in Daemons, DaemonRead(i), Unlocked PROVE Labels'
  BY <1>a, <1>b, <1>19, Size
     DEF Labels, MainLabel, DaemonLabel, Small, FcntlLocked, AHas, Types, DaemonRead,
         Readable, RoundsLeft, Take, Move
<1>20. ASSUME NEW i \in Daemons, DaemonWrite(i), Unlocked PROVE Labels'
  BY <1>a, <1>b, <1>20, Size
     DEF Labels, MainLabel, DaemonLabel, Small, FcntlLocked, AHas, Types, DaemonWrite, Put,
         Turn, Move
<1>21. ASSUME NEW i \in Daemons, DaemonGivesUp(i), Unlocked PROVE Labels'
  BY <1>a, <1>b, <1>21, Size
     DEF Labels, MainLabel, DaemonLabel, Small, FcntlLocked, AHas, Types, DaemonGivesUp,
         DaemonGone, CtxDoitEnds, UnixEchoEnds, FixedChildEnds, AllDone, WriteFails, Move
<1>22. ASSUME NEW i \in Daemons, ProcChildMisreads(i), Unlocked PROVE Labels'
  BY <1>a, <1>b, <1>22, Size
     DEF Labels, MainLabel, DaemonLabel, Small, FcntlLocked, AHas, Types, ProcChildMisreads,
         RoundsLeft, Move, AtEof
<1>23. CASE procA
  BY <1>a, <1>b, <1>23, Size
     DEF Labels, MainLabel, DaemonLabel, Small, FcntlLocked, AHas, Types, procA, waiton,
         release, Goto, Turn
<1>24. CASE procB
  BY <1>a, <1>b, <1>24, Size
     DEF Labels, MainLabel, DaemonLabel, Small, FcntlLocked, AHas, Types, procB, waiton,
         release, Move, Turn
<1>25. CASE UNCHANGED fcntlVars
  BY <1>a, <1>b, <1>25 DEF fcntlVars, vars, Labels, Small, FcntlLocked, AHas
<1> QED
  BY <1>1, <1>2, <1>3, <1>4, <1>5, <1>6, <1>7, <1>8, <1>9, <1>10, <1>11, <1>12, <1>13,
     <1>14, <1>15, <1>16, <1>17, <1>18, <1>19, <1>20, <1>21, <1>22, <1>23, <1>24, <1>25
     DEF FcntlNext, Next, Main, Failure, Daemon

LEMMA TripsKept == IInv /\ [FcntlNext]_fcntlVars => Trips'
<1> SUFFICES ASSUME IInv, [FcntlNext]_fcntlVars PROVE Trips'
  OBVIOUS
<1>a. prog' = prog /\ procs' = procs /\ Pipes' = Pipes /\ Daemons' = Daemons
  BY SameProgram, SameSize
<1>b. Types /\ Labels /\ Trips
  BY DEF IInv
<1>1. ASSUME NEW i \in Daemons, Fork(i), Unlocked PROVE Trips'
  BY <1>a, <1>b, <1>1, Size DEF Trips, Labels, Small, Types, Fork, Move, Hold
<1>2. CASE ForksDone /\ Unlocked
  BY <1>a, <1>b, <1>2, Size
     DEF Trips, Labels, Small, Types, ForksDone, CtxForked, PipeForked, FifoForked,
         UnixForked, SemForked, FcntlForked, ProcForked, FixedForked, Goto, Hold
<1>3. CASE OpenFifo /\ Unlocked
  BY <1>a, <1>b, <1>3, Size DEF Trips, Labels, Small, Types, OpenFifo, Goto, Move
<1>4. CASE Send /\ Unlocked
  BY <1>a, <1>b, <1>4, Size DEF Trips, Labels, Small, Types, Send, Goto, Put, Turn
<1>5. CASE Receive /\ Unlocked
  BY <1>a, <1>b, <1>5, Size DEF Trips, Labels, Small, Types, Receive, Goto, Take, Readable
<1>6. CASE ReadUnchecked /\ Unlocked
  BY <1>a, <1>b, <1>6, Size DEF Trips, Labels, Small, Types, ReadUnchecked, Goto, AtEof
<1>7. CASE SemTrip /\ Unlocked
  BY <1>a, <1>b, <1>7, Size DEF Trips, Labels, Small, Types, SemTrip, Goto, Turn, Readable
<1>8. CASE MainGivesUp /\ Unlocked
  BY <1>a, <1>b, <1>8, Size
     DEF Trips, Labels, Small, Types, MainGivesUp, MainGone, Goto, Hold
<1>9. CASE NextInterval /\ Unlocked
  BY <1>a, <1>b, <1>9, Size DEF Trips, Labels, Small, Types, NextInterval, Goto
<1>10. CASE Cleanup /\ Unlocked
  BY <1>a, <1>b, <1>10, Size
     DEF Trips, Labels, Small, Live, Types, Cleanup, CtxCleanup, PipeCleanup, UnixCleanup,
         SemCleanup, FifoCleanup, FcntlCleanup, ProcEnds, FixedEnds, AllRounds, KillDaemons,
         Goto, Hold
<1>11. CASE Reap /\ Unlocked
  BY <1>a, <1>b, <1>11, Size DEF Trips, Labels, Small, Live, Types, Reap, Goto
<1>12. CASE Exit /\ Unlocked
  BY <1>a, <1>b, <1>12, Size DEF Trips, Labels, Small, Types, Exit, MainGone, Goto, Hold
<1>13. CASE SetupFails /\ Unlocked
  BY <1>a, <1>b, <1>13, Size
     DEF Trips, Labels, Small, Types, SetupFails, MainGone, Goto, Hold
<1>14. CASE CtxForkFails /\ Unlocked
  BY <1>a, <1>b, <1>14, Size DEF Trips, Labels, Small, Live, Types, CtxForkFails, Goto
<1>15. CASE ForkFails /\ Unlocked
  BY <1>a, <1>b, <1>15, Size
     DEF Trips, Labels, Small, Types, ForkFails, FixedForkFails, ProcForkFails,
         PairForkFails, MainGone, Goto, Hold
<1>16. CASE MainKilled /\ Unlocked
  BY <1>a, <1>b, <1>16, Size
     DEF Trips, Labels, Small, Types, MainKilled, MainGone, Goto, Hold
<1>17. ASSUME NEW i \in Daemons, DaemonKilled(i), Unlocked PROVE Trips'
  BY <1>a, <1>b, <1>17, Size
     DEF Trips, Labels, Small, Live, Types, DaemonKilled, DaemonGone, Move
<1>18. ASSUME NEW i \in Daemons, Settle(i), Unlocked PROVE Trips'
  BY <1>a, <1>b, <1>18, Size
     DEF Trips, Labels, Small, Types, Settle, CtxDaemonStart, PipeWriterStart,
         UnixPartnerStart, SemWriterStart, ProcChildStart, FixedChildStart,
         FcntlPartnerStart, Move, Hold, Put, Turn
<1>19. ASSUME NEW i \in Daemons, DaemonRead(i), Unlocked PROVE Trips'
  BY <1>a, <1>b, <1>19, Size
     DEF Trips, Labels, Small, Types, DaemonRead, Readable, RoundsLeft, Take, Move
<1>20. ASSUME NEW i \in Daemons, DaemonWrite(i), Unlocked PROVE Trips'
  BY <1>a, <1>b, <1>20, Size DEF Trips, Labels, Small, Types, DaemonWrite, Put, Turn, Move
<1>21. ASSUME NEW i \in Daemons, DaemonGivesUp(i), Unlocked PROVE Trips'
  BY <1>a, <1>b, <1>21, Size
     DEF Trips, Labels, Small, Types, DaemonGivesUp, DaemonGone, CtxDoitEnds, UnixEchoEnds,
         FixedChildEnds, AllDone, WriteFails, Move
<1>22. ASSUME NEW i \in Daemons, ProcChildMisreads(i), Unlocked PROVE Trips'
  BY <1>a, <1>b, <1>22, Size
     DEF Trips, Labels, Small, Types, ProcChildMisreads, RoundsLeft, Move, AtEof
<1>23. CASE procA
  BY <1>a, <1>b, <1>23, Size
     DEF Trips, Labels, Small, Types, procA, waiton, release, Goto, Turn
<1>24. CASE procB
  BY <1>a, <1>b, <1>24, Size
     DEF Trips, Labels, Small, Types, procB, waiton, release, Move, Turn
<1>25. CASE UNCHANGED fcntlVars
  BY <1>a, <1>b, <1>25 DEF fcntlVars, vars, Trips, Labels, Small
<1> QED
  BY <1>1, <1>2, <1>3, <1>4, <1>5, <1>6, <1>7, <1>8, <1>9, <1>10, <1>11, <1>12, <1>13,
     <1>14, <1>15, <1>16, <1>17, <1>18, <1>19, <1>20, <1>21, <1>22, <1>23, <1>24, <1>25
     DEF FcntlNext, Next, Main, Failure, Daemon

(* A step that moves no token and gives none to a daemon. *)
LEMMA NoNewToken ==
  ASSUME Types, TokenComesFrom, InRing' => InRing, Daemons' = Daemons,
         buf' = buf, turns' = turns, \A j \in Daemons : st'[j] = "write" => st[j] = "write"
  PROVE  TokenComesFrom'
<1> SUFFICES ASSUME InRing', NEW j \in Daemons, NEW k \in 0 .. j-1
             PROVE  turns'[k] >= turns'[j] + buf'[j-1] + InHand(j)'
  BY DEF TokenComesFrom
<1>1. turns[k] >= turns[j] + buf[j-1] + InHand(j)
  BY DEF TokenComesFrom
<1>2. InHand(j)' \in {0, 1} /\ InHand(j) \in {0, 1} /\ InHand(j)' <= InHand(j)
  <2>1. st'[j] = "write" => st[j] = "write"
    OBVIOUS
  <2> QED
    BY <2>1 DEF InHand
<1>3. j \in Pipes /\ k \in Pipes /\ j-1 \in Pipes
  BY Size DEF Pipes, Daemons
<1>4. turns[k] \in Nat /\ turns[j] \in Nat /\ buf[j-1] \in Nat
  BY <1>3 DEF Types
<1> QED
  BY <1>1, <1>2, <1>4

LEMMA TokenComesFromKept == IInv /\ [FcntlNext]_fcntlVars => TokenComesFrom'
<1> SUFFICES ASSUME IInv, [FcntlNext]_fcntlVars PROVE TokenComesFrom'
  OBVIOUS
<1>a. prog' = prog /\ procs' = procs /\ Pipes' = Pipes /\ Daemons' = Daemons
  BY SameProgram, SameSize
<1>b. Types /\ Labels /\ SmallEnds /\ TokenComesFrom
  BY DEF IInv
<1>1. ASSUME NEW i \in Daemons, Fork(i), Unlocked PROVE TokenComesFrom'
  BY <1>a, <1>b, <1>1, Size
     DEF TokenComesFrom, Labels, SmallEnds, InHand, InRing, Small, Types, Fork, Move, Hold
<1>2. CASE ForksDone /\ Unlocked
  BY <1>a, <1>b, <1>2, Size
     DEF TokenComesFrom, Labels, SmallEnds, InHand, InRing, Small, Types, ForksDone,
         CtxForked, PipeForked, FifoForked, UnixForked, SemForked, FcntlForked, ProcForked,
         FixedForked, Goto, Hold
<1>3. CASE OpenFifo /\ Unlocked
  BY <1>a, <1>b, <1>3, Size
     DEF TokenComesFrom, Labels, SmallEnds, InHand, InRing, Small, Types, OpenFifo, Goto,
         Move
<1>4. CASE Send /\ Unlocked
  BY <1>a, <1>b, <1>4, Size
     DEF TokenComesFrom, Labels, SmallEnds, InHand, InRing, Small, Types, Send, Goto, Put,
         Turn
<1>5. CASE Receive /\ Unlocked
  BY <1>a, <1>b, <1>5, Size
     DEF TokenComesFrom, Labels, SmallEnds, InHand, InRing, Small, Types, Receive, Goto,
         Take, Readable
<1>6. CASE ReadUnchecked /\ Unlocked
  BY <1>a, <1>b, <1>6, Size
     DEF TokenComesFrom, Labels, SmallEnds, InHand, InRing, Small, Types, ReadUnchecked,
         Goto, AtEof
<1>7. CASE SemTrip /\ Unlocked
  BY <1>a, <1>b, <1>7, Size
     DEF TokenComesFrom, Labels, SmallEnds, InHand, InRing, Small, Types, SemTrip, Goto,
         Turn, Readable
<1>8. CASE MainGivesUp /\ Unlocked
  BY <1>a, <1>b, <1>8, Size
     DEF TokenComesFrom, Labels, SmallEnds, InHand, InRing, Small, Types, MainGivesUp,
         MainGone, Goto, Hold
<1>9. CASE NextInterval /\ Unlocked
  BY <1>a, <1>b, <1>9, Size
     DEF TokenComesFrom, Labels, SmallEnds, InHand, InRing, Small, Types, NextInterval, Goto
<1>10. CASE Cleanup /\ Unlocked
  <2>1. /\ InRing' => InRing
        /\ buf' = buf /\ turns' = turns
        /\ \A j \in Daemons : st'[j] = "write" => st[j] = "write"
    BY <1>a, <1>b, <1>10, Size
       DEF InRing, Types, Cleanup, CtxCleanup, PipeCleanup, UnixCleanup, SemCleanup,
           FifoCleanup, FcntlCleanup, ProcEnds, FixedEnds, AllRounds, KillDaemons, Goto,
           Hold
  <2> QED
    BY <1>a, <1>b, <2>1, NoNewToken
<1>11. CASE Reap /\ Unlocked
  BY <1>a, <1>b, <1>11, Size
     DEF TokenComesFrom, Labels, SmallEnds, InHand, InRing, Small, Types, Reap, Goto
<1>12. CASE Exit /\ Unlocked
  BY <1>a, <1>b, <1>12, Size
     DEF TokenComesFrom, Labels, SmallEnds, InHand, InRing, Small, Types, Exit, MainGone,
         Goto, Hold
<1>13. CASE SetupFails /\ Unlocked
  BY <1>a, <1>b, <1>13, Size
     DEF TokenComesFrom, Labels, SmallEnds, InHand, InRing, Small, Types, SetupFails,
         MainGone, Goto, Hold
<1>14. CASE CtxForkFails /\ Unlocked
  BY <1>a, <1>b, <1>14, Size
     DEF TokenComesFrom, Labels, SmallEnds, InHand, InRing, Small, Types, CtxForkFails, Goto
<1>15. CASE ForkFails /\ Unlocked
  BY <1>a, <1>b, <1>15, Size
     DEF TokenComesFrom, Labels, SmallEnds, InHand, InRing, Small, Types, ForkFails,
         FixedForkFails, ProcForkFails, PairForkFails, MainGone, Goto, Hold
<1>16. CASE MainKilled /\ Unlocked
  BY <1>a, <1>b, <1>16, Size
     DEF TokenComesFrom, Labels, SmallEnds, InHand, InRing, Small, Types, MainKilled,
         MainGone, Goto, Hold
<1>17. ASSUME NEW i \in Daemons, DaemonKilled(i), Unlocked PROVE TokenComesFrom'
  <2>1. /\ InRing' => InRing
        /\ buf' = buf /\ turns' = turns
        /\ \A j \in Daemons : st'[j] = "write" => st[j] = "write"
    BY <1>a, <1>b, <1>17, Size DEF InRing, Types, DaemonKilled, DaemonGone, Move
  <2> QED
    BY <1>a, <1>b, <2>1, NoNewToken
<1>18. ASSUME NEW i \in Daemons, Settle(i), Unlocked PROVE TokenComesFrom'
  BY <1>a, <1>b, <1>18, Size
     DEF TokenComesFrom, Labels, SmallEnds, InHand, InRing, Small, Types, Settle,
         CtxDaemonStart, PipeWriterStart, UnixPartnerStart, SemWriterStart, ProcChildStart,
         FixedChildStart, FcntlPartnerStart, Move, Hold, Put, Turn
<1>19. ASSUME NEW i \in Daemons, DaemonRead(i), Unlocked PROVE TokenComesFrom'
  BY <1>a, <1>b, <1>19, Size
     DEF TokenComesFrom, Labels, SmallEnds, InHand, InRing, Small, Types, DaemonRead,
         Readable, RoundsLeft, Take, Move
<1>20. ASSUME NEW i \in Daemons, DaemonWrite(i), Unlocked PROVE TokenComesFrom'
  <2> SUFFICES ASSUME InRing', NEW j \in Daemons, NEW k \in 0 .. j-1
               PROVE  turns'[k] >= turns'[j] + buf'[j-1] + InHand(j)'
    BY <1>a DEF TokenComesFrom
  <2>1. InRing
    BY <1>a, <1>20 DEF InRing, DaemonWrite
  <2>2. /\ i \in Nat /\ j \in Nat /\ k \in Nat /\ k < j
        /\ i \in Pipes /\ j \in Pipes /\ k \in Pipes /\ j-1 \in Pipes
    BY Size DEF Pipes, Daemons
  <2>3. \A p \in Pipes : buf[p] \in Nat /\ turns[p] \in Nat
    BY <1>b DEF Types
  <2>4. /\ buf'[i] = buf[i] + 1 /\ \A p \in Pipes : p # i => buf'[p] = buf[p]
        /\ turns'[i] = turns[i] + 1 /\ \A p \in Pipes : p # i => turns'[p] = turns[p]
        /\ InHand(i) = 1 /\ InHand(i)' = 0
        /\ \A q \in Daemons : InHand(q) \in {0, 1} /\ (q # i => InHand(q)' = InHand(q))
    BY <1>b, <1>20, <2>2 DEF Types, DaemonWrite, Put, Turn, Move, InHand
  <2>5. turns[k] >= turns[j] + buf[j-1] + InHand(j)
    BY <1>b, <2>1 DEF TokenComesFrom
  <2>6. CASE j = i
    BY <2>2, <2>3, <2>4, <2>5, <2>6
  <2>7. CASE j # i /\ j-1 # i
    BY <2>2, <2>3, <2>4, <2>5, <2>7
  <2>8. CASE j-1 = i /\ k = i
    BY <2>2, <2>3, <2>4, <2>5, <2>8
  <2>9. CASE j-1 = i /\ k # i
    <3>1. turns[k] >= turns[i] + buf[i-1] + InHand(i)
      BY <1>b, <2>1, <2>2, <2>9 DEF TokenComesFrom
    <3>2. turns[i] >= turns[j] + buf[j-1] + InHand(j) /\ buf[i-1] \in Nat
      BY <1>b, <2>1, <2>2, <2>3, <2>9, Size DEF TokenComesFrom
    <3> QED
      BY <2>2, <2>3, <2>4, <2>9, <3>1, <3>2
  <2> QED
    BY <2>6, <2>7, <2>8, <2>9
<1>21. ASSUME NEW i \in Daemons, DaemonGivesUp(i), Unlocked PROVE TokenComesFrom'
  <2>1. /\ InRing' => InRing
        /\ buf' = buf /\ turns' = turns
        /\ \A j \in Daemons : st'[j] = "write" => st[j] = "write"
    BY <1>a, <1>b, <1>21, Size
       DEF InRing, Types, DaemonGivesUp, DaemonGone, CtxDoitEnds, UnixEchoEnds,
           FixedChildEnds, AllDone, WriteFails, Move
  <2> QED
    BY <1>a, <1>b, <2>1, NoNewToken
<1>22. ASSUME NEW i \in Daemons, ProcChildMisreads(i), Unlocked PROVE TokenComesFrom'
  <2>1. prog = "process_vs_thread" /\ i = 1 /\ 0 \notin wr[0]
    BY <1>b, <1>22, Size DEF ProcChildMisreads, AtEof, Types
  <2>2. pc' = "gone"
    BY <1>a, <1>b, <1>22, <2>1
       DEF ProcChildMisreads, Types, MainLabel, Labels, SmallEnds, Small
  <2> QED
    BY <1>a, <2>1, <2>2 DEF TokenComesFrom, InRing
<1>23. CASE procA
  BY <1>a, <1>b, <1>23, Size
     DEF TokenComesFrom, Labels, SmallEnds, InHand, InRing, Small, Types, procA, waiton,
         release, Goto, Turn
<1>24. CASE procB
  BY <1>a, <1>b, <1>24, Size
     DEF TokenComesFrom, Labels, SmallEnds, InHand, InRing, Small, Types, procB, waiton,
         release, Move, Turn
<1>25. CASE UNCHANGED fcntlVars
  BY <1>a, <1>b, <1>25
     DEF fcntlVars, vars, TokenComesFrom, Labels, SmallEnds, InHand, InRing, Small
<1> QED
  BY <1>1, <1>2, <1>3, <1>4, <1>5, <1>6, <1>7, <1>8, <1>9, <1>10, <1>11, <1>12, <1>13,
     <1>14, <1>15, <1>16, <1>17, <1>18, <1>19, <1>20, <1>21, <1>22, <1>23, <1>24, <1>25
     DEF FcntlNext, Next, Main, Failure, Daemon

LEMMA TokenReturnsKept == IInv /\ [FcntlNext]_fcntlVars => TokenReturns'
<1> SUFFICES ASSUME IInv, [FcntlNext]_fcntlVars PROVE TokenReturns'
  OBVIOUS
<1>a. prog' = prog /\ procs' = procs /\ Pipes' = Pipes /\ Daemons' = Daemons
  BY SameProgram, SameSize
<1>b. Types /\ Labels /\ SmallEnds /\ TokenReturns /\ TokenIsBack
  BY DEF IInv
<1>1. ASSUME NEW i \in Daemons, Fork(i), Unlocked PROVE TokenReturns'
  BY <1>a, <1>b, <1>1, Size
     DEF TokenReturns, Labels, SmallEnds, TokenIsBack, InRing, Small, HasToken, Live, Types,
         Fork, Move, Hold
<1>2. CASE ForksDone /\ Unlocked
  BY <1>a, <1>b, <1>2, Size
     DEF TokenReturns, Labels, SmallEnds, TokenIsBack, InRing, Small, HasToken, Live, Types,
         ForksDone, CtxForked, PipeForked, FifoForked, UnixForked, SemForked, FcntlForked,
         ProcForked, FixedForked, Goto, Hold
<1>3. CASE OpenFifo /\ Unlocked
  BY <1>a, <1>b, <1>3, Size
     DEF TokenReturns, Labels, SmallEnds, TokenIsBack, InRing, Small, HasToken, Live, Types,
         OpenFifo, Goto, Move
<1>4. CASE Send /\ Unlocked
  BY <1>a, <1>b, <1>4, Size
     DEF TokenReturns, Labels, SmallEnds, TokenIsBack, InRing, Small, HasToken, Live,
         Broken, Types, Send, Goto, Put, Turn
<1>5. CASE Receive /\ Unlocked
  BY <1>a, <1>b, <1>5, Size
     DEF TokenReturns, Labels, SmallEnds, TokenIsBack, InRing, Small, HasToken, Live, Types,
         Receive, Goto, Take, Readable
<1>6. CASE ReadUnchecked /\ Unlocked
  BY <1>a, <1>b, <1>6, Size
     DEF TokenReturns, Labels, SmallEnds, TokenIsBack, InRing, Small, HasToken, Live, Types,
         ReadUnchecked, Goto, AtEof
<1>7. CASE SemTrip /\ Unlocked
  BY <1>a, <1>b, <1>7, Size
     DEF TokenReturns, Labels, SmallEnds, TokenIsBack, InRing, Small, HasToken, Live, Types,
         SemTrip, Goto, Turn, Readable
<1>8. CASE MainGivesUp /\ Unlocked
  BY <1>a, <1>b, <1>8, Size
     DEF TokenReturns, Labels, SmallEnds, TokenIsBack, InRing, Small, HasToken, Live, Types,
         MainGivesUp, MainGone, Goto, Hold
<1>9. CASE NextInterval /\ Unlocked
  BY <1>a, <1>b, <1>9, Size
     DEF TokenReturns, Labels, SmallEnds, TokenIsBack, InRing, Small, HasToken, Live, Types,
         NextInterval, Goto
<1>10. CASE Cleanup /\ Unlocked
  BY <1>a, <1>b, <1>10, Size
     DEF TokenReturns, Labels, SmallEnds, TokenIsBack, InRing, Small, HasToken, Live, Types,
         Cleanup, CtxCleanup, PipeCleanup, UnixCleanup, SemCleanup, FifoCleanup,
         FcntlCleanup, ProcEnds, FixedEnds, AllRounds, KillDaemons, Goto, Hold
<1>11. CASE Reap /\ Unlocked
  BY <1>a, <1>b, <1>11, Size
     DEF TokenReturns, Labels, SmallEnds, TokenIsBack, InRing, Small, HasToken, Live, Types,
         Reap, Goto
<1>12. CASE Exit /\ Unlocked
  BY <1>a, <1>b, <1>12, Size
     DEF TokenReturns, Labels, SmallEnds, TokenIsBack, InRing, Small, HasToken, Live, Types,
         Exit, MainGone, Goto, Hold
<1>13. CASE SetupFails /\ Unlocked
  BY <1>a, <1>b, <1>13, Size
     DEF TokenReturns, Labels, SmallEnds, TokenIsBack, InRing, Small, HasToken, Live, Types,
         SetupFails, MainGone, Goto, Hold
<1>14. CASE CtxForkFails /\ Unlocked
  BY <1>a, <1>b, <1>14, Size
     DEF TokenReturns, Labels, SmallEnds, TokenIsBack, InRing, Small, HasToken, Live, Types,
         CtxForkFails, Goto
<1>15. CASE ForkFails /\ Unlocked
  BY <1>a, <1>b, <1>15, Size
     DEF TokenReturns, Labels, SmallEnds, TokenIsBack, InRing, Small, HasToken, Live, Types,
         ForkFails, FixedForkFails, ProcForkFails, PairForkFails, MainGone, Goto, Hold
<1>16. CASE MainKilled /\ Unlocked
  BY <1>a, <1>b, <1>16, Size
     DEF TokenReturns, Labels, SmallEnds, TokenIsBack, InRing, Small, HasToken, Live, Types,
         MainKilled, MainGone, Goto, Hold
<1>17. ASSUME NEW i \in Daemons, DaemonKilled(i), Unlocked PROVE TokenReturns'
  BY <1>a, <1>b, <1>17, Size
     DEF TokenReturns, Labels, SmallEnds, TokenIsBack, InRing, Small, HasToken, Live, Types,
         DaemonKilled, DaemonGone, Move
<1>18. ASSUME NEW i \in Daemons, Settle(i), Unlocked PROVE TokenReturns'
  BY <1>a, <1>b, <1>18, Size
     DEF TokenReturns, Labels, SmallEnds, TokenIsBack, InRing, Small, HasToken, Live, Types,
         Settle, CtxDaemonStart, PipeWriterStart, UnixPartnerStart, SemWriterStart,
         ProcChildStart, FixedChildStart, FcntlPartnerStart, Move, Hold, Put, Turn
<1>19. ASSUME NEW i \in Daemons, DaemonRead(i), Unlocked PROVE TokenReturns'
  BY <1>a, <1>b, <1>19, Size
     DEF TokenReturns, Labels, SmallEnds, TokenIsBack, InRing, Small, HasToken, Live, Types,
         DaemonRead, Readable, RoundsLeft, Take, Move
<1>20. ASSUME NEW i \in Daemons, DaemonWrite(i), Unlocked PROVE TokenReturns'
  BY <1>a, <1>b, <1>20, Size
     DEF TokenReturns, Labels, SmallEnds, TokenIsBack, InRing, Small, HasToken, Live,
         Broken, Types, DaemonWrite, Put, Turn, Move
<1>21. ASSUME NEW i \in Daemons, DaemonGivesUp(i), Unlocked PROVE TokenReturns'
  BY <1>a, <1>b, <1>21, Size
     DEF TokenReturns, Labels, SmallEnds, TokenIsBack, InRing, Small, HasToken, Live,
         Broken, Types, DaemonGivesUp, DaemonGone, CtxDoitEnds, UnixEchoEnds,
         FixedChildEnds, AllDone, WriteFails, Move
<1>22. ASSUME NEW i \in Daemons, ProcChildMisreads(i), Unlocked PROVE TokenReturns'
  BY <1>a, <1>b, <1>22, Size
     DEF TokenReturns, Labels, SmallEnds, TokenIsBack, InRing, Small, HasToken, Live, Types,
         ProcChildMisreads, RoundsLeft, Move, AtEof
<1>23. CASE procA
  BY <1>a, <1>b, <1>23, Size
     DEF TokenReturns, Labels, SmallEnds, TokenIsBack, InRing, Small, HasToken, Live, Types,
         procA, waiton, release, Goto, Turn
<1>24. CASE procB
  BY <1>a, <1>b, <1>24, Size
     DEF TokenReturns, Labels, SmallEnds, TokenIsBack, InRing, Small, HasToken, Live, Types,
         procB, waiton, release, Move, Turn
<1>25. CASE UNCHANGED fcntlVars
  BY <1>a, <1>b, <1>25
     DEF fcntlVars, vars, TokenReturns, Labels, SmallEnds, TokenIsBack, InRing, Small,
         HasToken, Live
<1> QED
  BY <1>1, <1>2, <1>3, <1>4, <1>5, <1>6, <1>7, <1>8, <1>9, <1>10, <1>11, <1>12, <1>13,
     <1>14, <1>15, <1>16, <1>17, <1>18, <1>19, <1>20, <1>21, <1>22, <1>23, <1>24, <1>25
     DEF FcntlNext, Next, Main, Failure, Daemon

LEMMA TokenIsBackKept == IInv /\ [FcntlNext]_fcntlVars => TokenIsBack'
<1> SUFFICES ASSUME IInv, [FcntlNext]_fcntlVars PROVE TokenIsBack'
  OBVIOUS
<1>a. prog' = prog /\ procs' = procs /\ Pipes' = Pipes /\ Daemons' = Daemons
  BY SameProgram, SameSize
<1>b. Types /\ Labels /\ Trips /\ SmallEnds /\ TokenReturns /\ TokenIsBack /\ TokenComesFrom
  BY DEF IInv
<1>1. ASSUME NEW i \in Daemons, Fork(i), Unlocked PROVE TokenIsBack'
  BY <1>a, <1>b, <1>1, Size
     DEF TokenIsBack, Labels, Trips, SmallEnds, TokenReturns, TokenComesFrom, InHand,
         InRing, Small, HasToken, Live, Types, Fork, Move, Hold
<1>2. CASE ForksDone /\ Unlocked
  BY <1>a, <1>b, <1>2, Size
     DEF TokenIsBack, Labels, Trips, SmallEnds, TokenReturns, TokenComesFrom, InHand,
         InRing, Small, HasToken, Live, Types, ForksDone, CtxForked, PipeForked, FifoForked,
         UnixForked, SemForked, FcntlForked, ProcForked, FixedForked, Goto, Hold
<1>3. CASE OpenFifo /\ Unlocked
  BY <1>a, <1>b, <1>3, Size
     DEF TokenIsBack, Labels, Trips, SmallEnds, TokenReturns, TokenComesFrom, InHand,
         InRing, Small, HasToken, Live, Types, OpenFifo, Goto, Move
<1>4. CASE Send /\ Unlocked
  BY <1>a, <1>b, <1>4, Size
     DEF TokenIsBack, Labels, Trips, SmallEnds, TokenReturns, TokenComesFrom, InHand,
         InRing, Small, HasToken, Live, Types, Send, Goto, Put, Turn
<1>5. CASE Receive /\ Unlocked
  BY <1>a, <1>b, <1>5, Size
     DEF TokenIsBack, Labels, Trips, SmallEnds, TokenReturns, TokenComesFrom, InHand,
         InRing, Small, HasToken, Live, Types, Receive, Goto, Take, Readable
<1>6. CASE ReadUnchecked /\ Unlocked
  <2>1. prog \in Small /\ pc = "read" /\ st' = st /\ pc' = "loop" /\ 1 \notin wr[1]
    BY <1>6, Size DEF ReadUnchecked, AtEof, Goto
  <2>2. ~Live(1)
    BY <1>b, <2>1, Size DEF Types, DaemonLabel, Labels, SmallEnds, Small, Live
  <2> QED
    BY <1>a, <2>1, <2>2 DEF TokenIsBack, Live
<1>7. CASE SemTrip /\ Unlocked
  BY <1>a, <1>b, <1>7, Size
     DEF TokenIsBack, Labels, Trips, SmallEnds, TokenReturns, TokenComesFrom, InHand,
         InRing, Small, HasToken, Live, Types, SemTrip, Goto, Turn, Readable
<1>8. CASE MainGivesUp /\ Unlocked
  BY <1>a, <1>b, <1>8, Size
     DEF TokenIsBack, Labels, Trips, SmallEnds, TokenReturns, TokenComesFrom, InHand,
         InRing, Small, HasToken, Live, Types, MainGivesUp, MainGone, Goto, Hold
<1>9. CASE NextInterval /\ Unlocked
  BY <1>a, <1>b, <1>9, Size
     DEF TokenIsBack, Labels, Trips, SmallEnds, TokenReturns, TokenComesFrom, InHand,
         InRing, Small, HasToken, Live, Types, NextInterval, Goto
<1>10. CASE Cleanup /\ Unlocked
  BY <1>a, <1>b, <1>10, Size
     DEF TokenIsBack, Labels, Trips, SmallEnds, TokenReturns, TokenComesFrom, InHand,
         InRing, Small, HasToken, Live, Types, Cleanup, CtxCleanup, PipeCleanup,
         UnixCleanup, SemCleanup, FifoCleanup, FcntlCleanup, ProcEnds, FixedEnds, AllRounds,
         KillDaemons, Goto, Hold
<1>11. CASE Reap /\ Unlocked
  BY <1>a, <1>b, <1>11, Size
     DEF TokenIsBack, Labels, Trips, SmallEnds, TokenReturns, TokenComesFrom, InHand,
         InRing, Small, HasToken, Live, Types, Reap, Goto
<1>12. CASE Exit /\ Unlocked
  BY <1>a, <1>b, <1>12, Size
     DEF TokenIsBack, Labels, Trips, SmallEnds, TokenReturns, TokenComesFrom, InHand,
         InRing, Small, HasToken, Live, Types, Exit, MainGone, Goto, Hold
<1>13. CASE SetupFails /\ Unlocked
  BY <1>a, <1>b, <1>13, Size
     DEF TokenIsBack, Labels, Trips, SmallEnds, TokenReturns, TokenComesFrom, InHand,
         InRing, Small, HasToken, Live, Types, SetupFails, MainGone, Goto, Hold
<1>14. CASE CtxForkFails /\ Unlocked
  BY <1>a, <1>b, <1>14, Size
     DEF TokenIsBack, Labels, Trips, SmallEnds, TokenReturns, TokenComesFrom, InHand,
         InRing, Small, HasToken, Live, Types, CtxForkFails, Goto
<1>15. CASE ForkFails /\ Unlocked
  BY <1>a, <1>b, <1>15, Size
     DEF TokenIsBack, Labels, Trips, SmallEnds, TokenReturns, TokenComesFrom, InHand,
         InRing, Small, HasToken, Live, Types, ForkFails, FixedForkFails, ProcForkFails,
         PairForkFails, MainGone, Goto, Hold
<1>16. CASE MainKilled /\ Unlocked
  BY <1>a, <1>b, <1>16, Size
     DEF TokenIsBack, Labels, Trips, SmallEnds, TokenReturns, TokenComesFrom, InHand,
         InRing, Small, HasToken, Live, Types, MainKilled, MainGone, Goto, Hold
<1>17. ASSUME NEW i \in Daemons, DaemonKilled(i), Unlocked PROVE TokenIsBack'
  BY <1>a, <1>b, <1>17, Size
     DEF TokenIsBack, Labels, Trips, SmallEnds, TokenReturns, TokenComesFrom, InHand,
         InRing, Small, HasToken, Live, Types, DaemonKilled, DaemonGone, Move
<1>18. ASSUME NEW i \in Daemons, Settle(i), Unlocked PROVE TokenIsBack'
  BY <1>a, <1>b, <1>18, Size
     DEF TokenIsBack, Labels, Trips, SmallEnds, TokenReturns, TokenComesFrom, InHand,
         InRing, Small, HasToken, Live, Types, Settle, CtxDaemonStart, PipeWriterStart,
         UnixPartnerStart, SemWriterStart, ProcChildStart, FixedChildStart,
         FcntlPartnerStart, Move, Hold, Put, Turn
<1>19. ASSUME NEW i \in Daemons, DaemonRead(i), Unlocked PROVE TokenIsBack'
  BY <1>a, <1>b, <1>19, Size
     DEF TokenIsBack, Labels, Trips, SmallEnds, TokenReturns, TokenComesFrom, InHand,
         InRing, Small, HasToken, Live, Types, DaemonRead, Readable, RoundsLeft, Take, Move
<1>20. ASSUME NEW i \in Daemons, DaemonWrite(i), Unlocked PROVE TokenIsBack'
  BY <1>a, <1>b, <1>20, Size
     DEF TokenIsBack, Labels, Trips, SmallEnds, TokenReturns, TokenComesFrom, InHand,
         InRing, Small, HasToken, Live, Types, DaemonWrite, Put, Turn, Move
<1>21. ASSUME NEW i \in Daemons, DaemonGivesUp(i), Unlocked PROVE TokenIsBack'
  BY <1>a, <1>b, <1>21, Size
     DEF TokenIsBack, Labels, Trips, SmallEnds, TokenReturns, TokenComesFrom, InHand,
         InRing, Small, HasToken, Live, Types, DaemonGivesUp, DaemonGone, CtxDoitEnds,
         UnixEchoEnds, FixedChildEnds, AllDone, WriteFails, Move
<1>22. ASSUME NEW i \in Daemons, ProcChildMisreads(i), Unlocked PROVE TokenIsBack'
  BY <1>a, <1>b, <1>22, Size
     DEF TokenIsBack, Labels, Trips, SmallEnds, TokenReturns, TokenComesFrom, InHand,
         InRing, Small, HasToken, Live, Types, ProcChildMisreads, RoundsLeft, Move, AtEof
<1>23. CASE procA
  BY <1>a, <1>b, <1>23, Size
     DEF TokenIsBack, Labels, Trips, SmallEnds, TokenReturns, TokenComesFrom, InHand,
         InRing, Small, HasToken, Live, Types, procA, waiton, release, Goto, Turn
<1>24. CASE procB
  BY <1>a, <1>b, <1>24, Size
     DEF TokenIsBack, Labels, Trips, SmallEnds, TokenReturns, TokenComesFrom, InHand,
         InRing, Small, HasToken, Live, Types, procB, waiton, release, Move, Turn
<1>25. CASE UNCHANGED fcntlVars
  BY <1>a, <1>b, <1>25
     DEF fcntlVars, vars, TokenIsBack, Labels, Trips, SmallEnds, TokenReturns,
         TokenComesFrom, InHand, InRing, Small, HasToken, Live
<1> QED
  BY <1>1, <1>2, <1>3, <1>4, <1>5, <1>6, <1>7, <1>8, <1>9, <1>10, <1>11, <1>12, <1>13,
     <1>14, <1>15, <1>16, <1>17, <1>18, <1>19, <1>20, <1>21, <1>22, <1>23, <1>24, <1>25
     DEF FcntlNext, Next, Main, Failure, Daemon

LEMMA SemTokenKept == IInv /\ [FcntlNext]_fcntlVars => SemToken'
<1> SUFFICES ASSUME IInv, [FcntlNext]_fcntlVars PROVE SemToken'
  OBVIOUS
<1>a. prog' = prog /\ procs' = procs /\ Pipes' = Pipes /\ Daemons' = Daemons
  BY SameProgram, SameSize
<1>b. Types /\ Labels /\ SemToken
  BY DEF IInv
<1>1. ASSUME NEW i \in Daemons, Fork(i), Unlocked PROVE SemToken'
  BY <1>a, <1>b, <1>1, Size DEF SemToken, Labels, InHand, Types, Fork, Move, Hold
<1>2. CASE ForksDone /\ Unlocked
  BY <1>a, <1>b, <1>2, Size
     DEF SemToken, Labels, InHand, Types, ForksDone, CtxForked, PipeForked, FifoForked,
         UnixForked, SemForked, FcntlForked, ProcForked, FixedForked, Goto, Hold
<1>3. CASE OpenFifo /\ Unlocked
  BY <1>a, <1>b, <1>3, Size DEF SemToken, Labels, InHand, Types, OpenFifo, Goto, Move
<1>4. CASE Send /\ Unlocked
  BY <1>a, <1>b, <1>4, Size DEF SemToken, Labels, InHand, Types, Send, Goto, Put, Turn
<1>5. CASE Receive /\ Unlocked
  BY <1>a, <1>b, <1>5, Size
     DEF SemToken, Labels, InHand, Types, Receive, Goto, Take, Readable
<1>6. CASE ReadUnchecked /\ Unlocked
  BY <1>a, <1>b, <1>6, Size DEF SemToken, Labels, InHand, Types, ReadUnchecked, Goto, AtEof
<1>7. CASE SemTrip /\ Unlocked
  BY <1>a, <1>b, <1>7, Size
     DEF SemToken, Labels, InHand, Types, SemTrip, Goto, Turn, Readable
<1>8. CASE MainGivesUp /\ Unlocked
  BY <1>a, <1>b, <1>8, Size
     DEF SemToken, Labels, InHand, Types, MainGivesUp, MainGone, Goto, Hold
<1>9. CASE NextInterval /\ Unlocked
  BY <1>a, <1>b, <1>9, Size DEF SemToken, Labels, InHand, Types, NextInterval, Goto
<1>10. CASE Cleanup /\ Unlocked
  BY <1>a, <1>b, <1>10, Size
     DEF SemToken, Labels, InHand, Types, Cleanup, CtxCleanup, PipeCleanup, UnixCleanup,
         SemCleanup, FifoCleanup, FcntlCleanup, ProcEnds, FixedEnds, AllRounds, KillDaemons,
         Goto, Hold
<1>11. CASE Reap /\ Unlocked
  BY <1>a, <1>b, <1>11, Size DEF SemToken, Labels, InHand, Types, Reap, Goto
<1>12. CASE Exit /\ Unlocked
  BY <1>a, <1>b, <1>12, Size DEF SemToken, Labels, InHand, Types, Exit, MainGone, Goto, Hold
<1>13. CASE SetupFails /\ Unlocked
  BY <1>a, <1>b, <1>13, Size
     DEF SemToken, Labels, InHand, Types, SetupFails, MainGone, Goto, Hold
<1>14. CASE CtxForkFails /\ Unlocked
  BY <1>a, <1>b, <1>14, Size DEF SemToken, Labels, InHand, Types, CtxForkFails, Goto
<1>15. CASE ForkFails /\ Unlocked
  BY <1>a, <1>b, <1>15, Size
     DEF SemToken, Labels, InHand, Types, ForkFails, FixedForkFails, ProcForkFails,
         PairForkFails, MainGone, Goto, Hold
<1>16. CASE MainKilled /\ Unlocked
  BY <1>a, <1>b, <1>16, Size
     DEF SemToken, Labels, InHand, Types, MainKilled, MainGone, Goto, Hold
<1>17. ASSUME NEW i \in Daemons, DaemonKilled(i), Unlocked PROVE SemToken'
  BY <1>a, <1>b, <1>17, Size
     DEF SemToken, Labels, InHand, Types, DaemonKilled, DaemonGone, Move
<1>18. ASSUME NEW i \in Daemons, Settle(i), Unlocked PROVE SemToken'
  BY <1>a, <1>b, <1>18, Size
     DEF SemToken, Labels, InHand, Types, Settle, CtxDaemonStart, PipeWriterStart,
         UnixPartnerStart, SemWriterStart, ProcChildStart, FixedChildStart,
         FcntlPartnerStart, Move, Hold, Put, Turn
<1>19. ASSUME NEW i \in Daemons, DaemonRead(i), Unlocked PROVE SemToken'
  BY <1>a, <1>b, <1>19, Size
     DEF SemToken, Labels, InHand, Types, DaemonRead, Readable, RoundsLeft, Take, Move
<1>20. ASSUME NEW i \in Daemons, DaemonWrite(i), Unlocked PROVE SemToken'
  BY <1>a, <1>b, <1>20, Size
     DEF SemToken, Labels, InHand, Types, DaemonWrite, Put, Turn, Move
<1>21. ASSUME NEW i \in Daemons, DaemonGivesUp(i), Unlocked PROVE SemToken'
  BY <1>a, <1>b, <1>21, Size
     DEF SemToken, Labels, InHand, Types, DaemonGivesUp, DaemonGone, CtxDoitEnds,
         UnixEchoEnds, FixedChildEnds, AllDone, WriteFails, Move
<1>22. ASSUME NEW i \in Daemons, ProcChildMisreads(i), Unlocked PROVE SemToken'
  BY <1>a, <1>b, <1>22, Size
     DEF SemToken, Labels, InHand, Types, ProcChildMisreads, RoundsLeft, Move, AtEof
<1>23. CASE procA
  BY <1>a, <1>b, <1>23, Size
     DEF SemToken, Labels, InHand, Types, procA, waiton, release, Goto, Turn
<1>24. CASE procB
  BY <1>a, <1>b, <1>24, Size
     DEF SemToken, Labels, InHand, Types, procB, waiton, release, Move, Turn
<1>25. CASE UNCHANGED fcntlVars
  BY <1>a, <1>b, <1>25 DEF fcntlVars, vars, SemToken, Labels, InHand
<1> QED
  BY <1>1, <1>2, <1>3, <1>4, <1>5, <1>6, <1>7, <1>8, <1>9, <1>10, <1>11, <1>12, <1>13,
     <1>14, <1>15, <1>16, <1>17, <1>18, <1>19, <1>20, <1>21, <1>22, <1>23, <1>24, <1>25
     DEF FcntlNext, Next, Main, Failure, Daemon

LEMMA SmallEndsKept == IInv /\ [FcntlNext]_fcntlVars => SmallEnds'
<1> SUFFICES ASSUME IInv, [FcntlNext]_fcntlVars PROVE SmallEnds'
  OBVIOUS
<1>a. prog' = prog /\ procs' = procs /\ Pipes' = Pipes /\ Daemons' = Daemons
  BY SameProgram, SameSize
<1>b. Types /\ Labels /\ SmallEnds
  BY DEF IInv
<1>1. ASSUME NEW i \in Daemons, Fork(i), Unlocked PROVE SmallEnds'
  BY <1>a, <1>b, <1>1, Size DEF SmallEnds, Labels, Small, Types, Fork, Move, Hold
<1>2. CASE ForksDone /\ Unlocked
  BY <1>a, <1>b, <1>2, Size
     DEF SmallEnds, Labels, Small, Types, ForksDone, CtxForked, PipeForked, FifoForked,
         UnixForked, SemForked, FcntlForked, ProcForked, FixedForked, Goto, Hold
<1>3. CASE OpenFifo /\ Unlocked
  BY <1>a, <1>b, <1>3, Size DEF SmallEnds, Labels, Small, Types, OpenFifo, Goto, Move
<1>4. CASE Send /\ Unlocked
  BY <1>a, <1>b, <1>4, Size DEF SmallEnds, Labels, Small, Types, Send, Goto, Put, Turn
<1>5. CASE Receive /\ Unlocked
  BY <1>a, <1>b, <1>5, Size
     DEF SmallEnds, Labels, Small, Types, Receive, Goto, Take, Readable
<1>6. CASE ReadUnchecked /\ Unlocked
  BY <1>a, <1>b, <1>6, Size DEF SmallEnds, Labels, Small, Types, ReadUnchecked, Goto, AtEof
<1>7. CASE SemTrip /\ Unlocked
  BY <1>a, <1>b, <1>7, Size
     DEF SmallEnds, Labels, Small, Types, SemTrip, Goto, Turn, Readable
<1>8. CASE MainGivesUp /\ Unlocked
  BY <1>a, <1>b, <1>8, Size
     DEF SmallEnds, Labels, Small, Types, MainGivesUp, MainGone, Goto, Hold
<1>9. CASE NextInterval /\ Unlocked
  BY <1>a, <1>b, <1>9, Size DEF SmallEnds, Labels, Small, Types, NextInterval, Goto
<1>10. CASE Cleanup /\ Unlocked
  BY <1>a, <1>b, <1>10, Size
     DEF SmallEnds, Labels, Small, Live, Types, Cleanup, CtxCleanup, PipeCleanup,
         UnixCleanup, SemCleanup, FifoCleanup, FcntlCleanup, ProcEnds, FixedEnds, AllRounds,
         KillDaemons, Goto, Hold
<1>11. CASE Reap /\ Unlocked
  BY <1>a, <1>b, <1>11, Size DEF SmallEnds, Labels, Small, Live, Types, Reap, Goto
<1>12. CASE Exit /\ Unlocked
  BY <1>a, <1>b, <1>12, Size DEF SmallEnds, Labels, Small, Types, Exit, MainGone, Goto, Hold
<1>13. CASE SetupFails /\ Unlocked
  BY <1>a, <1>b, <1>13, Size
     DEF SmallEnds, Labels, Small, Types, SetupFails, MainGone, Goto, Hold
<1>14. CASE CtxForkFails /\ Unlocked
  BY <1>a, <1>b, <1>14, Size DEF SmallEnds, Labels, Small, Live, Types, CtxForkFails, Goto
<1>15. CASE ForkFails /\ Unlocked
  BY <1>a, <1>b, <1>15, Size
     DEF SmallEnds, Labels, Small, Types, ForkFails, FixedForkFails, ProcForkFails,
         PairForkFails, MainGone, Goto, Hold
<1>16. CASE MainKilled /\ Unlocked
  BY <1>a, <1>b, <1>16, Size
     DEF SmallEnds, Labels, Small, Types, MainKilled, MainGone, Goto, Hold
<1>17. ASSUME NEW i \in Daemons, DaemonKilled(i), Unlocked PROVE SmallEnds'
  BY <1>a, <1>b, <1>17, Size
     DEF SmallEnds, Labels, Small, Live, Types, DaemonKilled, DaemonGone, Move
<1>18. ASSUME NEW i \in Daemons, Settle(i), Unlocked PROVE SmallEnds'
  BY <1>a, <1>b, <1>18, Size
     DEF SmallEnds, Labels, Small, Types, Settle, CtxDaemonStart, PipeWriterStart,
         UnixPartnerStart, SemWriterStart, ProcChildStart, FixedChildStart,
         FcntlPartnerStart, Move, Hold, Put, Turn
<1>19. ASSUME NEW i \in Daemons, DaemonRead(i), Unlocked PROVE SmallEnds'
  BY <1>a, <1>b, <1>19, Size
     DEF SmallEnds, Labels, Small, Types, DaemonRead, Readable, RoundsLeft, Take, Move
<1>20. ASSUME NEW i \in Daemons, DaemonWrite(i), Unlocked PROVE SmallEnds'
  BY <1>a, <1>b, <1>20, Size
     DEF SmallEnds, Labels, Small, Types, DaemonWrite, Put, Turn, Move
<1>21. ASSUME NEW i \in Daemons, DaemonGivesUp(i), Unlocked PROVE SmallEnds'
  BY <1>a, <1>b, <1>21, Size
     DEF SmallEnds, Labels, Small, Types, DaemonGivesUp, DaemonGone, CtxDoitEnds,
         UnixEchoEnds, FixedChildEnds, AllDone, WriteFails, Move
<1>22. ASSUME NEW i \in Daemons, ProcChildMisreads(i), Unlocked PROVE SmallEnds'
  BY <1>a, <1>b, <1>22, Size
     DEF SmallEnds, Labels, Small, Types, ProcChildMisreads, RoundsLeft, Move, AtEof
<1>23. CASE procA
  BY <1>a, <1>b, <1>23, Size
     DEF SmallEnds, Labels, Small, Types, procA, waiton, release, Goto, Turn
<1>24. CASE procB
  BY <1>a, <1>b, <1>24, Size
     DEF SmallEnds, Labels, Small, Types, procB, waiton, release, Move, Turn
<1>25. CASE UNCHANGED fcntlVars
  BY <1>a, <1>b, <1>25 DEF fcntlVars, vars, SmallEnds, Labels, Small
<1> QED
  BY <1>1, <1>2, <1>3, <1>4, <1>5, <1>6, <1>7, <1>8, <1>9, <1>10, <1>11, <1>12, <1>13,
     <1>14, <1>15, <1>16, <1>17, <1>18, <1>19, <1>20, <1>21, <1>22, <1>23, <1>24, <1>25
     DEF FcntlNext, Next, Main, Failure, Daemon

LEMMA SmallChildKept == IInv /\ [FcntlNext]_fcntlVars => SmallChild'
<1> SUFFICES ASSUME IInv, [FcntlNext]_fcntlVars PROVE SmallChild'
  OBVIOUS
<1>a. prog' = prog /\ procs' = procs /\ Pipes' = Pipes /\ Daemons' = Daemons
  BY SameProgram, SameSize
<1>b. Types /\ Labels /\ Trips /\ SmallEnds /\ SmallChild /\ TokenComesFrom /\ TokenReturns
  BY DEF IInv
<1>1. ASSUME NEW i \in Daemons, Fork(i), Unlocked PROVE SmallChild'
  BY <1>a, <1>b, <1>1, Size
     DEF SmallChild, Labels, Trips, SmallEnds, TokenComesFrom, TokenReturns, InRing, InHand,
         Small, Types, Fork, Move, Hold
<1>2. CASE ForksDone /\ Unlocked
  BY <1>a, <1>b, <1>2, Size
     DEF SmallChild, Labels, Trips, SmallEnds, TokenComesFrom, TokenReturns, InRing, InHand,
         Small, Types, ForksDone, CtxForked, PipeForked, FifoForked, UnixForked, SemForked,
         FcntlForked, ProcForked, FixedForked, Goto, Hold
<1>3. CASE OpenFifo /\ Unlocked
  BY <1>a, <1>b, <1>3, Size
     DEF SmallChild, Labels, Trips, SmallEnds, TokenComesFrom, TokenReturns, InRing, InHand,
         Small, Types, OpenFifo, Goto, Move
<1>4. CASE Send /\ Unlocked
  BY <1>a, <1>b, <1>4, Size
     DEF SmallChild, Labels, Trips, SmallEnds, TokenComesFrom, TokenReturns, InRing, InHand,
         Small, Broken, Types, Send, Goto, Put, Turn
<1>5. CASE Receive /\ Unlocked
  BY <1>a, <1>b, <1>5, Size
     DEF SmallChild, Labels, Trips, SmallEnds, TokenComesFrom, TokenReturns, InRing, InHand,
         Small, Types, Receive, Goto, Take, Readable
<1>6. CASE ReadUnchecked /\ Unlocked
  BY <1>a, <1>b, <1>6, Size
     DEF SmallChild, Labels, Trips, SmallEnds, TokenComesFrom, TokenReturns, InRing, InHand,
         Small, AtEof, Types, ReadUnchecked, Goto
<1>7. CASE SemTrip /\ Unlocked
  BY <1>a, <1>b, <1>7, Size
     DEF SmallChild, Labels, Trips, SmallEnds, TokenComesFrom, TokenReturns, InRing, InHand,
         Small, Types, SemTrip, Goto, Turn, Readable
<1>8. CASE MainGivesUp /\ Unlocked
  BY <1>a, <1>b, <1>8, Size
     DEF SmallChild, Labels, Trips, SmallEnds, TokenComesFrom, TokenReturns, InRing, InHand,
         Small, Types, MainGivesUp, MainGone, Goto, Hold
<1>9. CASE NextInterval /\ Unlocked
  BY <1>a, <1>b, <1>9, Size
     DEF SmallChild, Labels, Trips, SmallEnds, TokenComesFrom, TokenReturns, InRing, InHand,
         Small, Types, NextInterval, Goto
<1>10. CASE Cleanup /\ Unlocked
  BY <1>a, <1>b, <1>10, Size
     DEF SmallChild, Labels, Trips, SmallEnds, TokenComesFrom, TokenReturns, InRing, InHand,
         Small, Live, Types, Cleanup, CtxCleanup, PipeCleanup, UnixCleanup, SemCleanup,
         FifoCleanup, FcntlCleanup, ProcEnds, FixedEnds, AllRounds, KillDaemons, Goto, Hold
<1>11. CASE Reap /\ Unlocked
  BY <1>a, <1>b, <1>11, Size
     DEF SmallChild, Labels, Trips, SmallEnds, TokenComesFrom, TokenReturns, InRing, InHand,
         Small, Live, Types, Reap, Goto
<1>12. CASE Exit /\ Unlocked
  BY <1>a, <1>b, <1>12, Size
     DEF SmallChild, Labels, Trips, SmallEnds, TokenComesFrom, TokenReturns, InRing, InHand,
         Small, Types, Exit, MainGone, Goto, Hold
<1>13. CASE SetupFails /\ Unlocked
  BY <1>a, <1>b, <1>13, Size
     DEF SmallChild, Labels, Trips, SmallEnds, TokenComesFrom, TokenReturns, InRing, InHand,
         Small, Types, SetupFails, MainGone, Goto, Hold
<1>14. CASE CtxForkFails /\ Unlocked
  BY <1>a, <1>b, <1>14, Size
     DEF SmallChild, Labels, Trips, SmallEnds, TokenComesFrom, TokenReturns, InRing, InHand,
         Small, Live, Types, CtxForkFails, Goto
<1>15. CASE ForkFails /\ Unlocked
  BY <1>a, <1>b, <1>15, Size
     DEF SmallChild, Labels, Trips, SmallEnds, TokenComesFrom, TokenReturns, InRing, InHand,
         Small, Types, ForkFails, FixedForkFails, ProcForkFails, PairForkFails, MainGone,
         Goto, Hold
<1>16. CASE MainKilled /\ Unlocked
  BY <1>a, <1>b, <1>16, Size
     DEF SmallChild, Labels, Trips, SmallEnds, TokenComesFrom, TokenReturns, InRing, InHand,
         Small, Types, MainKilled, MainGone, Goto, Hold
<1>17. ASSUME NEW i \in Daemons, DaemonKilled(i), Unlocked PROVE SmallChild'
  BY <1>a, <1>b, <1>17, Size
     DEF SmallChild, Labels, Trips, SmallEnds, TokenComesFrom, TokenReturns, InRing, InHand,
         Small, Live, Types, DaemonKilled, DaemonGone, Move
<1>18. ASSUME NEW i \in Daemons, Settle(i), Unlocked PROVE SmallChild'
  BY <1>a, <1>b, <1>18, Size
     DEF SmallChild, Labels, Trips, SmallEnds, TokenComesFrom, TokenReturns, InRing, InHand,
         Small, Types, Settle, CtxDaemonStart, PipeWriterStart, UnixPartnerStart,
         SemWriterStart, ProcChildStart, FixedChildStart, FcntlPartnerStart, Move, Hold,
         Put, Turn
<1>19. ASSUME NEW i \in Daemons, DaemonRead(i), Unlocked PROVE SmallChild'
  BY <1>a, <1>b, <1>19, Size
     DEF SmallChild, Labels, Trips, SmallEnds, TokenComesFrom, TokenReturns, InRing, InHand,
         Small, RoundsLeft, Types, DaemonRead, Readable, Take, Move
<1>20. ASSUME NEW i \in Daemons, DaemonWrite(i), Unlocked PROVE SmallChild'
  BY <1>a, <1>b, <1>20, Size
     DEF SmallChild, Labels, Trips, SmallEnds, TokenComesFrom, TokenReturns, InRing, InHand,
         Small, Broken, Types, DaemonWrite, Put, Turn, Move
<1>21. ASSUME NEW i \in Daemons, DaemonGivesUp(i), Unlocked PROVE SmallChild'
  BY <1>a, <1>b, <1>21, Size
     DEF SmallChild, Labels, Trips, SmallEnds, TokenComesFrom, TokenReturns, InRing, InHand,
         Small, AtEof, Broken, RoundsLeft, Types, DaemonGivesUp, DaemonGone, CtxDoitEnds,
         UnixEchoEnds, FixedChildEnds, AllDone, WriteFails, Move
<1>22. ASSUME NEW i \in Daemons, ProcChildMisreads(i), Unlocked PROVE SmallChild'
  BY <1>a, <1>b, <1>22, Size
     DEF SmallChild, Labels, Trips, SmallEnds, TokenComesFrom, TokenReturns, InRing, InHand,
         Small, AtEof, RoundsLeft, Types, ProcChildMisreads, Move
<1>23. CASE procA
  BY <1>a, <1>b, <1>23, Size
     DEF SmallChild, Labels, Trips, SmallEnds, TokenComesFrom, TokenReturns, InRing, InHand,
         Small, Types, procA, waiton, release, Goto, Turn
<1>24. CASE procB
  BY <1>a, <1>b, <1>24, Size
     DEF SmallChild, Labels, Trips, SmallEnds, TokenComesFrom, TokenReturns, InRing, InHand,
         Small, Types, procB, waiton, release, Move, Turn
<1>25. CASE UNCHANGED fcntlVars
  BY <1>a, <1>b, <1>25
     DEF fcntlVars, vars, SmallChild, Labels, Trips, SmallEnds, TokenComesFrom,
         TokenReturns, InRing, InHand, Small
<1> QED
  BY <1>1, <1>2, <1>3, <1>4, <1>5, <1>6, <1>7, <1>8, <1>9, <1>10, <1>11, <1>12, <1>13,
     <1>14, <1>15, <1>16, <1>17, <1>18, <1>19, <1>20, <1>21, <1>22, <1>23, <1>24, <1>25
     DEF FcntlNext, Next, Main, Failure, Daemon

LEMMA FcntlLockedKept == IInv /\ [FcntlNext]_fcntlVars => FcntlLocked'
<1> SUFFICES ASSUME IInv, [FcntlNext]_fcntlVars PROVE FcntlLocked'
  OBVIOUS
<1>a. prog' = prog /\ procs' = procs /\ Pipes' = Pipes /\ Daemons' = Daemons
  BY SameProgram, SameSize
<1>b. Types /\ Labels /\ Trips /\ FcntlLocked
  BY DEF IInv
<1>1. ASSUME NEW i \in Daemons, Fork(i), Unlocked PROVE FcntlLocked'
  BY <1>a, <1>b, <1>1, Size
     DEF FcntlLocked, Labels, Trips, AHas, Small, Unlocked, Types, Fork, Move, Hold
<1>2. CASE ForksDone /\ Unlocked
  BY <1>a, <1>b, <1>2, Size
     DEF FcntlLocked, Labels, Trips, AHas, Small, Unlocked, Types, ForksDone, CtxForked,
         PipeForked, FifoForked, UnixForked, SemForked, FcntlForked, ProcForked,
         FixedForked, Goto, Hold
<1>3. CASE OpenFifo /\ Unlocked
  BY <1>a, <1>b, <1>3, Size
     DEF FcntlLocked, Labels, Trips, AHas, Small, Unlocked, Types, OpenFifo, Goto, Move
<1>4. CASE Send /\ Unlocked
  BY <1>a, <1>b, <1>4, Size
     DEF FcntlLocked, Labels, Trips, AHas, Small, Unlocked, Types, Send, Goto, Put, Turn
<1>5. CASE Receive /\ Unlocked
  BY <1>a, <1>b, <1>5, Size
     DEF FcntlLocked, Labels, Trips, AHas, Small, Unlocked, Types, Receive, Goto, Take,
         Readable
<1>6. CASE ReadUnchecked /\ Unlocked
  BY <1>a, <1>b, <1>6, Size
     DEF FcntlLocked, Labels, Trips, AHas, Small, Unlocked, Types, ReadUnchecked, Goto,
         AtEof
<1>7. CASE SemTrip /\ Unlocked
  BY <1>a, <1>b, <1>7, Size
     DEF FcntlLocked, Labels, Trips, AHas, Small, Unlocked, Types, SemTrip, Goto, Turn,
         Readable
<1>8. CASE MainGivesUp /\ Unlocked
  BY <1>a, <1>b, <1>8, Size
     DEF FcntlLocked, Labels, Trips, AHas, Small, Unlocked, Types, MainGivesUp, MainGone,
         Goto, Hold
<1>9. CASE NextInterval /\ Unlocked
  BY <1>a, <1>b, <1>9, Size
     DEF FcntlLocked, Labels, Trips, AHas, Small, Unlocked, Types, NextInterval, Goto
<1>10. CASE Cleanup /\ Unlocked
  BY <1>a, <1>b, <1>10, Size
     DEF FcntlLocked, Labels, Trips, AHas, Live, Small, Unlocked, Types, Cleanup,
         CtxCleanup, PipeCleanup, UnixCleanup, SemCleanup, FifoCleanup, FcntlCleanup,
         ProcEnds, FixedEnds, AllRounds, KillDaemons, Goto, Hold
<1>11. CASE Reap /\ Unlocked
  BY <1>a, <1>b, <1>11, Size
     DEF FcntlLocked, Labels, Trips, AHas, Live, Small, Unlocked, Types, Reap, Goto
<1>12. CASE Exit /\ Unlocked
  BY <1>a, <1>b, <1>12, Size
     DEF FcntlLocked, Labels, Trips, AHas, Small, Unlocked, Types, Exit, MainGone, Goto,
         Hold
<1>13. CASE SetupFails /\ Unlocked
  BY <1>a, <1>b, <1>13, Size
     DEF FcntlLocked, Labels, Trips, AHas, Small, Unlocked, Types, SetupFails, MainGone,
         Goto, Hold
<1>14. CASE CtxForkFails /\ Unlocked
  BY <1>a, <1>b, <1>14, Size
     DEF FcntlLocked, Labels, Trips, AHas, Live, Small, Unlocked, Types, CtxForkFails, Goto
<1>15. CASE ForkFails /\ Unlocked
  BY <1>a, <1>b, <1>15, Size
     DEF FcntlLocked, Labels, Trips, AHas, Small, Unlocked, Types, ForkFails,
         FixedForkFails, ProcForkFails, PairForkFails, MainGone, Goto, Hold
<1>16. CASE MainKilled /\ Unlocked
  BY <1>a, <1>b, <1>16, Size
     DEF FcntlLocked, Labels, Trips, AHas, Small, Unlocked, Types, MainKilled, MainGone,
         Goto, Hold
<1>17. ASSUME NEW i \in Daemons, DaemonKilled(i), Unlocked PROVE FcntlLocked'
  BY <1>a, <1>b, <1>17, Size
     DEF FcntlLocked, Labels, Trips, AHas, Live, Small, Unlocked, Types, DaemonKilled,
         DaemonGone, Move
<1>18. ASSUME NEW i \in Daemons, Settle(i), Unlocked PROVE FcntlLocked'
  BY <1>a, <1>b, <1>18, Size
     DEF FcntlLocked, Labels, Trips, AHas, Small, Unlocked, Types, Settle, CtxDaemonStart,
         PipeWriterStart, UnixPartnerStart, SemWriterStart, ProcChildStart, FixedChildStart,
         FcntlPartnerStart, Move, Hold, Put, Turn
<1>19. ASSUME NEW i \in Daemons, DaemonRead(i), Unlocked PROVE FcntlLocked'
  BY <1>a, <1>b, <1>19, Size
     DEF FcntlLocked, Labels, Trips, AHas, Small, Unlocked, Types, DaemonRead, Readable,
         RoundsLeft, Take, Move
<1>20. ASSUME NEW i \in Daemons, DaemonWrite(i), Unlocked PROVE FcntlLocked'
  BY <1>a, <1>b, <1>20, Size
     DEF FcntlLocked, Labels, Trips, AHas, Small, Unlocked, Types, DaemonWrite, Put, Turn,
         Move
<1>21. ASSUME NEW i \in Daemons, DaemonGivesUp(i), Unlocked PROVE FcntlLocked'
  BY <1>a, <1>b, <1>21, Size
     DEF FcntlLocked, Labels, Trips, AHas, Small, Unlocked, Types, DaemonGivesUp,
         DaemonGone, CtxDoitEnds, UnixEchoEnds, FixedChildEnds, AllDone, WriteFails, Move
<1>22. ASSUME NEW i \in Daemons, ProcChildMisreads(i), Unlocked PROVE FcntlLocked'
  BY <1>a, <1>b, <1>22, Size
     DEF FcntlLocked, Labels, Trips, AHas, Small, Unlocked, Types, ProcChildMisreads,
         RoundsLeft, Move, AtEof
<1>23. CASE procA
  BY <1>a, <1>b, <1>23, Size
     DEF FcntlLocked, Labels, Trips, AHas, Small, Types, procA, waiton, release, Goto, Turn
<1>24. CASE procB
  BY <1>a, <1>b, <1>24, Size
     DEF FcntlLocked, Labels, Trips, AHas, Small, Types, procB, waiton, release, Move, Turn
<1>25. CASE UNCHANGED fcntlVars
  BY <1>a, <1>b, <1>25 DEF fcntlVars, vars, FcntlLocked, Labels, Trips, AHas, Small
<1> QED
  BY <1>1, <1>2, <1>3, <1>4, <1>5, <1>6, <1>7, <1>8, <1>9, <1>10, <1>11, <1>12, <1>13,
     <1>14, <1>15, <1>16, <1>17, <1>18, <1>19, <1>20, <1>21, <1>22, <1>23, <1>24, <1>25
     DEF FcntlNext, Next, Main, Failure, Daemon

LEMMA InitHolds == FcntlInit => IInv
<1> SUFFICES ASSUME FcntlInit PROVE IInv
  OBVIOUS
<1>1. /\ prog \in Programs /\ pc = "setup" /\ ok = TRUE
      /\ st = [i \in Daemons |-> "unborn"]
      /\ buf = [p \in Pipes |-> 0] /\ turns = [p \in Pipes |-> 0]
      /\ sigchld \in {"exit", "default"}
      /\ held = [i \in {0, 1} |-> IF i = 0 /\ prog = "lat_fcntl" THEN {1, 2} ELSE {}]
  BY DEF FcntlInit, Init
<1>2. /\ rd \in [Pipes -> SUBSET Pipes] /\ wr \in [Pipes -> SUBSET Pipes]
      /\ rd[1] = {} /\ wr[1] = {}
      /\ prog \in Small => rd[0] = {0, 1} /\ wr[0] = {0, 1}
      /\ prog = "lat_fcntl" => rd[0] = {} /\ wr[0] = {}
  BY Size DEF FcntlInit, Init, Small
<1>3. Types
  BY <1>1, <1>2 DEF Types, MainLabel, DaemonLabel
<1>4. /\ \A i \in Daemons : st[i] = "unborn"
      /\ \A p \in Pipes : buf[p] = 0 /\ turns[p] = 0
  BY <1>1
<1>5. Labels
  BY <1>1, <1>4, Size DEF Labels
<1>6. Trips
  BY <1>1, <1>4, Size DEF Trips
<1>7. TokenComesFrom
  <2> SUFFICES ASSUME NEW j \in Daemons, NEW i \in 0 .. j-1
               PROVE  turns[i] >= turns[j] + buf[j-1] + InHand(j)
    BY DEF TokenComesFrom
  <2>1. i \in Pipes /\ j \in Pipes /\ j-1 \in Pipes
    BY Size DEF Pipes, Daemons
  <2> QED
    BY <1>4, <2>1 DEF InHand
<1>8. TokenReturns /\ TokenIsBack
  BY <1>4, Size DEF TokenReturns, TokenIsBack
<1>9. SemToken
  BY <1>4, Size DEF SemToken, InHand
<1>10. SmallEnds /\ SmallChild
  BY <1>1, <1>2, <1>4, Size DEF SmallEnds, SmallChild
<1>11. FcntlLocked
  BY <1>1, <1>2, <1>4, Size DEF FcntlLocked, AHas
<1> QED
  BY <1>3, <1>5, <1>6, <1>7, <1>8, <1>9, <1>10, <1>11 DEF IInv

LEMMA IInvKept == IInv /\ [FcntlNext]_fcntlVars => IInv'
  BY TypesKept, LabelsKept, TripsKept, TokenComesFromKept, TokenReturnsKept,
     TokenIsBackKept, SemTokenKept, SmallEndsKept, SmallChildKept, FcntlLockedKept
     DEF IInv

LEMMA IInvHolds == FcntlSpec => []IInv
  BY InitHolds, IInvKept, PTL DEF FcntlSpec

(* What is on its way between two neighbours of the ring. *)
OnTheWay(j) == buf[j-1] + InHand(j)

LEMMA OnTheWayFacts ==
  ASSUME Types, NEW j \in Daemons
  PROVE  /\ InHand(j) \in {0, 1} /\ buf[j-1] \in Nat /\ OnTheWay(j) \in Nat
         /\ buf[procs-1] \in Nat /\ turns[0] \in Nat /\ turns[j] \in Nat /\ turns[j-1] \in Nat
         /\ turns[procs-1] \in Nat
<1>1. j-1 \in Pipes /\ procs-1 \in Pipes /\ j \in Pipes /\ 0 \in Pipes
  BY Size
<1> QED
  BY <1>1 DEF Types, InHand, OnTheWay

(* Of everything on its way round the ring there is at most one. *)
LEMMA OneOnTheWay ==
  ASSUME Types, TokenComesFrom, TokenReturns, InRing
  PROVE  /\ \A j \in Daemons : OnTheWay(j) + buf[procs-1] <= 1
         /\ \A j, k \in Daemons : j < k => OnTheWay(j) + OnTheWay(k) + buf[procs-1] <= 1
<1>1. turns[0] + buf[procs-1] <= turns[procs-1] + 1
  BY DEF TokenReturns
<1>2. ASSUME NEW j \in Daemons
      PROVE  turns[0] >= turns[j] + OnTheWay(j) /\ turns[j-1] >= turns[j] + OnTheWay(j)
  <2>1. 0 \in 0 .. j-1 /\ j-1 \in 0 .. j-1
    BY Size
  <2>2. turns[0] >= turns[j] + buf[j-1] + InHand(j) /\ turns[j-1] >= turns[j] + buf[j-1] + InHand(j)
    BY <2>1 DEF TokenComesFrom
  <2> QED
    BY <2>2, OnTheWayFacts DEF OnTheWay
<1>3. ASSUME NEW j \in Daemons
      PROVE  turns[j] >= turns[procs-1]
  <2>1. CASE j = procs-1
    BY <2>1, OnTheWayFacts
  <2>2. CASE j # procs-1
    <3>1. procs-1 \in Daemons /\ j \in 0 .. (procs-1)-1
      BY <2>2, Size
    <3>2. turns[j] >= turns[procs-1] + buf[(procs-1)-1] + InHand(procs-1)
      BY <3>1 DEF TokenComesFrom
    <3>3. buf[(procs-1)-1] \in Nat /\ InHand(procs-1) \in {0, 1}
      BY <3>1, OnTheWayFacts
    <3> QED
      BY <3>2, <3>3, OnTheWayFacts
  <2> QED
    BY <2>1, <2>2
<1>4. \A j \in Daemons : OnTheWay(j) + buf[procs-1] <= 1
  BY <1>1, <1>2, <1>3, OnTheWayFacts
<1>5. ASSUME NEW j \in Daemons, NEW k \in Daemons, j < k
      PROVE  OnTheWay(j) + OnTheWay(k) + buf[procs-1] <= 1
  <2>1. j \in 0 .. k-1
    BY <1>5, Size
  <2>2. turns[j] >= turns[k] + buf[k-1] + InHand(k)
    BY <2>1 DEF TokenComesFrom
  <2>3. turns[j] >= turns[k] + OnTheWay(k)
    BY <2>2, OnTheWayFacts DEF OnTheWay
  <2> QED
    BY <1>1, <1>2, <1>3, <2>3, OnTheWayFacts
<1> QED
  BY <1>4, <1>5

(* One place at most has the token. *)
OnePlace ==
  /\ \A p, q \in Pipes : buf[p] > 0 /\ buf[q] > 0 => p = q
  /\ \A i, j \in Holders : i = j
  /\ \A p \in Pipes : buf[p] > 0 => Holders = {}

LEMMA RingOnePlace ==
  ASSUME Types, TokenComesFrom, TokenReturns, InRing
  PROVE  OnePlace /\ \A p \in Pipes : buf[p] <= 1
<1>1. /\ \A j \in Daemons : OnTheWay(j) + buf[procs-1] <= 1
      /\ \A j, k \in Daemons : j < k => OnTheWay(j) + OnTheWay(k) + buf[procs-1] <= 1
  BY OneOnTheWay
<1>2. \A j \in Daemons : InHand(j) \in {0, 1} /\ buf[j-1] \in Nat /\ buf[procs-1] \in Nat
  BY OnTheWayFacts
<1>3. \A p \in Pipes : p \in Nat /\ (p = procs-1 \/ (p+1 \in Daemons /\ p = (p+1)-1))
  BY Size DEF Pipes, Daemons
<1>4. \A j \in Daemons : j \in Nat
  BY Size
<1>5. ASSUME NEW j \in Daemons, NEW k \in Daemons, j # k
      PROVE  OnTheWay(j) + OnTheWay(k) + buf[procs-1] <= 1
  <2>1. j < k \/ k < j
    BY <1>4, <1>5
  <2>2. OnTheWay(j) \in Nat /\ OnTheWay(k) \in Nat
    BY OnTheWayFacts
  <2> QED
    BY <1>1, <1>2, <2>1, <2>2
<1>6. ASSUME NEW p \in Pipes, NEW q \in Pipes, buf[p] > 0, buf[q] > 0 PROVE p = q
  <2>1. CASE p = procs-1
    BY <1>1, <1>2, <1>3, <1>6, <2>1 DEF OnTheWay
  <2>2. CASE q = procs-1
    BY <1>1, <1>2, <1>3, <1>6, <2>2 DEF OnTheWay
  <2>3. CASE p # procs-1 /\ q # procs-1
    <3>1. p+1 \in Daemons /\ q+1 \in Daemons /\ p = (p+1)-1 /\ q = (q+1)-1
      BY <1>3, <2>3
    <3>2. p+1 # q+1 => OnTheWay(p+1) + OnTheWay(q+1) + buf[procs-1] <= 1
      BY <1>5, <3>1
    <3>3. OnTheWay(p+1) = buf[p] + InHand(p+1) /\ OnTheWay(q+1) = buf[q] + InHand(q+1)
      BY <3>1 DEF OnTheWay
    <3>4. /\ buf[p] \in Nat /\ buf[q] \in Nat /\ buf[procs-1] \in Nat
          /\ InHand(p+1) \in {0, 1} /\ InHand(q+1) \in {0, 1}
      BY <1>2, <3>1
    <3> QED
      BY <1>3, <1>6, <3>2, <3>3, <3>4
  <2> QED
    BY <2>1, <2>2, <2>3
<1>7. \A i, j \in Holders : i = j
  <2> SUFFICES ASSUME NEW i \in Holders, NEW j \in Holders, i # j PROVE FALSE
    OBVIOUS
  <2>1. i \in Daemons /\ j \in Daemons /\ InHand(i) = 1 /\ InHand(j) = 1
    BY DEF Holders, InHand
  <2> QED
    BY <1>2, <1>5, <2>1 DEF OnTheWay
<1>8. ASSUME NEW p \in Pipes, buf[p] > 0 PROVE Holders = {}
  <2> SUFFICES ASSUME NEW j \in Holders PROVE FALSE
    OBVIOUS
  <2>1. j \in Daemons /\ InHand(j) = 1
    BY DEF Holders, InHand
  <2>2. CASE p = procs-1
    BY <1>1, <1>2, <1>8, <2>1, <2>2 DEF OnTheWay
  <2>3. CASE p # procs-1
    <3>1. p+1 \in Daemons /\ p = (p+1)-1
      BY <1>3, <2>3
    <3>2. CASE p+1 = j
      BY <1>1, <1>2, <1>8, <2>1, <3>1, <3>2 DEF OnTheWay
    <3>3. CASE p+1 # j
      <4>1. OnTheWay(p+1) + OnTheWay(j) + buf[procs-1] <= 1
        BY <1>5, <2>1, <3>1, <3>3
      <4>2. /\ OnTheWay(p+1) = buf[p] + InHand(p+1) /\ OnTheWay(j) = buf[j-1] + 1
            /\ buf[p] \in Nat /\ InHand(p+1) \in {0, 1}
        BY <1>2, <2>1, <3>1 DEF OnTheWay
      <4> QED
        BY <1>2, <1>8, <2>1, <4>1, <4>2
    <3> QED
      BY <3>2, <3>3
  <2> QED
    BY <2>2, <2>3
<1>9. ASSUME NEW p \in Pipes PROVE buf[p] <= 1
  <2>1. CASE p = procs-1
    <3>1. 1 \in Daemons /\ OnTheWay(1) \in Nat /\ OnTheWay(1) + buf[procs-1] <= 1
      BY <1>1, Size, OnTheWayFacts
    <3> QED
      BY <1>2, <2>1, <3>1
  <2>2. CASE p # procs-1
    <3>1. p+1 \in Daemons /\ p = (p+1)-1
      BY <1>3, <2>2
    <3>2. OnTheWay(p+1) = buf[p] + InHand(p+1)
      BY <3>1 DEF OnTheWay
    <3> QED
      BY <1>1, <1>2, <3>1, <3>2
  <2> QED
    BY <2>1, <2>2
<1> QED
  BY <1>6, <1>7, <1>8, <1>9 DEF OnePlace

LEMMA AllOnePlace ==
  ASSUME IInv
  PROVE  /\ \A p \in Pipes : buf[p] <= 1
         /\ ~(prog = "process_vs_thread" /\ pc = "gone") => OnePlace
<1>1. Types
  BY DEF IInv
<1>2. CASE InRing
  BY <1>2, RingOnePlace DEF IInv
<1>3. CASE prog = "lat_sem"
  <2>1. /\ Pipes = {0, 1} /\ Daemons = {1} /\ buf[0] \in Nat /\ buf[1] \in Nat
        /\ buf[0] + buf[1] + InHand(1) <= 1
    BY <1>1, <1>3, Size DEF Types, IInv, SemToken
  <2> QED
    BY <2>1 DEF OnePlace, Holders, InHand
<1>4. CASE prog = "lat_fcntl"
  <2>1. Pipes = {0, 1} /\ Daemons = {1} /\ buf[0] = 0 /\ buf[1] = 0 /\ st[1] # "write"
    BY <1>4, Size DEF IInv, FcntlLocked, Labels
  <2> QED
    BY <2>1 DEF OnePlace, Holders
<1>5. CASE prog = "process_vs_thread" /\ pc = "gone"
  <2>1. Pipes = {0, 1} /\ buf[0] <= 1 /\ buf[1] <= 1
    BY <1>5, Size DEF IInv, SmallChild
  <2> QED
    BY <1>5, <2>1
<1> QED
  BY <1>2, <1>3, <1>4, <1>5 DEF InRing

LEMMA AllTyped == IInv => TypeOK
<1> SUFFICES ASSUME IInv PROVE TypeOK
  OBVIOUS
<1>1. Types /\ Trips
  BY DEF IInv
<1>2. \A p \in Pipes : buf[p] \in 0 .. 1
  BY <1>1, AllOnePlace DEF Types
<1>3. turns[0] <= MaxTrips + 1
  <2>1. turns[0] \in Nat
    BY <1>1, Size DEF Types
  <2> QED
    BY <1>1, <2>1, Size DEF Trips
<1>4. ASSUME NEW p \in Pipes PROVE turns[p] <= MaxTrips + 1
  <2>1. turns[p] \in Nat /\ turns[0] \in Nat
    BY <1>1, Size DEF Types
  <2>2. CASE p = 0
    BY <1>3, <2>2
  <2>3. CASE p # 0 /\ InRing
    <3>1. p \in Daemons /\ 0 \in 0 .. p-1
      BY <2>3, Size
    <3>2. turns[0] >= turns[p] + buf[p-1] + InHand(p)
      BY <2>3, <3>1 DEF IInv, TokenComesFrom
    <3>3. buf[p-1] \in Nat /\ InHand(p) \in {0, 1}
      BY <1>1, <3>1, OnTheWayFacts
    <3> QED
      BY <1>3, <2>1, <3>2, <3>3, Size
  <2>4. CASE p # 0 /\ prog = "lat_sem"
    <3>1. p = 1 /\ turns[1] = turns[0] + buf[1] /\ turns[0] <= MaxTrips /\ buf[1] <= 1 /\ buf[1] \in Nat
      BY <1>1, <1>2, <2>4, Size DEF IInv, SemToken, Trips
    <3> QED
      BY <2>1, <3>1, Size
  <2>5. CASE p # 0 /\ prog = "lat_fcntl"
    BY <1>1, <2>5, Size DEF Trips
  <2>6. CASE p # 0 /\ prog = "process_vs_thread"
    BY <1>1, <2>1, <2>6, Size DEF Trips, Small
  <2> QED
    BY <2>2, <2>3, <2>4, <2>5, <2>6 DEF InRing
<1>5. buf \in [Pipes -> 0 .. 1] /\ turns \in [Pipes -> 0 .. MaxTrips+1]
  <2>1. \A p \in Pipes : turns[p] \in 0 .. MaxTrips+1
    BY <1>1, <1>4, Size DEF Types
  <2> QED
    BY <1>1, <1>2, <2>1 DEF Types
<1> QED
  BY <1>1, <1>5 DEF Types, TypeOK, MainLabel, DaemonLabel

(* Every variable keeps its type, process 0 and the daemons never have two *)
(* tokens between them (one side goes on while the other is held up), and  *)
(* the partner of lat_fcntl never gets a round ahead.                      *)
THEOREM TokenOneAtATime == FcntlSpec => []OneAtATime
<1>1. IInv => TypeOK
  BY AllTyped
<1>2. ASSUME IInv PROVE OneToken
  <2>1. CASE prog = "process_vs_thread" /\ pc = "gone"
    BY <2>1 DEF OneToken
  <2>2. CASE OnePlace
    <3> DEFINE Full == {p \in Pipes : buf[p] > 0}
    <3>1. CASE Full = {} /\ Holders = {}
      BY <3>1, FS_EmptySet DEF OneToken
    <3>2. ASSUME NEW p \in Full PROVE Cardinality(Full) + Cardinality(Holders) <= 1
      <4>1. Full = {p} /\ Holders = {}
        BY <2>2, <3>2 DEF OnePlace
      <4>2. Cardinality(Full) = 1 /\ Cardinality(Holders) = 0
        BY <4>1, FS_Singleton, FS_EmptySet
      <4> QED
        BY <4>2
    <3>3. ASSUME NEW i \in Holders PROVE Cardinality(Full) + Cardinality(Holders) <= 1
      <4>1. Holders = {i} /\ Full = {}
        BY <2>2, <3>3 DEF OnePlace
      <4>2. Cardinality(Holders) = 1 /\ Cardinality(Full) = 0
        BY <4>1, FS_Singleton, FS_EmptySet
      <4> QED
        BY <4>2
    <3> QED
      BY <3>1, <3>2, <3>3 DEF OneToken
  <2> QED
    BY <1>2, <2>1, <2>2, AllOnePlace
<1>3. IInv => PartnerHeldUp
  BY DEF IInv, FcntlLocked, PartnerHeldUp
<1> QED
  BY <1>1, <1>2, <1>3, IInvHolds, PTL DEF OneAtATime

(* The step of TripIsRotation. *)
Rotated ==
  pc' = "loop" /\ pc \notin {"loop", "setup"} /\ (prog \in Small => ok) /\ prog # "lat_fcntl"
    => \A i \in Daemons : turns[i] = turns'[0]

LEMMA ReceiveRotates == IInv /\ Receive => Rotated
<1> SUFFICES ASSUME IInv, Receive, pc' = "loop", NEW i \in Daemons PROVE turns[i] = turns'[0]
  BY DEF Rotated
<1>0. Types
  BY DEF IInv
<1>1. turns' = turns /\ pc = "read" /\ buf[procs-1] >= 1
  BY <1>0, Size DEF Receive, Readable, Goto, Types
<1>2. InRing
  BY <1>1 DEF InRing, IInv, Labels
<1>3. turns[0] + buf[procs-1] <= turns[procs-1] + 1
  BY <1>2 DEF IInv, TokenReturns
<1>4. turns[0] >= turns[i]
  <2>1. turns[0] >= turns[i] + buf[i-1] + InHand(i)
    BY <1>2, Size DEF IInv, TokenComesFrom
  <2> QED
    BY <1>0, <2>1, OnTheWayFacts
<1>5. turns[i] >= turns[procs-1]
  <2>1. CASE i = procs-1
    BY <1>0, <2>1, OnTheWayFacts
  <2>2. CASE i # procs-1
    <3>1. procs-1 \in Daemons /\ i \in 0 .. (procs-1)-1
      BY <2>2, Size
    <3>2. turns[i] >= turns[procs-1] + buf[(procs-1)-1] + InHand(procs-1)
      BY <1>2, <3>1 DEF IInv, TokenComesFrom
    <3>3. buf[(procs-1)-1] \in Nat /\ InHand(procs-1) \in {0, 1}
      BY <1>0, <3>1, OnTheWayFacts
    <3> QED
      BY <1>0, <3>2, <3>3, OnTheWayFacts
  <2> QED
    BY <2>1, <2>2
<1> QED
  BY <1>0, <1>1, <1>3, <1>4, <1>5, OnTheWayFacts

LEMMA ReadUncheckedRotates == IInv /\ ReadUnchecked => Rotated
<1> SUFFICES ASSUME IInv, ReadUnchecked, ok PROVE \A i \in Daemons : turns[i] = turns'[0]
  BY DEF Rotated, ReadUnchecked
<1>0. Types /\ Labels /\ SmallEnds /\ SmallChild /\ TokenComesFrom /\ Trips
  BY DEF IInv
<1>1. /\ prog \in Small /\ pc = "read" /\ turns' = turns /\ 1 \notin wr[1]
      /\ Daemons = {1} /\ prog # "lat_ctx" /\ prog \in {"process_vs_thread", "lat_ctx_fixed"}
  BY Size DEF ReadUnchecked, AtEof, Small
<1>2. ~Live(1)
  BY <1>0, <1>1, Size DEF Types, DaemonLabel, Labels, SmallEnds, Small, Live
<1>3. turns[1] = MaxTrips
  BY <1>0, <1>1, <1>2 DEF SmallChild, Live
<1>4. turns[0] <= MaxTrips
  BY <1>0, <1>1 DEF Trips
<1>5. InRing /\ turns[0] >= turns[1] + buf[0] + InHand(1)
  <2>1. InRing
    BY <1>1 DEF InRing
  <2>2. 1 \in Daemons /\ 0 \in 0 .. 1-1 /\ 1-1 = 0
    BY Size
  <2> QED
    BY <1>0, <2>1, <2>2 DEF TokenComesFrom
<1>6. buf[0] \in Nat /\ InHand(1) \in {0, 1} /\ turns[0] \in Nat /\ turns[1] \in Nat
  BY <1>0, Size DEF Types, InHand
<1> QED
  BY <1>1, <1>3, <1>4, <1>5, <1>6, Size

LEMMA SemTripRotates == IInv /\ SemTrip => Rotated
<1> SUFFICES ASSUME IInv, SemTrip PROVE \A i \in Daemons : turns[i] = turns'[0]
  BY DEF Rotated
<1>1. /\ Daemons = {1} /\ turns[1] = turns[0] + buf[1] /\ buf[1] > 0
      /\ buf[0] + buf[1] + InHand(1) <= 1 /\ turns'[0] = turns[0] + 1
      /\ turns[0] \in Nat /\ buf[1] \in Nat /\ buf[0] \in Nat /\ InHand(1) \in {0, 1}
  BY Size DEF IInv, SemToken, SemTrip, Readable, Turn, Types, InHand
<1> QED
  BY <1>1

(* What an iteration times is one rotation: every process has handed on    *)
(* the token as often as process 0, whatever the size of the ring.         *)
THEOREM TripsRotate == FcntlSpec => TripIsRotation
<1>1. IInv /\ [FcntlNext]_fcntlVars => [Rotated]_vars
  <2> SUFFICES ASSUME IInv, [FcntlNext]_fcntlVars PROVE [Rotated]_vars
    OBVIOUS
  <2>1. CASE Receive \/ ReadUnchecked \/ SemTrip
    BY <2>1, ReceiveRotates, ReadUncheckedRotates, SemTripRotates
  <2>2. CASE UNCHANGED fcntlVars
    BY <2>2 DEF fcntlVars
  <2>3. CASE procA
    BY <2>3 DEF procA, Rotated
  <2>4. CASE procB
    BY <2>4 DEF procB, Rotated
  <2>5. ASSUME NEW i \in Daemons, Daemon(i) \/ DaemonKilled(i) PROVE Rotated
    BY <2>5
       DEF Daemon, Settle, DaemonRead, DaemonWrite, DaemonGivesUp, ProcChildMisreads,
           DaemonKilled, DaemonGone, Rotated
  <2>6. CASE SetupFails \/ CtxForkFails \/ ForkFails \/ MainKilled
    BY <2>6 DEF SetupFails, CtxForkFails, ForkFails, MainKilled, MainGone, Goto, Rotated
  <2>7. CASE (\E i \in Daemons : Fork(i)) \/ ForksDone \/ OpenFifo \/ Send \/ MainGivesUp
             \/ NextInterval
    BY <2>7
       DEF Fork, ForksDone, OpenFifo, Send, MainGivesUp, NextInterval, MainGone, Goto,
           Rotated
  <2>8. CASE Cleanup \/ Reap \/ Exit
    BY <2>8 DEF Cleanup, Reap, Exit, MainGone, Goto, Rotated
  <2> QED
    BY <2>1, <2>2, <2>3, <2>4, <2>5, <2>6, <2>7, <2>8 DEF FcntlNext, Next, Main, Failure
<1> QED
  BY <1>1, IInvHolds, PTL DEF TripIsRotation, Rotated, FcntlSpec
=============================================================================
