------------------------------ MODULE FcntlLocks ------------------------------
(***************************************************************************)
(* lat_fcntl of lmbench, one of the programs of TokenPrograms: process 0   *)
(* (procA) and its partner 1 (procB) hand on two file locks, and no token. *)
(* A process owns the locks it has and loses them when it ends or closes   *)
(* the files; it may lock again what it has, and unlock what it has not.   *)
(***************************************************************************)
EXTENDS TokenPrograms

VARIABLE held                \* the locks, 1 and 2, of each of the two

fcntlVars == <<vars, held>>

(* initialize has locked both when it forks. *)
FcntlInit ==
  Init /\ held = [i \in {0, 1} |-> IF i = 0 /\ prog = "lat_fcntl" THEN {1, 2} ELSE {}]

(* Mutant of waiton: it does not wait. *)
waitonAnyway(i, k) == held' = [held EXCEPT ![i] = @ \cup {k}]
waiton(i, k)  == k \notin held[1-i] /\ held' = [held EXCEPT ![i] = @ \cup {k}]
release(i, k) == held' = [held EXCEPT ![i] = @ \ {k}]

procA ==
  /\ prog = "lat_fcntl"
  /\ \/ pc = "write"    /\ waiton(0, 1)  /\ Goto("release2") /\ UNCHANGED turns
     \/ pc = "release2" /\ release(0, 2) /\ Goto("wait2")    /\ UNCHANGED turns
     \/ pc = "wait2"    /\ waiton(0, 2)  /\ Goto("release1") /\ UNCHANGED turns
     \/ pc = "release1" /\ release(0, 1) /\ Goto("loop")     /\ Turn(0)
  /\ UNCHANGED <<prog, sigchld, st, buf, rd, wr, ok>>

(* Without process 0 it goes on for ever: MaxTrips bounds its rounds. *)
procB ==
  /\ prog = "lat_fcntl" /\ turns[1] <= MaxTrips
  /\ \/ st[1] = "read"     /\ release(1, 1) /\ Move(1, "wait2")    /\ UNCHANGED turns
     \/ st[1] = "wait2"    /\ waiton(1, 2)  /\ Move(1, "release2") /\ UNCHANGED turns
     \/ st[1] = "release2" /\ release(1, 2) /\ Move(1, "wait1")    /\ UNCHANGED turns
     \/ st[1] = "wait1"    /\ waiton(1, 1)  /\ Move(1, "read")     /\ Turn(1)
  /\ UNCHANGED <<prog, pc, sigchld, buf, rd, wr, ok>>

(* Whoever has ended, and process 0 from its cleanup on, has no lock.      *)
Unlocked ==
  held' = [i \in {0, 1} |->
             IF (i = 0 /\ pc' \in {"await", "gone"}) \/ (i = 1 /\ st'[1] = "gone")
             THEN {} ELSE held[i]]

FcntlNext == (Next /\ Unlocked) \/ procA \/ procB

FcntlSpec == FcntlInit /\ [][FcntlNext]_fcntlVars

FairFcntlSpec ==
  FcntlSpec /\ WF_fcntlVars((Main /\ Unlocked) \/ procA) /\ WF_fcntlVars(procB)
            /\ \A i \in 1 .. CtxProcs-1 : WF_fcntlVars(i \in Daemons /\ Daemon(i) /\ Unlocked)

----------------------------------------------------------------------------
(* The partner never gets a round ahead: it is held up by every round of   *)
(* process 0, from its first release to its last, and the two are never in *)
(* possession of the same lock.  (Not the other way round, see             *)
(* HandedOver.)                                                            *)
PartnerHeldUp ==
  prog = "lat_fcntl" /\ pc # "gone" =>
    /\ held[0] \cap held[1] = {}
    /\ pc # "await" => turns[1] <= turns[0]

(* One side goes on while the other is held up, by the token or the locks. *)
OneAtATime == TypeOK /\ OneToken /\ PartnerHeldUp

(* lat_fcntl.c: "Create two files, use them as a ping pong test": when     *)
(* process 0 is through with a round its partner has taken lock 2 as often *)
(* as process 0 has given it.                                              *)
HandedOver ==
  [][prog = "lat_fcntl" /\ pc' = "loop" /\ pc # "loop" /\ ok => turns[1] + 1 >= turns'[0]]_fcntlVars
=============================================================================
