------------------------------ MODULE PipeRing ------------------------------
(***************************************************************************)
(* The ring of pipes every process benchmark of this repository sets up:   *)
(* process i reads pipe i and writes pipe i+1; processes 0 .. N-2 are the  *)
(* forked children and process N-1 is the parent.  (A two-process          *)
(* ping-pong is the ring of size 2: pipe 0 is p2c, pipe 1 is c2p.)         *)
(*                                                                         *)
(* The pipes are the kernel's: bytes are counted, not looked at; a read    *)
(* of an empty pipe blocks while somebody can still write to it and        *)
(* returns 0 when nobody can; a write that nobody can read any more kills  *)
(* the writer (SIGPIPE).  A pipe never fills up: the most that any program *)
(* here can leave in one is ITERATIONS + WARMUP bytes, under 64 KiB.       *)
(***************************************************************************)
EXTENDS Naturals

CONSTANT N                   \* n_procs
ASSUME RingAssumption == N \in Nat /\ N >= 2

Proc   == 0 .. N-1
Parent == N-1
Child  == 0 .. N-2
Out(i) == IF i = N-1 THEN 0 ELSE i+1   \* the pipe that process i writes

VARIABLES
  buf,                       \* bytes in each pipe
  ends                       \* which pipe ends each process holds: "none",
                             \* "own" (those it uses) or "all"

pipeVars == <<buf, ends>>

PipeInit ==
  /\ buf = [p \in Proc |-> 0]
  /\ ends = [i \in Proc |-> IF i = Parent THEN "all" ELSE "none"]

PipeTypeOK ==
  /\ buf \in [Proc -> Nat]
  /\ ends \in [Proc -> {"none", "own", "all"}]

CanRead(i, p)  == ends[i] = "all" \/ (ends[i] = "own" /\ p = i)
CanWrite(i, p) == ends[i] = "all" \/ (ends[i] = "own" /\ p = Out(i))

Readable(p) == buf[p] > 0
AtEof(p)    == buf[p] = 0 /\ \A i \in Proc : ~CanWrite(i, p)
Broken(p)   == \A i \in Proc : ~CanRead(i, p)

Take(p) == buf' = [buf EXCEPT ![p] = @ - 1]
Put(p)  == buf' = [buf EXCEPT ![p] = @ + 1]

(* fork: the child starts with every end its parent holds. *)
Inherit(i) == ends' = [ends EXCEPT ![i] = ends[Parent]]

(* The closing loop each process runs before it joins the ring.  What it   *)
(* closes belongs to others; those others see it at once.                  *)
CloseForeign(i) == ends' = [ends EXCEPT ![i] = "own"]

(* exit or death by signal. *)
CloseAll(i) == ends' = [ends EXCEPT ![i] = "none"]
=============================================================================
