--------------------------- MODULE MigrationProofs ---------------------------
(***************************************************************************)
(* Proofs about core_migration_penalty.c, for every number of processes,   *)
(* of rounds and of warm-up rounds, for every list of scenarios, and       *)
(* whatever forks fail.                                                    *)
(*                                                                         *)
(* Nobody in run_ring looks at what read and write return.  That nothing   *)
(* comes of it when every fork has succeeded is an argument about counts:  *)
(* a token is never lost, so whoever still wants to read has somebody who  *)
(* still has to write, and the other way round.                            *)
(*                                                                         *)
(* That the repair restores the table is an argument about order: no row   *)
(* gets to the disk before the row it follows in the table, so each line   *)
(* the repair has not kept yet is the next one to keep.                    *)
(***************************************************************************)
EXTENDS ResultTable, WellFoundedInduction, SequenceTheorems, TLAPS

(* The parent's position tells how many rounds it is through and how many  *)
(* tokens it has written.                                                  *)
ParentCounts ==
  /\ pc[Parent] = "fork" => round = 0
  /\ pc[Parent] \in {"write", "read"} => round < Total
  /\ pc[Parent] \in {"report", "reap", "exited"} => round = Total
  /\ pc[Parent] \in {"fork", "write"} => sent[Parent] = round
  /\ pc[Parent] = "read" => sent[Parent] = round + 1

(* A child has rounds left while it is in its loop, and none afterwards. *)
ChildCounts ==
  \A k \in Child :
    /\ pc[k] \in {"unborn", "new"} => sent[k] = 0
    /\ pc[k] \in {"read", "write"} => sent[k] < Total
    /\ pc[k] \in {"leave", "exited"} => sent[k] = Total

(* The samples are those of the measured rounds the parent is through. *)
SamplesFit == lat = {i \in 0 .. (Iterations - 1) : i + Warmup < round}

(* The parent forks everybody before it joins the ring, and has waited for *)
(* every entry it is through.                                              *)
InOrder ==
  /\ pc[Parent] # "fork" => \A k \in Child : pc[k] # "unborn"
  /\ pc[Parent] # "reap" => waits = 0 /\ reaped = {}
  /\ \A k \in Child : k < waits => Gone(k)
  /\ pc[Parent] = "exited" => \A k \in Child : Gone(k)

(* Who still has to use a pipe end holds it. *)
EndsFit ==
  /\ pc[Parent] = "fork" => ends[Parent] = "all"
  /\ pc[Parent] \in {"write", "read", "report", "reap"} => ends[Parent] = "own"
  /\ \A k \in Child :
       /\ pc[k] = "new" => ends[k] = "all"
       /\ pc[k] \in {"read", "write", "leave"} => ends[k] = "own"

(* Who has joined the ring is where its scenario puts it. *)
Placed(i) ==
  IF i = Parent THEN pc[i] \in {"write", "read", "report", "reap"}
                ELSE pc[i] \in {"read", "write", "leave", "exited", "killed"}
PinFits ==
  \A i \in Proc : Placed(i) /\ Scenarios[scene][i] \in Online
                     => mask[i] = {Scenarios[scene][i]}

(* What follows holds in a ring without a hole.  What process j has        *)
(* written, has in its pipe or has in its hand, every process before it in *)
(* the ring has written.                                                   *)
InHand(j) == IF pc[j] = "write" THEN 1 ELSE 0
TokensComeFrom ==
  \A j \in Child : \A i \in Proc :
    i = Parent \/ i < j => sent[i] >= sent[j] + buf[j] + InHand(j)

(* What a process has written, the next has in its pipe, in its hand or    *)
(* has written itself.                                                     *)
TokensStay ==
  /\ sent[Parent] <= sent[0] + buf[0] + InHand(0)
  /\ \A i, j \in Child : j = i + 1 => sent[i] <= sent[j] + buf[j] + InHand(j)
  /\ \A i \in Child : Out(i) = Parent => sent[i] <= round + buf[Parent]

(* Every round the parent is through and every token that waits for it     *)
(* have been written by all children.                                      *)
TokensReturn == \A i \in Child : sent[i] >= round + buf[Parent]

NobodyKilled == \A i \in Proc : pc[i] # "killed"

RingFits ==
  WholeRing => TokensComeFrom /\ TokensStay /\ TokensReturn /\ NobodyKilled

IInv ==
  TypeOK /\ ParentCounts /\ ChildCounts /\ SamplesFit /\ InOrder /\ EndsFit
  /\ PinFits /\ RingFits

(* The ring, as the proofs use it. *)
LEMMA RingFacts ==
  /\ Parent \in Proc /\ Child \subseteq Proc /\ Parent \notin Child
  /\ \A i \in Proc : i \in Nat /\ (i = Parent \/ i \in Child) /\ Out(i) \in Proc
  /\ Out(Parent) = 0 /\ 0 \in Child
  /\ \A k \in Child : Out(k) = k + 1 /\ k < Parent /\ k # Parent
  BY RingAssumption DEF Proc, Parent, Child, Out

LEMMA Rounds ==
  /\ Total \in Nat \ {0} /\ Iterations \in Nat \ {0} /\ Warmup \in Nat
  /\ Total = Warmup + Iterations
  BY MigrationAssumption DEF Total

(* What the typing says of the numbers, process by process. *)
LEMMA Numbers ==
  TypeOK => /\ round \in Nat
            /\ \A i \in Proc : sent[i] \in Nat /\ sent[i] <= Total /\ buf[i] \in Nat
  BY Rounds DEF TypeOK, PipeTypeOK

(* One token more or less in a pipe, one process more on its CPU. *)
LEMMA Taken ==
  ASSUME buf \in [Proc -> Nat], NEW p \in Proc, Readable(p), Take(p)
  PROVE  /\ buf' \in [Proc -> Nat] /\ buf[p] >= 1 /\ buf'[p] = buf[p] - 1
         /\ \A q \in Proc : q # p => buf'[q] = buf[q]
  BY DEF Readable, Take

LEMMA Given ==
  ASSUME buf \in [Proc -> Nat], NEW p \in Proc, Put(p)
  PROVE  /\ buf' \in [Proc -> Nat] /\ buf'[p] = buf[p] + 1
         /\ \A q \in Proc : q # p => buf'[q] = buf[q]
  BY DEF Put

LEMMA Pinned ==
  ASSUME TypeOK, NEW i \in Proc, Pin(i)
  PROVE  /\ mask' \in [Proc -> (SUBSET Online) \ {{}}]
         /\ Scenarios[scene][i] \in Online => mask'[i] = {Scenarios[scene][i]}
         /\ \A j \in Proc : j # i => mask'[j] = mask[j]
<1>1. mask \in [Proc -> (SUBSET Online) \ {{}}]
  BY DEF TypeOK
<1>2. CASE Scenarios[scene][i] \in Online
  <2>1. {Scenarios[scene][i]} \in (SUBSET Online) \ {{}}
    BY <1>2
  <2> QED
    BY <1>1, <1>2, <2>1 DEF Pin
<1>3. CASE Scenarios[scene][i] \notin Online
  BY <1>1, <1>3 DEF Pin
<1> QED
  BY <1>2, <1>3

LEMMA Written ==
  ASSUME TypeOK, NEW i \in Proc, sent[i] < Total, sent' = [sent EXCEPT ![i] = @ + 1]
  PROVE  /\ sent' \in [Proc -> 0 .. Total] /\ sent'[i] = sent[i] + 1
         /\ \A j \in Proc : j # i => sent'[j] = sent[j]
<1>1. sent[i] \in Nat /\ sent \in [Proc -> 0 .. Total]
  BY Numbers DEF TypeOK
<1>2. sent[i] + 1 \in 0 .. Total
  BY <1>1, Rounds
<1> QED
  BY <1>1, <1>2

LEMMA InitHolds == Init => IInv
<1> SUFFICES ASSUME Init PROVE IInv
  OBVIOUS
<1>1. /\ buf = [p \in Proc |-> 0] /\ ends \in [Proc -> {"none", "own", "all"}]
      /\ ends[Parent] = "all" /\ round = 0 /\ lat = {} /\ sent = [i \in Proc |-> 0]
      /\ pc[Parent] = "fork" /\ \A k \in Child : pc[k] = "unborn"
      /\ waits = 0 /\ reaped = {}
  BY RingFacts DEF Init, PipeInit, NewRing
<1>2. TypeOK
  <2>1. scene \in 1 .. Len(Scenarios) /\ mask \in [Proc -> (SUBSET Online) \ {{}}]
    <3>1. 1 \in 1 .. Len(Scenarios) /\ Online \in (SUBSET Online) \ {{}}
      BY MigrationAssumption
    <3> QED
      BY <3>1 DEF Init
  <2>2. sent \in [Proc -> 0 .. Total] /\ round \in 0 .. Total /\ waits \in 0 .. N-1
    BY <1>1, Rounds, RingAssumption
  <2> QED
    BY <1>1, <2>1, <2>2, RingFacts
       DEF Init, NewRing, TypeOK, PipeTypeOK, ParentLabel, ChildLabel
<1>3. SamplesFit
  BY <1>1, Rounds DEF SamplesFit
<1>4. ParentCounts /\ ChildCounts /\ EndsFit /\ PinFits
  BY <1>1, Rounds, RingFacts DEF ParentCounts, ChildCounts, EndsFit, PinFits, Placed
<1>5. InOrder
  BY <1>1, RingFacts DEF InOrder
<1>6. RingFits
  BY <1>1, RingFacts
     DEF RingFits, TokensComeFrom, TokensStay, TokensReturn, NobodyKilled, InHand
<1> QED
  BY <1>2, <1>3, <1>4, <1>5, <1>6 DEF IInv

LEMMA TypesKept == IInv /\ [Next]_vars => TypeOK'
<1> SUFFICES ASSUME IInv, [Next]_vars PROVE TypeOK'
  OBVIOUS
<1> USE DEF TypeOK, PipeTypeOK, ParentLabel, ChildLabel
<1>0. /\ buf \in [Proc -> Nat] /\ ends \in [Proc -> {"none", "own", "all"}]
      /\ pc \in [Proc -> ParentLabel \cup ChildLabel]
      /\ pc[Parent] \in ParentLabel /\ \A k \in Child : pc[k] \in ChildLabel
      /\ sent \in [Proc -> 0 .. Total] /\ round \in 0 .. Total
      /\ lat \subseteq 0 .. (Iterations - 1)
      /\ mask \in [Proc -> (SUBSET Online) \ {{}}] /\ scene \in 1 .. Len(Scenarios)
      /\ waits \in 0 .. N-1 /\ reaped \subseteq Child
  BY DEF IInv, TypeOK, PipeTypeOK
<1>1. ASSUME NEW k \in Child, Fork(k) PROVE TypeOK'
  <2>1. mask' \in [Proc -> (SUBSET Online) \ {{}}]
    BY <1>0, <1>1, RingFacts DEF Fork
  <2> QED
    BY <1>0, <1>1, <2>1, RingFacts DEF Goto, reaping, Fork, Turn, Inherit
<1>2. ASSUME NEW k \in Child, ForkFails(k) PROVE TypeOK'
  BY <1>0, <1>2, RingFacts DEF Goto, reaping, ForkFails, Turn
<1>3. ASSUME NEW k \in Child, Reap(k) PROVE TypeOK'
  <2>1. waits' \in 0 .. N-1
    BY <1>3, RingAssumption DEF Reap, Child
  <2>2. reaped' \subseteq Child
    BY <1>0, <1>3 DEF Reap, Unreaped
  <2> QED
    BY <1>0, <1>3, <2>1, <2>2 DEF Reap
<1>4. CASE StartRing
  <2>1. mask' \in [Proc -> (SUBSET Online) \ {{}}]
    BY <1>4, Pinned, RingFacts DEF StartRing, IInv
  <2> QED
    BY <1>0, <1>4, <2>1, RingFacts DEF Goto, reaping, StartRing, CloseForeign
<1>5. CASE ParentWrite
  <2>1. buf' \in [Proc -> Nat] /\ sent' \in [Proc -> 0 .. Total]
    <3>1. /\ Put(0) /\ sent' = [sent EXCEPT ![Parent] = @ + 1]
          /\ TypeOK /\ sent[Parent] < Total /\ 0 \in Proc
      BY <1>5, RingFacts DEF ParentWrite, IInv, ParentCounts
    <3> QED
      BY <1>0, <3>1, Written, Given, RingFacts
  <2> QED
    BY <1>0, <1>5, <2>1, RingFacts DEF Goto, ParentWrite, reaping
<1>6. CASE ParentRead
  <2>1. round \in Nat /\ round < Total
    BY <1>6, Numbers DEF IInv, ParentRead, ParentCounts
  <2>2. round + 1 \in 0 .. Total
    BY <2>1, Rounds
  <2>3. round >= Warmup => round - Warmup \in 0 .. (Iterations - 1)
    BY <2>1, Rounds
  <2>4. buf' \in [Proc -> Nat]
    BY <1>0, <1>6, Taken, RingFacts DEF ParentRead
  <2>5. lat' \subseteq 0 .. (Iterations - 1) /\ round' \in 0 .. Total
    BY <1>0, <1>6, <2>2, <2>3 DEF ParentRead
  <2> QED
    BY <1>0, <1>6, <2>4, <2>5, RingFacts DEF Goto, ParentRead, reaping
<1>7. CASE ParentKilled
  BY <1>0, <1>7, RingFacts DEF Goto, reaping, ParentKilled, CloseAll
<1>8. CASE Report
  BY <1>0, <1>8, RingFacts DEF Goto, reaping, Report
<1>9. CASE NextScenario
  <2>1. 0 \in 0 .. Total /\ 0 \in 0 .. N-1
    BY Rounds, RingAssumption
  <2>2. CASE scene < Len(Scenarios)
    <3>1. scene' \in 1 .. Len(Scenarios)
      BY <1>0, <1>9, <2>2, MigrationAssumption DEF NextScenario
    <3> QED
      BY <1>0, <1>9, <2>1, <2>2, <3>1, RingFacts DEF NextScenario, NewRing
  <2>3. CASE ~(scene < Len(Scenarios))
    BY <1>0, <1>9, <2>1, <2>3, RingFacts DEF NextScenario, Goto, CloseAll
  <2> QED
    BY <2>2, <2>3
<1>10. ASSUME NEW k \in Child, Settle(k) PROVE TypeOK'
  <2>1. mask' \in [Proc -> (SUBSET Online) \ {{}}]
    BY <1>10, Pinned, RingFacts DEF Settle, IInv
  <2> QED
    BY <1>0, <1>10, <2>1, RingFacts DEF Goto, reaping, Settle, CloseForeign
<1>11. ASSUME NEW k \in Child, ChildRead(k) PROVE TypeOK'
  <2>1. buf' \in [Proc -> Nat]
    BY <1>0, <1>11, Taken, RingFacts DEF ChildRead
  <2> QED
    BY <1>0, <1>11, <2>1, RingFacts DEF Goto, ChildRead, reaping
<1>12. ASSUME NEW k \in Child, ChildWrite(k) PROVE TypeOK'
  <2>1. buf' \in [Proc -> Nat] /\ sent' \in [Proc -> 0 .. Total]
    <3>1. /\ Put(Out(k)) /\ sent' = [sent EXCEPT ![k] = @ + 1]
          /\ TypeOK /\ sent[k] < Total /\ k \in Proc /\ Out(k) \in Proc
      BY <1>12, RingFacts DEF ChildWrite, IInv, ChildCounts
    <3> QED
      BY <1>0, <3>1, Written, Given, RingFacts
  <2> QED
    BY <1>0, <1>12, <2>1, RingFacts DEF Goto, ChildWrite, reaping
<1>13. ASSUME NEW k \in Child, ChildKilled(k) PROVE TypeOK'
  BY <1>0, <1>13, RingFacts DEF Goto, reaping, ChildKilled, CloseAll
<1>14. ASSUME NEW k \in Child, Leave(k) PROVE TypeOK'
  BY <1>0, <1>14, RingFacts DEF Goto, reaping, Leave, CloseAll
<1>15. CASE UNCHANGED vars
  BY <1>0, <1>15 DEF vars, reaping
<1> QED
  BY <1>1, <1>2, <1>3, <1>4, <1>5, <1>6, <1>7, <1>8, <1>9, <1>10, <1>11, <1>12,
     <1>13, <1>14, <1>15
     DEF Next, ParentStep, ChildStep, Terminating

LEMMA CountsKept == IInv /\ [Next]_vars => (ParentCounts /\ ChildCounts /\ SamplesFit)'
<1> SUFFICES ASSUME IInv, [Next]_vars PROVE (ParentCounts /\ ChildCounts /\ SamplesFit)'
  OBVIOUS
<1> USE DEF IInv, TypeOK, ParentLabel, ChildLabel, ParentCounts, ChildCounts, SamplesFit
<1>0. /\ round \in Nat
      /\ \A i \in Proc : sent[i] \in Nat /\ sent[i] <= Total /\ buf[i] \in Nat
  BY Numbers
<1>1. ASSUME NEW k \in Child, Fork(k) PROVE (ParentCounts /\ ChildCounts /\ SamplesFit)'
  BY <1>0, Rounds, <1>1, RingFacts DEF Goto, reaping, Fork, Turn, Inherit
<1>2. ASSUME NEW k \in Child, ForkFails(k)
       PROVE (ParentCounts /\ ChildCounts /\ SamplesFit)'
  BY <1>0, Rounds, <1>2, RingFacts DEF Goto, reaping, ForkFails, Turn
<1>3. ASSUME NEW k \in Child, Reap(k) PROVE (ParentCounts /\ ChildCounts /\ SamplesFit)'
  BY <1>0, Rounds, <1>3, RingFacts DEF Goto, reaping, Reap
<1>4. CASE StartRing
  BY <1>0, Rounds, <1>4, RingFacts DEF Goto, reaping, StartRing, Pin, CloseForeign
<1>5. CASE ParentWrite
  BY <1>0, Rounds, <1>5, RingFacts DEF Goto, reaping, ParentWrite, Put
<1>6. CASE ParentRead
  <2>1. /\ pc[Parent] = "read" /\ round < Total /\ round' = round + 1 /\ UNCHANGED sent
        /\ lat' = IF round >= Warmup THEN lat \cup {round - Warmup} ELSE lat
        /\ pc' = [pc EXCEPT ![Parent] = IF round + 1 < Total THEN "write" ELSE "report"]
    BY <1>6 DEF ParentRead, Goto
  <2>2. SamplesFit'
    BY <1>0, <2>1, Rounds
  <2>3. ParentCounts' /\ ChildCounts'
    BY <1>0, <2>1, Rounds, RingFacts
  <2> QED
    BY <2>2, <2>3
<1>7. CASE ParentKilled
  BY <1>0, Rounds, <1>7, RingFacts DEF Goto, reaping, ParentKilled, CloseAll
<1>8. CASE Report
  BY <1>0, Rounds, <1>8, RingFacts DEF Goto, reaping, Report
<1>9. CASE NextScenario
  <2>1. CASE scene < Len(Scenarios)
    BY <1>9, <2>1, Rounds, RingFacts DEF NextScenario, NewRing
  <2>2. CASE ~(scene < Len(Scenarios))
    BY <1>0, <1>9, <2>2, RingFacts DEF NextScenario, Goto
  <2> QED
    BY <2>1, <2>2
<1>10. ASSUME NEW k \in Child, Settle(k) PROVE (ParentCounts /\ ChildCounts /\ SamplesFit)'
  BY <1>0, Rounds, <1>10, RingFacts DEF Goto, reaping, Settle, Pin, CloseForeign
<1>11. ASSUME NEW k \in Child, ChildRead(k)
       PROVE (ParentCounts /\ ChildCounts /\ SamplesFit)'
  BY <1>0, Rounds, <1>11, RingFacts DEF Goto, reaping, ChildRead, Take, Readable
<1>12. ASSUME NEW k \in Child, ChildWrite(k)
       PROVE (ParentCounts /\ ChildCounts /\ SamplesFit)'
  <2>1. /\ pc[k] = "write" /\ sent[k] < Total /\ UNCHANGED <<round, lat>>
        /\ sent'[k] = sent[k] + 1 /\ \A j \in Proc : j # k => sent'[j] = sent[j]
        /\ pc' = [pc EXCEPT ![k] = IF sent[k] + 1 < Total THEN "read" ELSE "leave"]
    BY <1>12, Written, RingFacts DEF ChildWrite, Goto
  <2>2. ASSUME NEW j \in Child
        PROVE  /\ pc'[j] \in {"unborn", "new"} => sent'[j] = 0
               /\ pc'[j] \in {"read", "write"} => sent'[j] < Total
               /\ pc'[j] \in {"leave", "exited"} => sent'[j] = Total
    <3>1. CASE j = k
      <4>1. pc'[k] = IF sent[k] + 1 < Total THEN "read" ELSE "leave"
        BY <2>1, RingFacts
      <4>2. sent[k] \in Nat /\ Total \in Nat
        BY <1>0, Rounds, RingFacts
      <4> QED
        BY <2>1, <3>1, <4>1, <4>2
    <3>2. CASE j # k
      <4>1. sent'[j] = sent[j] /\ pc'[j] = pc[j]
        BY <1>0, <2>1, <3>2, RingFacts
      <4> QED
        BY <4>1
    <3> QED
      BY <3>1, <3>2
  <2>3. ChildCounts'
    BY <2>2
  <2> QED
    BY <1>0, <2>1, <2>3, Rounds, RingFacts
<1>13. ASSUME NEW k \in Child, ChildKilled(k)
       PROVE (ParentCounts /\ ChildCounts /\ SamplesFit)'
  BY <1>0, Rounds, <1>13, RingFacts DEF Goto, reaping, ChildKilled, CloseAll
<1>14. ASSUME NEW k \in Child, Leave(k) PROVE (ParentCounts /\ ChildCounts /\ SamplesFit)'
  BY <1>0, Rounds, <1>14, RingFacts DEF Goto, reaping, Leave, CloseAll
<1>15. CASE UNCHANGED vars
  BY <1>0, Rounds, <1>15 DEF vars, reaping
<1> QED
  BY <1>1, <1>2, <1>3, <1>4, <1>5, <1>6, <1>7, <1>8, <1>9, <1>10, <1>11, <1>12,
     <1>13, <1>14, <1>15
     DEF Next, ParentStep, ChildStep, Terminating

LEMMA OrderKept == IInv /\ [Next]_vars => InOrder'
<1> SUFFICES ASSUME IInv, [Next]_vars PROVE InOrder'
  OBVIOUS
<1> USE DEF IInv, TypeOK, ParentLabel, ChildLabel, InOrder, Gone
<1>1. ASSUME NEW k \in Child, Fork(k) PROVE InOrder'
  BY <1>1, RingFacts DEF Goto, reaping, Fork, Turn, Inherit
<1>2. ASSUME NEW k \in Child, ForkFails(k) PROVE InOrder'
  BY <1>2, RingFacts DEF Goto, reaping, ForkFails, Turn
<1>3. ASSUME NEW k \in Child, Reap(k) PROVE InOrder'
  <2>1. UNCHANGED pc /\ pc[Parent] = "reap" /\ waits = k /\ waits' = k + 1 /\ Gone(k)
    BY <1>3 DEF Reap
  <2> QED
    BY <1>3, <2>1, RingFacts DEF Child
<1>4. CASE StartRing
  BY <1>4, RingFacts DEF Goto, reaping, StartRing, Pin, CloseForeign
<1>5. CASE ParentWrite
  BY <1>5, RingFacts DEF Goto, reaping, ParentWrite, Put
<1>6. CASE ParentRead
  BY <1>6, RingFacts DEF Goto, reaping, ParentRead, Take, Readable
<1>7. CASE ParentKilled
  BY <1>7, RingFacts DEF Goto, reaping, ParentKilled, CloseAll
<1>8. CASE Report
  BY <1>8, RingFacts DEF Goto, reaping, Report
<1>9. CASE NextScenario
  <2>1. CASE scene < Len(Scenarios)
    BY <1>9, <2>1, RingFacts, RingAssumption DEF NextScenario, NewRing, Child
  <2>2. CASE ~(scene < Len(Scenarios))
    BY <1>9, <2>2, RingFacts, RingAssumption DEF NextScenario, Goto, Child
  <2> QED
    BY <2>1, <2>2
<1>10. ASSUME NEW k \in Child, Settle(k) PROVE InOrder'
  BY <1>10, RingFacts DEF Goto, reaping, Settle, Pin, CloseForeign
<1>11. ASSUME NEW k \in Child, ChildRead(k) PROVE InOrder'
  BY <1>11, RingFacts DEF Goto, reaping, ChildRead, Take, Readable
<1>12. ASSUME NEW k \in Child, ChildWrite(k) PROVE InOrder'
  BY <1>12, RingFacts DEF Goto, reaping, ChildWrite, Put
<1>13. ASSUME NEW k \in Child, ChildKilled(k) PROVE InOrder'
  BY <1>13, RingFacts DEF Goto, reaping, ChildKilled, CloseAll
<1>14. ASSUME NEW k \in Child, Leave(k) PROVE InOrder'
  BY <1>14, RingFacts DEF Goto, reaping, Leave, CloseAll
<1>15. CASE UNCHANGED vars
  BY <1>15 DEF vars, reaping
<1> QED
  BY <1>1, <1>2, <1>3, <1>4, <1>5, <1>6, <1>7, <1>8, <1>9, <1>10, <1>11, <1>12,
     <1>13, <1>14, <1>15
     DEF Next, ParentStep, ChildStep, Terminating

LEMMA EndsKept == IInv /\ [Next]_vars => EndsFit'
<1> SUFFICES ASSUME IInv, [Next]_vars PROVE EndsFit'
  OBVIOUS
<1> USE DEF IInv, TypeOK, PipeTypeOK, ParentLabel, ChildLabel, EndsFit
<1>1. ASSUME NEW k \in Child, Fork(k) PROVE EndsFit'
  BY <1>1, RingFacts DEF Goto, reaping, Fork, Turn, Inherit
<1>2. ASSUME NEW k \in Child, ForkFails(k) PROVE EndsFit'
  BY <1>2, RingFacts DEF Goto, reaping, ForkFails, Turn
<1>3. ASSUME NEW k \in Child, Reap(k) PROVE EndsFit'
  BY <1>3, RingFacts DEF Goto, reaping, Reap
<1>4. CASE StartRing
  BY <1>4, RingFacts DEF Goto, reaping, StartRing, Pin, CloseForeign
<1>5. CASE ParentWrite
  BY <1>5, RingFacts DEF Goto, reaping, ParentWrite, Put
<1>6. CASE ParentRead
  BY <1>6, RingFacts DEF Goto, reaping, ParentRead, Take, Readable
<1>7. CASE ParentKilled
  BY <1>7, RingFacts DEF Goto, reaping, ParentKilled, CloseAll
<1>8. CASE Report
  BY <1>8, RingFacts DEF Goto, reaping, Report
<1>9. CASE NextScenario
  BY <1>9, RingFacts DEF Goto, reaping, NextScenario, NewRing, CloseAll
<1>10. ASSUME NEW k \in Child, Settle(k) PROVE EndsFit'
  BY <1>10, RingFacts DEF Goto, reaping, Settle, Pin, CloseForeign
<1>11. ASSUME NEW k \in Child, ChildRead(k) PROVE EndsFit'
  BY <1>11, RingFacts DEF Goto, reaping, ChildRead, Take, Readable
<1>12. ASSUME NEW k \in Child, ChildWrite(k) PROVE EndsFit'
  BY <1>12, RingFacts DEF Goto, reaping, ChildWrite, Put
<1>13. ASSUME NEW k \in Child, ChildKilled(k) PROVE EndsFit'
  BY <1>13, RingFacts DEF Goto, reaping, ChildKilled, CloseAll
<1>14. ASSUME NEW k \in Child, Leave(k) PROVE EndsFit'
  BY <1>14, RingFacts DEF Goto, reaping, Leave, CloseAll
<1>15. CASE UNCHANGED vars
  BY <1>15 DEF vars, reaping
<1> QED
  BY <1>1, <1>2, <1>3, <1>4, <1>5, <1>6, <1>7, <1>8, <1>9, <1>10, <1>11, <1>12,
     <1>13, <1>14, <1>15
     DEF Next, ParentStep, ChildStep, Terminating

LEMMA PinKept == IInv /\ [Next]_vars => PinFits'
<1> SUFFICES ASSUME IInv, [Next]_vars PROVE PinFits'
  OBVIOUS
<1> USE DEF PinFits
<1>0. /\ pc \in [Proc -> ParentLabel \cup ChildLabel]
      /\ mask \in [Proc -> (SUBSET Online) \ {{}}]
      /\ PinFits /\ TypeOK
  BY DEF IInv, TypeOK
<1>1. ASSUME NEW k \in Child, Fork(k) PROVE PinFits'
  <2>1. /\ pc' = [pc EXCEPT ![k] = "new"] /\ scene' = scene
        /\ \A i \in Proc : i # k => mask'[i] = mask[i]
    BY <1>0, <1>1, RingFacts DEF Fork, Goto
  <2> QED
    BY <1>0, <2>1, RingFacts DEF Placed
<1>2. ASSUME NEW k \in Child, ForkFails(k) PROVE PinFits'
  <2>1. UNCHANGED <<mask, scene>> /\ \A i \in Proc : Placed(i)' => Placed(i)
    BY <1>0, <1>2, RingFacts DEF Goto, ForkFails, Turn, Placed
  <2> QED
    BY <1>0, <2>1
<1>3. ASSUME NEW k \in Child, Reap(k) PROVE PinFits'
  <2>1. UNCHANGED <<mask, scene>> /\ \A i \in Proc : Placed(i)' => Placed(i)
    BY <1>0, <1>3, RingFacts DEF Goto, Reap, Placed
  <2> QED
    BY <1>0, <2>1
<1>4. CASE StartRing
  <2>1. pc' = [pc EXCEPT ![Parent] = "write"] /\ Pin(Parent) /\ scene' = scene
    BY <1>4 DEF StartRing, Goto
  <2> QED
    BY <1>0, <2>1, Pinned, RingFacts DEF Placed
<1>5. CASE ParentWrite
  <2>1. UNCHANGED <<mask, scene>> /\ \A i \in Proc : Placed(i)' => Placed(i)
    BY <1>0, <1>5, RingFacts DEF Goto, ParentWrite, Placed
  <2> QED
    BY <1>0, <2>1
<1>6. CASE ParentRead
  <2>1. UNCHANGED <<mask, scene>> /\ \A i \in Proc : Placed(i)' => Placed(i)
    BY <1>0, <1>6, RingFacts DEF Goto, ParentRead, Placed
  <2> QED
    BY <1>0, <2>1
<1>7. CASE ParentKilled
  <2>1. UNCHANGED <<mask, scene>> /\ \A i \in Proc : Placed(i)' => Placed(i)
    BY <1>0, <1>7, RingFacts DEF Goto, ParentKilled, Placed
  <2> QED
    BY <1>0, <2>1
<1>8. CASE Report
  <2>1. UNCHANGED <<mask, scene>> /\ \A i \in Proc : Placed(i)' => Placed(i)
    BY <1>0, <1>8, RingFacts DEF Goto, Report, Placed
  <2> QED
    BY <1>0, <2>1
<1>9. CASE NextScenario
  <2>1. CASE scene < Len(Scenarios)
    BY <1>9, <2>1, RingFacts DEF NextScenario, NewRing, Placed
  <2>2. CASE ~(scene < Len(Scenarios))
    BY <1>0, <1>9, <2>2, RingFacts DEF NextScenario, Goto, Placed
  <2> QED
    BY <2>1, <2>2
<1>10. ASSUME NEW k \in Child, Settle(k) PROVE PinFits'
  <2>1. pc[k] = "new" /\ pc' = [pc EXCEPT ![k] = "read"] /\ Pin(k) /\ scene' = scene
    BY <1>10 DEF Settle, Goto
  <2> QED
    BY <1>0, <2>1, Pinned, RingFacts DEF Placed
<1>11. ASSUME NEW k \in Child, ChildRead(k) PROVE PinFits'
  <2>1. UNCHANGED <<mask, scene>> /\ \A i \in Proc : Placed(i)' => Placed(i)
    BY <1>0, <1>11, RingFacts DEF Goto, ChildRead, Placed
  <2> QED
    BY <1>0, <2>1
<1>12. ASSUME NEW k \in Child, ChildWrite(k) PROVE PinFits'
  <2>1. UNCHANGED <<mask, scene>> /\ \A i \in Proc : Placed(i)' => Placed(i)
    BY <1>0, <1>12, RingFacts DEF Goto, ChildWrite, Placed
  <2> QED
    BY <1>0, <2>1
<1>13. ASSUME NEW k \in Child, ChildKilled(k) PROVE PinFits'
  <2>1. UNCHANGED <<mask, scene>> /\ \A i \in Proc : Placed(i)' => Placed(i)
    BY <1>0, <1>13, RingFacts DEF Goto, ChildKilled, Placed
  <2> QED
    BY <1>0, <2>1
<1>14. ASSUME NEW k \in Child, Leave(k) PROVE PinFits'
  <2>1. UNCHANGED <<mask, scene>> /\ \A i \in Proc : Placed(i)' => Placed(i)
    BY <1>0, <1>14, RingFacts DEF Goto, Leave, Placed
  <2> QED
    BY <1>0, <2>1
<1>15. CASE UNCHANGED vars
  BY <1>15 DEF vars, reaping, IInv, Placed
<1> QED
  BY <1>1, <1>2, <1>3, <1>4, <1>5, <1>6, <1>7, <1>8, <1>9, <1>10, <1>11, <1>12,
     <1>13, <1>14, <1>15
     DEF Next, ParentStep, ChildStep, Terminating

(* A child that has let go of its pipe ends has written all its tokens,    *)
(* unless there are children still to be forked.                           *)
LEMMA Closed ==
  ASSUME IInv, WholeRing, NEW p \in Child, ends[p] = "none", pc[Parent] # "fork"
  PROVE  pc[p] = "exited" /\ sent[p] = Total
<1>1. pc[p] \in ChildLabel /\ pc[p] \notin {"new", "read", "write", "leave"}
  BY DEF IInv, TypeOK, EndsFit
<1>2. pc[p] \notin {"missing", "killed", "unborn"}
  BY RingFacts DEF IInv, RingFits, NobodyKilled, WholeRing, InOrder
<1>3. pc[p] = "exited"
  BY <1>1, <1>2 DEF ChildLabel
<1> QED
  BY <1>3 DEF IInv, ChildCounts

(* The parent lets go of its own after everybody else. *)
LEMMA ParentLast ==
  ASSUME IInv, WholeRing, ends[Parent] = "none"
  PROVE  \A k \in Child : Gone(k)
<1>1. pc[Parent] \in ParentLabel /\ pc[Parent] \notin {"fork", "write", "read", "report", "reap"}
  BY DEF IInv, TypeOK, EndsFit
<1>2. pc[Parent] # "killed"
  BY RingFacts DEF IInv, RingFits, NobodyKilled
<1> QED
  BY <1>1, <1>2 DEF ParentLabel, IInv, InOrder

(* Nobody who waits for a token is told that there will be none: its       *)
(* predecessor would have written all of its tokens, and the reader lacks  *)
(* one of them.                                                            *)
LEMMA Supplied ==
  ASSUME IInv, WholeRing, NEW i \in Proc, pc[i] = "read"
  PROVE  ~AtEof(i)
<1> SUFFICES ASSUME AtEof(i) PROVE FALSE
  OBVIOUS
<1>0. /\ round \in Nat /\ Total \in Nat
      /\ \A j \in Proc : sent[j] \in Nat /\ buf[j] \in Nat
  BY Numbers, Rounds DEF IInv
<1>1. buf[i] = 0 /\ \A p \in Proc : ~CanWrite(p, i)
  BY DEF AtEof
<1>2. \A p \in Proc : ends[p] # "all"
  BY <1>1 DEF CanWrite
<1>3. pc[Parent] # "fork"
  BY <1>2, RingFacts DEF IInv, EndsFit
<1>4. ASSUME NEW p \in Proc, Out(p) = i PROVE ends[p] = "none"
  BY <1>1, <1>2, <1>4 DEF CanWrite, IInv, TypeOK, PipeTypeOK
<1>5. TokensStay
  BY DEF IInv, RingFits
<1>6. CASE i = Parent
  <2>1. N - 2 \in Child /\ Out(N - 2) = i
    BY <1>6, RingAssumption DEF Child, Out, Parent
  <2>2. sent[N - 2] = Total /\ N - 2 \in Proc
    BY <1>3, <1>4, <2>1, Closed, RingFacts
  <2>3. sent[N - 2] <= round + buf[Parent]
    BY <1>5, <1>6, <2>1 DEF TokensStay
  <2>4. round < Total
    BY <1>6 DEF IInv, ParentCounts
  <2> QED
    BY <1>0, <1>1, <1>6, <2>2, <2>3, <2>4, RingFacts
<1>7. CASE i \in Child
  <2>1. sent[i] < Total /\ InHand(i) = 0
    BY <1>7 DEF IInv, ChildCounts, InHand
  <2>2. CASE i = 0
    <3>1. \A k \in Child : Gone(k)
      BY <1>4, <2>2, ParentLast, RingFacts
    <3> QED
      BY <1>7, <3>1 DEF Gone
  <2>3. CASE i # 0
    <3>1. i - 1 \in Child /\ Out(i - 1) = i /\ i = (i - 1) + 1
      BY <1>7, <2>3, RingAssumption DEF Child, Out
    <3>2. sent[i - 1] = Total /\ i - 1 \in Proc
      BY <1>3, <1>4, <3>1, Closed, RingFacts
    <3>3. sent[i - 1] <= sent[i] + buf[i] + InHand(i)
      BY <1>5, <1>7, <3>1 DEF TokensStay
    <3> QED
      BY <1>0, <1>1, <2>1, <3>2, <3>3
  <2> QED
    BY <2>2, <2>3
<1> QED
  BY <1>6, <1>7, RingFacts

(* Nobody writes where nobody can read: the successor would have written   *)
(* as many tokens as there are, and the writer has one of them to write.   *)
LEMMA Wanted ==
  ASSUME IInv, WholeRing, NEW i \in Proc, pc[i] = "write"
  PROVE  ~Broken(Out(i))
<1> SUFFICES ASSUME Broken(Out(i)) PROVE FALSE
  OBVIOUS
<1>0. /\ round \in Nat /\ Total \in Nat
      /\ \A j \in Proc : sent[j] \in Nat /\ buf[j] \in Nat
  BY Numbers, Rounds DEF IInv
<1>1. \A p \in Proc : ~CanRead(p, Out(i))
  BY DEF Broken
<1>2. \A p \in Proc : ends[p] # "all"
  BY <1>1 DEF CanRead
<1>3. pc[Parent] # "fork"
  BY <1>2, RingFacts DEF IInv, EndsFit
<1>4. Out(i) \in Proc /\ ends[Out(i)] = "none"
  BY <1>1, <1>2, RingFacts DEF CanRead, IInv, TypeOK, PipeTypeOK
<1>5. sent[i] < Total
  BY <1>0, RingFacts DEF IInv, ParentCounts, ChildCounts
<1>6. CASE Out(i) = Parent
  <2>1. \A k \in Child : Gone(k)
    BY <1>4, <1>6, ParentLast
  <2>2. i \in Child
    BY <1>6, RingFacts
  <2> QED
    BY <2>1, <2>2 DEF Gone
<1>7. CASE Out(i) \in Child
  <2>1. sent[Out(i)] = Total
    BY <1>3, <1>4, <1>7, Closed
  <2>2. i = Parent \/ i < Out(i)
    BY RingFacts
  <2>3. sent[i] >= sent[Out(i)] + buf[Out(i)] + InHand(Out(i))
    BY <1>7, <2>2 DEF IInv, RingFits, TokensComeFrom
  <2>4. InHand(Out(i)) \in {0, 1}
    BY DEF InHand
  <2> QED
    BY <1>0, <1>4, <1>5, <2>1, <2>3, <2>4
<1> QED
  BY <1>4, <1>6, <1>7, RingFacts

(* A step that moves no token. *)
LEMMA Unmoved ==
  ASSUME RingFits, UNCHANGED <<buf, sent, round>>, WholeRing' => WholeRing,
         \A j \in Child : (pc[j] = "write") <=> (pc'[j] = "write"),
         \A j \in Proc : pc'[j] = "killed" => pc[j] = "killed"
  PROVE  RingFits'
<1> SUFFICES ASSUME WholeRing'
             PROVE  (TokensComeFrom /\ TokensStay /\ TokensReturn /\ NobodyKilled)'
  BY DEF RingFits
<1>1. TokensComeFrom /\ TokensStay /\ TokensReturn /\ NobodyKilled
  BY DEF RingFits
<1>2. \A j \in Child : InHand(j)' = InHand(j)
  BY DEF InHand
<1>3. TokensComeFrom'
  BY <1>1, <1>2 DEF TokensComeFrom
<1>4. TokensStay'
  BY <1>1, <1>2, RingFacts DEF TokensStay
<1> QED
  BY <1>1, <1>3, <1>4 DEF TokensReturn, NobodyKilled

(* The steps that do. *)
LEMMA WriteKeepsRing ==
  ASSUME IInv, WholeRing, ParentWrite
  PROVE  RingFits'
<1>1. TokensComeFrom /\ TokensStay /\ TokensReturn /\ NobodyKilled /\ TypeOK
  BY DEF IInv, RingFits
<1>2. /\ round \in Nat
      /\ \A j \in Proc : sent[j] \in Nat /\ buf[j] \in Nat
  BY <1>1, Numbers
<1>3. /\ round' = round /\ buf'[0] = buf[0] + 1 /\ \A q \in Proc : q # 0 => buf'[q] = buf[q]
      /\ sent'[Parent] = sent[Parent] + 1 /\ \A j \in Child : sent'[j] = sent[j]
      /\ \A j \in Child : pc'[j] = pc[j] /\ pc'[Parent] = "read"
  <2>1. sent[Parent] < Total
    BY DEF IInv, ParentCounts, ParentWrite
  <2>2. buf \in [Proc -> Nat] /\ pc \in [Proc -> ParentLabel \cup ChildLabel]
    BY <1>1 DEF TypeOK, PipeTypeOK
  <2> QED
    BY <1>1, <2>1, <2>2, Written, Given, RingFacts DEF ParentWrite, Goto
<1>4. \A j \in Child : InHand(j) \in {0, 1} /\ InHand(j)' = InHand(j)
  BY <1>3 DEF InHand
<1>5. TokensComeFrom'
  BY <1>1, <1>2, <1>3, <1>4, RingFacts DEF TokensComeFrom
<1>6. TokensStay'
  BY <1>1, <1>2, <1>3, <1>4, RingFacts DEF TokensStay
<1>7. TokensReturn' /\ NobodyKilled'
  BY <1>1, <1>2, <1>3, RingFacts DEF TokensReturn, NobodyKilled
<1> QED
  BY <1>5, <1>6, <1>7 DEF RingFits

LEMMA ReadKeepsRing ==
  ASSUME IInv, WholeRing, ParentRead
  PROVE  RingFits'
<1>1. TokensComeFrom /\ TokensStay /\ TokensReturn /\ NobodyKilled /\ TypeOK
  BY DEF IInv, RingFits
<1>2. /\ round \in Nat
      /\ \A j \in Proc : sent[j] \in Nat /\ buf[j] \in Nat
  BY <1>1, Numbers
<1>3. /\ round' = round + 1 /\ buf[Parent] >= 1 /\ buf'[Parent] = buf[Parent] - 1
      /\ \A q \in Proc : q # Parent => buf'[q] = buf[q]
      /\ sent' = sent /\ pc'[Parent] # "killed" /\ \A j \in Child : pc'[j] = pc[j]
  <2>1. Readable(Parent) /\ Take(Parent)
    BY Supplied, RingFacts DEF ParentRead
  <2>2. buf \in [Proc -> Nat] /\ pc \in [Proc -> ParentLabel \cup ChildLabel]
    BY <1>1 DEF TypeOK, PipeTypeOK
  <2> QED
    BY <2>1, <2>2, Taken, RingFacts DEF ParentRead, Goto
<1>4. \A j \in Child : InHand(j) \in {0, 1} /\ InHand(j)' = InHand(j)
  BY <1>3 DEF InHand
<1>5. TokensComeFrom'
  BY <1>1, <1>2, <1>3, <1>4, RingFacts DEF TokensComeFrom
<1>6. TokensStay'
  BY <1>1, <1>2, <1>3, <1>4, RingFacts DEF TokensStay
<1>7. TokensReturn' /\ NobodyKilled'
  BY <1>1, <1>2, <1>3, RingFacts DEF TokensReturn, NobodyKilled
<1> QED
  BY <1>5, <1>6, <1>7 DEF RingFits

LEMMA ChildReadKeepsRing ==
  ASSUME IInv, WholeRing, NEW k \in Child, ChildRead(k)
  PROVE  RingFits'
<1>1. TokensComeFrom /\ TokensStay /\ TokensReturn /\ NobodyKilled /\ TypeOK
  BY DEF IInv, RingFits
<1>2. /\ round \in Nat /\ \A j \in Proc : sent[j] \in Nat /\ buf[j] \in Nat
  BY <1>1, Numbers
<1>3. /\ UNCHANGED <<round, sent>> /\ buf[k] >= 1 /\ buf'[k] = buf[k] - 1
      /\ \A q \in Proc : q # k => buf'[q] = buf[q]
      /\ pc[k] = "read" /\ pc'[k] = "write" /\ \A j \in Proc : j # k => pc'[j] = pc[j]
  <2>1. Readable(k) /\ Take(k)
    BY Supplied, RingFacts DEF ChildRead
  <2>2. buf \in [Proc -> Nat] /\ pc \in [Proc -> ParentLabel \cup ChildLabel]
    BY <1>1 DEF TypeOK, PipeTypeOK
  <2> QED
    BY <2>1, <2>2, Taken, RingFacts DEF ChildRead, Goto
<1>4. /\ InHand(k) = 0 /\ InHand(k)' = 1
      /\ \A j \in Child : InHand(j) \in {0, 1} /\ (j # k => InHand(j)' = InHand(j))
  BY <1>3, RingFacts DEF InHand
<1>5. \A j \in Child : buf'[j] + InHand(j)' = buf[j] + InHand(j)
  BY <1>2, <1>3, <1>4, RingFacts
<1>6. \A j \in Child : InHand(j)' \in {0, 1} /\ buf'[j] \in Nat
  BY <1>2, <1>3, <1>4, RingFacts
<1>7. TokensComeFrom'
  BY <1>1, <1>2, <1>3, <1>4, <1>5, <1>6, RingFacts DEF TokensComeFrom
<1>8. TokensStay'
  BY <1>1, <1>2, <1>3, <1>4, <1>5, <1>6, RingFacts DEF TokensStay
<1>9. TokensReturn' /\ NobodyKilled'
  BY <1>1, <1>2, <1>3, RingFacts DEF TokensReturn, NobodyKilled
<1> QED
  BY <1>7, <1>8, <1>9 DEF RingFits

LEMMA ChildWriteKeepsRing ==
  ASSUME IInv, WholeRing, NEW k \in Child, ChildWrite(k)
  PROVE  RingFits'
<1>1. TokensComeFrom /\ TokensStay /\ TokensReturn /\ NobodyKilled /\ TypeOK
  BY DEF IInv, RingFits
<1>2. /\ round \in Nat /\ \A j \in Proc : sent[j] \in Nat /\ buf[j] \in Nat
  BY <1>1, Numbers
<1>3. /\ round' = round
      /\ buf'[Out(k)] = buf[Out(k)] + 1 /\ \A q \in Proc : q # Out(k) => buf'[q] = buf[q]
      /\ sent'[k] = sent[k] + 1 /\ \A j \in Proc : j # k => sent'[j] = sent[j]
      /\ pc[k] = "write" /\ pc'[k] \in {"read", "leave"}
      /\ \A j \in Proc : j # k => pc'[j] = pc[j]
  <2>1. sent[k] < Total
    BY DEF IInv, ChildCounts, ChildWrite
  <2>2. buf \in [Proc -> Nat] /\ pc \in [Proc -> ParentLabel \cup ChildLabel]
    BY <1>1 DEF TypeOK, PipeTypeOK
  <2> QED
    BY <1>1, <2>1, <2>2, Written, Given, RingFacts DEF ChildWrite, Goto
<1>4. /\ InHand(k) = 1 /\ InHand(k)' = 0
      /\ \A j \in Child : InHand(j) \in {0, 1} /\ (j # k => InHand(j)' = InHand(j))
  BY <1>3, RingFacts DEF InHand
<1>5. k \in Nat /\ k \in Proc /\ Out(k) = k + 1 /\ Out(k) \in Proc /\ Out(k) # k
  BY RingFacts
<1>6. TokensComeFrom'
  <2> SUFFICES ASSUME NEW j \in Child, NEW i \in Proc, i = Parent \/ i < j
               PROVE  sent'[i] >= sent'[j] + buf'[j] + InHand(j)'
    BY DEF TokensComeFrom
  <2>0. i \in Nat /\ j \in Nat /\ j \in Proc /\ j # Parent
    BY RingFacts
  <2>1. sent[i] >= sent[j] + buf[j] + InHand(j) /\ sent'[i] >= sent[i] /\ InHand(j) \in {0, 1}
    BY <1>1, <1>2, <1>3, <1>4, <2>0 DEF TokensComeFrom
  <2>2. CASE j = k
    BY <1>2, <1>3, <1>4, <1>5, <2>1, <2>2
  <2>3. CASE j = Out(k)
    <3>1. sent[k] >= sent[j] + buf[j] + InHand(j)
      BY <1>1, <1>5, <2>3 DEF TokensComeFrom
    <3>2. CASE i = k
      BY <1>2, <1>3, <1>4, <1>5, <2>0, <2>1, <2>3, <3>1, <3>2
    <3>3. CASE i # k
      <4>1. i = Parent \/ i < k
        BY <1>5, <2>0, <2>3, <3>3
      <4>2. sent[i] >= sent[k] + buf[k] + InHand(k)
        BY <1>1, <4>1 DEF TokensComeFrom
      <4> QED
        BY <1>2, <1>3, <1>4, <1>5, <2>0, <2>1, <2>3, <3>1, <3>3, <4>2
    <3> QED
      BY <3>2, <3>3
  <2>4. CASE j # k /\ j # Out(k)
    BY <1>2, <1>3, <1>4, <1>5, <2>0, <2>1, <2>4
  <2> QED
    BY <2>2, <2>3, <2>4
<1>7. TokensStay'
  <2>1. (sent[Parent] <= sent[0] + buf[0] + InHand(0))'
    <3>1. sent[Parent] <= sent[0] + buf[0] + InHand(0) /\ InHand(0) \in {0, 1}
      BY <1>1, <1>4, RingFacts DEF TokensStay
    <3> QED
      BY <1>2, <1>3, <1>4, <1>5, <3>1, RingFacts
  <2>2. ASSUME NEW i \in Child, NEW j \in Child, j = i + 1
        PROVE  sent'[i] <= sent'[j] + buf'[j] + InHand(j)'
    <3>0. i \in Nat /\ i \in Proc /\ j \in Proc /\ Out(i) = j
      BY <2>2, RingFacts
    <3>1. sent[i] <= sent[j] + buf[j] + InHand(j) /\ InHand(j) \in {0, 1}
      BY <1>1, <1>4, <2>2 DEF TokensStay
    <3>2. CASE i = k
      BY <1>2, <1>3, <1>4, <1>5, <3>0, <3>1, <3>2
    <3>3. CASE j = k
      BY <1>2, <1>3, <1>4, <1>5, <2>2, <3>0, <3>1, <3>3
    <3>4. CASE i # k /\ j # k
      BY <1>2, <1>3, <1>4, <1>5, <2>2, <3>0, <3>1, <3>4
    <3> QED
      BY <3>2, <3>3, <3>4
  <2>3. ASSUME NEW i \in Child, Out(i) = Parent
        PROVE  sent'[i] <= round' + buf'[Parent]
    <3>1. sent[i] <= round + buf[Parent] /\ i \in Proc
      BY <1>1, <2>3, RingFacts DEF TokensStay
    <3>2. CASE i = k
      BY <1>2, <1>3, <2>3, <3>1, <3>2, RingFacts
    <3>3. CASE i # k
      BY <1>2, <1>3, <1>5, <2>3, <3>1, <3>3, RingFacts
    <3> QED
      BY <3>2, <3>3
  <2> QED
    BY <2>1, <2>2, <2>3 DEF TokensStay
<1>8. TokensReturn'
  <2> SUFFICES ASSUME NEW i \in Child PROVE sent'[i] >= round' + buf'[Parent]
    BY DEF TokensReturn
  <2>1. sent[i] >= round + buf[Parent] /\ sent[k] >= round + buf[Parent] /\ i \in Proc
    BY <1>1, RingFacts DEF TokensReturn
  <2>2. sent'[i] >= sent[i]
    BY <1>2, <1>3, <2>1
  <2>3. CASE Out(k) # Parent
    BY <1>2, <1>3, <2>1, <2>2, <2>3, RingFacts
  <2>4. CASE Out(k) = Parent /\ i = k
    BY <1>2, <1>3, <2>1, <2>4, RingFacts
  <2>5. CASE Out(k) = Parent /\ i # k
    <3>1. i < k
      BY <1>5, <2>5, RingFacts
    <3>2. sent[i] >= sent[k] + buf[k] + InHand(k)
      BY <1>1, <2>1, <3>1 DEF TokensComeFrom
    <3> QED
      BY <1>2, <1>3, <1>4, <1>5, <2>1, <2>5, <3>2, RingFacts
  <2> QED
    BY <2>3, <2>4, <2>5
<1>9. NobodyKilled'
  BY <1>1, <1>3, RingFacts DEF NobodyKilled
<1> QED
  BY <1>6, <1>7, <1>8, <1>9 DEF RingFits

LEMMA RingKept == IInv /\ [Next]_vars => RingFits'
<1> SUFFICES ASSUME IInv, [Next]_vars PROVE RingFits'
  OBVIOUS
<1>0. /\ pc \in [Proc -> ParentLabel \cup ChildLabel] /\ RingFits
  BY DEF IInv, TypeOK
<1>1. ASSUME NEW k \in Child, Fork(k) PROVE RingFits'
  <2>1. /\ UNCHANGED <<buf, sent, round>> /\ (WholeRing' => WholeRing)
        /\ \A j \in Child : (pc[j] = "write") <=> (pc'[j] = "write")
        /\ \A j \in Proc : pc'[j] = "killed" => pc[j] = "killed"
    BY <1>0, <1>1, RingFacts DEF Goto, Fork, Turn, WholeRing
  <2> QED
    BY <1>0, <2>1, Unmoved
<1>2. ASSUME NEW k \in Child, ForkFails(k) PROVE RingFits'
  <2>1. ~WholeRing'
    BY <1>0, <1>2, RingFacts DEF ForkFails, Goto, WholeRing
  <2> QED
    BY <2>1 DEF RingFits
<1>3. ASSUME NEW k \in Child, Reap(k) PROVE RingFits'
  <2>1. /\ UNCHANGED <<buf, sent, round>> /\ (WholeRing' => WholeRing)
        /\ \A j \in Child : (pc[j] = "write") <=> (pc'[j] = "write")
        /\ \A j \in Proc : pc'[j] = "killed" => pc[j] = "killed"
    BY <1>0, <1>3, RingFacts DEF Goto, Reap, WholeRing
  <2> QED
    BY <1>0, <2>1, Unmoved
<1>4. CASE StartRing
  <2>1. /\ UNCHANGED <<buf, sent, round>> /\ (WholeRing' => WholeRing)
        /\ \A j \in Child : (pc[j] = "write") <=> (pc'[j] = "write")
        /\ \A j \in Proc : pc'[j] = "killed" => pc[j] = "killed"
    BY <1>0, <1>4, RingFacts DEF Goto, StartRing, WholeRing
  <2> QED
    BY <1>0, <2>1, Unmoved
<1>5. CASE ParentWrite
  <2>1. WholeRing' => WholeRing
    BY <1>0, <1>5, RingFacts DEF ParentWrite, Goto, WholeRing
  <2>2. CASE WholeRing
    BY <1>5, <2>2, WriteKeepsRing
  <2>3. CASE ~WholeRing
    BY <2>1, <2>3 DEF RingFits
  <2> QED
    BY <2>2, <2>3
<1>6. CASE ParentRead
  <2>1. WholeRing' => WholeRing
    BY <1>0, <1>6, RingFacts DEF ParentRead, Goto, WholeRing
  <2>2. CASE WholeRing
    BY <1>6, <2>2, ReadKeepsRing
  <2>3. CASE ~WholeRing
    BY <2>1, <2>3 DEF RingFits
  <2> QED
    BY <2>2, <2>3
<1>7. CASE ParentKilled
  <2>1. WholeRing' => WholeRing
    BY <1>0, <1>7, RingFacts DEF ParentKilled, Goto, WholeRing
  <2>2. CASE WholeRing
    BY <1>7, <2>2, Wanted, RingFacts DEF ParentKilled
  <2>3. CASE ~WholeRing
    BY <2>1, <2>3 DEF RingFits
  <2> QED
    BY <2>2, <2>3
<1>8. CASE Report
  <2>1. /\ UNCHANGED <<buf, sent, round>> /\ (WholeRing' => WholeRing)
        /\ \A j \in Child : (pc[j] = "write") <=> (pc'[j] = "write")
        /\ \A j \in Proc : pc'[j] = "killed" => pc[j] = "killed"
    BY <1>0, <1>8, RingFacts DEF Goto, Report, WholeRing
  <2> QED
    BY <1>0, <2>1, Unmoved
<1>9. CASE NextScenario
  <2>1. CASE scene < Len(Scenarios)
    <3>1. /\ round' = 0 /\ \A i \in Proc : sent'[i] = 0 /\ buf'[i] = 0
          /\ pc'[Parent] = "fork" /\ \A i \in Child : pc'[i] = "unborn"
      BY <1>9, <2>1, RingFacts DEF NextScenario, NewRing
    <3>2. \A j \in Child : InHand(j)' = 0
      BY <3>1 DEF InHand
    <3> QED
      BY <3>1, <3>2, RingFacts
         DEF RingFits, TokensComeFrom, TokensStay, TokensReturn, NobodyKilled
  <2>2. CASE ~(scene < Len(Scenarios))
    <3>1. /\ UNCHANGED <<buf, sent, round>> /\ pc' = [pc EXCEPT ![Parent] = "exited"]
      BY <1>9, <2>2 DEF NextScenario, Goto
    <3>2. /\ WholeRing' => WholeRing
          /\ \A j \in Child : (pc[j] = "write") <=> (pc'[j] = "write")
          /\ \A j \in Proc : pc'[j] = "killed" => pc[j] = "killed"
      BY <1>0, <3>1, RingFacts DEF WholeRing
    <3> QED
      BY <1>0, <3>1, <3>2, Unmoved
  <2> QED
    BY <2>1, <2>2
<1>10. ASSUME NEW k \in Child, Settle(k) PROVE RingFits'
  <2>1. /\ UNCHANGED <<buf, sent, round>> /\ (WholeRing' => WholeRing)
        /\ \A j \in Child : (pc[j] = "write") <=> (pc'[j] = "write")
        /\ \A j \in Proc : pc'[j] = "killed" => pc[j] = "killed"
    BY <1>0, <1>10, RingFacts DEF Goto, Settle, WholeRing
  <2> QED
    BY <1>0, <2>1, Unmoved
<1>11. ASSUME NEW k \in Child, ChildRead(k) PROVE RingFits'
  <2>1. WholeRing' => WholeRing
    BY <1>0, <1>11, RingFacts DEF ChildRead, Goto, WholeRing
  <2>2. CASE WholeRing
    BY <1>11, <2>2, ChildReadKeepsRing
  <2>3. CASE ~WholeRing
    BY <2>1, <2>3 DEF RingFits
  <2> QED
    BY <2>2, <2>3
<1>12. ASSUME NEW k \in Child, ChildWrite(k) PROVE RingFits'
  <2>1. WholeRing' => WholeRing
    BY <1>0, <1>12, RingFacts DEF ChildWrite, Goto, WholeRing
  <2>2. CASE WholeRing
    BY <1>12, <2>2, ChildWriteKeepsRing
  <2>3. CASE ~WholeRing
    BY <2>1, <2>3 DEF RingFits
  <2> QED
    BY <2>2, <2>3
<1>13. ASSUME NEW k \in Child, ChildKilled(k) PROVE RingFits'
  <2>1. WholeRing' => WholeRing
    BY <1>0, <1>13, RingFacts DEF ChildKilled, Goto, WholeRing
  <2>2. CASE WholeRing
    BY <1>13, <2>2, Wanted, RingFacts DEF ChildKilled
  <2>3. CASE ~WholeRing
    BY <2>1, <2>3 DEF RingFits
  <2> QED
    BY <2>2, <2>3
<1>14. ASSUME NEW k \in Child, Leave(k) PROVE RingFits'
  <2>1. /\ UNCHANGED <<buf, sent, round>> /\ (WholeRing' => WholeRing)
        /\ \A j \in Child : (pc[j] = "write") <=> (pc'[j] = "write")
        /\ \A j \in Proc : pc'[j] = "killed" => pc[j] = "killed"
    BY <1>0, <1>14, RingFacts DEF Goto, Leave, WholeRing
  <2> QED
    BY <1>0, <2>1, Unmoved
<1>15. CASE UNCHANGED vars
  <2>1. UNCHANGED <<buf, sent, round, pc>>
    BY <1>15 DEF vars
  <2> QED
    BY <1>0, <2>1, Unmoved DEF WholeRing
<1> QED
  BY <1>1, <1>2, <1>3, <1>4, <1>5, <1>6, <1>7, <1>8, <1>9, <1>10, <1>11, <1>12,
     <1>13, <1>14, <1>15
     DEF Next, ParentStep, ChildStep, Terminating

(* The inductive invariant. *)
LEMMA Kept == IInv /\ [Next]_vars => IInv'
<1> SUFFICES ASSUME IInv, [Next]_vars PROVE IInv'
  OBVIOUS
<1>1. TypeOK' /\ (ParentCounts /\ ChildCounts /\ SamplesFit)'
  BY TypesKept, CountsKept
<1>2. InOrder' /\ EndsFit' /\ PinFits' /\ RingFits'
  BY OrderKept, EndsKept, PinKept, RingKept
<1> QED
  BY <1>1, <1>2 DEF IInv

LEMMA Invariant == Spec => []IInv
<1>1. Init => IInv
  BY InitHolds
<1>2. IInv /\ [Next]_vars => IInv'
  BY Kept
<1> QED
  BY <1>1, <1>2, PTL DEF Spec

(* lat[] is written by the parent's read, and thrown away between two      *)
(* scenarios.                                                              *)
LEMMA OnlyReadSamples ==
  ASSUME [Next]_vars, lat' # lat, lat' # {}
  PROVE  ParentRead
<1>1. ASSUME NEW k \in Child, ChildStep(k) PROVE lat' = lat
  BY <1>1 DEF ChildStep, Settle, ChildRead, ChildWrite, ChildKilled, Leave
<1>2. ASSUME NEW k \in Child, Fork(k) \/ ForkFails(k) \/ Reap(k) PROVE lat' = lat
  BY <1>2 DEF Fork, ForkFails, Reap
<1>3. StartRing \/ ParentWrite \/ ParentKilled \/ Report => lat' = lat
  BY DEF StartRing, ParentWrite, ParentKilled, Report
<1>4. NextScenario => lat' = lat \/ lat' = {}
  BY DEF NextScenario
<1>5. UNCHANGED vars => lat' = lat
  BY DEF vars
<1> QED
  BY <1>1, <1>2, <1>3, <1>4, <1>5 DEF Next, ParentStep, Terminating

(* With no failed fork the result counts every switch of every process. *)
LEMMA ResultWhole == IInv => WholeRingResult
<1> SUFFICES ASSUME IInv, WholeRing
             PROVE  /\ \A i \in Proc : pc[i] # "killed"
                    /\ pc[Parent] \in {"report", "reap"} =>
                         lat = 0 .. (Iterations - 1) /\ \A k \in Child : sent[k] = Total
  BY RingFacts DEF WholeRingResult
<1>1. /\ round \in Nat
      /\ \A i \in Proc : sent[i] \in Nat /\ sent[i] <= Total /\ buf[i] \in Nat
  BY Numbers DEF IInv
<1>2. TokensReturn /\ NobodyKilled
  BY DEF IInv, RingFits
<1>3. ASSUME pc[Parent] \in {"report", "reap"}
      PROVE  lat = 0 .. (Iterations - 1) /\ \A k \in Child : sent[k] = Total
  <2>1. round = Total
    BY <1>3 DEF IInv, ParentCounts
  <2>2. lat = 0 .. (Iterations - 1)
    BY <2>1, Rounds DEF IInv, SamplesFit
  <2>3. \A k \in Child : sent[k] = Total
    BY <1>1, <1>2, <2>1, Rounds, RingFacts DEF TokensReturn
  <2> QED
    BY <2>2, <2>3
<1> QED
  BY <1>2, <1>3 DEF NobodyKilled

(* A sample ends with a token, and every child has passed that one on and  *)
(* none of the next round.                                                 *)
LEMMA SampleWhole ==
  IInv /\ [Next]_vars =>
    (lat' # lat /\ lat' # {} /\ WholeRing => \A k \in Child : sent[k] = round + 1)
<1> SUFFICES ASSUME IInv, [Next]_vars, lat' # lat, lat' # {}, WholeRing, NEW k \in Child
             PROVE  sent[k] = round + 1
  OBVIOUS
<1>1. ParentRead
  BY OnlyReadSamples
<1>2. /\ round \in Nat
      /\ \A i \in Proc : sent[i] \in Nat /\ sent[i] <= Total /\ buf[i] \in Nat
  BY Numbers DEF IInv
<1>3. pc[Parent] = "read" /\ Readable(Parent)
  BY <1>1, Supplied, RingFacts DEF ParentRead
<1>4. sent[k] >= round + buf[Parent]
  BY DEF IInv, RingFits, TokensReturn
<1>5. sent[Parent] >= sent[k] + buf[k] + InHand(k) /\ sent[Parent] = round + 1
  BY <1>3, RingFacts DEF IInv, RingFits, TokensComeFrom, ParentCounts
<1>6. InHand(k) \in {0, 1}
  BY DEF InHand
<1> QED
  BY <1>2, <1>3, <1>4, <1>5, <1>6, RingFacts DEF Readable

(* Who has joined the ring when a sample is taken is where its scenario    *)
(* puts it.                                                                *)
LEMMA SamplePinned ==
  IInv /\ [Next]_vars =>
    (lat' # lat /\ lat' # {} =>
       \A i \in Proc : Joined(i) /\ Scenarios[scene][i] \in Online =>
                        mask[i] = {Scenarios[scene][i]})
<1> SUFFICES ASSUME IInv, [Next]_vars, lat' # lat, lat' # {}, NEW i \in Proc,
                    Joined(i), Scenarios[scene][i] \in Online
             PROVE  mask[i] = {Scenarios[scene][i]}
  OBVIOUS
<1>1. pc[Parent] = "read"
  BY OnlyReadSamples DEF ParentRead
<1>2. i \in Child => pc[i] \in ChildLabel /\ pc[i] # "unborn"
  BY <1>1 DEF IInv, InOrder, TypeOK
<1>3. Placed(i)
  BY <1>1, <1>2, RingFacts DEF Placed, Joined, ChildLabel
<1> QED
  BY <1>3 DEF IInv, PinFits

(* A row of the table is what its scenario says (core_migration_penalty.c, *)
(* run_ring), for every number of processes, rounds and scenarios.         *)
THEOREM RowIsScenario == Spec => MeasuredAsLabelled
<1>1. IInv => WholeRingResult
  BY ResultWhole
<1>2. IInv /\ [Next]_vars =>
        [lat' # lat /\ lat' # {} /\ WholeRing => \A k \in Child : sent[k] = round + 1]_vars
  BY SampleWhole
<1>3. IInv /\ [Next]_vars =>
        [lat' # lat /\ lat' # {} =>
           \A i \in Proc : Joined(i) /\ Scenarios[scene][i] \in Online =>
                            mask[i] = {Scenarios[scene][i]}]_vars
  BY SamplePinned
<1>4. Spec => []IInv
  BY Invariant
<1> QED
  BY <1>1, <1>2, <1>3, <1>4, PTL
     DEF Spec, MeasuredAsLabelled, SampleIsRotation, PinnedAsLabelled

(* Nobody of one scenario is still running when main goes on to the next   *)
(* (core_migration_penalty.c, the loop over waitpid), whatever forks       *)
(* failed and whomever waitpid(-1) reaped in their place.                  *)
THEOREM OneScenarioAtATime == Spec => ScenariosDoNotOverlap
<1>1. IInv /\ [Next]_vars => [scene' # scene => \A k \in Child : Gone(k)]_vars
  <2> SUFFICES ASSUME IInv, [Next]_vars, scene' # scene PROVE \A k \in Child : Gone(k)
    OBVIOUS
  <2>1. ASSUME NEW k \in Child, ChildStep(k) PROVE scene' = scene
    BY <2>1 DEF ChildStep, Settle, ChildRead, ChildWrite, ChildKilled, Leave
  <2>2. ASSUME NEW k \in Child, Fork(k) \/ ForkFails(k) \/ Reap(k) PROVE scene' = scene
    BY <2>2 DEF Fork, ForkFails, Reap
  <2>3. StartRing \/ ParentWrite \/ ParentRead \/ ParentKilled \/ Report => scene' = scene
    BY DEF StartRing, ParentWrite, ParentRead, ParentKilled, Report
  <2>4. UNCHANGED vars => scene' = scene
    BY DEF vars
  <2>5. NextScenario
    BY <2>1, <2>2, <2>3, <2>4 DEF Next, ParentStep, Terminating
  <2>6. waits = N - 1
    BY <2>5 DEF NextScenario
  <2>7. \A k \in Child : k < N - 1
    BY RingAssumption DEF Child
  <2> QED
    BY <2>6, <2>7 DEF IInv, InOrder
<1>2. Spec => []IInv
  BY Invariant
<1> QED
  BY <1>1, <1>2, PTL DEF Spec, ScenariosDoNotOverlap

(* The buffer only watches: with it the program still behaves as modelled  *)
(* without.                                                                *)
LEMMA TableWatches == TableSpec => Spec
<1>1. TableInit => Init
  BY DEF TableInit
<1>2. [TableNext]_<<vars, tableVars>> => [Next]_vars
  <2>1. ASSUME NEW k \in Child, Fork(k) \/ ForkFails(k) \/ Reap(k) PROVE Next
    BY <2>1 DEF Next, ParentStep
  <2>2. ASSUME NEW k \in Child,
               Settle(k) \/ ChildRead(k) \/ ChildWrite(k) \/ ChildKilled(k) \/ Leave(k)
        PROVE  Next
    BY <2>2 DEF Next, ChildStep
  <2>3. StartRing \/ ParentWrite \/ ParentRead \/ ParentKilled \/ Report \/ NextScenario => Next
    BY DEF Next, ParentStep
  <2>4. Terminating => Next
    BY DEF Next
  <2> QED
    BY <2>1, <2>2, <2>3, <2>4 DEF TableNext
<1> QED
  BY <1>1, <1>2, PTL DEF TableSpec, Spec

(* What holds of the processes holds of the program that also keeps a      *)
(* table.                                                                  *)
THEOREM TableRows == TableSpec => MeasuredAsLabelled /\ ScenariosDoNotOverlap
BY TableWatches, RowIsScenario, OneScenarioAtATime, PTL

----------------------------------------------------------------------------
(* The table on disk. *)

(* The table up to the row of scenario m. *)
UpTo(m) == [i \in 1 .. m + 1 |-> i - 1]

(* No line is on disk before the line it follows in the table. *)
LinesInOrder(f) ==
  /\ f # <<>> => f[1] = Header
  /\ \A i \in DOMAIN f : f[i] # Header => \E j \in DOMAIN f : j < i /\ f[j] = f[i] - 1

(* A buffer is empty or begins the table; while the parent runs, its own   *)
(* holds all of it so far.                                                 *)
BuffersFit ==
  /\ DOMAIN out = Proc
  /\ \A i \in Proc : out[i] = <<>> \/ \E m \in 0 .. scene - 1 : out[i] = UpTo(m)
  /\ pc[Parent] \notin {"exited", "killed"} => out[Parent] = UpTo(scene - 1)

(* The disk has no row of a scenario still running, and the last one when  *)
(* the program has returned.                                               *)
FileFits ==
  /\ file \in Seq(0 .. Len(Scenarios))
  /\ LinesInOrder(file)
  /\ pc[Parent] # "exited" => \A i \in DOMAIN file : file[i] < scene
  /\ pc[Parent] = "exited" => \E i \in DOMAIN file : file[i] = Len(Scenarios)

TableInv == IInv /\ BuffersFit /\ FileFits

(* Induction over the naturals, for a set of them. *)
LEMMA Induction ==
  ASSUME NEW T, 0 \in T, \A n \in Nat : n \in T => n + 1 \in T
  PROVE  \A n \in Nat : n \in T
<1> DEFINE R == OpToRel(<, Nat)
           Missed == {n \in Nat : n \notin T}
<1> SUFFICES ASSUME Missed # {} PROVE FALSE
  OBVIOUS
<1>1. \A x, y \in Nat : y < x => <<y, x>> \in R
  BY DEF OpToRel
<1>2. IsWellFoundedOn(R, Nat)
  BY NatLessThanWellFounded
<1> HIDE DEF R
<1>3. PICK x \in Missed : \A y \in Missed : ~(<<y, x>> \in R)
  BY <1>2, WFMin
<1>4. x \in Nat \ {0}
  OBVIOUS
<1>5. PICK y \in Nat : x = y + 1
  <2>1. x - 1 \in Nat /\ x = (x - 1) + 1
    BY <1>4
  <2> QED
    BY <2>1
<1>6. y \notin T
  BY <1>5
<1>7. <<y, x>> \in R
  BY <1>1, <1>5
<1> QED
  BY <1>3, <1>6, <1>7

(* The repair folds over the lines after the first: what it has kept after *)
(* the lines whose places are in s.                                        *)
Grown(h, clean, line) ==
  IF line = h \/ Contains(Tail(clean), line) THEN clean ELSE Append(clean, line)
KeptBy(h, t, n, g) ==
  g = [s \in SUBSET (1 .. n) |->
         IF s = {} THEN <<h>> ELSE Grown(h, g[s \ {Max(s)}], t[Max(s)])]

LEMMA LastPlace ==
  ASSUME NEW n \in Nat, NEW s \in SUBSET (1 .. n + 1), n + 1 \in s
  PROVE  Max(s) = n + 1
<1>1. \A x \in s : (\A y \in s : x >= y) <=> x = n + 1
  OBVIOUS
<1> QED
  BY <1>1 DEF Max

LEMMA FoldExists ==
  ASSUME NEW h, NEW t
  PROVE  \A n \in Nat : \E g : KeptBy(h, t, n, g)
<1> DEFINE T == {n \in Nat : \E g : KeptBy(h, t, n, g)}
<1>1. 0 \in T
  <2>1. KeptBy(h, t, 0, [s \in SUBSET (1 .. 0) |-> <<h>>])
    <3>1. \A s \in SUBSET (1 .. 0) : s = {}
      OBVIOUS
    <3> QED
      BY <3>1, Zenon DEF KeptBy
  <2> QED
    BY <2>1, Zenon
<1>2. ASSUME NEW n \in Nat, n \in T PROVE n + 1 \in T
  <2>1. PICK g : KeptBy(h, t, n, g)
    BY <1>2, Zenon
  <2> DEFINE Body(k, s) ==
        IF s = {} THEN <<h>> ELSE Grown(h, k[s \ {Max(s)}], t[Max(s)])
  <2>2. PICK k : k = [s \in SUBSET (1 .. n + 1) |->
                        IF n + 1 \in s THEN Grown(h, g[s \ {n + 1}], t[n + 1]) ELSE g[s]]
    OBVIOUS
  <2>3. \A s \in SUBSET (1 .. n) : s \in SUBSET (1 .. n + 1) /\ n + 1 \notin s
    OBVIOUS
  <2>4. \A s \in SUBSET (1 .. n) : k[s] = g[s]
    BY <2>2, <2>3, Zenon
  <2>5. \A s \in SUBSET (1 .. n) : g[s] = Body(g, s)
    BY <2>1, Zenon DEF KeptBy
  <2>6. ASSUME NEW s \in SUBSET (1 .. n + 1) PROVE k[s] = Body(k, s)
    <3>1. CASE n + 1 \in s
      <4>1. Max(s) = n + 1 /\ s \ {n + 1} \in SUBSET (1 .. n) /\ s # {}
        BY <3>1, LastPlace
      <4>2. k[s] = Grown(h, g[s \ {n + 1}], t[n + 1])
        BY <2>2, <3>1, Zenon
      <4>3. k[s \ {n + 1}] = g[s \ {n + 1}]
        BY <2>4, <4>1, Zenon
      <4> QED
        BY <4>1, <4>2, <4>3, Zenon
    <3>2. CASE n + 1 \notin s
      <4>1. s \in SUBSET (1 .. n)
        BY <3>2
      <4>2. s \ {Max(s)} \in SUBSET (1 .. n)
        BY <4>1
      <4> QED
        BY <2>4, <2>5, <4>1, <4>2, Zenon
    <3> QED
      BY <3>1, <3>2
  <2>7. k = [s \in SUBSET (1 .. n + 1) |-> k[s]]
    BY <2>2, Zenon
  <2>8. [s \in SUBSET (1 .. n + 1) |-> k[s]] = [s \in SUBSET (1 .. n + 1) |-> Body(k, s)]
    BY <2>6, Zenon
  <2>9. KeptBy(h, t, n + 1, k)
    BY <2>7, <2>8, Zenon DEF KeptBy
  <2>10. n + 1 \in Nat
    OBVIOUS
  <2> QED
    BY <2>9, <2>10, Zenon
<1> HIDE DEF T
<1>3. \A n \in Nat : n \in T
  BY <1>1, <1>2, Induction
<1> QED
  BY <1>3, Zenon DEF T

(* Line by line. *)
LEMMA RepairSteps ==
  ASSUME NEW f \in Seq(Nat), f # <<>>
  PROVE  \E c : /\ c[1] = <<Head(f)>>
                /\ \A n \in 1 .. Len(f) - 1 : c[n + 1] = Grown(Head(f), c[n], f[n + 1])
                /\ Repaired(f) = c[Len(f)]
<1>1. PICK m \in Nat : /\ Len(f) = m + 1 /\ DOMAIN Tail(f) = 1 .. m
                       /\ \A i \in 1 .. m : Tail(f)[i] = f[i + 1]
  <2>1. Len(f) - 1 \in Nat /\ Len(f) = (Len(f) - 1) + 1
    BY EmptySeq
  <2>2. DOMAIN Tail(f) = 1 .. Len(f) - 1
        /\ \A i \in 1 .. Len(f) - 1 : Tail(f)[i] = f[i + 1]
    BY HeadTailProperties, LenProperties
  <2> QED
    BY <2>1, <2>2
<1> DEFINE t == Tail(f)
           h == Head(f)
<1>2. Repaired(f) = (CHOOSE g : KeptBy(h, t, m, g))[1 .. m]
  BY <1>1, Zenon DEF Repaired, FoldLeft, MapThenFoldSet, KeptBy, Grown
<1>3. PICK g : g = (CHOOSE k : KeptBy(h, t, m, k)) /\ KeptBy(h, t, m, g)
  <2>1. \E g : KeptBy(h, t, m, g)
    BY FoldExists, Zenon
  <2> QED
    BY <2>1, Zenon
<1>4. PICK c : c = [n \in 1 .. m + 1 |-> g[1 .. n - 1]]
  OBVIOUS
<1>5. g[{}] = <<h>>
  <2>1. {} \in SUBSET (1 .. m)
    OBVIOUS
  <2> QED
    BY <1>3, <2>1, Zenon DEF KeptBy
<1>6. c[1] = <<h>>
  <2>1. 1 \in 1 .. m + 1 /\ 1 .. 1 - 1 = {}
    OBVIOUS
  <2> QED
    BY <1>4, <1>5, <2>1, Zenon
<1>7. ASSUME NEW n \in 1 .. m PROVE c[n + 1] = Grown(h, c[n], f[n + 1])
  <2>1. /\ 1 .. n \in SUBSET (1 .. m) /\ 1 .. n # {} /\ (1 .. n) \ {n} = 1 .. n - 1
        /\ n \in 1 .. m + 1 /\ n + 1 \in 1 .. m + 1 /\ (n + 1) - 1 = n
    <3>1. 1 .. n \in SUBSET (1 .. m) /\ n \in 1 .. n
      OBVIOUS
    <3>2. (1 .. n) \ {n} = 1 .. n - 1
      OBVIOUS
    <3>3. n \in 1 .. m + 1 /\ n + 1 \in 1 .. m + 1 /\ (n + 1) - 1 = n
      OBVIOUS
    <3> QED
      BY <3>1, <3>2, <3>3
  <2>2. Max(1 .. n) = n
    <3>1. n - 1 \in Nat /\ (n - 1) + 1 = n /\ n \in 1 .. n
      OBVIOUS
    <3> QED
      BY <3>1, LastPlace
  <2>3. g[1 .. n] = Grown(h, g[(1 .. n) \ {n}], t[n])
    BY <1>3, <2>1, <2>2, Zenon DEF KeptBy
  <2>4. c[n + 1] = g[1 .. n] /\ c[n] = g[1 .. n - 1] /\ t[n] = f[n + 1]
    BY <1>1, <1>4, <2>1
  <2> QED
    BY <2>1, <2>3, <2>4, Zenon
<1>8. Repaired(f) = c[m + 1]
  <2>1. m + 1 \in 1 .. m + 1 /\ (m + 1) - 1 = m
    OBVIOUS
  <2> QED
    BY <1>2, <1>3, <1>4, <2>1, Zenon
<1>9. Len(f) - 1 = m
  BY <1>1
<1> QED
  BY <1>1, <1>6, <1>7, <1>8, <1>9, Zenon

(* The table, as the proofs use it. *)
LEMMA TableFacts ==
  ASSUME NEW m \in Nat
  PROVE  /\ UpTo(m) \in Seq(0 .. m) /\ Len(UpTo(m)) = m + 1 /\ UpTo(m) # <<>>
         /\ DOMAIN UpTo(m) = 1 .. m + 1 /\ \A i \in 1 .. m + 1 : UpTo(m)[i] = i - 1
         /\ Head(UpTo(m)) = 0
         /\ Len(Tail(UpTo(m))) = m /\ DOMAIN Tail(UpTo(m)) = 1 .. m
         /\ \A i \in 1 .. m : Tail(UpTo(m))[i] = i
<1>1. /\ UpTo(m) \in [1 .. m + 1 -> 0 .. m] /\ m + 1 \in Nat
      /\ \A i \in 1 .. m + 1 : UpTo(m)[i] = i - 1
  <2>1. \A i \in 1 .. m + 1 : i - 1 \in 0 .. m
    OBVIOUS
  <2> QED
    BY <2>1 DEF UpTo
<1>2. UpTo(m) \in Seq(0 .. m) /\ DOMAIN UpTo(m) = 1 .. m + 1
  BY <1>1
<1>3. Len(UpTo(m)) = m + 1
  BY <1>1, <1>2, LenProperties
<1>4. UpTo(m) # <<>>
  BY <1>3
<1>5. Head(UpTo(m)) = 0
  BY <1>1, <1>2, <1>4
<1>6. Tail(UpTo(m)) \in Seq(0 .. m) /\ Len(Tail(UpTo(m))) = m
  BY <1>2, <1>3, <1>4, HeadTailProperties
<1>7. DOMAIN Tail(UpTo(m)) = 1 .. m
  BY <1>6, LenProperties
<1>8. ASSUME NEW i \in 1 .. m PROVE Tail(UpTo(m))[i] = i
  <2>1. Tail(UpTo(m))[i] = UpTo(m)[i + 1]
    BY <1>2, <1>4, <1>6, HeadTailProperties
  <2>2. i + 1 \in 1 .. m + 1 /\ (i + 1) - 1 = i
    OBVIOUS
  <2> QED
    BY <1>1, <2>1, <2>2
<1> QED
  BY <1>1, <1>2, <1>3, <1>4, <1>5, <1>6, <1>7, <1>8

LEMMA TableSeq == ASSUME NEW m \in Nat PROVE UpTo(m) \in Seq(Nat)
<1>1. UpTo(m) \in Seq(0 .. m) /\ 0 .. m \subseteq Nat
  BY TableFacts
<1> QED
  BY <1>1, SeqMonotonic

(* The table before its first row, and with one row more. *)
LEMMA OnlyHeader == UpTo(0) = <<0>>
<1>1. UpTo(0) \in Seq(Nat) /\ Len(UpTo(0)) = 1 /\ UpTo(0)[1] = 0
  <2>1. 0 + 1 = 1 /\ 1 \in 1 .. 0 + 1 /\ 1 - 1 = 0 /\ 0 \in Nat
    OBVIOUS
  <2> QED
    BY <2>1, TableFacts, TableSeq
<1>2. <<0>> \in Seq(Nat) /\ Len(<<0>>) = 1 /\ <<0>>[1] = 0 /\ \A i \in 1 .. 1 : i = 1
  OBVIOUS
<1> QED
  BY <1>1, <1>2, SeqEqual

LEMMA OneRowMore ==
  ASSUME NEW m \in Nat
  PROVE  Append(UpTo(m), m + 1) = UpTo(m + 1)
<1>1. UpTo(m) \in Seq(Nat) /\ UpTo(m + 1) \in Seq(Nat)
  BY TableSeq
<1>2. Append(UpTo(m), m + 1) \in Seq(Nat)
  BY <1>1, AppendProperties
<1>3. /\ Len(UpTo(m)) = m + 1 /\ Len(UpTo(m + 1)) = m + 2
      /\ Len(Append(UpTo(m), m + 1)) = m + 2
  <2>1. Len(UpTo(m)) = m + 1 /\ Len(UpTo(m + 1)) = (m + 1) + 1
    BY TableFacts
  <2> QED
    BY <1>1, <2>1, AppendProperties
<1>4. ASSUME NEW i \in 1 .. m + 2 PROVE Append(UpTo(m), m + 1)[i] = UpTo(m + 1)[i]
  <2>1. UpTo(m + 1)[i] = i - 1
    BY TableFacts
  <2>2. CASE i = m + 2
    BY <1>1, <1>3, <2>1, <2>2, AppendProperties
  <2>3. CASE i # m + 2
    <3>1. i \in 1 .. m + 1
      BY <2>3
    <3>2. Append(UpTo(m), m + 1)[i] = UpTo(m)[i]
      BY <1>1, <1>3, <3>1, AppendProperties
    <3>3. UpTo(m)[i] = i - 1
      BY <3>1, TableFacts
    <3> QED
      BY <2>1, <3>2, <3>3
  <2> QED
    BY <2>2, <2>3
<1> QED
  BY <1>1, <1>2, <1>3, <1>4, SeqEqual

(* A beginning of the table begins every longer one. *)
LEMMA Begins ==
  ASSUME NEW m \in Nat, NEW n \in Nat, m <= n
  PROVE  /\ SubSeq(UpTo(n), 1, m + 1) = UpTo(m)
         /\ IsPrefix(UpTo(m), UpTo(n)) /\ IsPrefix(<<>>, UpTo(n))
<1>1. UpTo(m) \in Seq(Nat) /\ UpTo(n) \in Seq(Nat)
  BY TableSeq
<1>2. /\ Len(UpTo(m)) = m + 1 /\ Len(UpTo(n)) = n + 1
      /\ \A i \in 1 .. m + 1 : UpTo(m)[i] = i - 1
      /\ \A i \in 1 .. n + 1 : UpTo(n)[i] = i - 1
  BY TableFacts
<1>3. ASSUME NEW k \in {m, n} PROVE SubSeq(UpTo(k), 1, m + 1) = UpTo(m)
  <2>1. \A i \in 1 .. m + 1 : UpTo(k)[i] \in Nat /\ UpTo(k)[i] = i - 1
    BY <1>2
  <2>2. /\ SubSeq(UpTo(k), 1, m + 1) \in Seq(Nat)
        /\ Len(SubSeq(UpTo(k), 1, m + 1)) = m + 1
        /\ \A i \in 1 .. m + 1 : SubSeq(UpTo(k), 1, m + 1)[i] = UpTo(k)[i]
    <3>1. (m + 1) - 1 + 1 = m + 1 /\ 1 <= m + 1 /\ \A i \in Nat : 1 + i - 1 = i
      OBVIOUS
    <3>2. PICK s : s = UpTo(k)
      OBVIOUS
    <3>3. /\ SubSeq(s, 1, m + 1) \in Seq(Nat)
          /\ Len(SubSeq(s, 1, m + 1)) = m + 1
          /\ \A i \in 1 .. m + 1 : SubSeq(s, 1, m + 1)[i] = s[i]
      <4>1. \A i \in 1 .. m + 1 : s[i] \in Nat
        BY <2>1, <3>2
      <4> QED
        BY <3>1, <4>1, SubSeqProperties
    <3> QED
      BY <3>2, <3>3
  <2> QED
    BY <1>1, <1>2, <2>1, <2>2, SeqEqual
<1>4. IsPrefix(UpTo(m), UpTo(n))
  <2>1. SubSeq(UpTo(m), 1, m + 1) = SubSeq(UpTo(n), 1, m + 1) /\ m + 1 <= n + 1
    BY <1>3
  <2> QED
    BY <1>2, <2>1 DEF IsPrefix
<1>5. IsPrefix(<<>>, UpTo(n))
  <2>1. SubSeq(<<>>, 1, 0) = <<>> /\ SubSeq(UpTo(n), 1, 0) = <<>>
    BY SubSeqEmpty
  <2>2. Len(<<>>) = 0 /\ 0 <= n + 1
    BY EmptySeq
  <2> QED
    BY <1>2, <2>1, <2>2 DEF IsPrefix
<1> QED
  BY <1>3, <1>4, <1>5

LEMMA WholeTable ==
  /\ Len(Scenarios) \in Nat \ {0}
  /\ Whole = UpTo(Len(Scenarios))
  /\ \A m \in 1 .. Len(Scenarios) : SubSeq(Whole, 1, m) = UpTo(m - 1)
  /\ ToSet(Whole) = 0 .. Len(Scenarios)
<1>1. PICK n \in Nat \ {0} : n = Len(Scenarios)
  BY MigrationAssumption
<1>2. Whole = UpTo(n)
  <2>1. PICK r : r = [s \in 1 .. n |-> s]
    OBVIOUS
  <2>2. r \in Seq(Nat) /\ Len(r) = n /\ \A i \in 1 .. n : r[i] = i
    <3>1. r \in [1 .. n -> Nat] /\ \A i \in 1 .. n : r[i] = i
      BY <2>1
    <3>2. r \in Seq(Nat) /\ DOMAIN r = 1 .. n
      BY <3>1
    <3> QED
      BY <3>1, <3>2, LenProperties
  <2>3. <<Header>> \in Seq(Nat) /\ Len(<<Header>>) = 1 /\ <<Header>>[1] = 0
    BY DEF Header
  <2>4. Whole = <<Header>> \o r
    BY <1>1, <2>1 DEF Whole
  <2>5. /\ Whole \in Seq(Nat) /\ Len(Whole) = 1 + n
        /\ \A i \in 1 .. 1 + n : Whole[i] = IF i <= 1 THEN <<Header>>[i] ELSE r[i - 1]
    BY <2>2, <2>3, <2>4, ConcatProperties
  <2>6. UpTo(n) \in Seq(Nat) /\ Len(UpTo(n)) = n + 1
        /\ \A i \in 1 .. n + 1 : UpTo(n)[i] = i - 1
    BY TableFacts, TableSeq
  <2>7. ASSUME NEW i \in 1 .. n + 1 PROVE Whole[i] = UpTo(n)[i]
    <3>1. CASE i = 1
      BY <2>3, <2>5, <2>6, <3>1
    <3>2. CASE i # 1
      <4>1. i - 1 \in 1 .. n /\ ~(i <= 1)
        BY <3>2
      <4> QED
        BY <2>2, <2>5, <2>6, <4>1
    <3> QED
      BY <3>1, <3>2
  <2> QED
    BY <2>5, <2>6, <2>7, SeqEqual
<1>3. ASSUME NEW m \in 1 .. n PROVE SubSeq(Whole, 1, m) = UpTo(m - 1)
  <2>1. m - 1 \in Nat /\ m - 1 <= n /\ (m - 1) + 1 = m
    OBVIOUS
  <2> QED
    BY <1>2, <2>1, Begins
<1>4. ToSet(Whole) = 0 .. n
  <2>1. DOMAIN UpTo(n) = 1 .. n + 1 /\ \A i \in 1 .. n + 1 : UpTo(n)[i] = i - 1
    BY TableFacts
  <2>2. \A v \in 0 .. n : v + 1 \in 1 .. n + 1 /\ (v + 1) - 1 = v
    OBVIOUS
  <2>3. \A v \in 0 .. n : \E i \in 1 .. n + 1 : UpTo(n)[i] = v
    BY <2>1, <2>2
  <2>4. \A i \in 1 .. n + 1 : UpTo(n)[i] \in 0 .. n
    BY <2>1
  <2> QED
    BY <1>2, <2>1, <2>3, <2>4 DEF ToSet
<1> QED
  BY <1>1, <1>2, <1>3, <1>4

(* The repair of what is in order is the table up to its last row.  A line *)
(* that is not kept yet can only be the next one: the one before it has    *)
(* been read already, and is kept.                                         *)
LEMMA RepairOfOrdered ==
  ASSUME NEW f \in Seq(Nat), f # <<>>, LinesInOrder(f)
  PROVE  \E m \in Nat : Repaired(f) = UpTo(m) /\ {f[i] : i \in 1 .. Len(f)} = 0 .. m
<1>1. PICK c : /\ c[1] = <<Head(f)>>
               /\ \A n \in 1 .. Len(f) - 1 : c[n + 1] = Grown(Head(f), c[n], f[n + 1])
               /\ Repaired(f) = c[Len(f)]
  BY RepairSteps
<1>2. Len(f) \in Nat \ {0} /\ DOMAIN f = 1 .. Len(f) /\ \A i \in 1 .. Len(f) : f[i] \in Nat
  BY EmptySeq, LenProperties, ElementOfSeq
<1>3. Head(f) = 0 /\ f[1] = 0
  BY <1>2 DEF LinesInOrder, Header
<1>4. \A i \in 1 .. Len(f) : f[i] # 0 => \E j \in 1 .. Len(f) : j < i /\ f[j] = f[i] - 1
  BY <1>2 DEF LinesInOrder, Header
<1> DEFINE Fits(n, m) == c[n] = UpTo(m) /\ {f[i] : i \in 1 .. n} = 0 .. m
           T == {n \in Nat : n + 1 <= Len(f) => \E m \in Nat : Fits(n + 1, m)}
<1>5. 0 \in T
  <2>1. c[1] = UpTo(0)
    BY <1>1, <1>3, OnlyHeader
  <2>2. {f[i] : i \in 1 .. 1} = 0 .. 0
    <3>1. \A i : i \in 1 .. 1 <=> i = 1
      OBVIOUS
    <3>2. \A i : i \in 0 .. 0 <=> i = 0
      OBVIOUS
    <3> QED
      BY <1>3, <3>1, <3>2
  <2>3. 0 + 1 = 1 /\ Fits(1, 0)
    BY <2>1, <2>2
  <2> QED
    BY <2>3
<1>6. ASSUME NEW n \in Nat, n \in T PROVE n + 1 \in T
  <2> SUFFICES ASSUME (n + 1) + 1 <= Len(f) PROVE \E m \in Nat : Fits((n + 1) + 1, m)
    OBVIOUS
  <2>1. PICK k \in 1 .. Len(f) - 1 : k = n + 1 /\ k + 1 \in 1 .. Len(f)
    BY <1>2
  <2>2. PICK m \in Nat : Fits(k, m)
    BY <1>6, <2>1
  <2>3. PICK v \in Nat : v = f[k + 1]
    BY <1>2, <2>1
  <2>4. c[k + 1] = Grown(0, UpTo(m), v)
    BY <1>1, <1>3, <2>1, <2>2, <2>3
  <2>5. \A w : w \in {f[i] : i \in 1 .. k + 1} <=> w \in 0 .. m \/ w = v
    <3>1. \A i : i \in 1 .. k + 1 <=> i \in 1 .. k \/ i = k + 1
      BY <2>1
    <3> QED
      BY <2>2, <2>3, <3>1
  <2>6. Contains(Tail(UpTo(m)), v) <=> v \in 1 .. m
    <3>1. /\ Len(Tail(UpTo(m))) = m
          /\ \A i \in 1 .. m : Tail(UpTo(m))[i] = i
      BY TableFacts
    <3> QED
      BY <3>1 DEF Contains
  <2>7. CASE v \in 0 .. m
    <3>1. c[k + 1] = UpTo(m)
      BY <2>4, <2>6, <2>7 DEF Grown
    <3>2. {f[i] : i \in 1 .. k + 1} = 0 .. m
      BY <2>5, <2>7
    <3> QED
      BY <2>1, <3>1, <3>2
  <2>8. CASE v \notin 0 .. m
    <3>1. v # 0 /\ v > m
      BY <2>8
    <3>2. PICK j \in 1 .. Len(f) : j < k + 1 /\ f[j] = v - 1
      BY <1>4, <2>1, <2>3, <3>1
    <3>3. j \in 1 .. k
      BY <2>1, <3>2
    <3>4. v - 1 \in 0 .. m
      BY <2>2, <3>2, <3>3
    <3>5. v = m + 1
      BY <3>1, <3>4
    <3>6. c[k + 1] = UpTo(m + 1)
      <4>1. ~Contains(Tail(UpTo(m)), v)
        BY <2>6, <2>8
      <4>2. c[k + 1] = Append(UpTo(m), v)
        BY <2>4, <3>1, <4>1 DEF Grown
      <4> QED
        BY <3>5, <4>2, OneRowMore
    <3>7. {f[i] : i \in 1 .. k + 1} = 0 .. m + 1
      <4>1. \A w : w \in 0 .. m + 1 <=> w \in 0 .. m \/ w = m + 1
        OBVIOUS
      <4> QED
        BY <2>5, <3>5, <4>1
    <3>8. m + 1 \in Nat
      OBVIOUS
    <3> QED
      BY <2>1, <3>6, <3>7, <3>8
  <2> QED
    BY <2>7, <2>8
<1> HIDE DEF T
<1>7. \A n \in Nat : n \in T
  BY <1>5, <1>6, Induction
<1>8. Len(f) - 1 \in T /\ (Len(f) - 1) + 1 = Len(f)
  BY <1>2, <1>7
<1> QED
  BY <1>1, <1>2, <1>8 DEF T

(* The table itself is in order, and so is what the exits make of it. *)
LEMMA TableOrdered == ASSUME NEW m \in Nat PROVE LinesInOrder(UpTo(m))
<1>1. DOMAIN UpTo(m) = 1 .. m + 1 /\ \A i \in 1 .. m + 1 : UpTo(m)[i] = i - 1
  BY TableFacts
<1>2. ASSUME NEW i \in 1 .. m + 1, UpTo(m)[i] # 0
      PROVE  \E j \in 1 .. m + 1 : j < i /\ UpTo(m)[j] = UpTo(m)[i] - 1
  <2>1. i - 1 \in 1 .. m + 1 /\ i - 1 < i
    BY <1>1, <1>2
  <2>2. UpTo(m)[i - 1] = UpTo(m)[i] - 1
    BY <1>1, <2>1
  <2> QED
    BY <2>1, <2>2
<1>3. UpTo(m)[1] = 0
  BY <1>1
<1> QED
  BY <1>1, <1>2, <1>3 DEF LinesInOrder, Header

LEMMA FlushedInOrder ==
  ASSUME NEW f \in Seq(Nat), LinesInOrder(f), NEW m \in Nat
  PROVE  LinesInOrder(f \o UpTo(m))
<1>1. /\ UpTo(m) \in Seq(Nat) /\ Len(UpTo(m)) = m + 1
      /\ \A i \in 1 .. m + 1 : UpTo(m)[i] = i - 1
  BY TableFacts, TableSeq
<1>2. PICK n \in Nat : n = Len(f) /\ DOMAIN f = 1 .. n
  BY LenProperties
<1>3. PICK g \in Seq(Nat) : g = f \o UpTo(m)
  BY <1>1, ConcatProperties
<1>4. /\ Len(g) = n + (m + 1)
      /\ \A i \in 1 .. n + (m + 1) : g[i] = IF i <= n THEN f[i] ELSE UpTo(m)[i - n]
  <2>1. PICK u \in Seq(Nat) : u = UpTo(m) /\ Len(u) = m + 1
    BY <1>1
  <2>2. /\ Len(f \o u) = Len(f) + Len(u)
        /\ \A i \in 1 .. Len(f) + Len(u) :
             (f \o u)[i] = IF i <= Len(f) THEN f[i] ELSE u[i - Len(f)]
    BY ConcatProperties
  <2> QED
    BY <1>2, <1>3, <2>1, <2>2
<1>5. DOMAIN g = 1 .. n + (m + 1)
  BY <1>4, LenProperties
<1>6. g[1] = 0
  <2>1. CASE n = 0
    <3>1. 1 \in 1 .. n + (m + 1) /\ ~(1 <= n) /\ 1 - n = 1
      BY <2>1
    <3> QED
      BY <1>1, <1>4, <3>1
  <2>2. CASE n # 0
    <3>1. f # <<>> /\ f[1] = 0
      BY <1>2, <2>2 DEF LinesInOrder, Header
    <3>2. 1 \in 1 .. n + (m + 1) /\ 1 <= n
      BY <2>2
    <3> QED
      BY <1>4, <3>1, <3>2
  <2> QED
    BY <2>1, <2>2
<1>7. ASSUME NEW i \in 1 .. n + (m + 1), g[i] # 0
      PROVE  \E j \in 1 .. n + (m + 1) : j < i /\ g[j] = g[i] - 1
  <2>1. CASE i <= n
    <3>1. i \in 1 .. n /\ g[i] = f[i]
      BY <1>4, <2>1
    <3>2. PICK j \in 1 .. n : j < i /\ f[j] = f[i] - 1
      BY <1>2, <1>7, <3>1 DEF LinesInOrder, Header
    <3>3. j \in 1 .. n + (m + 1) /\ g[j] = f[j]
      BY <1>4
    <3> QED
      BY <3>1, <3>2, <3>3
  <2>2. CASE ~(i <= n)
    <3>1. i - n \in 1 .. m + 1 /\ g[i] = UpTo(m)[i - n]
      BY <1>4, <2>2
    <3>2. g[i] = (i - n) - 1
      BY <1>1, <3>1
    <3>3. /\ i - 1 \in 1 .. n + (m + 1) /\ i - 1 < i
          /\ ~(i - 1 <= n) /\ (i - 1) - n \in 1 .. m + 1
      BY <1>7, <2>2, <3>2
    <3>4. g[i - 1] = UpTo(m)[(i - 1) - n]
      BY <1>4, <3>3
    <3>5. g[i - 1] = ((i - 1) - n) - 1
      BY <1>1, <3>3, <3>4
    <3>6. g[i - 1] = g[i] - 1
      BY <3>2, <3>5
    <3> QED
      BY <3>3, <3>6
  <2> QED
    BY <2>1, <2>2
<1> QED
  BY <1>3, <1>5, <1>6, <1>7 DEF LinesInOrder, Header

(* The numbers of the scenarios. *)
LEMMA Scenes ==
  ASSUME TypeOK
  PROVE  /\ scene \in Nat \ {0} /\ scene - 1 \in Nat /\ scene <= Len(Scenarios)
         /\ Len(Scenarios) \in Nat \ {0}
BY MigrationAssumption DEF TypeOK

LEMMA TableBegins == TableInit => TableInv
<1> SUFFICES ASSUME TableInit PROVE TableInv
  OBVIOUS
<1>1. IInv /\ scene = 1
  BY InitHolds DEF TableInit, Init
<1>2. pc[Parent] = "fork" /\ 1 - 1 = 0 /\ 0 \in 0 .. 1 - 1 /\ 0 \in Nat
  BY RingFacts DEF TableInit, Init, NewRing
<1>3. UpTo(0) = <<Header>>
  BY OnlyHeader DEF Header
<1>4. BuffersFit
  <2>1. out = [i \in Proc |-> IF i = Parent THEN UpTo(0) ELSE <<>>]
    BY <1>3 DEF TableInit
  <2> QED
    BY <1>1, <1>2, <2>1, RingFacts DEF BuffersFit
<1>5. FileFits
  <2>1. file = <<>> /\ DOMAIN file = {} /\ file \in Seq(0 .. Len(Scenarios))
    BY EmptySeq DEF TableInit
  <2> QED
    BY <1>2, <2>1 DEF FileFits, LinesInOrder
<1> QED
  BY <1>1, <1>4, <1>5 DEF TableInv

(* Steps that write nothing and leave the parent running as it was. *)
LEMMA NothingWritten ==
  ASSUME BuffersFit, FileFits, UNCHANGED tableVars, UNCHANGED scene,
         pc'[Parent] \notin {"exited", "killed"} => pc[Parent] \notin {"exited", "killed"},
         pc'[Parent] = "exited" <=> pc[Parent] = "exited"
  PROVE  BuffersFit' /\ FileFits'
BY DEF BuffersFit, FileFits, tableVars

(* A buffer that is dropped or copied leaves the disk as it is. *)
LEMMA DiskUntouched ==
  ASSUME FileFits, UNCHANGED file, UNCHANGED scene,
         pc'[Parent] = "exited" <=> pc[Parent] = "exited"
  PROVE  FileFits'
BY DEF FileFits

(* What the parent's exit, or a child's, adds to the disk: nothing or the  *)
(* beginning of the table.                                                 *)
LEMMA Flushed ==
  ASSUME file \in Seq(0 .. Len(Scenarios)), LinesInOrder(file),
         NEW m \in Nat, m <= Len(Scenarios), Len(Scenarios) \in Nat,
         NEW s \in {<<>>, UpTo(m)}, file' = file \o s
  PROVE  /\ file' \in Seq(0 .. Len(Scenarios)) /\ LinesInOrder(file)'
         /\ \A i \in DOMAIN file' :
              (\E j \in DOMAIN file : file'[i] = file[j]) \/ file'[i] <= m
         /\ s = UpTo(m) => \E i \in DOMAIN file' : file'[i] = m
<1>1. /\ UpTo(m) \in Seq(0 .. Len(Scenarios)) /\ Len(UpTo(m)) = m + 1
      /\ \A i \in 1 .. m + 1 : UpTo(m)[i] = i - 1
  <2>1. UpTo(m) \in Seq(0 .. m) /\ 0 .. m \subseteq 0 .. Len(Scenarios)
    BY TableFacts
  <2> QED
    BY <2>1, TableFacts, SeqMonotonic
<1>2. PICK n \in Nat : n = Len(file) /\ DOMAIN file = 1 .. n
  BY LenProperties
<1>3. CASE s = <<>>
  <2>1. file' = file
    BY <1>3, ConcatEmptySeq
  <2>2. Len(UpTo(m)) # Len(s)
    BY <1>1, <1>3, EmptySeq
  <2> QED
    BY <2>1, <2>2 DEF LinesInOrder
<1>4. CASE s = UpTo(m)
  <2>1. PICK u \in Seq(0 .. Len(Scenarios)) :
          u = UpTo(m) /\ Len(u) = m + 1 /\ \A i \in 1 .. m + 1 : u[i] = i - 1
    BY <1>1
  <2> PICK g : g = file'
    OBVIOUS
  <2>2. /\ g \in Seq(0 .. Len(Scenarios)) /\ Len(g) = n + (m + 1)
        /\ \A i \in 1 .. n + (m + 1) : g[i] = IF i <= n THEN file[i] ELSE u[i - n]
    <3>1. /\ file \o u \in Seq(0 .. Len(Scenarios)) /\ Len(file \o u) = Len(file) + Len(u)
          /\ \A i \in 1 .. Len(file) + Len(u) :
               (file \o u)[i] = IF i <= Len(file) THEN file[i] ELSE u[i - Len(file)]
      BY ConcatProperties
    <3> QED
      BY <1>2, <1>4, <2>1, <3>1
  <2>3. LinesInOrder(file')
    <3>1. 0 .. Len(Scenarios) \subseteq Nat
      OBVIOUS
    <3>2. file \in Seq(Nat)
      BY <3>1, SeqMonotonic
    <3> QED
      BY <1>4, <3>2, FlushedInOrder
  <2>4. DOMAIN g = 1 .. n + (m + 1)
    BY <2>2, LenProperties
  <2>5. ASSUME NEW i \in 1 .. n + (m + 1)
        PROVE  (\E j \in 1 .. n : g[i] = file[j]) \/ g[i] <= m
    <3>1. CASE i <= n
      <4>1. i \in 1 .. n /\ g[i] = file[i]
        BY <2>2, <3>1
      <4> QED
        BY <4>1
    <3>2. CASE ~(i <= n)
      <4>1. i - n \in 1 .. m + 1
        BY <3>2
      <4>2. g[i] = u[i - n]
        BY <2>2, <3>2
      <4>3. u[i - n] = (i - n) - 1
        BY <2>1, <4>1
      <4> QED
        BY <4>1, <4>2, <4>3
    <3> QED
      BY <3>1, <3>2
  <2>6. g[n + (m + 1)] = m
    <3>1. /\ n + (m + 1) \in 1 .. n + (m + 1) /\ ~(n + (m + 1) <= n)
          /\ (n + (m + 1)) - n = m + 1 /\ m + 1 \in 1 .. m + 1 /\ (m + 1) - 1 = m
      OBVIOUS
    <3> QED
      BY <2>1, <2>2, <3>1
  <2>7. n + (m + 1) \in DOMAIN g
    BY <2>4
  <2> QED
    BY <1>2, <2>2, <2>3, <2>4, <2>5, <2>6, <2>7 DEF LinesInOrder
<1> QED
  BY <1>3, <1>4

LEMMA TableKept == TableInv /\ [TableNext]_<<vars, tableVars>> => BuffersFit' /\ FileFits'
<1> SUFFICES ASSUME TableInv, [TableNext]_<<vars, tableVars>> PROVE BuffersFit' /\ FileFits'
  OBVIOUS
<1>0. /\ TypeOK /\ InOrder /\ BuffersFit /\ FileFits
      /\ pc \in [Proc -> ParentLabel \cup ChildLabel]
  BY DEF TableInv, IInv, TypeOK
<1>a. \A k \in Child : k \in Proc /\ k # Parent
  BY RingFacts
<1>b. Parent \in Proc
  BY RingFacts
<1>1. ASSUME NEW k \in Child, Fork(k), CopyBuffer(k) PROVE BuffersFit' /\ FileFits'
  <2>1. /\ pc[Parent] = "fork" /\ pc'[Parent] = "fork" /\ scene' = scene
    BY <1>0, <1>1, <1>a DEF Fork, Turn, Goto
  <2>2. FileFits'
    BY <1>0, <1>1, <2>1, DiskUntouched DEF CopyBuffer
  <2>3. BuffersFit'
    BY <1>0, <1>1, <1>a, <1>b, <2>1 DEF CopyBuffer, BuffersFit
  <2> QED
    BY <2>2, <2>3
<1>2. ASSUME NEW k \in Child, UNCHANGED tableVars,
             ForkFails(k) \/ Settle(k) \/ ChildRead(k) \/ ChildWrite(k) \/ Reap(k)
      PROVE  BuffersFit' /\ FileFits'
  <2>1. (pc' = pc \/ \E l : pc' = [pc EXCEPT ![k] = l]) /\ scene' = scene
    BY <1>2 DEF ForkFails, Settle, ChildRead, ChildWrite, Reap, Goto
  <2>2. pc'[Parent] = pc[Parent]
    BY <1>0, <1>a, <1>b, <2>1
  <2> QED
    BY <1>0, <1>2, <2>1, <2>2, NothingWritten
<1>3. ASSUME NEW k \in Child, ChildKilled(k), Discard(k) PROVE BuffersFit' /\ FileFits'
  <2>1. pc'[Parent] = pc[Parent] /\ scene' = scene
    BY <1>0, <1>3, <1>a DEF ChildKilled, Goto
  <2>2. FileFits'
    BY <1>0, <1>3, <2>1, DiskUntouched DEF Discard
  <2>3. BuffersFit'
    BY <1>0, <1>3, <1>a, <1>b, <2>1 DEF Discard, BuffersFit
  <2> QED
    BY <2>2, <2>3
<1>4. ASSUME NEW k \in Child, Leave(k), FlushAtExit(k) PROVE BuffersFit' /\ FileFits'
  <2>1. /\ pc'[Parent] = pc[Parent] /\ scene' = scene /\ pc[k] = "leave"
    BY <1>0, <1>4, <1>a DEF Leave, Goto
  <2>2. pc[Parent] # "exited"
    BY <1>0, <2>1 DEF InOrder, Gone
  <2>3. BuffersFit'
    BY <1>0, <1>4, <1>a, <1>b, <2>1 DEF FlushAtExit, BuffersFit
  <2>4. PICK m \in 0 .. scene - 1 : out[k] \in {<<>>, UpTo(m)}
    <3>1. 0 \in 0 .. scene - 1
      BY <1>0, Scenes
    <3> QED
      BY <1>0, <1>a, <3>1 DEF BuffersFit
  <2>5. m \in Nat /\ m <= Len(Scenarios) /\ m < scene
    BY <1>0, Scenes
  <2>6. /\ file \in Seq(0 .. Len(Scenarios)) /\ LinesInOrder(file)
        /\ \A i \in DOMAIN file : file[i] < scene
    BY <1>0, <2>2 DEF FileFits
  <2>7. file' = file \o out[k]
    BY <1>4 DEF FlushAtExit
  <2>8. /\ file' \in Seq(0 .. Len(Scenarios)) /\ LinesInOrder(file)'
        /\ \A i \in DOMAIN file' : (\E j \in DOMAIN file : file'[i] = file[j]) \/ file'[i] <= m
    BY <1>0, <2>4, <2>5, <2>6, <2>7, Flushed, Scenes
  <2>9. \A i \in DOMAIN file' : file'[i] < scene
    <3>1. ASSUME NEW i \in DOMAIN file' PROVE file'[i] \in Nat
      <4>1. DOMAIN file' = 1 .. Len(file')
        BY <2>8, LenProperties
      <4>2. file'[i] \in 0 .. Len(Scenarios)
        BY <2>8, <4>1, ElementOfSeq
      <4> QED
        BY <4>2
    <3>2. scene \in Nat /\ scene' = scene
      BY <1>0, <2>1, Scenes
    <3>3. \A v \in Nat : v <= m => v < scene
      BY <2>5, <3>2
    <3> QED
      BY <2>6, <2>8, <3>1, <3>3
  <2> QED
    BY <2>1, <2>2, <2>3, <2>8, <2>9 DEF FileFits
<1>5. CASE (StartRing \/ ParentWrite \/ ParentRead \/ Report) /\ UNCHANGED tableVars
  <2>1. /\ pc[Parent] \in {"fork", "write", "read", "report"} /\ scene' = scene
        /\ pc'[Parent] \in {"write", "read", "report", "reap"}
    BY <1>0, <1>5, <1>b DEF StartRing, ParentWrite, ParentRead, Report, Goto
  <2> QED
    BY <1>0, <1>5, <2>1, NothingWritten
<1>6. CASE ParentKilled /\ Discard(Parent)
  <2>1. pc[Parent] = "write" /\ pc'[Parent] = "killed" /\ scene' = scene
    BY <1>0, <1>6, <1>b DEF ParentKilled, Goto
  <2>2. FileFits'
    BY <1>0, <1>6, <2>1, DiskUntouched DEF Discard
  <2>3. BuffersFit'
    BY <1>0, <1>6, <1>b, <2>1 DEF Discard, BuffersFit
  <2> QED
    BY <2>2, <2>3
<1>7. CASE NextScenario /\ PrintRow
  <2>1. pc[Parent] = "reap"
    BY <1>7 DEF NextScenario
  <2>2. out[Parent] = UpTo(scene - 1)
    BY <1>0, <2>1 DEF BuffersFit
  <2>3. scene - 1 \in Nat /\ (scene - 1) + 1 = scene /\ scene \in Nat
    BY <1>0, Scenes
  <2>4. Append(out[Parent], scene) = UpTo(scene)
    BY <2>2, <2>3, OneRowMore
  <2>5. CASE scene < Len(Scenarios)
    <3>1. scene' = scene + 1 /\ pc'[Parent] = "fork"
      BY <1>7, <1>b, <2>5 DEF NextScenario, NewRing
    <3>2. out' = [out EXCEPT ![Parent] = UpTo(scene)] /\ file' = file
      BY <1>7, <2>4, <2>5 DEF PrintRow
    <3>3. scene' - 1 = scene /\ 0 .. scene - 1 \subseteq 0 .. scene /\ scene \in 0 .. scene
      BY <2>3, <3>1
    <3>4. BuffersFit'
      BY <1>0, <1>b, <3>1, <3>2, <3>3 DEF BuffersFit
    <3>5. \A i \in DOMAIN file : file[i] < scene /\ file[i] \in Nat
      <4>1. file \in Seq(0 .. Len(Scenarios)) /\ \A i \in DOMAIN file : file[i] < scene
        BY <1>0, <2>1 DEF FileFits
      <4> QED
        BY <4>1, LenProperties, ElementOfSeq
    <3>6. \A i \in DOMAIN file : file[i] < scene + 1
      BY <2>3, <3>5
    <3>7. FileFits'
      BY <1>0, <3>1, <3>2, <3>6 DEF FileFits
    <3> QED
      BY <3>4, <3>7
  <2>6. CASE ~(scene < Len(Scenarios))
    <3>1. scene' = scene /\ pc'[Parent] = "exited"
      BY <1>0, <1>7, <1>b, <2>6 DEF NextScenario, Goto
    <3>2. out' = [out EXCEPT ![Parent] = <<>>] /\ file' = file \o UpTo(scene)
      BY <1>7, <2>4, <2>6 DEF PrintRow
    <3>3. BuffersFit'
      BY <1>0, <1>b, <3>1, <3>2 DEF BuffersFit
    <3>4. scene = Len(Scenarios) /\ scene <= Len(Scenarios) /\ Len(Scenarios) \in Nat
      BY <1>0, <2>6, Scenes
    <3>5. file \in Seq(0 .. Len(Scenarios)) /\ LinesInOrder(file)
      BY <1>0 DEF FileFits
    <3>6. /\ file' \in Seq(0 .. Len(Scenarios)) /\ LinesInOrder(file)'
          /\ \E i \in DOMAIN file' : file'[i] = scene
      BY <2>3, <3>2, <3>4, <3>5, Flushed
    <3> QED
      BY <3>1, <3>3, <3>4, <3>6 DEF FileFits
  <2> QED
    BY <2>5, <2>6
<1>8. CASE UNCHANGED vars /\ UNCHANGED tableVars
  BY <1>0, <1>8, NothingWritten DEF vars
<1> QED
  BY <1>1, <1>2, <1>3, <1>4, <1>5, <1>6, <1>7, <1>8 DEF TableNext, Terminating

(* What the invariant says of the disk. *)
LEMMA TableSafe == TableInv => TableSurvives
<1> SUFFICES ASSUME TableInv PROVE TableSurvives
  OBVIOUS
<1>0. TypeOK /\ BuffersFit /\ FileFits
  BY DEF TableInv, IInv
<1>1. /\ scene \in Nat \ {0} /\ scene - 1 \in Nat /\ scene <= Len(Scenarios)
      /\ Len(Scenarios) \in Nat \ {0}
  BY <1>0, Scenes
<1>2. SubSeq(Whole, 1, scene) = UpTo(scene - 1) /\ Whole = UpTo(Len(Scenarios))
  BY <1>1, WholeTable
<1>3. TableTypeOK
  <2>1. ASSUME NEW i \in Proc PROVE IsPrefix(out[i], UpTo(scene - 1))
    <3>1. out[i] = <<>> \/ \E m \in 0 .. scene - 1 : out[i] = UpTo(m)
      BY <1>0 DEF BuffersFit
    <3>2. IsPrefix(<<>>, UpTo(scene - 1))
      BY <1>1, Begins
    <3>3. \A m \in 0 .. scene - 1 : IsPrefix(UpTo(m), UpTo(scene - 1))
      BY <1>1, Begins
    <3> QED
      BY <3>1, <3>2, <3>3
  <2>2. file \in Seq(ToSet(Whole))
    BY <1>0, WholeTable DEF FileFits
  <2> QED
    BY <1>0, <1>2, <2>1, <2>2 DEF TableTypeOK
<1>4. ASSUME file # <<>>
      PROVE  \E m \in Nat :
               /\ Repaired(file) = UpTo(m) /\ {file[i] : i \in 1 .. Len(file)} = 0 .. m
               /\ pc[Parent] # "exited" => m <= scene - 1
               /\ pc[Parent] = "exited" => m = Len(Scenarios)
               /\ Repaired(UpTo(m)) = UpTo(m)
  <2>1. /\ file \in Seq(0 .. Len(Scenarios)) /\ file \in Seq(Nat) /\ LinesInOrder(file)
        /\ DOMAIN file = 1 .. Len(file)
    <3>1. file \in Seq(0 .. Len(Scenarios)) /\ 0 .. Len(Scenarios) \subseteq Nat
      BY <1>0, <1>1 DEF FileFits
    <3> QED
      BY <1>0, <3>1, SeqMonotonic, LenProperties DEF FileFits
  <2>2. PICK m \in Nat :
          Repaired(file) = UpTo(m) /\ {file[i] : i \in 1 .. Len(file)} = 0 .. m
    BY <1>4, <2>1, RepairOfOrdered
  <2>3. PICK i \in 1 .. Len(file) : file[i] = m
    <3>1. m \in 0 .. m
      OBVIOUS
    <3> QED
      BY <2>2, <3>1
  <2>4. pc[Parent] # "exited" => m <= scene - 1
    <3>1. pc[Parent] # "exited" => file[i] < scene
      BY <1>0, <2>1 DEF FileFits
    <3> QED
      BY <1>1, <2>3, <3>1
  <2>5. pc[Parent] = "exited" => m = Len(Scenarios)
    <3>1. m <= Len(Scenarios)
      <4>1. file[i] \in 0 .. Len(Scenarios)
        BY <2>1, ElementOfSeq
      <4> QED
        BY <1>1, <2>3, <4>1
    <3>2. pc[Parent] = "exited" => Len(Scenarios) \in 0 .. m
      BY <1>0, <2>1, <2>2 DEF FileFits
    <3> QED
      BY <1>1, <3>1, <3>2
  <2>6. Repaired(UpTo(m)) = UpTo(m)
    <3>1. UpTo(m) \in Seq(Nat) /\ UpTo(m) # <<>> /\ LinesInOrder(UpTo(m))
      BY TableSeq, TableFacts, TableOrdered
    <3>2. PICK k \in Nat : /\ Repaired(UpTo(m)) = UpTo(k)
                           /\ {UpTo(m)[j] : j \in 1 .. Len(UpTo(m))} = 0 .. k
      BY <3>1, RepairOfOrdered
    <3>3. Len(UpTo(m)) = m + 1 /\ \A j \in 1 .. m + 1 : UpTo(m)[j] = j - 1
      BY TableFacts
    <3>4. m \in 0 .. k
      <4>1. m + 1 \in 1 .. m + 1 /\ (m + 1) - 1 = m
        OBVIOUS
      <4> QED
        BY <3>2, <3>3, <4>1
    <3>5. k <= m
      <4>1. k \in 0 .. k
        OBVIOUS
      <4>2. PICK j \in 1 .. m + 1 : UpTo(m)[j] = k
        BY <3>2, <3>3, <4>1
      <4> QED
        BY <3>3, <4>2
    <3>6. k = m
      BY <3>4, <3>5
    <3> QED
      BY <3>2, <3>6
  <2> QED
    BY <2>2, <2>4, <2>5, <2>6
<1>5. RepairRestores
  <2> SUFFICES ASSUME file # <<>>
               PROVE  /\ IsPrefix(Repaired(file),
                           IF pc[Parent] = "exited" THEN Whole ELSE SubSeq(Whole, 1, scene))
                      /\ pc[Parent] = "exited" => Repaired(file) = Whole
                      /\ Repaired(Repaired(file)) = Repaired(file)
    BY DEF RepairRestores
  <2>1. PICK m \in Nat :
               /\ Repaired(file) = UpTo(m)
               /\ pc[Parent] # "exited" => m <= scene - 1
               /\ pc[Parent] = "exited" => m = Len(Scenarios)
               /\ Repaired(UpTo(m)) = UpTo(m)
    BY <1>4
  <2>2. CASE pc[Parent] = "exited"
    <3>1. IsPrefix(UpTo(m), UpTo(m)) /\ UpTo(m) = Whole
      BY <1>2, <2>1, <2>2, Begins
    <3> QED
      BY <2>1, <2>2, <3>1
  <2>3. CASE pc[Parent] # "exited"
    <3>1. IsPrefix(UpTo(m), UpTo(scene - 1))
      BY <1>1, <2>1, <2>3, Begins
    <3> QED
      BY <1>2, <2>1, <2>3, <3>1
  <2> QED
    BY <2>2, <2>3
<1>6. FiguresNeedNoRepair
  <2> SUFFICES ASSUME file # <<>> PROVE Bars(file) = ToSet(Tail(Repaired(file)))
    BY DEF FiguresNeedNoRepair
  <2>1. PICK m \in Nat :
          Repaired(file) = UpTo(m) /\ {file[i] : i \in 1 .. Len(file)} = 0 .. m
    BY <1>4
  <2>2. ToSet(Tail(UpTo(m))) = 1 .. m
    <3>1. DOMAIN Tail(UpTo(m)) = 1 .. m /\ \A i \in 1 .. m : Tail(UpTo(m))[i] = i
      BY TableFacts
    <3> QED
      BY <3>1 DEF ToSet
  <2>3. Head(file) = 0 /\ file[1] = 0 /\ Len(file) \in Nat \ {0}
    <3>1. file \in Seq(0 .. Len(Scenarios)) /\ file[1] = 0
      BY <1>0 DEF FileFits, LinesInOrder, Header
    <3> QED
      BY <3>1, EmptySeq
  <2>4. Bars(file) = 1 .. m
    <3>1. \A v \in 0 .. m : v # 0 <=> v \in 1 .. m
      OBVIOUS
    <3>2. \A v \in 1 .. m : v \in 0 .. m /\ v # 0
      OBVIOUS
    <3>3. ASSUME NEW i \in 2 .. Len(file), file[i] # 0 PROVE file[i] \in 1 .. m
      <4>1. i \in 1 .. Len(file)
        OBVIOUS
      <4> QED
        BY <2>1, <3>1, <3>3, <4>1
    <3>4. ASSUME NEW v \in 1 .. m PROVE \E i \in 2 .. Len(file) : file[i] = v /\ file[i] # 0
      <4>1. PICK i \in 1 .. Len(file) : file[i] = v
        BY <2>1, <3>2
      <4>2. i # 1
        BY <2>3, <3>2, <4>1
      <4>3. i \in 2 .. Len(file)
        BY <2>3, <4>2
      <4> QED
        BY <3>2, <4>1, <4>3
    <3> QED
      BY <2>3, <3>3, <3>4 DEF Bars, Loaded
  <2> QED
    BY <2>1, <2>2, <2>4
<1> QED
  BY <1>3, <1>5, <1>6 DEF TableSurvives

(* However many copies of the table's beginning the exits of forked        *)
(* children write, in whatever order, and whoever dies of SIGPIPE without  *)
(* writing his: core_migration.csv repairs to the table as far as it got,  *)
(* to the whole one when the program returned (fix_and_generate_all.py,    *)
(* step 2), and the figures of plot_all.py do not need the repair.         *)
THEOREM TableRestored == TableSpec => []TableSurvives
<1>1. TableInit => TableInv
  BY TableBegins
<1>2. TableInv /\ IInv' /\ [TableNext]_<<vars, tableVars>> => TableInv'
  BY TableKept DEF TableInv
<1>3. TableSpec => []IInv
  BY TableWatches, Invariant, PTL
<1>4. TableInv => TableSurvives
  BY TableSafe
<1> QED
  BY <1>1, <1>2, <1>3, <1>4, PTL DEF TableSpec
=============================================================================
