------------------------- MODULE SchedPolicyProofs -------------------------
(***************************************************************************)
(* Proofs about sched_policy_bench.c, for every number of rounds, every    *)
(* length of the warm-up and every kind of user.                           *)
(***************************************************************************)
EXTENDS SchedPolicy, TLAPS

Label == ParentLabel \cup ChildLabel
Testing == {"start", "write", "read", "wait"}
Killed(i) == pc[i] = "killed"
InHand == IF pc[TheChild] = "write" THEN 1 ELSE 0

(* The table grows by a row for each test; there is a test to make as long *)
(* as the parent is in one.                                                *)
RowsFit ==
  /\ rows \in Seq(Policy \cup {"N/A"})
  /\ pc[Parent] # "exited" => Len(rows) < Len(Tests)

(* The parent makes a test under its policy, and is not caught in          *)
(* SCHED_IDLE before the real-time tests come.                             *)
PoliciesFit ==
  /\ pc[Parent] \in {"fork"} \cup Testing => policy[Parent] = Current
  /\ pc[Parent] \in Testing => policy[TheChild] = Current
  /\ policy[Parent] = "IDLE" /\ rights # "root" =>
       Len(rows) >= 3 \/ (Len(rows) = 2 /\ pc[Parent] # "set")

(* The child exists during a test only. *)
ChildFits ==
  pc[TheChild] = "unborn" <=> pc[Parent] \in {"set", "fork", "exited"}

(* Who still has to use a pipe end holds it. *)
EndsFit ==
  /\ pc[Parent] \in {"set", "fork", "start"} => ends[Parent] = "all"
  /\ pc[Parent] \in {"write", "read", "wait"} => ends[Parent] = "own"
  /\ pc[TheChild] = "new" => ends[TheChild] = "all"
  /\ pc[TheChild] \in {"read", "write", "leave"} => ends[TheChild] = "own"

(* The parent's position tells how many rounds it is through. *)
ParentCounts ==
  /\ pc[Parent] \in {"set", "fork", "start"} => round = 0
  /\ pc[Parent] \in {"write", "read"} => round < Total
  /\ pc[Parent] \in {"set", "fork", "start", "write"} => sent[Parent] = round
  /\ pc[Parent] = "read" => sent[Parent] = round + 1
  /\ pc[Parent] = "wait" => sent[Parent] = round

(* What is in the pipes and in the child's hand is what one has written    *)
(* and the other not yet taken, until the child is killed.                 *)
TokensFit ==
  ~Killed(TheChild) =>
    /\ pc[TheChild] \in {"unborn", "new"} => sent[TheChild] = 0
    /\ pc[TheChild] \in {"read", "write"} => sent[TheChild] < Total
    /\ pc[TheChild] \in {"leave", "exited"} => sent[TheChild] = Total
    /\ sent[Parent] = sent[TheChild] + buf[TheChild] + InHand
    /\ sent[TheChild] = round + buf[Parent]

IInv ==
  /\ TypeOK /\ pc \in [Proc -> Label]
  /\ RowsFit /\ PoliciesFit /\ ChildFits /\ EndsFit /\ ParentCounts /\ TokensFit
  /\ NotKilledAlone

(* The ring of two. *)
LEMMA RingFacts ==
  /\ Proc = {Parent, TheChild} /\ Parent # TheChild
  /\ Out(Parent) = TheChild /\ Out(TheChild) = Parent
  /\ Parent = 1 /\ TheChild = 0 /\ Child = {TheChild}
  BY SchedAssumption DEF Proc, Parent, Child, Out, TheChild

LEMMA TableFacts ==
  /\ Len(Tests) = 5
  /\ \A n \in Nat : n < 5 => Tests[n + 1] \in Policy
  /\ \A n \in Nat : n < 5 /\ Tests[n + 1] = "IDLE" => n = 2
  /\ \A n \in Nat : n < 5 /\ n > 2 => Tests[n + 1] \in RealTime
  /\ \A n \in Nat : n < 5 /\ Tests[n + 1] \in RealTime => n > 2
<1>1. \A n \in Nat : n < 5 => n \in {0, 1, 2, 3, 4}
  OBVIOUS
<1> QED
  BY <1>1 DEF Tests, Policy, RealTime

(* Who can read or write what, when the ring has two processes. *)
LEMMA EndFacts ==
  ASSUME TypeOK
  PROVE  /\ Broken(TheChild) <=> ends[Parent] # "all" /\ ends[TheChild] = "none"
         /\ AtEof(Parent) <=> /\ buf[Parent] = 0
                              /\ ends[Parent] # "all" /\ ends[TheChild] = "none"
  BY RingFacts DEF TypeOK, PipeTypeOK, Broken, AtEof, CanRead, CanWrite

LEMMA Numbers ==
  TypeOK => /\ Total \in Nat \ {0} /\ Warmup \in Nat /\ Iterations \in Nat \ {0}
            /\ Total = Iterations + Warmup /\ round \in Nat
            /\ \A i \in Proc : sent[i] \in Nat /\ buf[i] \in Nat
  BY SchedAssumption DEF TypeOK, PipeTypeOK, Total

LEMMA InitHolds == Init => IInv
<1> SUFFICES ASSUME Init PROVE IInv
  OBVIOUS
<1>1. /\ pc[Parent] = "set" /\ pc[TheChild] = "unborn" /\ pc \in [Proc -> Label]
      /\ ends \in [Proc -> {"none", "own", "all"}] /\ ends[Parent] = "all"
  <2>1. pc = Idle /\ ends = [i \in Proc |-> IF i = Parent THEN "all" ELSE "none"]
    BY DEF Init, PipeInit
  <2>2. Idle[Parent] = "set" /\ Idle[TheChild] = "unborn" /\ Idle \in [Proc -> Label]
    BY RingFacts DEF Idle, Label, ParentLabel, ChildLabel
  <2> QED
    BY <2>1, <2>2, RingFacts
<1>2. policy \in [Proc -> Policy] /\ policy[Parent] = "OTHER"
  BY RingFacts DEF Init, Policy
<1>3. /\ buf \in [Proc -> Nat] /\ \A i \in Proc : buf[i] = 0 /\ sent[i] = 0
      /\ sent \in [Proc -> 0 .. Total] /\ Total \in Nat \ {0}
  BY SchedAssumption DEF Init, PipeInit, Total
<1>4. rows = <<>> /\ lat = {} /\ round = 0 /\ rights \in Rights
  BY DEF Init
<1>5. TypeOK
  BY <1>1, <1>2, <1>3, <1>4, TableFacts DEF TypeOK, PipeTypeOK, ParentLabel, ChildLabel
<1>6. RowsFit /\ PoliciesFit
  BY <1>1, <1>2, <1>4, TableFacts DEF RowsFit, PoliciesFit, Testing
<1>7. ChildFits /\ EndsFit /\ ParentCounts /\ NotKilledAlone
  BY <1>1, <1>3, <1>4, RingFacts DEF ChildFits, EndsFit, ParentCounts, NotKilledAlone
<1>8. TokensFit
  BY <1>1, <1>3, <1>4, RingFacts DEF TokensFit, InHand, Killed
<1> QED
  BY <1>1, <1>5, <1>6, <1>7, <1>8 DEF IInv

LEMMA RowsBelow ==
  ASSUME IInv, pc[Parent] # "exited"
  PROVE  Len(rows) \in Nat /\ Len(rows) < 5 /\ Current \in Policy
<1>1. Len(rows) \in Nat /\ Len(rows) < 5
  BY TableFacts DEF IInv, RowsFit
<1> QED
  BY <1>1, TableFacts DEF Current

(* The end of a test and the beginning of the next, whatever the row. *)
LEMMA RowWritten ==
  ASSUME IInv, NEW r \in {Current, "N/A"}, WriteRow(r),
         pc[Parent] \in {"set", "fork", "wait"},
         policy' \in [Proc -> Policy],
         policy'[Parent] = "IDLE" /\ rights # "root" => Len(rows) >= 2
  PROVE  IInv'
<1> USE RingFacts
<1>1. /\ Len(rows) \in Nat /\ Len(rows) < 5 /\ Current \in Policy
      /\ rows' \in Seq(Policy \cup {"N/A"}) /\ Len(rows') = Len(rows) + 1
      /\ \A k \in 1 .. Len(rows) : rows'[k] = rows[k]
      /\ rows'[Len(rows) + 1] = r
  <2>1. Len(rows) \in Nat /\ Len(rows) < 5 /\ Current \in Policy
    BY RowsBelow
  <2>2. rows \in Seq(Policy \cup {"N/A"}) /\ r \in Policy \cup {"N/A"}
    BY <2>1 DEF IInv, RowsFit
  <2>3. rows' = Append(rows, r)
    BY DEF WriteRow
  <2> QED
    BY <2>1, <2>2, <2>3
<1>2. /\ pc' \in [Proc -> Label] /\ pc'[TheChild] = "unborn"
      /\ pc'[Parent] = IF Len(rows) + 1 < 5 THEN "set" ELSE "exited"
  BY TableFacts DEF WriteRow, Idle, Label, ParentLabel, ChildLabel
<1>3. /\ buf' \in [Proc -> Nat] /\ \A i \in Proc : buf'[i] = 0 /\ sent'[i] = 0
      /\ ends' \in [Proc -> {"none", "own", "all"}] /\ ends'[Parent] = "all"
      /\ sent' \in [Proc -> 0 .. Total]
  BY SchedAssumption DEF WriteRow, Total
<1>4. round' = 0 /\ lat' = {} /\ rights' = rights
  BY DEF WriteRow
<1>5. TypeOK'
  <2>1. \A k \in 1 .. Len(rows') : rows'[k] \in {Tests[k], "N/A"}
    BY <1>1 DEF IInv, TypeOK, Current
  <2> QED
    BY <1>1, <1>2, <1>3, <1>4, <2>1, TableFacts, Numbers
       DEF IInv, TypeOK, PipeTypeOK, ParentLabel, ChildLabel
<1>6. RowsFit'
  BY <1>1, <1>2, TableFacts DEF RowsFit
<1>7. PoliciesFit'
  BY <1>1, <1>2, <1>4 DEF PoliciesFit, Testing
<1>8. ChildFits' /\ EndsFit' /\ ParentCounts' /\ NotKilledAlone'
  BY <1>2, <1>3, <1>4 DEF ChildFits, EndsFit, ParentCounts, NotKilledAlone
<1>9. TokensFit'
  BY <1>2, <1>3, <1>4 DEF TokensFit, InHand, Killed
<1> QED
  BY <1>2, <1>5, <1>6, <1>7, <1>8, <1>9 DEF IInv

(* What restore_cfs leaves: SCHED_OTHER, or the policy of the test. *)
LEMMA Restored ==
  ASSUME IInv, SetScheduler(Parent, "OTHER"), pc[Parent] \in {"fork", "wait"}
  PROVE  /\ policy' \in [Proc -> Policy]
         /\ policy'[Parent] = "IDLE" /\ rights # "root" => Len(rows) >= 2
<1>1. policy' = policy \/ policy' = [policy EXCEPT ![Parent] = "OTHER"]
  BY DEF SetScheduler
<1>2. policy \in [Proc -> Policy] /\ "OTHER" \in Policy
  BY DEF IInv, TypeOK, Policy
<1>3. Len(rows) \in Nat /\ Len(rows) < 5
  BY RowsBelow
<1>4. policy[Parent] = "IDLE" => Len(rows) = 2
  BY <1>3, TableFacts DEF IInv, PoliciesFit, Testing, Current
<1> QED
  BY <1>1, <1>2, <1>4, RingFacts

(* A step within a test keeps the table and what is known of it. *)
LEMMA Advance ==
  ASSUME IInv, UNCHANGED <<rights, rows>>,
         pc[Parent] # "exited",
         pc' \in [Proc -> Label],
         pc'[Parent] \in ParentLabel \ {"exited"}, pc'[TheChild] \in ChildLabel,
         PipeTypeOK', policy' \in [Proc -> Policy],
         sent' \in [Proc -> 0 .. Total],
         round' \in 0 .. Total, lat' \subseteq 0 .. (Iterations - 1),
         PoliciesFit', ChildFits', EndsFit', ParentCounts', TokensFit', NotKilledAlone'
  PROVE  IInv'
<1>1. TypeOK'
  BY DEF IInv, TypeOK
<1>2. RowsFit'
  BY DEF IInv, RowsFit
<1> QED
  BY <1>1, <1>2 DEF IInv

(* Where the processes are after one of them has moved. *)
LEMMA Moved ==
  ASSUME IInv, NEW i \in Proc, NEW l \in Label, Goto(i, l)
  PROVE  /\ pc' \in [Proc -> Label] /\ pc'[i] = l
         /\ \A j \in Proc : j # i => pc'[j] = pc[j]
  BY DEF IInv, Goto

LEMMA Labels == ParentLabel \subseteq Label /\ ChildLabel \subseteq Label
  BY DEF Label

LEMMA SetPolicyStep == ASSUME IInv, SetPolicy PROVE IInv'
<1> USE RingFacts
<1>1. Len(rows) \in Nat /\ Len(rows) < 5 /\ Current \in Policy /\ (Current = "IDLE" => Len(rows) = 2)
  BY RowsBelow, TableFacts DEF SetPolicy, Current
<1>2. Current' = Current
  BY DEF SetPolicy, Current
<1>3. /\ pc[Parent] = "set" /\ pc' \in [Proc -> Label]
      /\ pc'[Parent] = "fork" /\ pc'[TheChild] = pc[TheChild]
  BY Moved, Labels DEF SetPolicy, ParentLabel
<1>4. /\ policy' \in [Proc -> Policy] /\ policy'[Parent] = Current
  BY <1>1 DEF SetPolicy, SetScheduler, IInv, TypeOK
<1>5. UNCHANGED <<buf, ends, rights, sent, round, lat, rows>>
  BY DEF SetPolicy
<1>6. PoliciesFit'
  BY <1>1, <1>2, <1>3, <1>4, <1>5 DEF PoliciesFit, Testing
<1>7. ChildFits' /\ EndsFit' /\ ParentCounts' /\ NotKilledAlone'
  BY <1>3, <1>5 DEF IInv, ChildFits, EndsFit, ParentCounts, NotKilledAlone
<1>8. TokensFit'
  BY <1>3, <1>5 DEF IInv, TokensFit, InHand, Killed
<1> QED
  BY <1>3, <1>4, <1>5, <1>6, <1>7, <1>8, Advance
     DEF IInv, TypeOK, PipeTypeOK, ParentLabel

LEMMA SkipStep == ASSUME IInv, Skip PROVE IInv'
  BY RowWritten DEF Skip, IInv, TypeOK, PoliciesFit

LEMMA ForkStep == ASSUME IInv, Fork PROVE IInv'
<1> USE RingFacts
<1>1. Current' = Current
  BY DEF Fork, Current
<1>2. /\ pc[Parent] = "fork" /\ pc[TheChild] = "unborn" /\ pc' \in [Proc -> Label]
      /\ pc'[Parent] = "start" /\ pc'[TheChild] = "new"
  BY DEF Fork, IInv, ChildFits, Label, ParentLabel, ChildLabel
<1>3. /\ policy' \in [Proc -> Policy] /\ policy'[Parent] = Current
      /\ policy'[TheChild] = Current
  BY <1>2 DEF Fork, IInv, TypeOK, PoliciesFit
<1>4. /\ ends' \in [Proc -> {"none", "own", "all"}]
      /\ ends'[Parent] = "all" /\ ends'[TheChild] = "all"
  BY <1>2 DEF Fork, Inherit, IInv, TypeOK, PipeTypeOK, EndsFit
<1>5. UNCHANGED <<buf, rights, sent, round, lat, rows>>
  BY DEF Fork
<1>6. PoliciesFit'
  BY <1>1, <1>2, <1>3, <1>5 DEF IInv, PoliciesFit, Testing
<1>7. ChildFits' /\ EndsFit' /\ ParentCounts' /\ NotKilledAlone'
  BY <1>2, <1>4, <1>5 DEF IInv, ChildFits, EndsFit, ParentCounts, NotKilledAlone
<1>8. TokensFit'
  BY <1>2, <1>5 DEF IInv, TokensFit, InHand, Killed
<1> QED
  BY <1>2, <1>3, <1>4, <1>5, <1>6, <1>7, <1>8, Advance
     DEF IInv, TypeOK, PipeTypeOK, ParentLabel, ChildLabel

LEMMA ForkFailsStep == ASSUME IInv, ForkFails PROVE IInv'
  BY RowWritten, Restored DEF ForkFails

LEMMA StartRingStep == ASSUME IInv, StartRing PROVE IInv'
<1> USE RingFacts
<1>1. Current' = Current
  BY DEF StartRing, Current
<1>2. /\ pc[Parent] = "start" /\ pc' \in [Proc -> Label]
      /\ pc'[Parent] = "write" /\ pc'[TheChild] = pc[TheChild]
  BY Moved, Labels DEF StartRing, ParentLabel
<1>3. /\ ends' \in [Proc -> {"none", "own", "all"}]
      /\ ends'[Parent] = "own" /\ ends'[TheChild] = ends[TheChild]
  BY DEF StartRing, CloseForeign, IInv, TypeOK, PipeTypeOK
<1>4. UNCHANGED <<buf, rights, policy, sent, round, lat, rows>>
  BY DEF StartRing
<1>5. round < Total
  BY <1>2, Numbers DEF IInv, ParentCounts
<1>6. PoliciesFit'
  BY <1>1, <1>2, <1>4 DEF IInv, PoliciesFit, Testing
<1>7. ChildFits' /\ EndsFit' /\ ParentCounts' /\ NotKilledAlone'
  BY <1>2, <1>3, <1>4, <1>5 DEF IInv, ChildFits, EndsFit, ParentCounts, NotKilledAlone
<1>8. TokensFit'
  BY <1>2, <1>4 DEF IInv, TokensFit, InHand, Killed
<1> QED
  BY <1>2, <1>3, <1>4, <1>6, <1>7, <1>8, Advance
     DEF IInv, TypeOK, PipeTypeOK, ParentLabel

LEMMA ParentWriteStep == ASSUME IInv, ParentWrite PROVE IInv'
<1> USE RingFacts
<1>1. Current' = Current
  BY DEF ParentWrite, Current
<1>2. /\ pc[Parent] = "write" /\ pc' \in [Proc -> Label]
      /\ pc'[Parent] = "read" /\ pc'[TheChild] = pc[TheChild]
  BY Moved, Labels DEF ParentWrite, ParentLabel
<1>3. round < Total /\ sent[Parent] = round
  BY <1>2 DEF IInv, ParentCounts
<1>4. /\ sent' \in [Proc -> 0 .. Total] /\ sent'[Parent] = round + 1
      /\ sent'[TheChild] = sent[TheChild]
  BY <1>3, Numbers DEF ParentWrite, IInv, TypeOK
<1>5. /\ buf' \in [Proc -> Nat] /\ buf'[TheChild] = buf[TheChild] + 1
      /\ buf'[Parent] = buf[Parent]
  BY DEF ParentWrite, Put, IInv, TypeOK, PipeTypeOK
<1>6. UNCHANGED <<ends, rights, policy, round, lat, rows>>
  BY DEF ParentWrite
<1>7. PoliciesFit'
  BY <1>1, <1>2, <1>6 DEF IInv, PoliciesFit, Testing
<1>8. ChildFits' /\ EndsFit' /\ ParentCounts' /\ NotKilledAlone'
  BY <1>2, <1>3, <1>4, <1>6 DEF IInv, ChildFits, EndsFit, ParentCounts, NotKilledAlone
<1>9. TokensFit'
  BY <1>2, <1>3, <1>4, <1>5, <1>6, Numbers DEF IInv, TokensFit, InHand, Killed
<1> QED
  BY <1>2, <1>4, <1>5, <1>6, <1>7, <1>8, <1>9, Advance
     DEF IInv, TypeOK, PipeTypeOK, ParentLabel

(* The end of file comes to the parent only when the child was killed. *)
LEMMA EofMeansKilled ==
  ASSUME IInv, pc[Parent] = "read", AtEof(Parent)
  PROVE  Killed(TheChild)
<1> USE RingFacts
<1>1. buf[Parent] = 0 /\ ends[TheChild] = "none"
  BY EndFacts DEF IInv
<1>2. pc[TheChild] \in {"exited", "killed"}
  BY <1>1 DEF IInv, EndsFit, ChildFits, TypeOK, ChildLabel
<1>3. round < Total
  BY DEF IInv, ParentCounts
<1> QED
  BY <1>1, <1>2, <1>3, Numbers DEF IInv, TokensFit, Killed

LEMMA ParentReadStep == ASSUME IInv, ParentRead PROVE IInv'
<1> USE RingFacts
<1>1. Current' = Current
  BY DEF ParentRead, Current
<1>2. round + 1 < Total \/ ~(round + 1 < Total)
  OBVIOUS
<1>3. /\ pc[Parent] = "read" /\ pc' \in [Proc -> Label]
      /\ pc'[Parent] = IF round + 1 < Total THEN "write" ELSE "wait"
      /\ pc'[TheChild] = pc[TheChild]
  <2>1. (IF round + 1 < Total THEN "write" ELSE "wait") \in Label
    BY DEF Label, ParentLabel
  <2> QED
    BY <2>1, Moved DEF ParentRead
<1>4. round < Total /\ sent[Parent] = round + 1
  BY <1>3 DEF IInv, ParentCounts
<1>5. round' = round + 1 /\ round' \in 0 .. Total
  BY <1>4, Numbers DEF ParentRead, IInv, TypeOK
<1>6. lat' \subseteq 0 .. (Iterations - 1)
  <2>1. round >= Warmup => round - Warmup \in 0 .. (Iterations - 1)
    BY <1>4, Numbers DEF IInv
  <2> QED
    BY <2>1 DEF ParentRead, IInv, TypeOK
<1>7. buf' \in [Proc -> Nat] /\ buf'[TheChild] = buf[TheChild]
  BY DEF ParentRead, Take, Readable, IInv, TypeOK, PipeTypeOK
<1>8. Killed(TheChild) \/ buf[Parent] = buf'[Parent] + 1
  <2>1. CASE Readable(Parent) /\ Take(Parent)
    BY <2>1 DEF Take, IInv, TypeOK, PipeTypeOK
  <2>2. CASE AtEof(Parent)
    BY <1>3, <2>2, EofMeansKilled
  <2> QED
    BY <2>1, <2>2 DEF ParentRead
<1>9. UNCHANGED <<ends, rights, policy, sent, rows>>
  BY DEF ParentRead
<1>10. PoliciesFit'
  BY <1>1, <1>3, <1>9 DEF IInv, PoliciesFit, Testing
<1>11. ChildFits' /\ EndsFit' /\ ParentCounts' /\ NotKilledAlone'
  BY <1>3, <1>4, <1>5, <1>9 DEF IInv, ChildFits, EndsFit, ParentCounts, NotKilledAlone
<1>12. TokensFit'
  BY <1>3, <1>4, <1>5, <1>7, <1>8, <1>9, Numbers DEF IInv, TokensFit, InHand, Killed
<1>13. pc'[Parent] \in ParentLabel \ {"exited"} /\ pc'[TheChild] \in ChildLabel
  BY <1>3 DEF IInv, TypeOK, ParentLabel
<1> QED
  BY <1>3, <1>5, <1>6, <1>7, <1>9, <1>10, <1>11, <1>12, <1>13, Advance
     DEF IInv, TypeOK, PipeTypeOK

LEMMA ParentKilledStep == ASSUME IInv, ParentKilled PROVE IInv'
<1> USE RingFacts
<1>1. Current' = Current
  BY DEF ParentKilled, Current
<1>2. /\ pc[Parent] = "write" /\ pc' \in [Proc -> Label]
      /\ pc'[Parent] = "killed" /\ pc'[TheChild] = pc[TheChild]
  BY Moved, Labels DEF ParentKilled, ParentLabel
<1>3. pc[TheChild] = "killed"
  <2>1. ends[TheChild] = "none"
    BY EndFacts DEF ParentKilled, IInv
  <2>2. pc[TheChild] \in {"exited", "killed"}
    BY <1>2, <2>1 DEF IInv, EndsFit, ChildFits, TypeOK, ChildLabel
  <2>3. round < Total /\ sent[Parent] = round
    BY <1>2 DEF IInv, ParentCounts
  <2> QED
    BY <2>2, <2>3, Numbers DEF IInv, TokensFit, InHand, Killed
<1>4. /\ ends' \in [Proc -> {"none", "own", "all"}] /\ ends'[TheChild] = ends[TheChild]
  BY DEF ParentKilled, CloseAll, IInv, TypeOK, PipeTypeOK
<1>5. UNCHANGED <<buf, rights, policy, sent, round, lat, rows>>
  BY DEF ParentKilled
<1>6. PoliciesFit'
  BY <1>1, <1>2, <1>5 DEF IInv, PoliciesFit, Testing
<1>7. ChildFits' /\ EndsFit' /\ ParentCounts' /\ NotKilledAlone'
  BY <1>2, <1>3, <1>4, <1>5 DEF IInv, ChildFits, EndsFit, ParentCounts, NotKilledAlone
<1>8. TokensFit'
  BY <1>2, <1>3 DEF TokensFit, Killed
<1> QED
  BY <1>2, <1>4, <1>5, <1>6, <1>7, <1>8, Advance
     DEF IInv, TypeOK, PipeTypeOK, ParentLabel

LEMMA FinishStep == ASSUME IInv, Finish PROVE IInv'
  BY RowWritten, Restored DEF Finish

(* While the child runs, the parent is in a test. *)
LEMMA ChildRuns ==
  ASSUME IInv, pc[TheChild] \in {"new", "read", "write", "leave"}
  PROVE  pc[Parent] \in Testing
  BY RingFacts DEF IInv, ChildFits, NotKilledAlone, TypeOK, ParentLabel, Testing

LEMMA SettleStep == ASSUME IInv, Settle PROVE IInv'
<1> USE RingFacts
<1>1. Current' = Current
  BY DEF Settle, Current
<1>2. /\ pc[TheChild] = "new" /\ pc' \in [Proc -> Label]
      /\ pc'[TheChild] = "read" /\ pc'[Parent] = pc[Parent] /\ pc[Parent] \in Testing
  BY Moved, ChildRuns, Labels DEF Settle, ChildLabel
<1>3. /\ ends' \in [Proc -> {"none", "own", "all"}]
      /\ ends'[TheChild] = "own" /\ ends'[Parent] = ends[Parent]
  BY DEF Settle, CloseForeign, IInv, TypeOK, PipeTypeOK
<1>4. /\ policy' \in [Proc -> Policy] /\ policy'[Parent] = policy[Parent]
      /\ policy'[TheChild] = Current
  <2>1. Current \in Policy
    BY <1>2, RowsBelow DEF Testing
  <2>2. policy[TheChild] = Current
    BY <1>2 DEF IInv, PoliciesFit
  <2> QED
    BY <2>1, <2>2 DEF Settle, SetScheduler, IInv, TypeOK
<1>5. UNCHANGED <<buf, rights, sent, round, lat, rows>>
  BY DEF Settle
<1>6. PoliciesFit'
  BY <1>1, <1>2, <1>4, <1>5 DEF IInv, PoliciesFit
<1>7. ChildFits' /\ EndsFit' /\ ParentCounts' /\ NotKilledAlone'
  BY <1>2, <1>3, <1>5 DEF IInv, ChildFits, EndsFit, ParentCounts, NotKilledAlone, Testing
<1>8. TokensFit'
  BY <1>2, <1>5, Numbers DEF IInv, TokensFit, InHand, Killed
<1>9. pc[Parent] # "exited" /\ pc'[Parent] \in ParentLabel \ {"exited"}
  BY <1>2 DEF Testing, ParentLabel
<1> QED
  BY <1>2, <1>3, <1>4, <1>5, <1>6, <1>7, <1>8, <1>9, Advance
     DEF IInv, TypeOK, PipeTypeOK, ChildLabel

LEMMA ChildReadStep == ASSUME IInv, ChildRead PROVE IInv'
<1> USE RingFacts
<1>1. Current' = Current
  BY DEF ChildRead, Current
<1>2. /\ pc[TheChild] = "read" /\ pc' \in [Proc -> Label]
      /\ pc'[TheChild] = "write" /\ pc'[Parent] = pc[Parent] /\ pc[Parent] \in Testing
  BY Moved, ChildRuns, Labels DEF ChildRead, ChildLabel
<1>3. /\ buf' \in [Proc -> Nat] /\ buf[TheChild] = buf'[TheChild] + 1
      /\ buf'[Parent] = buf[Parent]
  BY DEF ChildRead, Take, Readable, IInv, TypeOK, PipeTypeOK
<1>4. UNCHANGED <<ends, rights, policy, sent, round, lat, rows>>
  BY DEF ChildRead
<1>5. PoliciesFit'
  BY <1>1, <1>2, <1>4 DEF IInv, PoliciesFit
<1>6. ChildFits' /\ EndsFit' /\ ParentCounts' /\ NotKilledAlone'
  BY <1>2, <1>4 DEF IInv, ChildFits, EndsFit, ParentCounts, NotKilledAlone
<1>7. TokensFit'
  BY <1>2, <1>3, <1>4, Numbers DEF IInv, TokensFit, InHand, Killed
<1>8. pc[Parent] # "exited" /\ pc'[Parent] \in ParentLabel \ {"exited"}
  BY <1>2 DEF Testing, ParentLabel
<1> QED
  BY <1>2, <1>3, <1>4, <1>5, <1>6, <1>7, <1>8, Advance
     DEF IInv, TypeOK, PipeTypeOK, ChildLabel

LEMMA ChildWriteStep == ASSUME IInv, ChildWrite PROVE IInv'
<1> USE RingFacts
<1>1. Current' = Current
  BY DEF ChildWrite, Current
<1>2. /\ pc[TheChild] = "write" /\ pc' \in [Proc -> Label]
      /\ pc'[TheChild] = IF sent[TheChild] + 1 < Total THEN "read" ELSE "leave"
      /\ pc'[Parent] = pc[Parent] /\ pc[Parent] \in Testing
  <2>1. (IF sent[TheChild] + 1 < Total THEN "read" ELSE "leave") \in Label
    BY DEF Label, ChildLabel
  <2> QED
    BY <2>1, Moved, ChildRuns DEF ChildWrite
<1>3. sent[TheChild] < Total
  BY <1>2 DEF IInv, TokensFit, Killed
<1>4. /\ sent' \in [Proc -> 0 .. Total] /\ sent'[TheChild] = sent[TheChild] + 1
      /\ sent'[Parent] = sent[Parent]
  BY <1>3, Numbers DEF ChildWrite, IInv, TypeOK
<1>5. /\ buf' \in [Proc -> Nat] /\ buf'[Parent] = buf[Parent] + 1
      /\ buf'[TheChild] = buf[TheChild]
  BY DEF ChildWrite, Put, IInv, TypeOK, PipeTypeOK
<1>6. UNCHANGED <<ends, rights, policy, round, lat, rows>>
  BY DEF ChildWrite
<1>7. PoliciesFit'
  BY <1>1, <1>2, <1>6 DEF IInv, PoliciesFit
<1>8. ChildFits' /\ EndsFit' /\ ParentCounts' /\ NotKilledAlone'
  BY <1>2, <1>4, <1>6 DEF IInv, ChildFits, EndsFit, ParentCounts, NotKilledAlone
<1>9. TokensFit'
  BY <1>2, <1>3, <1>4, <1>5, <1>6, Numbers DEF IInv, TokensFit, InHand, Killed
<1>10. pc[Parent] # "exited" /\ pc'[Parent] \in ParentLabel \ {"exited"}
  BY <1>2 DEF Testing, ParentLabel
<1>11. pc'[TheChild] \in ChildLabel
  BY <1>2 DEF ChildLabel
<1> QED
  BY <1>2, <1>4, <1>5, <1>6, <1>7, <1>8, <1>9, <1>10, <1>11, Advance
     DEF IInv, TypeOK, PipeTypeOK

(* The child leaves, of its own will or not: it gives up its pipe ends. *)
LEMMA ChildGone ==
  ASSUME IInv, NEW l \in {"exited", "killed"}, Goto(TheChild, l), CloseAll(TheChild),
         pc[TheChild] \in {"new", "read", "write", "leave"},
         l = "exited" => pc[TheChild] = "leave",
         UNCHANGED <<buf, rights, policy, sent, round, lat, rows>>
  PROVE  IInv'
<1> USE RingFacts
<1>1. Current' = Current
  BY DEF Current
<1>2. /\ pc' \in [Proc -> Label] /\ pc'[TheChild] = l /\ pc'[Parent] = pc[Parent]
      /\ pc[Parent] \in Testing
  BY Moved, ChildRuns, Labels DEF ChildLabel
<1>3. /\ ends' \in [Proc -> {"none", "own", "all"}] /\ ends'[Parent] = ends[Parent]
  BY DEF CloseAll, IInv, TypeOK, PipeTypeOK
<1>4. PoliciesFit'
  BY <1>1, <1>2 DEF IInv, PoliciesFit
<1>5. ChildFits' /\ EndsFit' /\ ParentCounts' /\ NotKilledAlone'
  BY <1>2, <1>3 DEF IInv, ChildFits, EndsFit, ParentCounts, NotKilledAlone, Testing
<1>6. TokensFit'
  BY <1>2 DEF IInv, TokensFit, InHand, Killed
<1>7. pc[Parent] # "exited" /\ pc'[Parent] \in ParentLabel \ {"exited"}
  BY <1>2 DEF Testing, ParentLabel
<1> QED
  BY <1>2, <1>3, <1>4, <1>5, <1>6, <1>7, Advance
     DEF IInv, TypeOK, PipeTypeOK, ChildLabel

LEMMA LeaveStep == ASSUME IInv, Leave PROVE IInv'
  BY ChildGone DEF Leave

LEMMA ChildKilledStep == ASSUME IInv, ChildKilled PROVE IInv'
  BY ChildGone DEF ChildKilled

LEMMA Stutters == ASSUME IInv, UNCHANGED vars PROVE IInv'
  BY DEF vars, IInv, TypeOK, PipeTypeOK, RowsFit, PoliciesFit, ChildFits, EndsFit,
         ParentCounts, TokensFit, NotKilledAlone, InHand, Killed, Current, Testing

LEMMA StepHolds == IInv /\ [Next]_vars => IInv'
  BY SetPolicyStep, SkipStep, ForkStep, ForkFailsStep, StartRingStep, ParentWriteStep,
     ParentReadStep, ParentKilledStep, FinishStep, SettleStep, ChildReadStep,
     ChildWriteStep, LeaveStep, ChildKilledStep, Stutters
     DEF Next, ParentStep, ChildStep, Terminating

LEMMA Inductive == Spec => []IInv
  BY InitHolds, StepHolds, PTL DEF Spec

(***************************************************************************)
(* The state of both processes, the pipes and the table stay in range.     *)
(***************************************************************************)
THEOREM SchedTypes == Spec => []TypeOK
<1>1. IInv => TypeOK
  BY DEF IInv
<1> QED
  BY <1>1, Inductive, PTL

(***************************************************************************)
(* The parent dies by SIGPIPE only after somebody has killed its child.    *)
(***************************************************************************)
THEOREM KilledTogether == Spec => []NotKilledAlone
<1>1. IInv => NotKilledAlone
  BY DEF IInv
<1> QED
  BY <1>1, Inductive, PTL

(***************************************************************************)
(* Every sample is taken while both processes run under the policy its row *)
(* names, and covers exactly one turn of the child.                        *)
(***************************************************************************)
THEOREM UnderPolicy == Spec => MeasuredUnderPolicy
<1> USE RingFacts
<1>1. ASSUME IInv, [Next]_vars, lat' # lat, lat' # {}
      PROVE  ParentRead
  BY <1>1 DEF Next, ParentStep, ChildStep, Terminating, vars, SetPolicy, Skip, Fork,
       ForkFails, StartRing, ParentWrite, ParentKilled, Finish, WriteRow, Settle,
       ChildRead, ChildWrite, Leave, ChildKilled
<1>2. ASSUME IInv, ParentRead
      PROVE  /\ policy[Parent] = Current
             /\ pc[TheChild] # "killed" =>
                  policy[TheChild] = Current /\ sent[TheChild] = round + 1
  <2>1. pc[Parent] = "read" /\ (Readable(Parent) \/ AtEof(Parent))
    BY <1>2 DEF ParentRead
  <2>2. policy[Parent] = Current /\ policy[TheChild] = Current
    BY <1>2, <2>1 DEF IInv, PoliciesFit, Testing
  <2>3. pc[TheChild] # "killed" => buf[Parent] > 0
    BY <1>2, <2>1, EofMeansKilled DEF Readable, Killed
  <2>4. sent[Parent] = round + 1
    BY <1>2, <2>1 DEF IInv, ParentCounts
  <2>5. InHand \in Nat
    BY DEF InHand
  <2>6. pc[TheChild] # "killed" => sent[TheChild] = round + 1
    BY <1>2, <2>3, <2>4, <2>5, Numbers DEF IInv, TokensFit, Killed
  <2> QED
    BY <2>2, <2>6
<1>3. IInv /\ [Next]_vars =>
        [lat' # lat /\ lat' # {} =>
           /\ policy[Parent] = Current
           /\ pc[TheChild] # "killed" =>
                policy[TheChild] = Current /\ sent[TheChild] = round + 1]_vars
  BY <1>1, <1>2
<1> QED
  BY <1>3, Inductive, PTL DEF Spec, MeasuredUnderPolicy

(***************************************************************************)
(* Only real-time policies are ever refused, and to root none: SCHED_IDLE  *)
(* comes third, when no ordinary policy is left to be tested.              *)
(***************************************************************************)
THEOREM OnlyRealTime == Spec => OnlyRealTimeRefused
<1>1. ASSUME IInv, [Next]_vars, rows' # rows, pc[Parent] = "set"
      PROVE  Skip
  BY <1>1 DEF Next, ParentStep, ChildStep, Terminating, vars, SetPolicy, Fork,
       ForkFails, StartRing, ParentWrite, ParentRead, ParentKilled, Finish, Settle,
       ChildRead, ChildWrite, Leave, ChildKilled
<1>2. ASSUME IInv, Skip
      PROVE  Current \in RealTime /\ rights # "root"
  <2>1. rights # "root"
    BY <1>2 DEF Skip, May
  <2>2. Len(rows) \in Nat /\ Len(rows) < 5
    BY <1>2, RowsBelow DEF Skip
  <2>3. CASE policy[Parent] = "IDLE"
    <3>1. Len(rows) > 2
      BY <1>2, <2>1, <2>2, <2>3 DEF IInv, PoliciesFit, Skip
    <3> QED
      BY <2>1, <2>2, <3>1, TableFacts DEF Current
  <2>4. CASE policy[Parent] # "IDLE"
    BY <1>2, <2>1, <2>4 DEF Skip, May
  <2> QED
    BY <2>3, <2>4
<1>3. IInv /\ [Next]_vars =>
        [rows' # rows /\ pc[Parent] = "set" => Current \in RealTime /\ rights # "root"]_vars
  BY <1>1, <1>2
<1> QED
  BY <1>3, Inductive, PTL DEF Spec, OnlyRealTimeRefused
=============================================================================
