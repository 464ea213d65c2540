------------------------ MODULE CtxSwitchBenchProofs ------------------------
(***************************************************************************)
(* Proofs about ctx_switch_bench.c, for every number of processes, every   *)
(* -i, every length of the warm-up, and with or without -c.                *)
(***************************************************************************)
EXTENDS CtxSwitchBench, TLAPS

(* The parent's position tells how many rounds it is through and how many  *)
(* tokens it has written.                                                  *)
ParentCounts ==
  /\ pc[Parent] \in {"fork", "write", "read"} => round < Warmup + iterations
  /\ pc[Parent] \in {"report", "reap", "exited"} => round = Warmup + iterations
  /\ pc[Parent] \in {"fork", "write"} => sent[Parent] = round
  /\ pc[Parent] = "read" => sent[Parent] = round + 1

(* A worker starts with no token written and has rounds left in its loop. *)
WorkerCounts ==
  \A k \in Child :
    /\ pc[k] \in {"unborn", "new"} => sent[k] = 0
    /\ pc[k] \in {"read", "write"} => sent[k] < iterations

(* The samples are those of the measured rounds the parent is through. *)
SamplesFit == lat = {i \in 0 .. (iterations - 1) : i + Warmup < round}

(* Who still has to use a pipe end holds it. *)
EndsFit ==
  /\ pc[Parent] = "fork" => ends[Parent] = "all"
  /\ \A k \in Child :
       /\ pc[k] = "new" => ends[k] = "all"
       /\ pc[k] \in {"read", "write", "leave"} => ends[k] = "own"

(* Nobody is in the ring any more when the parent has returned. *)
WorkersReaped == pc[Parent] = "exited" => \A k \in Child : Gone(k)

(* What process j has written, has in its pipe or has in its hand, every   *)
(* process before it in the ring has written.                              *)
InHand(j) == IF pc[j] = "write" THEN 1 ELSE 0
TokensComeFrom ==
  \A j \in Child : \A i \in Proc :
    i = Parent \/ i < j => sent[i] >= sent[j] + buf[j] + InHand(j)

(* Until its pipe is at its end, every round the parent is through and     *)
(* every token that waits for it have been written by all workers.         *)
TokensReturn ==
  AtEof(Parent) \/ \A i \in Child : sent[i] >= round + buf[Parent]

IInv ==
  TypeOK /\ ParentCounts /\ WorkerCounts /\ SamplesFit /\ EndsFit
  /\ TokensComeFrom /\ TokensReturn /\ WorkersReaped

(* The ring, as the proofs use it. *)
LEMMA RingFacts ==
  /\ Parent \in Proc /\ Child \subseteq Proc /\ Parent \notin Child
  /\ \A i \in Proc : i \in Nat /\ (i = Parent \/ i \in Child) /\ Out(i) \in Proc
  /\ Out(Parent) = 0 /\ 0 \in Child
  /\ \A k \in Child : Out(k) = k + 1 /\ k < Parent
  BY RingAssumption DEF Proc, Parent, Child, Out

LEMMA InitHolds == Init => IInv
<1> SUFFICES ASSUME Init PROVE IInv
  OBVIOUS
<1>1. /\ buf = [p \in Proc |-> 0] /\ ends \in [Proc -> {"none", "own", "all"}]
      /\ ends[Parent] = "all"
      /\ iterations \in Nat /\ round = 0 /\ lat = {} /\ Warmup \in Nat \ {0}
      /\ sent = [i \in Proc |-> 0]
      /\ pc[Parent] = "fork" /\ \A k \in Child : pc[k] = "unborn"
  BY RingFacts, BenchAssumption DEF Init, PipeInit
<1>2. TypeOK
  BY <1>1, RingFacts
     DEF Init, PipeInit, TypeOK, PipeTypeOK, ParentLabel, WorkerLabel
<1>3. SamplesFit
  BY <1>1 DEF SamplesFit
<1>4. ParentCounts /\ WorkerCounts /\ EndsFit /\ WorkersReaped
  BY <1>1, RingFacts DEF ParentCounts, WorkerCounts, EndsFit, WorkersReaped
<1>5. TokensComeFrom /\ TokensReturn
  BY <1>1, RingFacts DEF TokensComeFrom, TokensReturn, InHand
<1> QED
  BY <1>2, <1>3, <1>4, <1>5 DEF IInv

(* What the typing says of the numbers, process by process. *)
LEMMA Numbers ==
  TypeOK => /\ iterations \in Nat /\ Warmup \in Nat \ {0} /\ round \in Nat
            /\ \A i \in Proc : sent[i] \in Nat /\ buf[i] \in Nat
  BY BenchAssumption DEF TypeOK, PipeTypeOK

LEMMA TypesKept == IInv /\ [Next]_vars => TypeOK'
<1> SUFFICES ASSUME IInv, [Next]_vars PROVE TypeOK'
  OBVIOUS
<1> USE DEF IInv, TypeOK, PipeTypeOK, ParentLabel, WorkerLabel
<1>0. /\ iterations \in Nat /\ Warmup \in Nat \ {0} /\ round \in Nat
      /\ \A i \in Proc : sent[i] \in Nat /\ buf[i] \in Nat
  BY Numbers
<1>1. ASSUME NEW k \in Child, Fork(k) PROVE TypeOK'
  BY <1>1, RingFacts DEF args, Goto, Fork, Inherit
<1>2. CASE SetupFails
  BY <1>2, RingFacts DEF args, Goto, SetupFails, Die, CloseAll
<1>3. CASE StartRing
  BY <1>3, RingFacts DEF args, Goto, StartRing, CloseForeign
<1>4. CASE ParentWrite
  <2>1. sent[Parent] + 1 \in 0 .. (Warmup + iterations)
    BY <1>0, <1>4 DEF ParentWrite, ParentCounts
  <2>2. buf' \in [Proc -> Nat] /\ sent' \in [Proc -> 0 .. (Warmup + iterations)]
    BY <1>0, <1>4, <2>1, RingFacts DEF ParentWrite, Put
  <2> QED
    BY <1>4, <2>2, RingFacts DEF Goto, ParentWrite, args
<1>5. CASE WarmupRead
  <2>1. round' \in 0 .. (Warmup + iterations)
    BY <1>0, <1>5 DEF WarmupRead, NextRound, ParentCounts
  <2>2. buf' \in [Proc -> Nat]
    BY <1>0, <1>5, RingFacts DEF WarmupRead, Take, Readable
  <2> QED
    BY <1>5, <2>1, <2>2, RingFacts DEF Goto, WarmupRead, NextRound, args
<1>6. CASE MeasuredRead
  <2>1. round' \in 0 .. (Warmup + iterations)
    BY <1>0, <1>6 DEF MeasuredRead, NextRound, ParentCounts
  <2>2. buf' \in [Proc -> Nat]
    BY <1>0, <1>6, RingFacts DEF MeasuredRead, Take, Readable
  <2>3. round - Warmup \in 0 .. (iterations - 1)
    BY <1>0, <1>6 DEF MeasuredRead, ParentCounts
  <2> QED
    BY <1>6, <2>1, <2>2, <2>3, RingFacts DEF Goto, MeasuredRead, NextRound, args
<1>7. CASE ParentGivesUp
  BY <1>7, RingFacts DEF args, Goto, ParentGivesUp, Die, CloseAll
<1>8. CASE Report
  BY <1>8, RingFacts DEF args, Goto, Report
<1>9. CASE Reap
  BY <1>9, RingFacts DEF args, Goto, Reap, CloseAll
<1>10. ASSUME NEW k \in Child, Settle(k) PROVE TypeOK'
  BY <1>10, RingFacts DEF args, Goto, Settle, CloseForeign
<1>11. ASSUME NEW k \in Child, WorkerRead(k) PROVE TypeOK'
  <2>1. buf' \in [Proc -> Nat]
    BY <1>0, <1>11, RingFacts DEF WorkerRead, Take, Readable
  <2> QED
    BY <1>11, <2>1, RingFacts DEF Goto, WorkerRead, args
<1>12. ASSUME NEW k \in Child, WorkerWrite(k) PROVE TypeOK'
  <2>1. sent[k] + 1 \in 0 .. iterations /\ k \in Proc
    BY <1>0, <1>12, RingFacts DEF WorkerWrite, WorkerCounts
  <2>2. buf' \in [Proc -> Nat] /\ sent' \in [Proc -> 0 .. (Warmup + iterations)]
    BY <1>0, <1>12, <2>1, RingFacts DEF WorkerWrite, Put
  <2> QED
    BY <1>12, <2>1, <2>2, RingFacts DEF Goto, WorkerWrite, args
<1>13. ASSUME NEW k \in Child, WorkerGivesUp(k) PROVE TypeOK'
  BY <1>13, RingFacts DEF args, Goto, WorkerGivesUp, Die, CloseAll
<1>14. ASSUME NEW k \in Child, Leave(k) PROVE TypeOK'
  BY <1>14, RingFacts DEF args, Goto, Leave, CloseAll
<1>15. CASE UNCHANGED vars
  BY <1>15 DEF vars
<1> QED
  BY <1>1, <1>2, <1>3, <1>4, <1>5, <1>6, <1>7, <1>8, <1>9, <1>10, <1>11, <1>12, <1>13, <1>14, <1>15
     DEF Next, ParentStep, WorkerStep, Terminating

LEMMA CountsKept == IInv /\ [Next]_vars => (ParentCounts /\ WorkerCounts /\ SamplesFit)'
<1> SUFFICES ASSUME IInv, [Next]_vars PROVE (ParentCounts /\ WorkerCounts /\ SamplesFit)'
  OBVIOUS
<1> USE DEF IInv, TypeOK, ParentLabel, WorkerLabel, ParentCounts, WorkerCounts, SamplesFit
<1>0. /\ iterations \in Nat /\ Warmup \in Nat \ {0} /\ round \in Nat
      /\ \A i \in Proc : sent[i] \in Nat /\ buf[i] \in Nat
  BY Numbers
<1>1. ASSUME NEW k \in Child, Fork(k) PROVE (ParentCounts /\ WorkerCounts /\ SamplesFit)'
  BY <1>0, <1>1, RingFacts DEF args, Goto, Fork, Inherit
<1>2. CASE SetupFails
  BY <1>0, <1>2, RingFacts DEF args, Goto, SetupFails, Die, CloseAll
<1>3. CASE StartRing
  BY <1>0, <1>3, RingFacts DEF args, Goto, StartRing, CloseForeign
<1>4. CASE ParentWrite
  BY <1>0, <1>4, RingFacts DEF args, Goto, ParentWrite, Put
<1>5. CASE WarmupRead
  BY <1>0, <1>5, RingFacts DEF args, Goto, WarmupRead, NextRound, Take, Readable
<1>6. CASE MeasuredRead
  <2>1. /\ pc[Parent] = "read" /\ round >= Warmup /\ round < Warmup + iterations
        /\ lat' = lat \cup {round - Warmup} /\ round' = round + 1
        /\ iterations' = iterations
    BY <1>0, <1>6 DEF MeasuredRead, NextRound, args
  <2>2. SamplesFit'
    BY <1>0, <2>1
  <2>3. ParentCounts' /\ WorkerCounts'
    BY <1>0, <1>6, <2>1, RingFacts DEF Goto, MeasuredRead, NextRound, args
  <2> QED
    BY <2>2, <2>3
<1>7. CASE ParentGivesUp
  BY <1>0, <1>7, RingFacts DEF args, Goto, ParentGivesUp, Die, CloseAll
<1>8. CASE Report
  BY <1>0, <1>8, RingFacts DEF args, Goto, Report
<1>9. CASE Reap
  BY <1>0, <1>9, RingFacts DEF args, Goto, Reap, CloseAll
<1>10. ASSUME NEW k \in Child, Settle(k) PROVE (ParentCounts /\ WorkerCounts /\ SamplesFit)'
  <2>1. ParentCounts' /\ SamplesFit'
    BY <1>0, <1>10, RingFacts DEF args, Goto, Settle, CloseForeign
  <2>2. sent[k] \in Nat /\ sent[k] <= iterations
    BY <1>0, RingFacts
  <2>3. sent[k] < iterations \/ iterations = 0 \/ sent[k] = iterations
    BY <1>0, <2>2
  <2> QED
    BY <1>0, <1>10, <2>1, <2>3, RingFacts DEF args, Goto, Settle, CloseForeign
<1>11. ASSUME NEW k \in Child, WorkerRead(k) PROVE (ParentCounts /\ WorkerCounts /\ SamplesFit)'
  BY <1>0, <1>11, RingFacts DEF args, Goto, WorkerRead, Take, Readable
<1>12. ASSUME NEW k \in Child, WorkerWrite(k) PROVE (ParentCounts /\ WorkerCounts /\ SamplesFit)'
  BY <1>0, <1>12, RingFacts DEF args, Goto, WorkerWrite, Put
<1>13. ASSUME NEW k \in Child, WorkerGivesUp(k) PROVE (ParentCounts /\ WorkerCounts /\ SamplesFit)'
  BY <1>0, <1>13, RingFacts DEF args, Goto, WorkerGivesUp, Die, CloseAll
<1>14. ASSUME NEW k \in Child, Leave(k) PROVE (ParentCounts /\ WorkerCounts /\ SamplesFit)'
  BY <1>0, <1>14, RingFacts DEF args, Goto, Leave, CloseAll
<1>15. CASE UNCHANGED vars
  BY <1>15 DEF vars
<1> QED
  BY <1>1, <1>2, <1>3, <1>4, <1>5, <1>6, <1>7, <1>8, <1>9, <1>10, <1>11, <1>12, <1>13, <1>14, <1>15
     DEF Next, ParentStep, WorkerStep, Terminating

LEMMA EndsKept == IInv /\ [Next]_vars => (EndsFit /\ WorkersReaped)'
<1> SUFFICES ASSUME IInv, [Next]_vars PROVE (EndsFit /\ WorkersReaped)'
  OBVIOUS
<1> USE DEF IInv, TypeOK, PipeTypeOK, ParentLabel, WorkerLabel, EndsFit, WorkersReaped, Gone
<1>1. ASSUME NEW k \in Child, Fork(k) PROVE (EndsFit /\ WorkersReaped)'
  BY <1>1, RingFacts DEF args, Goto, Fork, Inherit
<1>2. CASE SetupFails
  BY <1>2, RingFacts DEF args, Goto, SetupFails, Die, CloseAll
<1>3. CASE StartRing
  BY <1>3, RingFacts DEF args, Goto, StartRing, CloseForeign
<1>4. CASE ParentWrite
  BY <1>4, RingFacts DEF args, Goto, ParentWrite, Put
<1>5. CASE WarmupRead
  BY <1>5, RingFacts DEF args, Goto, WarmupRead, NextRound, Take, Readable
<1>6. CASE MeasuredRead
  BY <1>6, RingFacts DEF args, Goto, MeasuredRead, NextRound, Take, Readable
<1>7. CASE ParentGivesUp
  BY <1>7, RingFacts DEF args, Goto, ParentGivesUp, Die, CloseAll
<1>8. CASE Report
  BY <1>8, RingFacts DEF args, Goto, Report
<1>9. CASE Reap
  BY <1>9, RingFacts DEF args, Goto, Reap, CloseAll
<1>10. ASSUME NEW k \in Child, Settle(k) PROVE (EndsFit /\ WorkersReaped)'
  BY <1>10, RingFacts DEF args, Goto, Settle, CloseForeign
<1>11. ASSUME NEW k \in Child, WorkerRead(k) PROVE (EndsFit /\ WorkersReaped)'
  BY <1>11, RingFacts DEF args, Goto, WorkerRead, Take, Readable
<1>12. ASSUME NEW k \in Child, WorkerWrite(k) PROVE (EndsFit /\ WorkersReaped)'
  BY <1>12, RingFacts DEF args, Goto, WorkerWrite, Put
<1>13. ASSUME NEW k \in Child, WorkerGivesUp(k) PROVE (EndsFit /\ WorkersReaped)'
  BY <1>13, RingFacts DEF args, Goto, WorkerGivesUp, Die, CloseAll
<1>14. ASSUME NEW k \in Child, Leave(k) PROVE (EndsFit /\ WorkersReaped)'
  BY <1>14, RingFacts DEF args, Goto, Leave, CloseAll
<1>15. CASE UNCHANGED vars
  BY <1>15 DEF vars
<1> QED
  BY <1>1, <1>2, <1>3, <1>4, <1>5, <1>6, <1>7, <1>8, <1>9, <1>10, <1>11, <1>12, <1>13, <1>14, <1>15
     DEF Next, ParentStep, WorkerStep, Terminating

(* The write of worker k moves the token from its hand into the next pipe. *)
LEMMA WorkerWriteComesFrom ==
  ASSUME TypeOK, TokensComeFrom, NEW k \in Child, WorkerWrite(k)
  PROVE  TokensComeFrom'
<1>1. \A j \in Proc : sent[j] \in Nat /\ buf[j] \in Nat
  BY Numbers
<1>2. k \in Nat /\ k \in Proc /\ Out(k) = k + 1 /\ Out(k) \in Proc
  BY RingFacts
<1>3. /\ buf'[Out(k)] = buf[Out(k)] + 1 /\ \A q \in Proc : q # Out(k) => buf'[q] = buf[q]
      /\ sent'[k] = sent[k] + 1 /\ \A j \in Proc : j # k => sent'[j] = sent[j]
      /\ pc[k] = "write" /\ pc'[k] # "write"
      /\ \A j \in Proc : j # k => pc'[j] = pc[j]
  BY <1>2 DEF WorkerWrite, Put, Goto, TypeOK, PipeTypeOK
<1>4. /\ InHand(k) = 1 /\ InHand(k)' = 0
      /\ \A j \in Child : InHand(j) \in {0, 1} /\ (j # k => InHand(j)' = InHand(j))
  BY <1>3, RingFacts DEF InHand
<1> SUFFICES ASSUME NEW j \in Child, NEW i \in Proc, i = Parent \/ i < j
             PROVE  sent'[i] >= sent'[j] + buf'[j] + InHand(j)'
  BY DEF TokensComeFrom
<1>5. i \in Nat /\ j \in Nat /\ j \in Proc /\ j # Parent
  BY RingFacts
<1>6. sent[i] >= sent[j] + buf[j] + InHand(j) /\ sent'[i] >= sent[i] /\ InHand(j) \in {0, 1}
  BY <1>1, <1>3, <1>4, <1>5 DEF TokensComeFrom
<1>7. CASE j = k
  BY <1>1, <1>2, <1>3, <1>4, <1>6, <1>7
<1>8. CASE j = Out(k)
  <2>1. sent[k] >= sent[j] + buf[j] + InHand(j)
    BY <1>2, <1>8 DEF TokensComeFrom
  <2>2. CASE i = k
    BY <1>1, <1>2, <1>3, <1>4, <1>5, <1>6, <1>8, <2>1, <2>2
  <2>3. CASE i # k
    <3>1. i = Parent \/ i < k
      BY <1>2, <1>5, <1>8, <2>3
    <3>2. sent[i] >= sent[k] + buf[k] + InHand(k)
      BY <3>1, <1>2 DEF TokensComeFrom
    <3> QED
      BY <1>1, <1>2, <1>3, <1>4, <1>5, <1>6, <1>8, <2>1, <2>3, <3>2
  <2> QED
    BY <2>2, <2>3
<1>9. CASE j # k /\ j # Out(k)
  BY <1>1, <1>2, <1>3, <1>4, <1>5, <1>6, <1>9
<1> QED
  BY <1>7, <1>8, <1>9

LEMMA ComeFromKept == IInv /\ [Next]_vars => TokensComeFrom'
<1> SUFFICES ASSUME IInv, [Next]_vars PROVE TokensComeFrom'
  OBVIOUS
<1> USE DEF IInv, TypeOK, PipeTypeOK, ParentLabel, WorkerLabel, TokensComeFrom, InHand
<1>1. ASSUME NEW k \in Child, Fork(k) PROVE TokensComeFrom'
  BY <1>1, RingFacts DEF args, Goto, Fork, Inherit
<1>2. CASE SetupFails
  BY <1>2, RingFacts DEF args, Goto, SetupFails, Die, CloseAll
<1>3. CASE StartRing
  BY <1>3, RingFacts DEF args, Goto, StartRing, CloseForeign
<1>4. CASE ParentWrite
  BY <1>4, RingFacts DEF args, Goto, ParentWrite, Put
<1>5. CASE WarmupRead
  BY <1>5, RingFacts DEF args, Goto, WarmupRead, NextRound, Take, Readable
<1>6. CASE MeasuredRead
  BY <1>6, RingFacts DEF args, Goto, MeasuredRead, NextRound, Take, Readable
<1>7. CASE ParentGivesUp
  BY <1>7, RingFacts DEF args, Goto, ParentGivesUp, Die, CloseAll
<1>8. CASE Report
  BY <1>8, RingFacts DEF args, Goto, Report
<1>9. CASE Reap
  BY <1>9, RingFacts DEF args, Goto, Reap, CloseAll
<1>10. ASSUME NEW k \in Child, Settle(k) PROVE TokensComeFrom'
  BY <1>10, RingFacts DEF args, Goto, Settle, CloseForeign
<1>11. ASSUME NEW k \in Child, WorkerRead(k) PROVE TokensComeFrom'
  BY <1>11, RingFacts DEF args, Goto, WorkerRead, Take, Readable
<1>12. ASSUME NEW k \in Child, WorkerWrite(k) PROVE TokensComeFrom'
  BY <1>12, WorkerWriteComesFrom
<1>13. ASSUME NEW k \in Child, WorkerGivesUp(k) PROVE TokensComeFrom'
  BY <1>13, RingFacts DEF args, Goto, WorkerGivesUp, Die, CloseAll
<1>14. ASSUME NEW k \in Child, Leave(k) PROVE TokensComeFrom'
  BY <1>14, RingFacts DEF args, Goto, Leave, CloseAll
<1>15. CASE UNCHANGED vars
  BY <1>15 DEF vars
<1> QED
  BY <1>1, <1>2, <1>3, <1>4, <1>5, <1>6, <1>7, <1>8, <1>9, <1>10, <1>11, <1>12, <1>13, <1>14, <1>15
     DEF Next, ParentStep, WorkerStep, Terminating

LEMMA ReturnKept == IInv /\ [Next]_vars => TokensReturn'
<1> SUFFICES ASSUME IInv, [Next]_vars PROVE TokensReturn'
  OBVIOUS
<1> USE DEF IInv, TypeOK, PipeTypeOK, ParentLabel, WorkerLabel, EndsFit, TokensComeFrom, InHand, TokensReturn, AtEof, CanWrite
<1>1. ASSUME NEW k \in Child, Fork(k) PROVE TokensReturn'
  BY <1>1, RingFacts DEF args, Goto, Fork, Inherit
<1>2. CASE SetupFails
  BY <1>2, RingFacts DEF args, Goto, SetupFails, Die, CloseAll
<1>3. CASE StartRing
  BY <1>3, RingFacts DEF args, Goto, StartRing, CloseForeign
<1>4. CASE ParentWrite
  BY <1>4, RingFacts DEF args, Goto, ParentWrite, Put
<1>5. CASE WarmupRead
  BY <1>5, RingFacts DEF args, Goto, WarmupRead, NextRound, Take, Readable
<1>6. CASE MeasuredRead
  BY <1>6, RingFacts DEF args, Goto, MeasuredRead, NextRound, Take, Readable
<1>7. CASE ParentGivesUp
  BY <1>7, RingFacts DEF args, Goto, ParentGivesUp, Die, CloseAll
<1>8. CASE Report
  BY <1>8, RingFacts DEF args, Goto, Report
<1>9. CASE Reap
  BY <1>9, RingFacts DEF args, Goto, Reap, CloseAll
<1>10. ASSUME NEW k \in Child, Settle(k) PROVE TokensReturn'
  BY <1>10, RingFacts DEF args, Goto, Settle, CloseForeign
<1>11. ASSUME NEW k \in Child, WorkerRead(k) PROVE TokensReturn'
  BY <1>11, RingFacts DEF args, Goto, WorkerRead, Take, Readable
<1>12. ASSUME NEW k \in Child, WorkerWrite(k) PROVE TokensReturn'
  BY <1>12, RingFacts DEF args, Goto, WorkerWrite, Put
<1>13. ASSUME NEW k \in Child, WorkerGivesUp(k) PROVE TokensReturn'
  BY <1>13, RingFacts DEF args, Goto, WorkerGivesUp, Die, CloseAll
<1>14. ASSUME NEW k \in Child, Leave(k) PROVE TokensReturn'
  BY <1>14, RingFacts DEF args, Goto, Leave, CloseAll
<1>15. CASE UNCHANGED vars
  BY <1>15 DEF vars
<1> QED
  BY <1>1, <1>2, <1>3, <1>4, <1>5, <1>6, <1>7, <1>8, <1>9, <1>10, <1>11, <1>12, <1>13, <1>14, <1>15
     DEF Next, ParentStep, WorkerStep, Terminating

LEMMA IInvKept == IInv /\ [Next]_vars => IInv'
  BY TypesKept, CountsKept, EndsKept, ComeFromKept, ReturnKept DEF IInv

LEMMA IInvHolds == Spec => []IInv
  BY InitHolds, IInvKept, PTL DEF Spec

(* Every variable of ctx_switch_bench.c keeps its type: no worker writes   *)
(* more tokens than it has iterations, no sample lands outside the array.  *)
THEOREM CtxTypes == Spec => []TypeOK
  BY IInvHolds, PTL DEF IInv

(* A sample is stored only when every worker has written exactly as many   *)
(* tokens as the parent: it spans one whole rotation of the ring, for      *)
(* every number of processes and whoever has died meanwhile.               *)
THEOREM SamplesAreRotations == Spec => SampleIsRotation
<1>1. IInv /\ [Next]_vars => [lat' # lat => \A k \in Child : sent[k] = round + 1]_vars
  <2> SUFFICES ASSUME IInv, Next, lat' # lat, NEW k \in Child
               PROVE  sent[k] = round + 1
    OBVIOUS
  <2>1. MeasuredRead
    BY DEF Next, ParentStep, WorkerStep, Terminating, Fork, SetupFails, Die, StartRing,
           ParentWrite, WarmupRead, ParentGivesUp, Report, Reap, Settle, WorkerRead,
           WorkerWrite, WorkerGivesUp, Leave, vars
  <2>2. /\ round \in Nat /\ k \in Proc /\ Parent \in Proc
        /\ \A i \in Proc : sent[i] \in Nat /\ buf[i] \in Nat
    BY Numbers, RingFacts DEF IInv
  <2>3. buf[Parent] >= 1 /\ sent[Parent] = round + 1
    BY <2>1, <2>2 DEF MeasuredRead, Readable, IInv, ParentCounts
  <2>4. sent[k] >= round + 1
    BY <2>2, <2>3 DEF IInv, TokensReturn, AtEof
  <2>5. sent[Parent] >= sent[k]
    BY <2>2, Numbers DEF IInv, TokensComeFrom, InHand
  <2> QED
    BY <2>2, <2>3, <2>4, <2>5
<1> QED
  BY <1>1, IInvHolds, PTL DEF Spec, SampleIsRotation

(* Every sample, and the step after the last read, is of a round that all  *)
(* workers made: they make no more than -i.                                *)
RoundsCarried ==
  iterations > 0 => /\ round <= Warmup + iterations - 1
                    /\ \A i \in lat : i < iterations - Warmup

LEMMA CarriedKept == IInv /\ RoundsCarried /\ [Next]_vars => RoundsCarried'
<1> SUFFICES ASSUME IInv, RoundsCarried, [Next]_vars PROVE RoundsCarried'
  OBVIOUS
<1>1. CASE UNCHANGED <<round, lat, iterations>>
  BY <1>1 DEF RoundsCarried
<1>2. CASE ~UNCHANGED <<round, lat, iterations>>
  <2>1. WarmupRead \/ MeasuredRead
    BY <1>2 DEF Next, ParentStep, WorkerStep, Terminating, Fork, SetupFails, Die, StartRing,
           ParentWrite, ParentGivesUp, Report, Reap, Settle, WorkerRead,
           WorkerWrite, WorkerGivesUp, Leave, vars, args
  <2>2. /\ round \in Nat /\ Warmup \in Nat /\ iterations \in Nat
        /\ 0 \in Child /\ 0 \in Proc /\ Parent \in Proc
        /\ \A i \in Proc : sent[i] \in Nat /\ buf[i] \in Nat
        /\ sent[0] <= iterations /\ Warmup > 0
        /\ lat \subseteq 0 .. (iterations - 1)
    BY Numbers, RingFacts DEF IInv, TypeOK
  <2>3. CASE WarmupRead
    BY <2>2, <2>3 DEF WarmupRead, NextRound, RoundsCarried, args
  <2>4. CASE MeasuredRead
    <3>1. buf[Parent] >= 1 /\ round >= Warmup /\ round' = round + 1
          /\ lat' = lat \cup {round - Warmup} /\ iterations' = iterations
      BY <2>2, <2>4 DEF MeasuredRead, NextRound, Readable, args
    <3>2. sent[0] >= round + 1
      BY <2>2, <3>1 DEF IInv, TokensReturn, AtEof
    <3>3. round + 1 <= iterations
      BY <2>2, <3>2
    <3> QED
      BY <2>2, <3>1, <3>3 DEF RoundsCarried
  <2> QED
    BY <2>1, <2>3, <2>4
<1> QED
  BY <1>1, <1>2

(* For every number of processes, every -i from 1 on and every length of   *)
(* the warm-up the measurement is broken off before the summary, and no    *)
(* sample is of a round that the workers did not make.                     *)
THEOREM SamplesCarried == Spec => []SamplesAreCarried
<1>1. Init => RoundsCarried
  BY BenchAssumption DEF Init, RoundsCarried
<1>2. IInv /\ RoundsCarried => SamplesAreCarried
  <2> SUFFICES ASSUME IInv, RoundsCarried PROVE SamplesAreCarried
    OBVIOUS
  <2>1. iterations \in Nat /\ Warmup \in Nat /\ round \in Nat /\ lat \subseteq 0 .. (iterations - 1)
    BY Numbers DEF IInv, TypeOK
  <2>2. CASE iterations > 0
    BY <2>1, <2>2 DEF RoundsCarried, SamplesAreCarried, IInv, ParentCounts
  <2>3. CASE iterations = 0
    <3>1. lat = {}
      BY <2>1, <2>3
    <3> QED
      BY <2>3, <3>1 DEF SamplesAreCarried
  <2> QED
    BY <2>1, <2>2, <2>3
<1> QED
  BY <1>1, <1>2, CarriedKept, IInvHolds, PTL DEF Spec

----------------------------------------------------------------------------
(***************************************************************************)
(* The pipe ring implements the abstract token ring, for every number of   *)
(* processes and every -i that is not below the warm-up.  The invariant is *)
(* strengthened: no token is lost while its reader is there, no worker     *)
(* fails while the parent is there, and every round of the parent has been *)
(* round the ring.                                                         *)
(***************************************************************************)

(* The process that writes the pipe of worker k. *)
Before(k) == IF k = 0 THEN Parent ELSE k - 1

(* A worker that leaves its loop has written all its tokens. *)
LeaversDone ==
  \A k \in Child : pc[k] \in {"leave", "exited"} => sent[k] = iterations

(* What the neighbour has written is in the pipe, in the hand, or written. *)
NoneLost ==
  \A k \in Child :
    pc[k] # "failed" => sent[Before(k)] = sent[k] + buf[k] + InHand(k)

(* The parent holds its pipe ends and is never two rounds ahead. *)
ParentFits ==
  /\ pc[Parent] \in {"write", "read", "report", "reap"} => ends[Parent] = "own"
  /\ sent[Parent] <= round + 1

(* The ring stands as long as the parent does not give up. *)
RingStands ==
  pc[Parent] # "failed" =>
    \A k \in Child : /\ pc[k] # "failed"
                     /\ pc[k] = "unborn" => pc[Parent] = "fork"

(* Every round the parent is through has been round the ring. *)
RoundsReturn == Sustained => \A k \in Child : sent[k] >= round

CInv == IInv /\ LeaversDone /\ NoneLost /\ ParentFits /\ RingStands /\ RoundsReturn

LEMMA BeforeFacts ==
  \A k \in Child : /\ Before(k) \in Proc /\ Out(Before(k)) = k /\ Before(k) # k
                   /\ Out(k) \in Proc /\ (Out(k) = Parent \/ Out(k) \in Child)
                   /\ Out(k) \in Child => Before(Out(k)) = k
                   /\ \A j \in Child : Before(j) = Before(k) => j = k
                   /\ Before(k) = Parent <=> k = 0
                   /\ Before(k) # Parent => Before(k) \in Child
  BY RingAssumption DEF Before, Proc, Child, Parent, Out

LEMMA CInvStart == Init => CInv
<1> SUFFICES ASSUME Init PROVE CInv
  OBVIOUS
<1>1. IInv
  BY InitHolds
<1>2. /\ \A i \in Proc : sent[i] = 0 /\ buf[i] = 0
      /\ pc[Parent] = "fork" /\ \A k \in Child : pc[k] = "unborn"
      /\ round = 0
  BY RingFacts DEF Init, PipeInit
<1>3. NoneLost
  BY <1>2, RingFacts, BeforeFacts DEF NoneLost, InHand
<1> QED
  BY <1>1, <1>2, <1>3, RingFacts
     DEF CInv, LeaversDone, ParentFits, RingStands, RoundsReturn

LEMMA LeaversKept == CInv /\ [Next]_vars => LeaversDone'
<1> SUFFICES ASSUME CInv, [Next]_vars PROVE LeaversDone'
  OBVIOUS
<1> USE DEF CInv, IInv, TypeOK, PipeTypeOK, ParentLabel, WorkerLabel, LeaversDone, WorkerCounts
<1>0. /\ iterations \in Nat /\ Warmup \in Nat \ {0} /\ round \in Nat
      /\ \A i \in Proc : sent[i] \in Nat /\ buf[i] \in Nat
  BY Numbers DEF CInv, IInv
<1>1. ASSUME NEW k \in Child, Fork(k) PROVE LeaversDone'
  BY <1>0, <1>1, RingFacts, BeforeFacts DEF args, Goto, Fork, Inherit
<1>2. CASE SetupFails
  BY <1>0, <1>2, RingFacts, BeforeFacts DEF args, Goto, SetupFails, Die, CloseAll
<1>3. CASE StartRing
  BY <1>0, <1>3, RingFacts, BeforeFacts DEF args, Goto, StartRing, CloseForeign
<1>4. CASE ParentWrite
  BY <1>0, <1>4, RingFacts, BeforeFacts DEF args, Goto, ParentWrite, Put
<1>5. CASE WarmupRead
  BY <1>0, <1>5, RingFacts, BeforeFacts DEF args, Goto, WarmupRead, NextRound, Take, Readable
<1>6. CASE MeasuredRead
  BY <1>0, <1>6, RingFacts, BeforeFacts DEF args, Goto, MeasuredRead, NextRound, Take, Readable
<1>7. CASE ParentGivesUp
  BY <1>0, <1>7, RingFacts, BeforeFacts DEF args, Goto, ParentGivesUp, Die, CloseAll
<1>8. CASE Report
  BY <1>0, <1>8, RingFacts, BeforeFacts DEF args, Goto, Report
<1>9. CASE Reap
  BY <1>0, <1>9, RingFacts, BeforeFacts DEF args, Goto, Reap, CloseAll
<1>10. ASSUME NEW k \in Child, Settle(k) PROVE LeaversDone'
  BY <1>0, <1>10, RingFacts, BeforeFacts DEF args, Goto, Settle, CloseForeign
<1>11. ASSUME NEW k \in Child, WorkerRead(k) PROVE LeaversDone'
  BY <1>0, <1>11, RingFacts, BeforeFacts DEF args, Goto, WorkerRead, Take, Readable
<1>12. ASSUME NEW k \in Child, WorkerWrite(k) PROVE LeaversDone'
  BY <1>0, <1>12, RingFacts, BeforeFacts DEF args, Goto, WorkerWrite, Put
<1>13. ASSUME NEW k \in Child, WorkerGivesUp(k) PROVE LeaversDone'
  BY <1>0, <1>13, RingFacts, BeforeFacts DEF args, Goto, WorkerGivesUp, Die, CloseAll
<1>14. ASSUME NEW k \in Child, Leave(k) PROVE LeaversDone'
  BY <1>0, <1>14, RingFacts, BeforeFacts DEF args, Goto, Leave, CloseAll
<1>15. CASE UNCHANGED vars
  BY <1>15 DEF vars
<1> QED
  BY <1>1, <1>2, <1>3, <1>4, <1>5, <1>6, <1>7, <1>8, <1>9, <1>10, <1>11, <1>12, <1>13, <1>14, <1>15
     DEF Next, ParentStep, WorkerStep, Terminating

LEMMA NoneLostKept == CInv /\ [Next]_vars => NoneLost'
<1> SUFFICES ASSUME CInv, [Next]_vars PROVE NoneLost'
  OBVIOUS
<1> USE DEF CInv, IInv, TypeOK, PipeTypeOK, ParentLabel, WorkerLabel, NoneLost, InHand
<1>0. /\ iterations \in Nat /\ Warmup \in Nat \ {0} /\ round \in Nat
      /\ \A i \in Proc : sent[i] \in Nat /\ buf[i] \in Nat
  BY Numbers DEF CInv, IInv
<1>1. ASSUME NEW k \in Child, Fork(k) PROVE NoneLost'
  BY <1>0, <1>1, RingFacts, BeforeFacts DEF args, Goto, Fork, Inherit
<1>2. CASE SetupFails
  BY <1>0, <1>2, RingFacts, BeforeFacts DEF args, Goto, SetupFails, Die, CloseAll
<1>3. CASE StartRing
  BY <1>0, <1>3, RingFacts, BeforeFacts DEF args, Goto, StartRing, CloseForeign
<1>4. CASE ParentWrite
  BY <1>0, <1>4, RingFacts, BeforeFacts DEF args, Goto, ParentWrite, Put
<1>5. CASE WarmupRead
  BY <1>0, <1>5, RingFacts, BeforeFacts DEF args, Goto, WarmupRead, NextRound, Take, Readable
<1>6. CASE MeasuredRead
  BY <1>0, <1>6, RingFacts, BeforeFacts DEF args, Goto, MeasuredRead, NextRound, Take, Readable
<1>7. CASE ParentGivesUp
  BY <1>0, <1>7, RingFacts, BeforeFacts DEF args, Goto, ParentGivesUp, Die, CloseAll
<1>8. CASE Report
  BY <1>0, <1>8, RingFacts, BeforeFacts DEF args, Goto, Report
<1>9. CASE Reap
  BY <1>0, <1>9, RingFacts, BeforeFacts DEF args, Goto, Reap, CloseAll
<1>10. ASSUME NEW k \in Child, Settle(k) PROVE NoneLost'
  BY <1>0, <1>10, RingFacts, BeforeFacts DEF args, Goto, Settle, CloseForeign
<1>11. ASSUME NEW k \in Child, WorkerRead(k) PROVE NoneLost'
  BY <1>0, <1>11, RingFacts, BeforeFacts DEF args, Goto, WorkerRead, Take, Readable
<1>12. ASSUME NEW k \in Child, WorkerWrite(k) PROVE NoneLost'
  BY <1>0, <1>12, RingFacts, BeforeFacts DEF args, Goto, WorkerWrite, Put
<1>13. ASSUME NEW k \in Child, WorkerGivesUp(k) PROVE NoneLost'
  BY <1>0, <1>13, RingFacts, BeforeFacts DEF args, Goto, WorkerGivesUp, Die, CloseAll
<1>14. ASSUME NEW k \in Child, Leave(k) PROVE NoneLost'
  BY <1>0, <1>14, RingFacts, BeforeFacts DEF args, Goto, Leave, CloseAll
<1>15. CASE UNCHANGED vars
  BY <1>15 DEF vars
<1> QED
  BY <1>1, <1>2, <1>3, <1>4, <1>5, <1>6, <1>7, <1>8, <1>9, <1>10, <1>11, <1>12, <1>13, <1>14, <1>15
     DEF Next, ParentStep, WorkerStep, Terminating

LEMMA ParentFitsKept == CInv /\ [Next]_vars => ParentFits'
<1> SUFFICES ASSUME CInv, [Next]_vars PROVE ParentFits'
  OBVIOUS
<1> USE DEF CInv, IInv, TypeOK, PipeTypeOK, ParentLabel, WorkerLabel, ParentFits, ParentCounts
<1>0. /\ iterations \in Nat /\ Warmup \in Nat \ {0} /\ round \in Nat
      /\ \A i \in Proc : sent[i] \in Nat /\ buf[i] \in Nat
  BY Numbers DEF CInv, IInv
<1>1. ASSUME NEW k \in Child, Fork(k) PROVE ParentFits'
  BY <1>0, <1>1, RingFacts, BeforeFacts DEF args, Goto, Fork, Inherit
<1>2. CASE SetupFails
  BY <1>0, <1>2, RingFacts, BeforeFacts DEF args, Goto, SetupFails, Die, CloseAll
<1>3. CASE StartRing
  BY <1>0, <1>3, RingFacts, BeforeFacts DEF args, Goto, StartRing, CloseForeign
<1>4. CASE ParentWrite
  BY <1>0, <1>4, RingFacts, BeforeFacts DEF args, Goto, ParentWrite, Put
<1>5. CASE WarmupRead
  BY <1>0, <1>5, RingFacts, BeforeFacts DEF args, Goto, WarmupRead, NextRound, Take, Readable
<1>6. CASE MeasuredRead
  BY <1>0, <1>6, RingFacts, BeforeFacts DEF args, Goto, MeasuredRead, NextRound, Take, Readable
<1>7. CASE ParentGivesUp
  BY <1>0, <1>7, RingFacts, BeforeFacts DEF args, Goto, ParentGivesUp, Die, CloseAll
<1>8. CASE Report
  BY <1>0, <1>8, RingFacts, BeforeFacts DEF args, Goto, Report
<1>9. CASE Reap
  BY <1>0, <1>9, RingFacts, BeforeFacts DEF args, Goto, Reap, CloseAll
<1>10. ASSUME NEW k \in Child, Settle(k) PROVE ParentFits'
  BY <1>0, <1>10, RingFacts, BeforeFacts DEF args, Goto, Settle, CloseForeign
<1>11. ASSUME NEW k \in Child, WorkerRead(k) PROVE ParentFits'
  BY <1>0, <1>11, RingFacts, BeforeFacts DEF args, Goto, WorkerRead, Take, Readable
<1>12. ASSUME NEW k \in Child, WorkerWrite(k) PROVE ParentFits'
  BY <1>0, <1>12, RingFacts, BeforeFacts DEF args, Goto, WorkerWrite, Put
<1>13. ASSUME NEW k \in Child, WorkerGivesUp(k) PROVE ParentFits'
  BY <1>0, <1>13, RingFacts, BeforeFacts DEF args, Goto, WorkerGivesUp, Die, CloseAll
<1>14. ASSUME NEW k \in Child, Leave(k) PROVE ParentFits'
  BY <1>0, <1>14, RingFacts, BeforeFacts DEF args, Goto, Leave, CloseAll
<1>15. CASE UNCHANGED vars
  BY <1>15 DEF vars
<1> QED
  BY <1>1, <1>2, <1>3, <1>4, <1>5, <1>6, <1>7, <1>8, <1>9, <1>10, <1>11, <1>12, <1>13, <1>14, <1>15
     DEF Next, ParentStep, WorkerStep, Terminating

(* A worker whose neighbour has left by itself finds nothing amiss. *)
LEMMA NeighboursDone ==
  ASSUME CInv, NEW j \in Child, pc[Parent] \notin {"failed", "fork"}, ends[j] = "none"
  PROVE  sent[j] = iterations
<1>1. pc[j] \in WorkerLabel \ {"unborn", "failed", "new", "read", "write", "leave"}
  BY RingFacts DEF CInv, IInv, TypeOK, EndsFit, RingStands
<1> QED
  BY <1>1 DEF CInv, LeaversDone, WorkerLabel

LEMMA NoWorkerGivesUp ==
  ASSUME CInv, NEW k \in Child, WorkerGivesUp(k), pc[Parent] # "failed"
  PROVE  FALSE
<1> USE RingFacts, BeforeFacts
<1>0. /\ iterations \in Nat /\ sent[k] < iterations /\ k \in Proc /\ Parent \in Proc
      /\ \A i \in Proc : sent[i] \in Nat /\ buf[i] \in Nat
      /\ \A i \in Proc : ends[i] \in {"none", "own", "all"}
      /\ pc[k] \in {"read", "write"}
  BY Numbers DEF CInv, IInv, TypeOK, PipeTypeOK, WorkerCounts, WorkerGivesUp
<1>1. ends[Parent] = IF pc[Parent] = "fork" THEN "all" ELSE "own"
  BY <1>0 DEF CInv, IInv, TypeOK, ParentLabel, ParentFits, EndsFit, WorkersReaped, Gone
<1>2. CASE pc[k] = "read" /\ AtEof(k)
  <2>1. \A i \in Proc : ~CanWrite(i, k)
    BY <1>2 DEF AtEof
  <2>2. pc[Parent] # "fork" /\ Before(k) # Parent
    BY <1>0, <1>1, <2>1 DEF CanWrite
  <2>3. Before(k) \in Child /\ ends[Before(k)] = "none"
    BY <1>0, <2>1, <2>2 DEF CanWrite
  <2>4. sent[Before(k)] = iterations
    BY <2>2, <2>3, NeighboursDone
  <2>5. sent[Before(k)] = sent[k]
    BY <1>0, <1>2 DEF CInv, NoneLost, InHand, AtEof
  <2> QED
    BY <1>0, <2>4, <2>5
<1>3. CASE pc[k] = "write" /\ Broken(Out(k))
  <2>1. \A i \in Proc : ~CanRead(i, Out(k))
    BY <1>3 DEF Broken
  <2>2. pc[Parent] # "fork" /\ Out(k) # Parent
    BY <1>0, <1>1, <2>1 DEF CanRead
  <2>3. Out(k) \in Child /\ ends[Out(k)] = "none"
    BY <1>0, <2>1, <2>2 DEF CanRead
  <2>4. sent[Out(k)] = iterations
    BY <2>2, <2>3, NeighboursDone
  <2>5. sent[k] >= sent[Out(k)]
    BY <1>0, <2>2, <2>3, Numbers DEF CInv, IInv, TokensComeFrom, InHand
  <2> QED
    BY <1>0, <2>4, <2>5
<1> QED
  BY <1>2, <1>3 DEF WorkerGivesUp

LEMMA RingStandsKept == CInv /\ [Next]_vars => RingStands'
<1> SUFFICES ASSUME CInv, [Next]_vars PROVE RingStands'
  OBVIOUS
<1> USE DEF CInv, IInv, TypeOK, PipeTypeOK, ParentLabel, WorkerLabel, RingStands
<1>0. /\ iterations \in Nat /\ Warmup \in Nat \ {0} /\ round \in Nat
      /\ \A i \in Proc : sent[i] \in Nat /\ buf[i] \in Nat
  BY Numbers DEF CInv, IInv
<1>1. ASSUME NEW k \in Child, Fork(k) PROVE RingStands'
  BY <1>0, <1>1, RingFacts, BeforeFacts DEF args, Goto, Fork, Inherit
<1>2. CASE SetupFails
  BY <1>0, <1>2, RingFacts, BeforeFacts DEF args, Goto, SetupFails, Die, CloseAll
<1>3. CASE StartRing
  BY <1>0, <1>3, RingFacts, BeforeFacts DEF args, Goto, StartRing, CloseForeign
<1>4. CASE ParentWrite
  BY <1>0, <1>4, RingFacts, BeforeFacts DEF args, Goto, ParentWrite, Put
<1>5. CASE WarmupRead
  BY <1>0, <1>5, RingFacts, BeforeFacts DEF args, Goto, WarmupRead, NextRound, Take, Readable
<1>6. CASE MeasuredRead
  BY <1>0, <1>6, RingFacts, BeforeFacts DEF args, Goto, MeasuredRead, NextRound, Take, Readable
<1>7. CASE ParentGivesUp
  BY <1>0, <1>7, RingFacts, BeforeFacts DEF args, Goto, ParentGivesUp, Die, CloseAll
<1>8. CASE Report
  BY <1>0, <1>8, RingFacts, BeforeFacts DEF args, Goto, Report
<1>9. CASE Reap
  BY <1>0, <1>9, RingFacts, BeforeFacts DEF args, Goto, Reap, CloseAll
<1>10. ASSUME NEW k \in Child, Settle(k) PROVE RingStands'
  BY <1>0, <1>10, RingFacts, BeforeFacts DEF args, Goto, Settle, CloseForeign
<1>11. ASSUME NEW k \in Child, WorkerRead(k) PROVE RingStands'
  BY <1>0, <1>11, RingFacts, BeforeFacts DEF args, Goto, WorkerRead, Take, Readable
<1>12. ASSUME NEW k \in Child, WorkerWrite(k) PROVE RingStands'
  BY <1>0, <1>12, RingFacts, BeforeFacts DEF args, Goto, WorkerWrite, Put
<1>13. ASSUME NEW k \in Child, WorkerGivesUp(k) PROVE RingStands'
  <2>1. CASE pc[Parent] = "failed"
    BY <1>13, <2>1, RingFacts DEF args, Goto, WorkerGivesUp, Die
  <2>2. CASE pc[Parent] # "failed"
    BY <1>13, <2>2, NoWorkerGivesUp
  <2> QED
    BY <2>1, <2>2
<1>14. ASSUME NEW k \in Child, Leave(k) PROVE RingStands'
  BY <1>0, <1>14, RingFacts, BeforeFacts DEF args, Goto, Leave, CloseAll
<1>15. CASE UNCHANGED vars
  BY <1>15 DEF vars
<1> QED
  BY <1>1, <1>2, <1>3, <1>4, <1>5, <1>6, <1>7, <1>8, <1>9, <1>10, <1>11, <1>12, <1>13, <1>14, <1>15
     DEF Next, ParentStep, WorkerStep, Terminating

(* When the end of file reaches the parent, every worker is through. *)
LEMMA EofMeansDone ==
  ASSUME CInv, pc[Parent] = "read", AtEof(Parent), NEW k \in Child
  PROVE  sent[k] >= iterations
<1> DEFINE last == Parent - 1
<1>0. last \in Child /\ Out(last) = Parent /\ (k = last \/ k < last) /\ k \in Proc /\ last \in Proc
  BY RingAssumption DEF Parent, Child, Proc, Out
<1>1. ends[last] = "none"
  BY <1>0 DEF AtEof, CanWrite, CInv, IInv, TypeOK, PipeTypeOK
<1>2. sent[last] = iterations
  BY <1>0, <1>1, NeighboursDone
<1>3. sent[k] >= sent[last]
  BY <1>0, Numbers DEF CInv, IInv, TokensComeFrom, InHand
<1> QED
  BY <1>2, <1>3

(* A round ends with a token from every worker. *)
LEMMA RoundEnds ==
  ASSUME CInv, pc[Parent] = "read", NEW k \in Child,
         Readable(Parent) \/ (AtEof(Parent) /\ round < Warmup /\ Sustained)
  PROVE  sent[k] >= round + 1
<1>0. /\ iterations \in Nat /\ Warmup \in Nat \ {0} /\ round \in Nat
      /\ \A i \in Proc : sent[i] \in Nat /\ buf[i] \in Nat
      /\ Parent \in Proc /\ k \in Proc
  BY Numbers, RingFacts DEF CInv, IInv
<1>1. CASE Readable(Parent)
  BY <1>0, <1>1 DEF CInv, IInv, TokensReturn, AtEof, Readable
<1>2. CASE AtEof(Parent) /\ round < Warmup /\ Sustained
  BY <1>0, <1>2, EofMeansDone DEF Sustained
<1> QED
  BY <1>1, <1>2

LEMMA RoundsReturnKept == CInv /\ [Next]_vars => RoundsReturn'
<1> SUFFICES ASSUME CInv, [Next]_vars PROVE RoundsReturn'
  OBVIOUS
<1> USE DEF CInv, IInv, TypeOK, RoundsReturn, Sustained
<1>0. /\ iterations \in Nat /\ Warmup \in Nat \ {0} /\ round \in Nat
      /\ \A i \in Proc : sent[i] \in Nat /\ buf[i] \in Nat
  BY Numbers DEF CInv, IInv
<1>1. ASSUME NEW k \in Child, Fork(k) PROVE RoundsReturn'
  BY <1>0, <1>1, RingFacts, BeforeFacts DEF args, Goto, Fork, Inherit
<1>2. CASE SetupFails
  BY <1>0, <1>2, RingFacts, BeforeFacts DEF args, Goto, SetupFails, Die, CloseAll
<1>3. CASE StartRing
  BY <1>0, <1>3, RingFacts, BeforeFacts DEF args, Goto, StartRing, CloseForeign
<1>4. CASE ParentWrite
  BY <1>0, <1>4, RingFacts, BeforeFacts DEF args, Goto, ParentWrite, Put
<1>5. CASE WarmupRead
  <2>1. pc[Parent] = "read" /\ round' = round + 1 /\ UNCHANGED <<sent, iterations>>
    BY <1>5 DEF WarmupRead, NextRound, args
  <2>2. Sustained => \A k \in Child : sent[k] >= round + 1
    BY <1>5, <2>1, RoundEnds DEF WarmupRead
  <2> QED
    BY <2>1, <2>2
<1>6. CASE MeasuredRead
  <2>1. pc[Parent] = "read" /\ round' = round + 1 /\ UNCHANGED <<sent, iterations>>
    BY <1>6 DEF MeasuredRead, NextRound, args
  <2>2. Sustained => \A k \in Child : sent[k] >= round + 1
    BY <1>6, <2>1, RoundEnds DEF MeasuredRead
  <2> QED
    BY <2>1, <2>2
<1>7. CASE ParentGivesUp
  BY <1>0, <1>7, RingFacts, BeforeFacts DEF args, Goto, ParentGivesUp, Die, CloseAll
<1>8. CASE Report
  BY <1>0, <1>8, RingFacts, BeforeFacts DEF args, Goto, Report
<1>9. CASE Reap
  BY <1>0, <1>9, RingFacts, BeforeFacts DEF args, Goto, Reap, CloseAll
<1>10. ASSUME NEW k \in Child, Settle(k) PROVE RoundsReturn'
  BY <1>0, <1>10, RingFacts, BeforeFacts DEF args, Goto, Settle, CloseForeign
<1>11. ASSUME NEW k \in Child, WorkerRead(k) PROVE RoundsReturn'
  BY <1>0, <1>11, RingFacts, BeforeFacts DEF args, Goto, WorkerRead, Take, Readable
<1>12. ASSUME NEW k \in Child, WorkerWrite(k) PROVE RoundsReturn'
  BY <1>0, <1>12, RingFacts, BeforeFacts DEF args, Goto, WorkerWrite, Put
<1>13. ASSUME NEW k \in Child, WorkerGivesUp(k) PROVE RoundsReturn'
  BY <1>0, <1>13, RingFacts, BeforeFacts DEF args, Goto, WorkerGivesUp, Die, CloseAll
<1>14. ASSUME NEW k \in Child, Leave(k) PROVE RoundsReturn'
  BY <1>0, <1>14, RingFacts, BeforeFacts DEF args, Goto, Leave, CloseAll
<1>15. CASE UNCHANGED vars
  BY <1>15 DEF vars
<1> QED
  BY <1>1, <1>2, <1>3, <1>4, <1>5, <1>6, <1>7, <1>8, <1>9, <1>10, <1>11, <1>12, <1>13, <1>14, <1>15
     DEF Next, ParentStep, WorkerStep, Terminating

LEMMA CInvKept == CInv /\ [Next]_vars => CInv'
  BY IInvKept, LeaversKept, NoneLostKept, ParentFitsKept, RingStandsKept, RoundsReturnKept
     DEF CInv

LEMMA CInvHolds == Spec => []CInv
  BY CInvStart, CInvKept, PTL DEF Spec

(***************************************************************************)
(* The refinement.                                                         *)
(***************************************************************************)
LEMMA NodeFacts ==
  /\ 0 \in 0 .. N-1 /\ NodeProc(0) = Parent
  /\ \A n \in 0 .. N-1 : n # 0 => NodeProc(n) = n - 1 /\ n - 1 \in Child
  /\ \A k \in Child : k + 1 \in 0 .. N-1 /\ NodeProc(k + 1) = k
  /\ \A n \in 0 .. N-1 : NodeProc(n) \in Proc
  BY RingAssumption DEF NodeProc, Child, Proc, Parent

(* The first node behind has the token. *)
LEMMA FirstBehind ==
  ASSUME NEW h \in Behind, \A m \in Behind : h <= m, Behind \subseteq Nat
  PROVE  Holder = h
<1> DEFINE c == CHOOSE n \in Behind : \A m \in Behind : n <= m
<1>1. c \in Behind /\ \A m \in Behind : c <= m
  OBVIOUS
<1>2. Holder = c
  BY DEF Holder
<1> HIDE DEF c
<1>3. c <= h /\ h <= c /\ c \in Nat /\ h \in Nat
  BY <1>1
<1> QED
  BY <1>2, <1>3

LEMMA NobodyBehind == Behind = {} => Holder = 0
  BY DEF Holder

(* The same for the state after a step. *)
LEMMA FirstBehindNext ==
  ASSUME NEW h \in Behind', \A m \in Behind' : h <= m, Behind' \subseteq Nat
  PROVE  Holder' = h
<1> DEFINE c == CHOOSE n \in Behind' : \A m \in Behind' : n <= m
<1>1. c \in Behind' /\ \A m \in Behind' : c <= m
  OBVIOUS
<1>2. Holder' = c
  BY DEF Holder
<1> HIDE DEF c
<1>3. c <= h /\ h <= c /\ c \in Nat /\ h \in Nat
  BY <1>1
<1> QED
  BY <1>2, <1>3

LEMMA NobodyBehindNext == Behind' = {} => Holder' = 0
  BY DEF Holder

(* Who is behind, process by process. *)
LEMMA BehindIs ==
  ASSUME CInv
  PROVE  Behind = {n \in 0 .. N-1 : n # 0 /\ sent[n - 1] < sent[Parent]}
<1>1. \A n \in 0 .. N-1 : Laps[n] = sent[NodeProc(n)]
  BY DEF Laps
<1>2. sent[Parent] \in Nat
  BY Numbers, RingFacts DEF CInv, IInv
<1> QED
  BY <1>1, <1>2, NodeFacts DEF Behind

LEMMA BehindIsNext ==
  ASSUME CInv'
  PROVE  Behind' = {n \in 0 .. N-1 : n # 0 /\ sent'[n - 1] < sent'[Parent]}
<1>1. \A n \in 0 .. N-1 : Laps'[n] = sent'[NodeProc(n)]
  BY DEF Laps, NodeProc
<1>2. sent'[Parent] \in Nat
  <2>1. Parent \in Proc /\ sent' \in [Proc -> 0 .. (Warmup + iterations')]
    BY RingFacts DEF CInv, IInv, TypeOK
  <2>2. Warmup \in Nat /\ iterations' \in Nat
    BY BenchAssumption DEF CInv, IInv, TypeOK
  <2> QED
    BY <2>1, <2>2
<1> QED
  BY <1>1, <1>2, NodeFacts DEF Behind

(* A token written by process i is a hand-over by its node. *)
LEMMA LapsPass ==
  ASSUME CInv, NEW n \in 0 .. N-1,
         sent' = [sent EXCEPT ![NodeProc(n)] = @ + 1]
  PROVE  Laps' = [Laps EXCEPT ![n] = @ + 1]
<1>1. \A m \in 0 .. N-1 : sent'[NodeProc(m)] = IF m = n THEN sent[NodeProc(m)] + 1 ELSE sent[NodeProc(m)]
  <2>1. \A m \in 0 .. N-1 : NodeProc(m) = NodeProc(n) <=> m = n
    BY RingAssumption DEF NodeProc, Parent
  <2>2. sent \in [Proc -> 0 .. (Warmup + iterations)]
    BY DEF CInv, IInv, TypeOK
  <2> QED
    BY <2>1, <2>2, NodeFacts
<1>2. Laps' = [m \in 0 .. N-1 |-> sent'[NodeProc(m)]]
  BY DEF Laps, NodeProc
<1> QED
  BY <1>1, <1>2 DEF Laps

(* Nobody is ahead of the parent, and nobody more than a round behind. *)
LEMMA Levels ==
  ASSUME CInv, Sustained, NEW k \in Child
  PROVE  sent[k] <= sent[Parent] /\ sent[Parent] <= sent[k] + 1
BY Numbers, RingFacts
   DEF CInv, IInv, TokensComeFrom, InHand, RoundsReturn, ParentFits

LEMMA ParentPasses ==
  ASSUME CInv, CInv', Sustained, ParentWrite
  PROVE  Holder = 0 /\ Holder' = 1 /\ Laps' = [Laps EXCEPT ![0] = @ + 1]
<1>0. /\ \A i \in Proc : sent[i] \in Nat
      /\ \A n \in 0 .. N-1 : n # 0 => n - 1 \in Child /\ n - 1 \in Proc /\ n - 1 # Parent
      /\ 1 \in 0 .. N-1 /\ sent \in [Proc -> 0 .. (Warmup + iterations)]
      /\ Parent \in Proc
  BY Numbers, RingFacts, NodeFacts, RingAssumption DEF CInv, IInv, TypeOK
<1>1. sent[Parent] = round /\ sent' = [sent EXCEPT ![Parent] = @ + 1]
  BY DEF ParentWrite, CInv, IInv, ParentCounts
<1>2. \A k \in Child : sent[k] = sent[Parent]
  <2>1. \A k \in Child : sent[k] >= round
    BY DEF CInv, RoundsReturn
  <2> QED
    BY <1>0, <1>1, <2>1, Levels, RingFacts
<1>3. Behind = {}
  BY <1>0, <1>2, BehindIs
<1>4. \A n \in 0 .. N-1 : n # 0 => sent'[n - 1] < sent'[Parent]
  BY <1>0, <1>1, <1>2
<1>5. Behind' = {n \in 0 .. N-1 : n # 0}
  BY <1>4, BehindIsNext
<1>6. Holder' = 1
  <2>1. 1 \in Behind' /\ Behind' \subseteq Nat /\ \A m \in Behind' : 1 <= m
    BY <1>0, <1>5, RingAssumption
  <2> QED
    BY <2>1, FirstBehindNext
<1> QED
  BY <1>1, <1>3, <1>6, NobodyBehind, LapsPass, NodeFacts

LEMMA WorkerPasses ==
  ASSUME CInv, CInv', Sustained, NEW k \in Child, WorkerWrite(k)
  PROVE  /\ Holder = k + 1 /\ Laps' = [Laps EXCEPT ![k + 1] = @ + 1]
         /\ Holder' = IF k + 1 = N - 1 THEN 0 ELSE k + 2
<1>0. /\ \A i \in Proc : sent[i] \in Nat /\ buf[i] \in Nat
      /\ \A n \in 0 .. N-1 : n # 0 => n - 1 \in Child /\ n - 1 \in Proc /\ n - 1 # Parent
      /\ k \in 0 .. N-2 /\ k \in Proc /\ k # Parent /\ N \in Nat /\ N >= 2
      /\ sent \in [Proc -> 0 .. (Warmup + iterations)] /\ Parent \in Proc
      /\ \A j \in 0 .. N-2 : j \in Child
  BY Numbers, RingFacts, NodeFacts, RingAssumption DEF CInv, IInv, TypeOK, Child
<1>1. sent' = [sent EXCEPT ![k] = @ + 1] /\ pc[k] = "write"
  BY DEF WorkerWrite
<1>2. \A i \in Proc : i = Parent \/ i < k => sent[i] >= sent[k] + 1
  BY <1>0, <1>1 DEF CInv, IInv, TokensComeFrom, InHand
<1>3. sent[Parent] = sent[k] + 1
  BY <1>0, <1>2, Levels
<1>4. \A j \in Child : j < k => sent[j] = sent[Parent]
  BY <1>0, <1>2, <1>3, Levels, RingFacts
<1>5. \A j \in Child : k < j => sent[j] = sent[k]
  <2> SUFFICES ASSUME NEW j \in Child, k < j PROVE sent[j] = sent[k]
    OBVIOUS
  <2>1. sent[k] >= sent[j]
    BY <1>0, RingFacts DEF CInv, IInv, TokensComeFrom, InHand
  <2>2. sent[Parent] <= sent[j] + 1
    BY Levels
  <2>3. sent[j] \in Nat /\ sent[k] \in Nat
    BY <1>0, RingFacts
  <2> QED
    BY <1>3, <2>1, <2>2, <2>3
<1>6. Behind = {n \in 0 .. N-1 : n >= k + 1}
  <2>1. \A n \in 0 .. N-1 : (n # 0 /\ sent[n - 1] < sent[Parent]) <=> n >= k + 1
    <3> SUFFICES ASSUME NEW n \in 0 .. N-1
                 PROVE  (n # 0 /\ sent[n - 1] < sent[Parent]) <=> n >= k + 1
      OBVIOUS
    <3>1. CASE n = 0
      BY <1>0, <3>1
    <3>2. CASE n # 0
      BY <1>0, <1>3, <1>4, <1>5, <3>2
    <3> QED
      BY <3>1, <3>2
  <2> QED
    BY <2>1, BehindIs
<1>7. Holder = k + 1
  <2>1. k + 1 \in Behind /\ Behind \subseteq Nat /\ \A m \in Behind : k + 1 <= m
    BY <1>0, <1>6
  <2> QED
    BY <2>1, FirstBehind
<1>8. Behind' = {n \in 0 .. N-1 : n >= k + 2}
  <2>1. \A n \in 0 .. N-1 : (n # 0 /\ sent'[n - 1] < sent'[Parent]) <=> n >= k + 2
    <3> SUFFICES ASSUME NEW n \in 0 .. N-1
                 PROVE  (n # 0 /\ sent'[n - 1] < sent'[Parent]) <=> n >= k + 2
      OBVIOUS
    <3>1. CASE n = 0
      BY <1>0, <3>1
    <3>2. CASE n # 0
      BY <1>0, <1>1, <1>3, <1>4, <1>5, <3>2
    <3> QED
      BY <3>1, <3>2
  <2> QED
    BY <2>1, BehindIsNext
<1>9. Laps' = [Laps EXCEPT ![k + 1] = @ + 1]
  BY <1>1, LapsPass, NodeFacts
<1>10. CASE k + 1 = N - 1
  <2>1. Behind' = {}
    BY <1>0, <1>8, <1>10
  <2> QED
    BY <1>7, <1>9, <1>10, <2>1, NobodyBehindNext
<1>11. CASE k + 1 # N - 1
  <2>1. k + 2 \in Behind' /\ Behind' \subseteq Nat /\ \A m \in Behind' : k + 2 <= m
    BY <1>0, <1>8, <1>11
  <2> QED
    BY <1>7, <1>9, <1>11, <2>1, FirstBehindNext
<1> QED
  BY <1>10, <1>11

LEMMA RingStart == CInv /\ Init => Ring!RingInit
<1> SUFFICES ASSUME CInv, Init PROVE Ring!RingInit
  OBVIOUS
<1>1. \A i \in Proc : sent[i] = 0
  BY DEF Init
<1>2. Laps = [n \in 0 .. N-1 |-> 0]
  BY <1>1, NodeFacts DEF Laps
<1>3. Behind = {}
  BY <1>2, NodeFacts DEF Behind
<1> QED
  BY <1>2, <1>3, NobodyBehind DEF Ring!RingInit, Ring!Node

(* The steps that write no token. *)
LEMMA Invisible ==
  ASSUME CInv, [Next]_vars, ~ParentWrite, \A k \in Child : ~WorkerWrite(k)
  PROVE  sent' = sent
BY DEF Next, ParentStep, WorkerStep, Terminating, Fork, SetupFails, Die, StartRing,
       WarmupRead, MeasuredRead, ParentGivesUp, Report, Reap, Settle, WorkerRead,
       WorkerGivesUp, Leave, vars

LEMMA RingStep == CInv /\ CInv' /\ [Next]_vars => [Ring!RingNext]_(Ring!ringVars)
<1> SUFFICES ASSUME CInv, CInv', [Next]_vars
             PROVE  Ring!RingNext \/ UNCHANGED Ring!ringVars
  BY DEF Ring!ringVars
<1>0. Sustained' = Sustained
  BY DEF Sustained, args, vars, Next, ParentStep, WorkerStep, Terminating, Fork, SetupFails, Die,
         StartRing, ParentWrite, WarmupRead, MeasuredRead, ParentGivesUp, Report, Reap,
         Settle, WorkerRead, WorkerWrite, WorkerGivesUp, Leave
<1>1. CASE ~Sustained
  BY <1>0, <1>1 DEF Ring!ringVars
<1>2. CASE Sustained /\ ParentWrite
  <2>1. Ring!Pass(0)
    BY <1>0, <1>2, ParentPasses, RingAssumption DEF Ring!Pass, Ring!Succ
  <2> QED
    BY <2>1, NodeFacts DEF Ring!RingNext, Ring!Node
<1>3. ASSUME Sustained, NEW k \in Child, WorkerWrite(k) PROVE Ring!RingNext
  <2>1. Ring!Succ(k + 1) = IF k + 1 = N - 1 THEN 0 ELSE k + 2
    BY RingAssumption DEF Ring!Succ, Child
  <2>2. Ring!Pass(k + 1)
    BY <1>0, <1>3, <2>1, WorkerPasses DEF Ring!Pass
  <2> QED
    BY <2>2, NodeFacts DEF Ring!RingNext, Ring!Node
<1>4. CASE Sustained /\ ~ParentWrite /\ \A k \in Child : ~WorkerWrite(k)
  <2>1. sent' = sent
    BY <1>4, Invisible
  <2>2. Laps' = Laps
    BY <2>1 DEF Laps, NodeProc
  <2>3. Holder' = Holder
    BY <2>2 DEF Holder, Behind
  <2> QED
    BY <1>0, <2>2, <2>3 DEF Ring!ringVars
<1> QED
  BY <1>1, <1>2, <1>3, <1>4

(***************************************************************************)
(* ctx_switch_bench.c implements the token ring: whatever breaks, every    *)
(* token written is a hand-over by the party whose turn it is.             *)
(***************************************************************************)
THEOREM CtxIsRing == Spec => ImplementsRing
  BY CInvStart, CInvHolds, RingStart, RingStep, PTL
     DEF Spec, ImplementsRing, Ring!RingSpec
=============================================================================
