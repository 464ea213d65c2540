------------------------------- MODULE Results -------------------------------
(***************************************************************************)
(* The list of timing results of lib_timing.c: pairs of a time u (whole    *)
(* microseconds) and the number n of operations it took, biggest time per  *)
(* operation first.                                                        *)
(***************************************************************************)
EXTENDS Naturals, Sequences

Result(u, n) == [u |-> u, n |-> n]

\* a takes longer per operation than b.
Slower(a, b) == a.u * b.n > b.u * a.n

insertinit == <<>>

\* Mutant of insertsort: a result is put before the first that is not faster.
insertsortBeforeSlower(u, n, r) ==
    LET new == Result(u, n)
        i == CHOOSE i \in 1 .. Len(r) + 1 :
                /\ i <= Len(r) => ~Slower(new, r[i])
                /\ \A j \in 1 .. i - 1 : Slower(new, r[j])
    IN  IF u = 0 THEN r ELSE SubSeq(r, 1, i - 1) \o <<new>> \o SubSeq(r, i, Len(r))

\* Mutant of insertsort: a time of zero is kept.
insertsortKeepsZero(u, n, r) ==
    LET new == Result(u, n)
        i == CHOOSE i \in 1 .. Len(r) + 1 :
                /\ i <= Len(r) => Slower(new, r[i])
                /\ \A j \in 1 .. i - 1 : ~Slower(new, r[j])
    IN  SubSeq(r, 1, i - 1) \o <<new>> \o SubSeq(r, i, Len(r))

\* A time of zero is dropped; another result goes before the first that is
\* faster.
insertsort(u, n, r) ==
    LET new == Result(u, n)
        i == CHOOSE i \in 1 .. Len(r) + 1 :
                /\ i <= Len(r) => Slower(new, r[i])
                /\ \A j \in 1 .. i - 1 : ~Slower(new, r[j])
    IN  IF u = 0 THEN r ELSE SubSeq(r, 1, i - 1) \o <<new>> \o SubSeq(r, i, Len(r))

save_minimum(r) == IF r = <<>> THEN Result(0, 1) ELSE r[Len(r)]

\* Mutant of save_median: of an even number the two on the wrong side of the
\* middle are averaged.
save_medianOffByOne(r) ==
    LET i == Len(r) \div 2 + 1
    IN  IF r = <<>> THEN Result(0, 1)
        ELSE IF Len(r) % 2 = 1 THEN r[i]
        ELSE Result(r[i].u + r[i - 1].u \div 2, (r[i].n + r[i - 1].n) \div 2)

\* The middle result, or whole averages of the times and of the counts of the
\* two in the middle.
save_median(r) ==
    LET i == Len(r) \div 2 + 1
    IN  IF r = <<>> THEN Result(0, 1)
        ELSE IF Len(r) % 2 = 1 THEN r[i]
        ELSE Result((r[i].u + r[i - 1].u) \div 2, (r[i].n + r[i - 1].n) \div 2)
=============================================================================
