------------------------------ MODULE BwMem64p ------------------------------
(***************************************************************************)
(* bw_mem64p.c: streams of loads with one store in two, three, four, five  *)
(* or six lines, over chunks of 3840 bytes, the smallest that all five     *)
(* patterns divide.  The variants ending in `a' are the same patterns as   *)
(* instructions.                                                           *)
(***************************************************************************)
EXTENDS MemKernels

Chunk == 3840
Word == 8

\* n groups of k lines: the first word of each line is read, but that of the
\* last is written.
Pattern(n, k) ==
    LET groups == {g * k * 64 : g \in 0 .. n - 1}
    IN  ReadsWrites(Chunk, Word,
                    UNION {After(groups, l * 64) : l \in 0 .. k - 2},
                    After(groups, (k - 1) * 64))

rw21 == Pattern(30, 2)
rw31 == Pattern(20, 3)
rw41 == Pattern(15, 4)
rw51 == Pattern(12, 5)
rw61 == Pattern(10, 6)

rw21a == Pattern(30, 2)

\* Mutant of rw31a: the second half of the unrolled groups starts one group
\* early, so that a line is touched twice and the last lines never.
rw31aOverlap ==
    LET half == {g * 192 : g \in 0 .. 9}
        groups == half \cup After(half, 1920 - 192)
    IN  ReadsWrites(Chunk, Word, groups \cup After(groups, 64),
                    After(groups, 128))

rw31a == Pattern(20, 3)
rw41a == Pattern(15, 4)
rw51a == Pattern(12, 5)
rw61a == Pattern(10, 6)

main(nbytes) ==
    [rw21 |-> rw21, rw31 |-> rw31, rw41 |-> rw41, rw51 |-> rw51, rw61 |-> rw61,
     rw21a |-> rw21a, rw31a |-> rw31a, rw41a |-> rw41a, rw51a |-> rw51a,
     rw61a |-> rw61a]

init_loop(nbytes) ==
    [size |-> nbytes, lastone |-> nbytes - Chunk, size2 |-> 0, buf2 |-> 0]

cleanup(state) == {"buf"}

adjusted_bandwidth(time, iter, parallel) ==
    IF time = 0 THEN nothing ELSE [u |-> time, n |-> iter * parallel]
======================================================================
