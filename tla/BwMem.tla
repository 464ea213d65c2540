-------------------------------- MODULE BwMem --------------------------------
(***************************************************************************)
(* bw_mem.c: the kernels of the 4-byte bandwidth program, over chunks of   *)
(* 512 bytes, and what its main and init_loop set up.                      *)
(***************************************************************************)
EXTENDS MemKernels

Chunk == 512
Word == 4

\* One word in four, which is one access in each 16 bytes.
rd == Reads(Chunk, Word, Every(Chunk, 4 * Word))
wr == Writes(Chunk, Word, Every(Chunk, 4 * Word))
rdwr == Updates(Chunk, Word, Every(Chunk, 4 * Word))
mcp == Copies(Chunk, Word, Every(Chunk, 4 * Word))

\* Every word.
fwr == Writes(Chunk, Word, Every(Chunk, Word))
frd == Reads(Chunk, Word, Every(Chunk, Word))
fcp == Copies(Chunk, Word, Every(Chunk, Word))

\* The library calls take the whole buffer at once.
loop_bzero(nbytes) == Writes(nbytes, nbytes, {0})
loop_bcopy(nbytes) == Copies(nbytes, nbytes, {0})

\* The kernel each name of the usage line selects.
main(nbytes) ==
    [rd |-> rd, wr |-> wr, rdwr |-> rdwr, cp |-> mcp, frd |-> frd, fwr |-> fwr,
     fcp |-> fcp, bzero |-> loop_bzero(nbytes), bcopy |-> loop_bcopy(nbytes)]

needBuf2 == {"cp", "fcp", "bcopy"}

\* Mutant of init_loop: the last chunk may start at the end of the buffer.
init_loopToTheEnd(nbytes, what, aligned) ==
    [size |-> nbytes, lastone |-> nbytes,
     size2 |-> IF what \in needBuf2 THEN nbytes + 2048 ELSE 0,
     buf2 |-> IF aligned THEN 2048 - 128 ELSE 0]

\* Mutant of init_loop: the second buffer is only as long as the first.
init_loopNoSlack(nbytes, what, aligned) ==
    [size |-> nbytes, lastone |-> nbytes - Chunk,
     size2 |-> IF what \in needBuf2 THEN nbytes ELSE 0,
     buf2 |-> IF aligned THEN 2048 - 128 ELSE 0]

\* The sizes of the two allocations, where the last chunk starts, and where
\* in its allocation the second buffer starts.
init_loop(nbytes, what, aligned) ==
    [size |-> nbytes, lastone |-> nbytes - Chunk,
     size2 |-> IF what \in needBuf2 THEN nbytes + 2048 ELSE 0,
     buf2 |-> IF aligned THEN 2048 - 128 ELSE 0]

\* What cleanup gives back.
cleanup(state) == {"buf"} \cup {b \in {"buf2"} : state.size2 > 0}

\* The rate counts the operations of all children; nothing is printed for a
\* time of zero.
adjusted_bandwidth(time, iter, parallel) ==
    IF time = 0 THEN nothing ELSE [u |-> time, n |-> iter * parallel]
======================================================================
