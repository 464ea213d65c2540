------------------------------ MODULE BwMem64d ------------------------------
(***************************************************************************)
(* bw_mem64d.c: four kernels of bw_mem64.c with a delay after each access. *)
(***************************************************************************)
EXTENDS MemKernels

Chunk == 512
Word == 8

rd == Reads(Chunk, Word, Every(Chunk, 2 * Word))
wr == Writes(Chunk, Word, Every(Chunk, 2 * Word))
fwr == Writes(Chunk, Word, Every(Chunk, Word))
frd == Reads(Chunk, Word, Every(Chunk, Word))

main(nbytes) == [rd |-> rd, wr |-> wr, frd |-> frd, fwr |-> fwr]

init_loop(nbytes) ==
    [size |-> nbytes, lastone |-> nbytes - Chunk, size2 |-> 0, buf2 |-> 0]

cleanup(state) == {"buf"}

adjusted_bandwidth(time, iter, parallel) ==
    IF time = 0 THEN nothing ELSE [u |-> time, n |-> iter * parallel]
======================================================================
