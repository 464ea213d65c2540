------------------------------- MODULE BwMem64 -------------------------------
(***************************************************************************)
(* bw_mem64.c: the same with 8-byte words, with kernels that touch a       *)
(* fixed number of bytes apart (8, 32 or 64), and with vector and cache    *)
(* instructions.                                                           *)
(***************************************************************************)
EXTENDS MemKernels

Chunk == 512
Word == 8

\* One word in two.
rd == Reads(Chunk, Word, Every(Chunk, 2 * Word))
wr == Writes(Chunk, Word, Every(Chunk, 2 * Word))
rdwr == Updates(Chunk, Word, Every(Chunk, 2 * Word))
mcp == Copies(Chunk, Word, Every(Chunk, 2 * Word))

\* Every word.
fwr == Writes(Chunk, Word, Every(Chunk, Word))
frd == Reads(Chunk, Word, Every(Chunk, Word))
fcp == Copies(Chunk, Word, Every(Chunk, Word))
rd8 == Reads(Chunk, Word, Every(Chunk, Word))
wr8 == Writes(Chunk, Word, Every(Chunk, Word))
rdwr8 == Updates(Chunk, Word, Every(Chunk, Word))
mcp8 == Copies(Chunk, Word, Every(Chunk, Word))

\* One word in 32 bytes.
rd32 == Reads(Chunk, Word, Every(Chunk, 32))
wr32 == Writes(Chunk, Word, Every(Chunk, 32))
rdwr32 == Updates(Chunk, Word, Every(Chunk, 32))
mcp32 == Copies(Chunk, Word, Every(Chunk, 32))

\* Mutant of rd64: one word in 128 bytes.
rd64Apart == Reads(Chunk, Word, Every(Chunk, 128))

\* One word in 64 bytes.
rd64 == Reads(Chunk, Word, Every(Chunk, 64))
wr64 == Writes(Chunk, Word, Every(Chunk, 64))
rdwr64 == Updates(Chunk, Word, Every(Chunk, 64))
mcp64 == Copies(Chunk, Word, Every(Chunk, 64))

\* Whole lines at a time, a string instruction, and vector registers.
wrc == Writes(Chunk, 64, Every(Chunk, 64))
wrs == Writes(Chunk, Word, Every(Chunk, Word))
fwr_sse == Writes(Chunk, 16, Every(Chunk, 16))
frd_sse == Reads(Chunk, 16, Every(Chunk, 16))
fwr_avx == Writes(Chunk, 32, Every(Chunk, 32))
frd_avx == Reads(Chunk, 32, Every(Chunk, 32))

loop_bzero(nbytes) == Writes(nbytes, nbytes, {0})
loop_bcopy(nbytes) == Copies(nbytes, nbytes, {0})

\* The kernel each name selects; rd16 and its like are rd and its like.
main(nbytes) ==
    [rd |-> rd, wr |-> wr, rdwr |-> rdwr, cp |-> mcp,
     frd |-> frd, fwr |-> fwr, fcp |-> fcp,
     bzero |-> loop_bzero(nbytes), bcopy |-> loop_bcopy(nbytes),
     rd8 |-> rd8, wr8 |-> wr8, rdwr8 |-> rdwr8, cp8 |-> mcp8,
     rd16 |-> rd, wr16 |-> wr, rdwr16 |-> rdwr, cp16 |-> mcp,
     rd32 |-> rd32, wr32 |-> wr32, rdwr32 |-> rdwr32, cp32 |-> mcp32,
     rd64 |-> rd64, wr64 |-> wr64, rdwr64 |-> rdwr64, cp64 |-> mcp64,
     wrc |-> wrc, wrs |-> wrs, fwr_sse |-> fwr_sse, frd_sse |-> frd_sse,
     fwr_avx |-> fwr_avx, frd_avx |-> frd_avx]

\* Only the names of the usage line that copy: cp8, cp16, cp32 and cp64 run
\* with the second pointer never set.
needBuf2 == {"cp", "fcp", "bcopy"}

init_loop(nbytes, what, aligned) ==
    [size |-> nbytes, lastone |-> nbytes - Chunk,
     size2 |-> IF what \in needBuf2 THEN nbytes + 2048 ELSE 0,
     buf2 |-> IF aligned THEN 2048 - 128 ELSE 0]

\* Mutant of cleanup: the second buffer is forgotten.
cleanupFirstOnly(state) == {"buf"}

cleanup(state) == {"buf"} \cup {b \in {"buf2"} : state.size2 > 0}

adjusted_bandwidth(time, iter, parallel) ==
    IF time = 0 THEN nothing ELSE [u |-> time, n |-> iter * parallel]
======================================================================
