------------------------------ MODULE BwMem64a ------------------------------
(***************************************************************************)
(* bw_mem64a.c: reads and writes written as instructions, 512-byte chunks, *)
(* one buffer.  Widths and places are those of the x86-64 build.           *)
(***************************************************************************)
EXTENDS MemKernels

Chunk == 512

\* DOIT_n(0, step): n accesses, step bytes apart, from the start.
DOIT(n, step) == {k * step : k \in 0 .. n - 1}

frd == Reads(Chunk, 8, DOIT(64, 8))
fwr == Writes(Chunk, 8, DOIT(64, 8))
rd16 == Reads(Chunk, 8, DOIT(32, 16))
wr16 == Writes(Chunk, 8, DOIT(32, 16))
rd32 == Reads(Chunk, 8, DOIT(16, 32))
wr32 == Writes(Chunk, 8, DOIT(16, 32))
rd64 == Reads(Chunk, 8, DOIT(8, 64))
wr64 == Writes(Chunk, 8, DOIT(8, 64))

frd_sse == Reads(Chunk, 16, DOIT(32, 16))
frd_ssep == Reads(Chunk, 8, DOIT(64, 8))
frd_ssen == Reads(Chunk, 8, DOIT(64, 8))
fwr_sse == Writes(Chunk, 16, DOIT(32, 16))
fwr_ssep == Writes(Chunk, 8, DOIT(64, 8))
fwr_ssen == Writes(Chunk, 8, DOIT(64, 8))
frd_avx == Reads(Chunk, 32, DOIT(16, 32))
fwr_avx == Writes(Chunk, 32, DOIT(16, 32))

main(nbytes) ==
    [frd |-> frd, fwr |-> fwr, rd16 |-> rd16, wr16 |-> wr16, rd32 |-> rd32,
     wr32 |-> wr32, rd64 |-> rd64, wr64 |-> wr64, frd_sse |-> frd_sse,
     frd_ssep |-> frd_ssep, frd_ssen |-> frd_ssen, fwr_sse |-> fwr_sse,
     fwr_ssep |-> fwr_ssep, fwr_ssen |-> fwr_ssen, frd_avx |-> frd_avx,
     fwr_avx |-> fwr_avx]

init_loop(nbytes) ==
    [size |-> nbytes, lastone |-> nbytes - Chunk, size2 |-> 0, buf2 |-> 0]

cleanup(state) == {"buf"}

adjusted_bandwidth(time, iter, parallel) ==
    IF time = 0 THEN nothing ELSE [u |-> time, n |-> iter * parallel]
======================================================================
