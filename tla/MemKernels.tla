----------------------------- MODULE MemKernels -----------------------------
(***************************************************************************)
(* What the loops of the memory bandwidth programs do to memory.  Each of  *)
(* them walks a buffer in chunks of a fixed number of bytes and unrolls    *)
(* the accesses of one chunk.  A kernel says how far the pointer moves     *)
(* from one chunk to the next, how wide an access is, and at which byte    *)
(* offsets of the chunk it reads, writes, or copies to the second buffer.  *)
(* The order inside a chunk and the values are abstracted.                 *)
(***************************************************************************)
EXTENDS Naturals

\* DOIT(0) DOIT(step) DOIT(2 * step) ... up to the end of the chunk.
Every(chunk, step) == {k * step : k \in 0 .. (chunk \div step) - 1}

After(places, distance) == {k + distance : k \in places}

ReadsWrites(chunk, width, reads, writes) ==
    [chunk |-> chunk, width |-> width,
     reads |-> reads, writes |-> writes, copies |-> {}]

Reads(chunk, width, places) == ReadsWrites(chunk, width, places, {})

Writes(chunk, width, places) == ReadsWrites(chunk, width, {}, places)

Updates(chunk, width, places) == ReadsWrites(chunk, width, places, places)

Copies(chunk, width, places) ==
    [Reads(chunk, width, places) EXCEPT !.copies = places]

\* What a program prints when it has measured no time.
nothing == [nothing |-> TRUE]

\* The 64-byte lines that a chunk of the kernel at p touches.
LineBytes == 64

Lines(kernel, p) ==
    UNION {(p + k) \div LineBytes .. (p + k + kernel.width - 1) \div LineBytes :
              k \in kernel.reads \cup kernel.writes}

\* No access of the kernel leaves a block of `size` bytes when its chunk
\* starts at p.
Within(places, width, p, size) == \A k \in places : p + k + width <= size
=============================================================================
