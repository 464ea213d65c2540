-------------------------------- MODULE BwMmap --------------------------------
(***************************************************************************)
(* bw_mmap_rd.c: reads a mapped file with bread of lib_timing.c.  With -C  *)
(* every child reads a copy of the file that it makes itself.  A child     *)
(* holds the copy, an open file and a mapping; "open2close" has the last   *)
(* two only during a turn.                                                 *)
(***************************************************************************)
EXTENDS MemKernels

Long == 8

\* The next step of bread with so many bytes left: 128 longs at a time, then
\* 16, then one.
bread(left) ==
    LET longs == IF left >= 128 * Long THEN 128
                 ELSE IF left >= 16 * Long THEN 16 ELSE 1
    IN  Reads(longs * Long, Long, Every(longs * Long, Long))

\* The sizes that main takes for a file of so many bytes.
main(file) == 512 .. file

copy(prog) == {c \in {"copy"} : prog = "bw_mmap_rd -C"}

\* bread stops where less than a long is left.
initialize(nbytes) ==
    [size |-> nbytes, lastone |-> nbytes - Long, size2 |-> 0, buf2 |-> 0]

init_open(what) == IF what = "mmap_only" THEN {"fd", "map"} ELSE {}

time_with_open(what) == IF what = "open2close" THEN {"fd", "map"} ELSE {}

\* Mutant of cleanup: the copy is left behind.
cleanupButCopy(prog, what) == init_open(what)

cleanup(prog, what) == init_open(what) \cup copy(prog)

\* Unlike adjusted_bandwidth it prints whatever the time.
bandwidth(time, times, parallel) == [u |-> time, n |-> times * parallel]
=============================================================================
