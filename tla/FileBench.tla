------------------------------- MODULE FileBench -------------------------------
(***************************************************************************)
(* The programs of lmbench that measure a file: bw_file_rd reads it in     *)
(* pieces, lat_mmap maps it and touches some of its pages, lat_pagefault   *)
(* touches each page of a fresh mapping.  They run in the harness as the   *)
(* programs of MemoryBench do, whose variables they use: p is the place in *)
(* the file, seen the pages touched in a turn, loads the bytes or pages    *)
(* read in a turn, held what a child has open, mapped or allocated, or has *)
(* left on disk: with -C it works on a copy that it makes itself.          *)
(***************************************************************************)
EXTENDS MemoryBench

CONSTANTS FileJobs,       \* [prog, what, size, file, clone]
          XFERSIZE,       \* the most that bw_file_rd reads at once
          PSIZE,          \* the pages of lat_mmap
          PageBytes,      \* the pages of lat_pagefault
          MINFILE         \* the shortest file lat_pagefault takes

FilePrograms == {"bw_file_rd", "lat_mmap", "lat_pagefault"}

ASSUME FileAssumption ==
    /\ FileJobs \subseteq [prog : FilePrograms, what : STRING, size : Nat, file : Nat,
                          clone : BOOLEAN]
    /\ XFERSIZE \in Nat \ {0} /\ PSIZE \in Nat \ {0} /\ PageBytes \in Nat \ {0}

Files == "file" \in DOMAIN job

FileProgram == IF Files THEN job.prog ELSE "none"

N == 10
STRIDE == N * PSIZE

\* The whole pages of the file of lat_pagefault.
pagesOf(file) == file \div PageBytes

FileAccepts ==
    CASE job.prog = "bw_file_rd" -> job.size >= 512
      [] job.prog = "lat_mmap" -> job.size >= 2 * STRIDE /\ job.size <= job.file
      [] job.prog = "lat_pagefault" -> pagesOf(job.file) * PageBytes >= MINFILE

\* What a child holds between its turns: lat_mmap and lat_pagefault unlink
\* their copy as soon as they have it open.
FileHolds ==
    CASE job.prog = "bw_file_rd" ->
            {c \in {"copy"} : job.clone} \cup {f \in {"fd"} : job.what = "io_only"}
      [] job.prog = "lat_mmap" -> {"fd"}
      [] job.prog = "lat_pagefault" -> {"fd", "map", "pages"}

\* What it opens or maps for one turn.
FileOpens ==
    CASE job.prog = "bw_file_rd" /\ job.what = "open2close" -> {"fd"}
      [] job.prog = "lat_mmap" -> {"map"}
      [] OTHER -> {}

FileInit ==
    /\ job \in FileJobs
    /\ InitialState

FileRefused ==
    /\ phase = "main" /\ Files /\ ~FileAccepts
    /\ phase' = "exit"
    /\ UNCHANGED <<walk, setup, chain, turns, held, search, report>>

FileInitialize ==
    /\ phase = "main" /\ Files /\ FileAccepts
    /\ mem' = [file |-> job.file]
    /\ IF job.prog = "lat_pagefault"
       THEN \E pages \in permutation(pagesOf(job.file), PageBytes) : m' = [pages |-> pages]
       ELSE UNCHANGED m
    /\ held' = FileHolds
    /\ phase' = "ready"
    /\ UNCHANGED <<walk, job, line, chain, turns, search, report>>

\* The copy cannot be made, or opened once it is there.
FileInitializeFails ==
    /\ phase = "main" /\ Files /\ FileAccepts
    /\ held' \in {{}} \cup {{"copy"} : c \in {TRUE} \cap {job.clone}}
    /\ phase' = "exit"
    /\ UNCHANGED <<walk, setup, chain, turns, search, report>>

\* time_with_open of bw_file_rd does not look whether it could open the file.
FileTurn ==
    /\ phase = "ready" /\ Files /\ turns < Turns
    /\ \E file \in {job.file} \cup {0 : w \in {"open2close"} \cap {job.what}} :
          mem' = [file |-> file]
    /\ p' = 0 /\ seen' = {} /\ loads' = 0
    /\ held' = held \cup FileOpens
    /\ phase' = "turn"
    /\ turns' = turns + 1
    /\ UNCHANGED <<dst, job, m, line, chain, search, report>>

\* mmap fails: lat_mmap exits, lat_pagefault goes on with the address.
FileTurnFails ==
    /\ phase = "ready" /\ FileProgram \in {"lat_mmap", "lat_pagefault"}
    /\ phase' = IF job.prog = "lat_mmap" THEN "exit" ELSE "astray"
    /\ UNCHANGED <<walk, setup, chain, turns, held, search, report>>

\* Mutant of Piece: a piece is never shorter than XFERSIZE.
PieceWhole == XFERSIZE

\* doit of bw_file_rd reads one piece and sums it up.
Piece == Least(job.size - p, XFERSIZE)

Got == IF p >= mem.file THEN 0 ELSE Least(Piece, mem.file - p)

ReadPiece ==
    /\ FileProgram = "bw_file_rd"
    /\ Got > 0
    /\ p' = p + Piece
    /\ loads' = loads + Got
    /\ UNCHANGED seen

\* Mutant of mapped: with -r every page of the whole file.
mappedEveryPage == [end |-> IF job.what = "random" THEN job.size ELSE job.size \div N,
                    step |-> PSIZE]

\* domapping of lat_mmap: with -r one page in ten, else the first tenth.
mapped == IF job.what = "random" THEN [end |-> job.size, step |-> STRIDE]
          ELSE [end |-> job.size \div N, step |-> PSIZE]

TouchMapped ==
    /\ FileProgram = "lat_mmap"
    /\ p < mapped.end
    /\ seen' = seen \cup {p \div PSIZE}
    /\ p' = p + mapped.step
    /\ UNCHANGED loads

\* benchmark of lat_pagefault; benchmark_mmap only maps.
TouchPage ==
    /\ FileProgram = "lat_pagefault" /\ job.what = "benchmark"
    /\ p < pagesOf(job.file)
    /\ seen' = seen \cup {m.pages[p] \div PageBytes}
    /\ loads' = loads + 1
    /\ p' = p + 1

FileStep ==
    /\ phase = "turn"
    /\ ReadPiece \/ TouchMapped \/ TouchPage
    /\ UNCHANGED <<phase, dst, setup, chain, turns, held, search, report>>

TurnDone ==
    CASE job.prog = "bw_file_rd" -> Got = 0
      [] job.prog = "lat_mmap" -> p >= mapped.end
      [] job.prog = "lat_pagefault" -> job.what = "benchmark" => p = pagesOf(job.file)

FileTurnEnds ==
    /\ phase = "turn" /\ Files
    /\ TurnDone
    /\ held' = held \ FileOpens
    /\ phase' = "ready"
    /\ UNCHANGED <<walk, setup, chain, turns, search, report>>

FileCleanup ==
    /\ phase = "ready" /\ Files /\ turns > 0
    /\ held' = held \ FileHolds
    /\ job' = [prog |-> job.prog]
    /\ mem' = none /\ m' = none /\ p' = 0 /\ seen' = {} /\ loads' = 0 /\ turns' = 0
    /\ phase' = "results"
    /\ UNCHANGED <<dst, line, chain, search, report>>

FileNext ==
    \/ MemoryNext
    \/ FileRefused \/ FileInitialize \/ FileInitializeFails
    \/ FileTurn \/ FileTurnFails \/ FileStep \/ FileTurnEnds \/ FileCleanup

FileSpec == (MemoryInit \/ FileInit) /\ [][FileNext]_memoryVars

-----------------------------------------------------------------------------
\* What a turn does, against what the report divides by: lat_pagefault
\* faults on every page once, and lat_mmap touches as many pages sparsely as
\* densely, one for each stride begun (but a last stride of less than N bytes
\* only with -r).  bw_file_rd, credited with <size> bytes each time, reads
\* them in full only from a file that is long enough and could be opened:
\* of a shorter one what there is, of one that could not be opened nothing.
WorkIsCredited ==
    phase = "ready" /\ Files /\ turns > 0 =>
        CASE job.prog = "bw_file_rd" -> loads = Least(job.size, mem.file)
          [] job.prog = "lat_mmap" ->
                job.size % STRIDE \notin 1 .. N - 1 =>
                    Cardinality(seen) = Ceiling(job.size, STRIDE)
          [] job.prog = "lat_pagefault" ->
                LET pages == IF job.what = "benchmark" THEN pagesOf(job.file) ELSE 0
                IN  seen = 0 .. pages - 1 /\ loads = pages

(* What a memory or file program does for each operation it is credited    *)
(* with.  It is what the report takes it for, but for three cases: sum,    *)
(* printed as the add of STREAM, moves one double and is credited with     *)
(* three; bw_file_rd is credited with bytes that a short or missing file   *)
(* does not have; and a last stride below N bytes.                         *)
WorkAgainstCredit == EveryLineOnce /\ CreditIsMoved /\ WorkIsCredited
=============================================================================
