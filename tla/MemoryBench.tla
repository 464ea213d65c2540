----------------------------- MODULE MemoryBench -----------------------------
(***************************************************************************)
(* The memory benchmarks of lmbench from their arguments to their report:  *)
(* the bandwidth programs, which walk a buffer chunk by chunk, and the     *)
(* latency programs, which walk a chain of pointers.  Both run the same    *)
(* way in the harness: initialize, turns of the measured loop, cleanup,    *)
(* the merging of the results in the parent, the report.                   *)
(*                                                                         *)
(* The kernels, the chains and the list of results are the modules BwMem,  *)
(* BwMem64, BwMem64a, BwMem64d, BwMem64p, BwMmap, MemChains and Results.   *)
(***************************************************************************)
EXTENDS MemKernels, MemChains, Results, FiniteSets

CONSTANTS BandwidthJobs,  \* [prog, what, nbytes, aligned]
          StreamJobs,     \* [prog, kernel]
          ChainJobs,      \* [prog, len, maxlen, line, pagesize, group]
          Offsets,        \* how far from a page boundary malloc may return
          Turns,          \* turns of the measured loop (a bound)
          Walks,          \* walks that par_mem starts at most (a bound)
          Thresholds,     \* the last number of pages without TLB misses
          MaxPages,       \* the most pages find_tlb tries
          FileBytes,      \* the length of the file that bw_mmap_rd is given
          Parallel,       \* children of a bandwidth program
          Tries,          \* results merged at most (a bound)
          Times, Counts   \* measured times and operations (bounds)

MmapRd == {"bw_mmap_rd", "bw_mmap_rd -C"}
BwPrograms == {"bw_mem", "bw_mem64", "bw_mem64a", "bw_mem64d", "bw_mem64p"} \cup MmapRd
ChainPrograms == {"lat_mem_rd", "lat_mem_rd -t", "line", "tlb", "par_mem", "lat_dram_page"}

VARIABLES job,      \* the program and its arguments
          phase,
          mem,      \* the buffers and where they start
          m,        \* struct mem_state of a latency program
          chain,    \* the pointers stored in the buffer
          line,     \* the line size that line_test visits
          p, dst,   \* where the loop is in the first and the second buffer
          seen,     \* the lines of the buffer touched in this turn
          loads,    \* pointers followed in this turn
          turns,    \* turns run
          held,     \* the buffers allocated
          search,   \* the bounds of find_tlb
          results, offered, out

walk == <<p, dst, seen, loads>>
setup == <<job, mem, m, line>>
report == <<results, offered, out>>
memoryVars == <<phase, walk, setup, chain, turns, held, search, report>>

Streams == INSTANCE Stream
Mem == INSTANCE BwMem
Mem64 == INSTANCE BwMem64
Mem64a == INSTANCE BwMem64a
Mem64d == INSTANCE BwMem64d
Mem64p == INSTANCE BwMem64p
Mmap == INSTANCE BwMmap

\* Every job of a bandwidth program names one of its kernels.
ASSUME MemoryAssumption ==
    /\ BandwidthJobs \subseteq [prog : BwPrograms, what : STRING, nbytes : Nat,
                                aligned : BOOLEAN]
    /\ \A j \in BandwidthJobs :
          j.what \in CASE j.prog = "bw_mem" -> DOMAIN Mem!main(0)
                      [] j.prog = "bw_mem64" -> DOMAIN Mem64!main(0)
                      [] j.prog = "bw_mem64a" -> DOMAIN Mem64a!main(0)
                      [] j.prog = "bw_mem64d" -> DOMAIN Mem64d!main(0)
                      [] j.prog = "bw_mem64p" -> DOMAIN Mem64p!main(0)
                      [] OTHER -> {"open2close", "mmap_only"}
    /\ StreamJobs \subseteq [prog : {"stream"}, kernel : DOMAIN Streams!main]
    /\ ChainJobs \subseteq [prog : ChainPrograms, len : Nat, maxlen : Nat, line : Nat,
                            pagesize : Nat, group : Nat]
    /\ Turns \in Nat /\ Parallel \in Nat \ {0}
    /\ Times \subseteq Nat /\ Counts \subseteq Nat \ {0}

\* find_tlb starts between 4 and 8 pages; MaxPages is a power of two.
ASSUME TlbAssumption ==
    /\ MaxPages \in Nat /\ MaxPages >= 8
    /\ \A i, d \in 1 .. 2 * MaxPages : i * d = 2 * MaxPages => d = 1 \/ d % 2 = 0
    /\ \A t \in Thresholds : t \in Nat /\ t >= 4

\* A link has room for a pointer, and a page begins where malloc's block or
\* the page after does.  lat_mem_rd measures no range shorter than its stride
\* or longer than the buffer, and lat_dram_page the whole buffer.
Walkable(j) ==
    /\ Ptr <= j.line /\ Ptr <= j.pagesize
    /\ 0 < j.len /\ j.len <= j.maxlen
    /\ j.prog \in {"lat_mem_rd", "lat_mem_rd -t"} => j.line <= j.len
    /\ j.prog = "line" => j.line <= j.pagesize
    /\ j.prog = "tlb" => j.pagesize <= j.len
    /\ j.prog = "lat_dram_page" => j.len = j.maxlen

ASSUME ChainAssumption ==
    /\ \A j \in ChainJobs : Walkable(j) /\ \A o \in Offsets : o < j.pagesize
    /\ Offsets \subseteq Nat

Bandwidth == "nbytes" \in DOMAIN job
Latency == "pagesize" \in DOMAIN job

none == [none |-> TRUE]

\* The kernel that main of the program selects.
Kernel(j) ==
    CASE j.prog = "bw_mem" -> Mem!main(j.nbytes)[j.what]
      [] j.prog = "bw_mem64" -> Mem64!main(j.nbytes)[j.what]
      [] j.prog = "bw_mem64a" -> Mem64a!main(j.nbytes)[j.what]
      [] j.prog = "bw_mem64d" -> Mem64d!main(j.nbytes)[j.what]
      [] j.prog = "bw_mem64p" -> Mem64p!main(j.nbytes)[j.what]
      [] j.prog \in MmapRd -> Mmap!bread(j.nbytes - p)

Buffers(j) ==
    CASE j.prog = "bw_mem" -> Mem!init_loop(j.nbytes, j.what, j.aligned)
      [] j.prog = "bw_mem64" -> Mem64!init_loop(j.nbytes, j.what, j.aligned)
      [] j.prog = "bw_mem64a" -> Mem64a!init_loop(j.nbytes)
      [] j.prog = "bw_mem64d" -> Mem64d!init_loop(j.nbytes)
      [] j.prog = "bw_mem64p" -> Mem64p!init_loop(j.nbytes)
      [] j.prog \in MmapRd -> Mmap!initialize(j.nbytes)

\* What a bandwidth program has allocated, or mapped, for its buffers.
Allocated(j, buffers) ==
    IF j.prog \in MmapRd THEN Mmap!copy(j.prog) \cup Mmap!init_open(j.what)
    ELSE {"buf"} \cup {b \in {"buf2"} : buffers.size2 > 0}

\* What it opens for one turn.
Opened == IF job.prog \in MmapRd THEN Mmap!time_with_open(job.what) ELSE {}

Freed ==
    CASE job.prog = "bw_mem" -> Mem!cleanup(mem)
      [] job.prog = "bw_mem64" -> Mem64!cleanup(mem)
      [] job.prog = "bw_mem64a" -> Mem64a!cleanup(mem)
      [] job.prog = "bw_mem64d" -> Mem64d!cleanup(mem)
      [] job.prog = "bw_mem64p" -> Mem64p!cleanup(mem)
      [] job.prog \in MmapRd -> Mmap!cleanup(job.prog, job.what)

\* The chain that the initialize function of a latency program builds.
Chain(s) ==
    CASE job.prog = "lat_mem_rd" -> stride_initialize(s)
      [] job.prog = "lat_mem_rd -t" -> thrash_initialize(s)
      [] job.prog = "line" -> line_initialize(s)
      [] job.prog = "tlb" -> tlb_initialize(s)
      [] job.prog = "par_mem" -> mem_initialize(s)
      [] job.prog = "lat_dram_page" -> dram_page_initialize(s, job.group)

\* Where its walk starts; lat_dram_page starts at the base of the buffer.
WalkStart ==
    IF job.prog \in {"lat_mem_rd", "lat_dram_page"} THEN 0
    ELSE IF job.prog = "lat_mem_rd -t" /\ m.len % m.pagesize # 0 THEN 0
    ELSE m.pages[0]

InitialState ==
    /\ phase = "main"
    /\ mem = none /\ m = none /\ chain = <<>> /\ line = 0
    /\ p = 0 /\ dst = 0 /\ seen = {} /\ loads = 0
    /\ turns = 0 /\ held = {}
    /\ search = none
    /\ results = insertinit /\ offered = <<>> /\ out = none

MemoryInit ==
    /\ job \in BandwidthJobs \cup StreamJobs \cup ChainJobs
    /\ InitialState

-----------------------------------------------------------------------------
(* The bandwidth programs.                                                 *)

\* main refuses a buffer shorter than one chunk, and that of bw_mmap_rd one
\* longer than the file.
least(j) == IF j.prog = "bw_mem64p" THEN 3840 ELSE 512

accepts(j) == IF j.prog \in MmapRd THEN j.nbytes \in Mmap!main(FileBytes)
              ELSE j.nbytes >= least(j)

Usage ==
    /\ phase = "main" /\ Bandwidth
    /\ ~accepts(job)
    /\ phase' = "exit"
    /\ UNCHANGED <<walk, setup, chain, turns, held, search, report>>

InitLoop ==
    /\ phase = "main" /\ Bandwidth
    /\ accepts(job)
    /\ mem' = Buffers(job)
    /\ held' = Allocated(job, mem')
    /\ phase' = "ready"
    /\ UNCHANGED <<walk, job, m, line, chain, turns, search, report>>

\* valloc fails for the first or for the second buffer, or cp, open or mmap
\* of bw_mmap_rd; a copy that was made already stays.
InitLoopFails ==
    /\ phase = "main" /\ Bandwidth
    /\ accepts(job)
    /\ held' \in {{}} \cup {Mmap!copy(job.prog)}
    /\ phase' = "exit"
    /\ UNCHANGED <<walk, setup, chain, turns, search, report>>

Turn ==
    /\ phase = "ready" /\ Bandwidth /\ turns < Turns
    /\ p' = 0 /\ dst' = mem.buf2 /\ seen' = {}
    /\ phase' = "turn"
    /\ turns' = turns + 1
    /\ held' = held \cup Opened
    /\ UNCHANGED <<loads, setup, chain, search, report>>

\* open or mmap fails in time_with_open, which ends the child where it is.
TurnFails ==
    /\ phase = "ready" /\ Bandwidth /\ Opened # {}
    /\ phase' = "exit"
    /\ UNCHANGED <<walk, setup, chain, turns, held, search, report>>

\* while (p <= lastone)
ChunkLoop ==
    LET kernel == Kernel(job)
    IN  /\ phase = "turn" /\ Bandwidth
        /\ p <= mem.lastone
        /\ seen' = seen \cup Lines(kernel, p)
        /\ p' = p + kernel.chunk
        /\ dst' = dst + kernel.chunk
        /\ UNCHANGED <<phase, loads, setup, chain, turns, held, search, report>>

TurnEnds ==
    /\ phase = "turn" /\ Bandwidth
    /\ p > mem.lastone
    /\ held' = held \ Opened
    /\ phase' = "ready"
    /\ UNCHANGED <<walk, setup, chain, turns, search, report>>

Cleanup ==
    /\ phase = "ready" /\ Bandwidth /\ turns > 0
    /\ held' = held \ Freed
    /\ mem' = none /\ p' = 0 /\ dst' = 0 /\ seen' = {} /\ turns' = 0
    /\ job' = [prog |-> job.prog]
    /\ phase' = "results"
    /\ UNCHANGED <<loads, m, line, chain, search, report>>

-----------------------------------------------------------------------------
(* The STREAM kernels.                                                     *)

Streaming == "kernel" \in DOMAIN job

StreamInit ==
    /\ phase = "main" /\ Streaming
    /\ mem' = Streams!initialize
    /\ held' = Streams!cleanup(mem')
    /\ phase' = "ready"
    /\ UNCHANGED <<walk, job, m, line, chain, turns, search, report>>

StreamInitFails ==
    /\ phase = "main" /\ Streaming
    /\ phase' = "exit"
    /\ UNCHANGED <<walk, setup, chain, turns, held, search, report>>

\* One iteration; `loads' counts the doubles moved for each element.
StreamBody ==
    /\ phase = "ready" /\ Streaming /\ turns < Turns
    /\ LET body == Streams!main[job.kernel].body
       IN  loads' = Cardinality(body.reads) + Cardinality(body.writes)
    /\ mem' = Streams!rotated(mem)
    /\ turns' = turns + 1
    /\ UNCHANGED <<phase, p, dst, seen, job, m, line, chain, held, search, report>>

StreamCleanup ==
    /\ phase = "ready" /\ Streaming /\ turns > 0
    /\ held' = held \ Streams!cleanup(mem)
    /\ mem' = none /\ loads' = 0 /\ turns' = 0
    /\ job' = [prog |-> job.prog]
    /\ phase' = "results"
    /\ UNCHANGED <<p, dst, seen, m, line, chain, search, report>>

-----------------------------------------------------------------------------
(* The latency programs.                                                   *)

\* mem_initialize sets state->p[0] at its first link inside a page, and
\* walks from it at once.  thrash_initialize makes no link in a page that is
\* shorter than the stride.
FirstPointerSet(s) ==
    /\ job.prog \in {"par_mem", "lat_dram_page"} => npointers(s) > 1 /\ nlines(s) > 1
    /\ job.prog = "lat_mem_rd -t" /\ s.len % s.pagesize = 0 => nlines(s) > 0

Initialize ==
    /\ phase = "main" /\ Latency
    /\ \E pages \in permutation(Ceiling(job.maxlen, job.pagesize), job.pagesize),
          misaligned \in Offsets :
        LET s == [len |-> job.len, maxlen |-> job.maxlen, line |-> job.line,
                  pagesize |-> job.pagesize, pages |-> pages]
        IN  /\ m' = s
            /\ mem' = base_initialize(s, misaligned)
            /\ chain' = IF FirstPointerSet(s) THEN Chain(s) ELSE <<>>
            /\ phase' = IF FirstPointerSet(s) THEN "ready" ELSE "astray"
    /\ line' = job.line
    /\ held' = {"addr"}
    /\ UNCHANGED <<walk, job, turns, search, report>>

\* malloc fails: line_find and par_mem try again with half the length, down
\* to nothing; the others go on with a pointer that was never set.
InitializeFails ==
    /\ phase = "main" /\ Latency
    /\ IF job.prog \in {"line", "par_mem"}
       THEN /\ job' = [job EXCEPT !.len = @ \div 2, !.maxlen = job.len \div 2]
            /\ phase' = IF job.len \div 2 = 0 THEN "exit" ELSE "main"
       ELSE /\ phase' = "astray"
            /\ UNCHANGED job
    /\ UNCHANGED <<walk, mem, m, line, chain, turns, held, search, report>>

\* One turn is a walk until it is back where it started.
Walk ==
    /\ phase = "ready" /\ Latency /\ turns < Turns /\ line = job.line
    /\ p' = WalkStart /\ loads' = 0
    /\ phase' = "turn"
    /\ turns' = turns + 1
    /\ UNCHANGED <<dst, seen, setup, chain, held, search, report>>

Load ==
    /\ phase = "turn" /\ Latency
    /\ loads = 0 \/ p # WalkStart
    /\ p' = chain[p]
    /\ loads' = loads + 1
    /\ UNCHANGED <<phase, dst, seen, setup, chain, turns, held, search, report>>

\* line_find doubles the line size up to a sixteenth of a page.
LineTest ==
    /\ phase = "ready" /\ job.prog = "line" /\ turns > 0
    /\ 2 * line <= m.pagesize \div 16
    /\ line' = 2 * line
    /\ chain' = narrowed(m, chain, 2 * line)
    /\ p' = WalkStart /\ loads' = 0
    /\ phase' = "turn"
    /\ UNCHANGED <<dst, seen, job, mem, m, turns, held, search, report>>

WalkEnds ==
    /\ phase = "turn" /\ Latency
    /\ loads > 0 /\ p = WalkStart
    /\ chain' = IF job.prog = "line" THEN fixedUp(m, chain, line) ELSE chain
    /\ phase' = "ready"
    /\ UNCHANGED <<walk, setup, turns, held, search, report>>

\* mem_cleanup or tlb_cleanup; for tlb the search for the size follows.
MemCleanup ==
    /\ phase = "ready" /\ Latency /\ turns > 0
    /\ held' = held \ {"addr"}
    /\ job' = [prog |-> job.prog]
    /\ m' = none /\ mem' = none /\ chain' = <<>> /\ line' = 0
    /\ p' = 0 /\ loads' = 0 /\ turns' = 0
    /\ IF job.prog = "tlb"
       THEN /\ phase' = "search"
            /\ \E t \in Thresholds :
                  search' = [threshold |-> t, lower |-> 0, upper |-> 0, i |-> 8]
       ELSE phase' = "results" /\ UNCHANGED search
    /\ UNCHANGED <<dst, seen, report>>

-----------------------------------------------------------------------------
(* find_tlb: doubling, then halving.                                       *)

\* compute_times finds a load with i pages clearly slower than without a TLB
\* miss.
slow(i) == i > search.threshold

middle(lower, upper) == lower + (upper - lower) \div 2

Double ==
    /\ phase = "search" /\ search.upper = 0
    /\ search.i <= MaxPages
    /\ search' = IF slow(search.i)
                 THEN [search EXCEPT
                        !.lower = search.i \div 2, !.upper = search.i,
                        !.i = middle(search.i \div 2, search.i)]
                 ELSE [search EXCEPT !.i = 2 * @]
    /\ UNCHANGED <<phase, walk, setup, chain, turns, held, report>>

\* Mutant of Halve: the bound that moves is the other one.
HalveOtherBound ==
    /\ phase = "search" /\ search.upper > 0 /\ search.lower + 1 < search.upper
    /\ LET lower == IF slow(search.i) THEN search.i ELSE search.lower
           upper == IF slow(search.i) THEN search.upper ELSE search.i
       IN  search' = [search EXCEPT !.lower = lower, !.upper = upper,
                                    !.i = middle(lower, upper)]
    /\ UNCHANGED <<phase, walk, setup, chain, turns, held, report>>

Halve ==
    /\ phase = "search" /\ search.upper > 0 /\ search.lower + 1 < search.upper
    /\ LET lower == IF slow(search.i) THEN search.lower ELSE search.i
           upper == IF slow(search.i) THEN search.i ELSE search.upper
       IN  search' = [search EXCEPT !.lower = lower, !.upper = upper,
                                    !.i = middle(lower, upper)]
    /\ UNCHANGED <<phase, walk, setup, chain, turns, held, report>>

TlbFound ==
    /\ phase = "search"
    /\ \/ search.upper = 0 /\ search.i > MaxPages
       \/ search.upper > 0 /\ search.lower + 1 >= search.upper
    /\ out' = [pages |-> IF search.i >= MaxPages THEN 0 ELSE search.lower]
    /\ phase' = "reported"
    /\ UNCHANGED <<walk, setup, chain, turns, held, search, results, offered>>

-----------------------------------------------------------------------------
(* The parent merges what its children measured, and reports.              *)

Merge ==
    /\ phase = "results" /\ Len(offered) < Tries
    /\ \E u \in Times, n \in Counts :
          /\ results' = insertsort(u, n, results)
          /\ offered' = Append(offered, Result(u, n))
    /\ UNCHANGED <<phase, walk, setup, chain, turns, held, search, out>>

\* The programs that print the fastest result: one child of stream, and
\* lat_mem_rd.
Fastest == {"lat_mem_rd", "lat_mem_rd -t", "stream"}

\* What the bandwidth programs print of the median.
Rate(r) ==
    CASE job.prog = "bw_mem" -> Mem!adjusted_bandwidth(r.u, r.n, Parallel)
      [] job.prog = "bw_mem64" -> Mem64!adjusted_bandwidth(r.u, r.n, Parallel)
      [] job.prog = "bw_mem64a" -> Mem64a!adjusted_bandwidth(r.u, r.n, Parallel)
      [] job.prog = "bw_mem64d" -> Mem64d!adjusted_bandwidth(r.u, r.n, Parallel)
      [] job.prog = "bw_mem64p" -> Mem64p!adjusted_bandwidth(r.u, r.n, Parallel)
      [] job.prog \in MmapRd \cup {"bw_file_rd"} -> Mmap!bandwidth(r.u, r.n, Parallel)
      [] OTHER -> r

MemoryReport ==
    /\ phase = "results"
    /\ out' = IF job.prog \in Fastest THEN save_minimum(results)
              ELSE Rate(save_median(results))
    /\ phase' = "reported"
    /\ UNCHANGED <<walk, setup, chain, turns, held, search, results, offered>>

MemoryNext ==
    \/ Usage \/ InitLoop \/ InitLoopFails \/ Turn \/ TurnFails \/ ChunkLoop \/ TurnEnds
    \/ Cleanup
    \/ StreamInit \/ StreamInitFails \/ StreamBody \/ StreamCleanup
    \/ Initialize \/ InitializeFails \/ Walk \/ Load \/ LineTest \/ WalkEnds
    \/ MemCleanup
    \/ Double \/ Halve \/ TlbFound
    \/ Merge \/ MemoryReport

MemorySpec == MemoryInit /\ [][MemoryNext]_memoryVars

-----------------------------------------------------------------------------
MemoryTypeOK ==
    /\ phase \in {"main", "ready", "turn", "results", "search", "reported",
              "exit", "astray"}
    /\ p \in Nat /\ dst \in Nat /\ loads \in Nat /\ line \in Nat
    /\ seen \subseteq Nat
    /\ turns \in 0 .. Turns
    /\ held \subseteq {"buf", "buf2", "addr", "a", "b", "c",
                       "fd", "map", "copy", "pages"}
    /\ DOMAIN chain \subseteq Nat
    /\ \A r \in Range(results) : r.u \in Times \ {0} /\ r.n \in Counts

\* The names that the usage line of a bandwidth program offers, or that do
\* not copy: cp8, cp16, cp32 and cp64 of bw_mem64 have no second buffer.
WithBuffers(j) == Kernel(j).copies # {} => j.what \in {"cp", "fcp", "bcopy"}

\* No loop leaves the buffers it was given: in the next chunk, if there is
\* one, all reads and writes are inside the first buffer and all copies
\* inside the second, wherever in its allocation that starts; and a pointer
\* of a chain leads to a word inside the allocation, wherever malloc put it.
StaysInside ==
    /\ phase = "turn" /\ Bandwidth /\ p <= mem.lastone /\ WithBuffers(job) =>
        LET k == Kernel(job)
        IN  /\ Within(k.reads \cup k.writes, k.width, p, mem.size)
            /\ Within(k.copies, k.width, dst, mem.size2)
    /\ phase = "turn" /\ Latency => mem.base + p + Ptr <= mem.size

\* Every line of the buffer is touched once in a turn and in ascending order,
\* whatever the kernel leaves out inside a line, and the loop ends only when
\* less than a chunk is left: the bytes that adjusted_bandwidth credits are
\* those that were moved, up to less than one chunk.
EveryLineOnce ==
    phase \in {"turn", "ready"} /\ Bandwidth =>
        /\ seen = IF p = 0 THEN {} ELSE 0 .. (p - 1) \div LineBytes
        /\ phase = "ready" /\ turns > 0 => /\ p <= job.nbytes
                                        /\ p + Kernel(job).chunk > job.nbytes

\* The doubles a STREAM kernel credits for an element are those it moves, but
\* what is printed as the add of version 1 runs sum, and moves one of three.
CreditIsMoved ==
    phase = "ready" /\ Streaming /\ turns > 0 =>
        loads = IF job.kernel = "STREAM_add" THEN 1
                ELSE Streams!main[job.kernel].credit

\* Whatever was allocated is given back before the results are reported.
NothingKept == phase \in {"search", "results", "reported"} => held = {}

-----------------------------------------------------------------------------
\* How many loads a walk needs until it has been everywhere.  mem_initialize
\* counts the links inside pages only, so that with a partial last page it
\* uses up to a line per page more than len has.
LapLength ==
    CASE job.prog = "lat_mem_rd" -> Ceiling(m.len, m.line)
      [] job.prog = "lat_mem_rd -t" -> npointers(m)
      [] job.prog = "line" -> npages(m) * (m.pagesize \div line)
      [] job.prog = "tlb" -> m.len \div m.pagesize
      [] OTHER -> nwords(m) * (npages(m) + Least(npages(m) * (nlines(m) - 1),
                                                npointers(m) - 1))

\* A walk is back at its start when it has visited every place, and not
\* before: the chain is one circle, whatever the order of the pages.
OneCircle ==
    phase \in {"turn", "ready"} /\ Latency /\ loads > 0 =>
        /\ p = WalkStart => loads = LapLength
        /\ loads <= LapLength

PlaceOf(a) == CHOOSE i \in DOMAIN m.pages : m.pages[i] = a - (a % m.pagesize)

\* mem_initialize finishes a page before it goes on with the next, and
\* dram_page_initialize a group of pages, one line of each of its pages after
\* the other (a walk goes through all pages once for each word of a line, and
\* that of lat_dram_page starts in the middle).
PageAfterPage ==
    phase = "turn" /\ job.prog \in {"par_mem", "lat_dram_page"}
        /\ m.len % m.pagesize = 0 =>
        LET size == IF job.prog = "par_mem" THEN 1 ELSE job.group
            k == PlaceOf(WalkStart)
            before == (k - (k % size)) * nlines(m) + (k % size)
            n == (loads + before) % npointers(m)
        IN  PlaceOf(p) \div size = n \div (size * nlines(m))

\* With several pages every step of thrash_initialize and tlb_initialize
\* leads to another page.
AnotherPageEachTime ==
    phase = "turn" /\ job.prog \in {"lat_mem_rd -t", "tlb"} /\ npages(m) > 1
        /\ m.len % m.pagesize = 0 =>
            PlaceOf(chain[p]) # PlaceOf(p)

\* While line_test tries a line size, the places it visits are that far from
\* each other, although the chain was built for lines of one word.
OneLoadPerLine ==
    phase = "turn" /\ job.prog = "line" => (p % m.pagesize) % line = 0

\* After each test of a line size the chain is as line_initialize made it, so
\* that the next test starts from the full chain.
PathFixedUp ==
    phase = "ready" /\ job.prog = "line" => chain = line_initialize(m)

\* The parallel walks of par_mem start at different places of the chain, as
\* long as there are as many lines or as many words in a line as walks.
WalksApart ==
    phase = "ready" /\ job.prog = "par_mem" =>
        \A i \in 0 .. Walks - 1 :
            i < npointers(m) \/ i < nwords(m) =>
                /\ IsInjective(starts(m, i))
                /\ Range(starts(m, i)) \subseteq DOMAIN chain

\* find_tlb returns the last number of pages without TLB misses, if a miss
\* shows at all up to MaxPages.
TlbIsExact ==
    phase = "reported" /\ search # none =>
        out.pages = IF search.threshold < MaxPages THEN search.threshold ELSE 0

-----------------------------------------------------------------------------
CountIn(r, s) == Cardinality({i \in DOMAIN s : s[i] = r})

\* The merged list holds every result that took any time, as often as it was
\* measured, and nothing else, biggest first.
ResultsSorted ==
    /\ \A r \in Range(offered) \cup Range(results) :
          CountIn(r, results) = IF r.u = 0 THEN 0 ELSE CountIn(r, offered)
    /\ \A i, j \in DOMAIN results : i < j => ~Slower(results[j], results[i])

BandwidthPrograms == {j.prog : j \in BandwidthJobs} \cup {"bw_file_rd"}

\* What is reported is the smallest or a middle result: no measurement is
\* faster than a minimum, and at least half of them are no faster and half
\* no slower than a median.  The averages of an even number are only taken
\* to be in between when both took the same number of operations.
ReportIsMiddle ==
    phase = "reported" /\ results # <<>> =>
        LET one == IF job.prog \in BandwidthPrograms
                   THEN Result(out.u, out.n \div Parallel) ELSE out
            slower == {i \in DOMAIN results : Slower(results[i], one)}
            faster == {i \in DOMAIN results : Slower(one, results[i])}
            same == \A i, j \in DOMAIN results : results[i].n = results[j].n
        IN  IF job.prog \in Fastest THEN faster = {}
            ELSE Len(results) % 2 = 1 \/ same =>
                    /\ 2 * Cardinality(faster) <= Len(results)
                    /\ 2 * Cardinality(slower) <= Len(results)

\* No buffer of a loop with all its buffers (WithBuffers) is overrun, none is
\* lost on the way to a result, and no pointer leads out of a chain.
MemoryIsKept == MemoryTypeOK /\ StaysInside /\ NothingKept

\* The chain that is walked is the one its initializer promises.
ChainAsMeant ==
    OneCircle /\ PageAfterPage /\ AnotherPageEachTime /\ OneLoadPerLine
    /\ PathFixedUp /\ WalksApart

\* What is reported follows from all that was measured.
ReportIsRight == TlbIsExact /\ ResultsSorted /\ ReportIsMiddle
=============================================================================
