---------------------------- MODULE MCMemoryBench ----------------------------
(* Values of the constants of MemoryBench and FileBench for TLC. *)
EXTENDS FileBench

Bw(prog, names, sizes, alignments) ==
    [prog : {prog}, what : names, nbytes : sizes, aligned : alignments]

\* Sizes below, at and above one chunk, and between whole chunks.
MCBandwidthJobs ==
    LET sizes == {511, 512, 1000, 1024, 1535}
    IN  UNION {Bw("bw_mem", DOMAIN Mem!main(512), sizes, BOOLEAN),
               Bw("bw_mem64", DOMAIN Mem64!main(512), sizes, BOOLEAN),
               Bw("bw_mem64a", DOMAIN Mem64a!main(512), sizes, {FALSE}),
               Bw("bw_mem64d", DOMAIN Mem64d!main(512), sizes, {FALSE}),
               Bw("bw_mem64p", DOMAIN Mem64p!main(3840),
                  {3839, 3840, 5000, 7680}, {FALSE}),
               Bw("bw_mmap_rd", {"open2close", "mmap_only"},
                  {511, 512, 1000, 1535, 2044, 2048}, {FALSE}),
               Bw("bw_mmap_rd -C", {"open2close", "mmap_only"}, {600}, {FALSE})}

\* Files shorter and longer than the size asked for; sizes at, below and
\* between whole pieces, strides and pages.
Fl(prog, names, sizes, files) ==
    [prog : {prog}, what : names, size : sizes, file : files, clone : BOOLEAN]

MCFileJobs ==
    UNION {Fl("bw_file_rd", {"open2close", "io_only"}, {511, 512, 1024, 1500, 3000},
              {1400, 3000}),
           Fl("lat_mmap", {"random", "dense"}, {79, 80, 85, 100, 119, 120}, {80, 120}),
           Fl("lat_pagefault", {"benchmark_mmap", "benchmark"}, {0}, {31, 64, 70, 128})}

MCStreamJobs == [prog : {"stream"}, kernel : DOMAIN Streams!main]

Ch(prog, len, maxlen, ln, pagesize, group) ==
    [prog |-> prog, len |-> len, maxlen |-> maxlen, line |-> ln,
     pagesize |-> pagesize, group |-> group]

\* Strides that divide the range or not; ranges of one, several and parts of
\* a page; lines of one and of several words; groups that divide the number
\* of pages or not.
MCChainJobs ==
    {Ch("lat_mem_rd", len, 128, ln, 64, 0) : len \in {64, 100, 128}, ln \in {8, 16, 24}}
    \cup {Ch("lat_mem_rd -t", len, 192, ln, 64, 0) :
            len \in {32, 64, 128, 192}, ln \in {8, 16}}
    \cup {Ch("lat_mem_rd -t", 128, 128, 16, 32, 0), Ch("lat_mem_rd -t", 128, 192, 128, 64, 0)}
    \cup {Ch("line", len, len, 8, 256, 0) : len \in {256, 512, 768}}
    \cup {Ch("line", 1024, 1024, 8, 512, 0)}
    \cup {Ch("tlb", len, len, 8, 32, 0) : len \in {32, 64, 128, 160}}
    \cup {Ch("par_mem", len, len, ln, 64, 0) : len \in {64, 128, 192}, ln \in {8, 16, 32}}
    \cup {Ch("lat_dram_page", len, len, ln, 32, group) :
            len \in {64, 96, 128}, ln \in {8, 16}, group \in {1, 2, 3}}
=============================================================================
