# Verification of the context-switch benchmarks and of lmbench

TLA+ models of the programs in `src/` that measure the cost of a context switch, of the
lmbench programs they are compared with, and of the scripts that turn measurements into
tables and figures; TLC runs that check them on small instances; and TLAPS proofs of the
results that hold for every instance. Paths below are relative to the repository; `CS` is
`src/ctx_switch_bench.c`, `CM` `src/core_migration_penalty.c`, `SP`
`src/sched_policy_bench.c`, `PT` `src/process_vs_thread.c`, `LB` `lmbench/src/`.

All the benchmarks make one promise: *the number printed is the cost of the operation it
is labelled with, made as often as the program counts.* Almost nothing in the programs
checks it. They look at few return values; their children are killed, fail to exist or run
out of rounds; wake-ups are spurious, datagrams late, bytes in a pipe anonymous; what one
test did to its process, its pages or its tables is still there in the next. Whether a
sample is a whole rotation, a credited byte was moved and a figure shows the table beside
it is a question about interleavings, failures and boundaries, and it is the question of
this project.

## 1. The system

| Component | State it keeps | Operations | What makes it correct |
|---|---|---|---|
| **ctx_switch_bench** (`CS`) | N pipes, N-1 forked workers, `latencies[]`, affinity | `run_benchmark`, `child_worker` | a stored sample is one rotation; none is of a round the workers did not make; everybody leaves |
| **core_migration_penalty** (`CM`) | as above, per scenario; the CPU mask, across scenarios; a table in a stdio buffer | `main`'s scenarios, `run_ring`, `pin_cpu` | a row is measured on the cores it names; scenarios do not overlap; a row survives the copies exiting children write |
| **sched_policy_bench** (`SP`) | two pipes and a child per test; the policy, across tests | `main`'s table, `run_policy`, `child_loop`, `restore_cfs` | a row is measured with both sides under its policy; no ordinary policy is refused; the program ends |
| **process_vs_thread** (`PT`) | two pipes and a child; mutex, condition variable, `turn` | `measure_process_switch`, `measure_thread_switch` | no lost wake-up, whole round trips, a result only with a partner |
| **lat_ctx_fixed** | two pipes, a child | `measure_pair`, scaling | a trip is a rotation of two |
| **benchmp** (`LB lib_timing.c`) | children, four pipes, two signal flags, saved handlers | `__benchmp`, `benchmp_parent`, `benchmp_child`, `benchmp_interval` | children start and stop together; each result merged whole and once; nobody left behind; it returns |
| **lat_ctx**, **token programs** (`lat_pipe`, `lat_fifo`, `lat_unix`, `lat_sem`, `lat_fcntl`) | daemons, pipe ends, semaphores, record locks | `initialize`, `doit`, `cleanup`, the daemons | one token; a death is noticed, where it can be; the clean-up terminates |
| **connection servers** (`lat_tcp`, `bw_tcp`, `lat_connect`, `lat_unix_connect`, `lat_http`, `lmhttp`) | listening queue, connections, forked children, workers | accept, serve, fork, reap, `-S` | the server outlives its clients; an iteration is a round trip; `-S` works |
| **datagram servers** (`lat_udp`, `bw_udp`, `lat_rpc`) | sockets, network, port mapper, alarms | send, receive, retry, time out, `-S` | an iteration is an answer; a fault of the net does bounded harm; no client ends the server |
| **memory benchmarks** (`bw_mem*`, `stream`, `lib_mem`, `tlb`, `line`, `lat_mem_rd`, `par_mem`, `lat_dram_page`) | buffers, chains of pointers, the list of results | initialize, one turn of a loop, merge, report | no access outside, every line once, a chain is one circle, the report is a middle result |
| **file benchmarks** (`bw_file_rd`, `bw_mmap_rd`, `lat_mmap`, `lat_pagefault`) | files, copies, mappings | initialize, one turn, cleanup | what is read, against what is credited; nothing is kept |
| **results pipeline** (Python and shell scripts) | tables, figures, the "complete" mark | every driver, the repair, the plots | published tables are whole; figures show them; no step replaces a measurement |
| **histogram**, **NUMA, eBPF, comparison**, **other lmbench programs**, **report** | - | - | not modelled (section 8) |

*How they interact.* The processes of a ring share pipes and nothing else; what ties them
together is the kernel's bookkeeping: who still holds which pipe end decides between a
blocked read, an end of file and a SIGPIPE, and `fork` copies ends, CPU mask, scheduling
policy and stdio buffers alike. An lmbench program is a set of callbacks that `benchmp`
calls in forked children, one of which may itself have forked daemons; harness and program
share the signal handlers, and get in each other's way there. Clients and servers share a
connection or a network. The programs hand tables to the scripts through the file system;
the scripts decide by a file's existence, its size or an exit status what they run next.

*What is hard.* Interleavings: a worker that is through has exited or not yet when the
parent writes again; several children answer over one pipe. Partial failure: a `fork` whose
result is not looked at, a child killed in mid-test, a script stopped between truncating a
table and writing it. Stale state: masks, policies, buffers, handlers, chains and figures
that outlive what they were made for. Liveness: nobody may wait for a token that will not
come while he holds the pipe end that would tell him so. Boundaries: chunks, pages and
lines that do not divide each other. `PROJECT.json` lists these hazards by line, each with
the properties that would catch it.

## 2. The modules and how they build on each other

    TokenRing <--(refined by)-- ThreadPingPong          PipeRing
        ^---------------------- CtxSwitchBench ---------^ ^ ^
                                CoreMigration ------------+ |
                                   ^-- ResultTable          |
                                SchedPolicy ----------------+
    Benchmp      TokenPrograms <-- FcntlLocks     StreamServers    DatagramServers
    MemKernels <-- BwMem, BwMem64, BwMem64a, BwMem64d, BwMem64p, BwMmap
    MemoryBench = MemKernels + MemChains + Results (+ the kernels, + Stream)
        ^-- FileBench
    Pipeline

`TokenRing` is the abstract specification of every ring: a `holder` and a lap counter per
party, one action `Pass(i)`. `InStep` says that between two turns of node 0 everybody
passed exactly once.

`ThreadPingPong` is part B of `PT`. `pc` follows each thread through lock, hand-over, test,
wait and unlock; a mutex is its owner; a waiting thread is "asleep" until a signal or
nothing at all makes it "woken", and it competes for the mutex again before it tests
`turn`. A signal to a thread that does not sleep is lost. `Create` may fail, which the code
does not notice. `WorkerExit` is apart from `WorkerUnlock` because thread 0 can go on as
soon as the mutex is free.

`PipeRing` counts the bytes in each pipe and records for each process which ends it holds:
all (after `fork`), its own (after the closing loop) or none. `AtEof` and `Broken` follow
from the ends; nobody declares a pipe dead. Pipes never fill: the most a program leaves in
one is its number of rounds, under the 64 KiB of a pipe for the counts built in.

`CtxSwitchBench` is `run_benchmark` and `child_worker`. The warm-up reads whatever comes,
the measured loop gives up on a short read, a worker gives up on either; set-up may fail
after any number of forks. Each worker's last write and its exit are separate steps, so the
parent meets it alive or dead. The workers make `-i` rounds, the parent `-i` plus 100, and
the model keeps that.

`CoreMigration` is `main`'s sequence of `run_ring`s. Its `read` and `write` results are
ignored as in the code: an end of file counts as a token, a failed fork leaves a hole
("missing"). The parent waits for `pids[]` entry by entry (`waits`, `reaped`):
`waitpid(-1)` for a hole may reap any child, whose own turn then finds nobody. `mask`
survives from scenario to scenario. Every scenario has N processes; the code goes from 2 to 16.
`ResultTable` conjoins to every action of it what it does to the buffer of the open table:
a fork copies it, a row is appended, exit and `fclose` write it out at the shared offset,
SIGPIPE throws it away. `Repaired` is step 2 of `fix_and_generate_all.py`, `Loaded` is
`load_csv` and `Bars` the grouping of the figures.

`SchedPolicy` adds `policy` and the rights of the user: root, one with RLIMIT_RTPRIO, one
with nothing. `May` is the kernel's rule, in particular that an unprivileged process cannot
leave SCHED_IDLE. The child may be killed at any moment.

`Benchmp` is the harness. The three pipes towards the children are counters, since their
bytes are anonymous; the response pipe is a queue, a result in it is two pieces, since a
write longer than PIPE_BUF need not be atomic. The parent's `pc` is the phase of
`benchmp_parent`, a child's `st` the state of `benchmp_interval` with the places where it
blocks. The baseline run of one child precedes the run proper in the same behaviour,
because it leaves its handler behind (`saved`). Forks, memory and children fail, a user
sends SIGTERM, the parent is killed. `ok` is a history variable: no failure so far.

`TokenPrograms` is nine programs in one module: they differ in what carries the token and
in a few lines, which are the parameter `prog` and guards on it. Process 0 is a child of
`benchmp`: the model calls its callbacks and applies the harness's handlers, which pass the
harness's state, and not the program's, to `cleanup` (`LB lib_timing.c:616,630`). Whether
SIGCHLD is still watched is a variable (`lib_timing.c:735` resets it at the second call).
`FcntlLocks` adds the record locks of `lat_fcntl`, which have owners and no token.

`StreamServers` is the six client/server programs over connections. A connection is two
counted streams of bounded size; a read returns what is there, at most a message. Servers
fork a child per connection or serve in turn, `lmhttp` has several workers on one socket.
SIGCHLD is one bit, however many children it stands for. The children of `lat_tcp` and
`bw_tcp` keep the listening socket they inherit (`lat_tcp.c:143`, `bw_tcp.c:197`): after
`-S` has ended the server, connections are still taken into the queue (`Listening`), and
what waits there is reset when the last holder goes (`LetGo`). A connection leaked by a
failed fork is held by the server and the children forked after it; which of them, the
model leaves open. The clients are programs of their own; within one `lmbench -P n` run a
client that is served may wait for one that is queued, and nothing is claimed.

`DatagramServers` has a network that is a set of datagrams, from which one may be lost,
received late or received twice (`dup` counts the doublings). The numbers of `bw_udp` are
words of two digits in base `Base`, so that the byte orders its two sides disagree about
are visible.

`MemKernels` describes a loop by how far it moves and what it touches; `BwMem*`, `BwMmap`
and `Stream` are tables of these, line by line; `MemChains` builds the chains of
`lib_mem.c` and `lat_dram_page.c`; `Results` is the insertion sort and the median of
`lib_timing.c`. `MemoryBench` and `FileBench` run them: initialize, turns, cleanup, merge,
report. The order of pages, which the code draws at random, is any permutation.

`Pipeline` is a file system and a list of scripts, each a list of steps; any step may fail
and any script be interrupted between two. A table is its header, the state of each row
(absent, measured, made up or N/A) and whether it holds copies. `sched_policy_bench` writes
N/A for a policy it is refused or cannot fork for, and exits 0 (`SP:213-217`); without root
`run_all.sh:47` expects it to. `plot_all.py` drops such rows (239-246), so a figure can show
a table with them. Programs are built one by one, and each may fail to compile.

`MC*` modules hold the values of constants that a `.cfg` cannot write down. Definitions
named "Mutant of ..." are not part of any specification: each is a plausible slip in the
definition after it, and shows that the property it is paired with would see it.

## 3. The runs

| Run | Instance | What it shows |
|---|---|---|
| `token_ring` | N = 5, five laps each | `InStep`. Stopping after the last lap is the bound `MaxLaps`, so deadlock is not checked |
| `thread` | 3 samples, 2 warm-up rounds | no lost wake-up, whole round trips, the ring of two implemented; with a partner the measurement ends in a result |
| `ctx` | N = 4, `-i` in {0, 1, 4}, warm-up 2 | samples are rotations, although set-up or ring may break anywhere; none is of a round the workers did not make, and no summary with `-i` of 1 or more; the ring of N is implemented when `-i` is at least the warm-up; everybody leaves |
| `ctx_iterations` | N = 2, `-i` 3, warm-up 2 | **violated**: `MeasuresIterations` |
| `table` | N = 4, scenarios A, B, C, 2 samples, warm-up 1 | pinned rows run where they say and unchecked reads are harmless while every fork succeeds; scenarios are disjoint; everybody leaves, whichever forks fail; every mixture of copies repairs to the table's beginning |
| `policy` | the whole table, 2 samples, warm-up 1, three kinds of rights | a row is measured under its policy; no ordinary policy and no test of root's is skipped; the program ends |
| `benchmp` | 2 children, 2 repetitions, baseline and real run | phases do not overlap; each result merged whole and once; nobody left behind; it comes back when nothing fails or when a first run does; orphans leave |
| `tokens` | nine programs, a ring of 4 for `lat_ctx`, 3 trips | one token; a trip is a rotation; a death is noticed, in the programs and at the times the property names; a run without failure comes through |
| `stream` | 2 clients, 2 workers, 2 rounds, one fault | no client ends the server, no handler blocks; an iteration is a round trip and a result was measured; `-S` works; every client ends, also one queued by a server that is gone |
| `datagram` | 2 clients, one loss, one duplicate | an iteration of `lat_rpc` is a round trip, and one of `lat_udp` until a datagram is doubled; after that it is ahead by no more than the doublings; a bandwidth call moves one iteration's bytes; no client ends a server; every client ends; two shutdown datagrams outlast one loss. Messages of `bw_udp` fit, shrink or grow when turned around, or are, as without `-m`, too long |
| `memory` | buffers up to 2 KiB, up to five pages in any order, three results | nothing outside, nothing kept; chains are one circle over the words they should visit; what is done for each operation credited, in full but for three cases (section 5); the report lies in the middle |
| `pipeline` | tables of two rows, three scripts in a row | what is published is whole and current, "complete" means a row for everything, measured in this run or N/A in `sched_policy.csv`; the repair keeps measurements unless it is interrupted between emptying a table and writing it |

Several properties have named parts, and the text of the module says which code each part
is about: `PhasesInStep` is `TypeOK /\ StartTogether /\ QuietWhenReporting`, `ChainAsMeant`
is six statements about chains, and so on. `MeasuredAsLabelled` and the like are
conjunctions of action properties.

*Why the bounds are enough.* The ring programs treat all rounds of the warm-up alike and
all measured rounds alike; what matters is the boundary between them, the first and last
round of each, and a round after the partner has left. Two rounds on either side have all
of these, and `-i` below, at and above the warm-up covers the three orders in which workers
and parent run out. A ring of four has a process whose neighbours are both children, so a
hole or a death can be before, at and after any position. The scenarios A, B, C are every
transition between pinned and free. In `benchmp` two children are enough for reports to
interleave and for one to die while the other is anywhere (the theorems of section 6 lift
the bound). Two fragments per message and room for two in a buffer make reads short and
writes wait. Three scripts are one that leaves something behind, one that meets it and one
after that. The sizes of `MCMemoryBench` lie below, at, above and between whole chunks,
strides, lines and pages; partial pages are used with power-of-two line counts only, see
section 5. `CHECK_DEADLOCK FALSE` stands where the program ends or is stuck for good in a
place section 5 names; the liveness properties of those runs say who must not be stuck.

*Fairness.* Weak fairness of each process: one that can run is scheduled some day, which
the kernel gives all of them, SCHED_IDLE included, on a machine that is not saturated.
Strong fairness of acquiring the mutex in `ThreadPingPong`: it is free infinitely often
while the other thread loops, and futexes do not starve a waiter for ever. In `Benchmp` the
parent and each child are fair, a benchmark body ends, alarms go off; in the servers
everything the programs and the kernel do by themselves (`Progress`) is fair. Nothing is
promised about faults: spurious wake-ups, failing forks, killed processes, lost datagrams
and interruptions may happen or not; if forking can fail, the next fork is a step of the
parent whichever way it turns out. `Pipeline`, `MemoryBench` and `FileBench` need no
fairness: their properties are about safety.

## 4. The violated run

`ctx_iterations`: *`-i` never delivers.* A worker leaves after `-i` rounds (`CS:192`), 100
before the parent, which takes at most `-i` - 100 samples and then dies of SIGPIPE or exits
with status 1, without a summary (README.md:312).

## 5. Where the code differs from what is said of it

These were met while modelling. Where a definition is named it stands in the module, and
any of the configurations of section 3 checks it when its property lines are replaced by
that name and the constants below; TLC then prints the counterexample.

1. *`-c` pins the workers only* (`CS:189`, README.md:313): `PinnedWhenMeasured` with
   `PinArgs = {TRUE}`, N = 2.
2. *A failed fork is a result* (`CM:100` against `CM:89`): the ring floods with end-of-file
   tokens. `ResultCountsEveryone` with `Scenarios <- OneRing`, N = 3.
3. *Free is not free* (`CM:72` against `CM:220`): `pin_cpu(-1)` leaves the mask of scenario
   B, so the free and scaling rows are measured on one CPU. `FreeMeansFree`, N = 2.
4. *Rows are written once per child* (`CM:116`): the 44 KB of
   `report/PROJECT_REPORT.md:158`. `RowsAreMeasurements`, N = 2.
5. *A restored policy is not* (`SP:96` against `SP:175`): an unprivileged parent cannot
   leave SCHED_IDLE. `RestoredAfterTest`. `OnlyRealTimeRefused` bounds the harm.
6. *Not everybody has started* (`lmbench3.ms`, "Coordination", against
   `LB lib_timing.c:767`): the byte that says ready is sent before the benchmark body has
   run once. `StartedBeforeMeasured`; what does hold is `StartTogether`.
7. *benchmp need not come back* (`lib_timing.c:308` against `228` and `704`): in a run
   whose saved handler is the flag, SIGTERM is noted and nobody looks. `AlwaysReturns`.
8. *A clean-up that hangs* (`lmbench.3`, "cleanup", against `LB lat_fifo.c:117`):
   `CleanupCleans`. Handlers hand `cleanup` the wrong cookie, so nobody is killed.
9. *The locks need not be handed over* (`LB lat_fcntl.c:20`): one side can make all its
   rounds alone. `HandedOver`. An orphaned partner spins for ever.
10. *lat_ctx_fixed has no ring of n* (line 6 against 124): `FixedRingHasN`, `CtxProcs = 3`.
11. *`-S` of bw_udp* sends a length its server turns around a second time, so the server
    answers with gigabytes first: `BwShutdownWorks` in `DatagramServers`.
12. *fix_and_generate_all.py:5 fixes all tables*, `sched_policy.csv` it does not, and an
    empty table stops it at line 54 on every later run: `FixFixes`.
13. *compile_and_sweep.py:6 sweeps the real lat_ctx*, and writes a model's numbers when it
    cannot: `RealIsMeasured`.

Met on the way, outside what a property states:

- lib_timing: a SIGTERM at the end of the baseline is forgotten (226); from the second
  `benchmp_interval` the death of a daemon goes unnoticed (735) and `lat_ctx`, whose
  process 0 keeps every pipe end, blocks in its read for ever (`lat_ctx.c:258`), as do
  `lat_unix`, `lat_sem` and `lat_fcntl`, which share what they wait for: the set `Keepers`,
  which `DeathNoticed` excepts from then on. `cp` has no return value (1810).
- `lat_pipe`, `lat_unix` and `lat_sem` go on after a failed fork and wait for themselves;
  `DeathNoticed` excepts that too.
- lat_tcp answers a fragment with a whole message; the empty connection of a killed client
  shuts the server down (159); a failed fork leaks a connection (140), whose client waits
  for ever. `tcp_connect` counts its retries in a static variable, and its -1 is used as a
  socket (`lib_tcp.c:182`). EXIT ends one worker of `lmhttp` (206); `rdwr` tests `i` and
  not `nwrote` (327).
- lat_udp arms one alarm for a batch and leaves it armed (140), and looks at no number
  (147): after a doubled datagram every iteration counts the answer to an earlier message.
  bw_udp carries its count from one iteration to the next (142), so that all iterations but
  the first receive nothing and are credited. It swaps its control words on one side only
  (191) and, like `bw_pipe`, rounds -M up too far (102); `bw_tcp` does it right. Without
  `-m` its message is the whole transfer (97), 10 MB: too long for a datagram on big-endian
  hosts, where the server exits (194), and on others 40 KB, which the client does not
  accept (152).
- lib_mem: a partly used page whose line count is no power of two closes its chain early
  (48 lines become 16); with at most one pointer `p[0]` is never set and the program walks
  whatever is there, as it does after a failed `base_initialize`; `lat_mem_rd -s 0` does
  not end. cache.c mends a chunk in steps of `int` (590, 690) and divides by a zero number
  of spare pages (634). STREAM's "add" runs another kernel's body and is credited three
  arrays for one (`stream.c:119`). bw_file_rd credits bytes of a file that is shorter or
  could not be opened (45, 101, 190). lat_mmap touches a last stride below `N` bytes only
  with `-r`. `WorkAgainstCredit` states what is done in these three cases; it does not
  excuse it. `cp8`, `cp16`, `cp32` and `cp64` of bw_mem64 copy into a second buffer nobody
  has allocated (128): `WithBuffers` leaves them out. The copy made for `-C` stays when
  `open` or `mmap` fails.
- The tables: a first phase in its own schema ends `plot_all.py` with a KeyError and leaves
  the old figures; `run_lmbench.py` reads stdout, `lat_ctx` writes stderr. Interrupted
  between `open` and `writelines` (62-63), the repair loses the rows it was to keep.

## 6. What is proved

Proofs are in modules of their own over the components'; the assumptions are the named
ASSUMEs of the component's module, which the runs evaluate.

**`ThreadPingPongProofs`** holds the two theorems about the abstract ring, for every N >= 2:
`RingTyping`, `RingInStep`. `InStep` is inductive together with the types; the proof is by
whether the token wraps around.

It also proves of `ThreadPingPong`, for every number of samples and warm-up rounds:
`TypeCorrect`, `WakeupsArrive`, `SidesAlternate`, `ResultComplete`, `PartnerNeeded`,
`SamplesAreRoundTrips` and `PingPongIsRing`. No property is inductive alone. `IInv` adds
`Exclusion` (a thread is between lock and unlock iff it owns the mutex; without it the two
could step on `turn` together), `TurnFits` (where a thread is tells whose turn it can be),
`RoundsFit` (a thread has left its loop iff it made all its rounds) and `SamplesFit` (`lat`
is the measured part of thread 0's rounds). `NoLostWakeup` holds because the signal follows
the write it announces under the mutex; `Alternation` counts both threads' writes of `turn`
and ties them to its value, which is also the refinement mapping to the ring of two.

**`CtxSwitchBenchProofs`**, for every number of processes, every `-i` and length of the
warm-up, with or without `-c`: `CtxTypes`, `SamplesCarried` and
`SamplesAreRotations`. These need the invariant. Its upper half is `TokensComeFrom`:
whatever a process has written, has in its pipe or in its hand, everybody before it in the
ring has written, so no worker is ahead of the parent. Its lower half is `TokensReturn`:
unless the parent's pipe is at its end, all workers have written every round the parent is
through and every token waiting for it. When the parent finds a token the pipe is not at
its end, and with `sent[Parent] = round + 1` (`ParentCounts`) the halves meet. An end of
file, once reached, stays: nobody can be forked any more (`EndsFit`) and the last worker
cannot write, since to write it would hold the end. For `SamplesCarried` there is
`RoundsCarried` in addition: the parent's measured read is never of a round beyond `-i`.

It also proves, for every N and every `-i` from the warm-up on, `CtxIsRing`: the program
implements `TokenRing`. The refinement needs more than the samples: `LeaversDone` (who
leaves has made his rounds, unless the parent is gone), `NoneLost` (a token on its way has
its reader), `ParentFits`, `RingStands` and `RoundsReturn`. Each step of a process is a
`Pass` of the abstract ring or a stutter; below the warm-up it is false, which is why the
property says so.

**`SchedPolicyProofs`**, for every number of rounds, length of warm-up and kind of user:
`SchedTypes`, `KilledTogether`, `UnderPolicy` and `OnlyRealTime`. The invariant ties the
policy of both processes to the parent's place in the table and to what the user may set:
once in SCHED_IDLE an unprivileged parent stays there, and every policy after that in the
table is a real-time one.

**`MigrationProofs`**, for every number of processes and rounds, every list of scenarios and
whatever forks fail: `RowIsScenario` and `OneScenarioAtATime`, of `CoreMigration` and, by
`TableRows`, of its composition with the table. `run_ring` looks at no return value, so the
proof must show that in a ring without a hole no `read` ever returns 0 (`Supplied`) and no
`write` ever meets a broken pipe (`Wanted`). Both are arguments about counts. No token is
lost (`TokensStay`), so a reader at the end of file would have a predecessor that wrote all
of its tokens while the reader still lacks one; no token is invented (`TokensComeFrom`), so
the successor of a writer has still one to read. From there on it is the argument of
`ctx_switch_bench`. `PinFits` says that who has joined the ring is on the core its scenario
names, whatever mask the scenario before left; `InOrder` that the parent has waited for the
first `waits` entries of `pids[]` and all of these are gone.

Of the composition it proves `TableRestored`: the invariant `TableSurvives` of the table on
disk. The invariant of the proof, `TableInv`, adds two facts to the program's. Every buffer
is empty or begins the table, and the running parent's holds all of it so far (`BuffersFit`).
In the file a row stands first where the row it follows has stood before (`FileFits`,
`LinesInOrder`): every exit adds a beginning of the table, never a part from its middle. The
repair is a fold over the lines of the file, a recursive function. That it exists and what
it makes of each next line (`FoldExists`, `RepairSteps`) is shown by the least place where it
could go wrong (`Induction`); a line it has not kept yet is then the next row of the table
(`RepairOfOrdered`), so it ends with the table as far as the file has it.

**`BenchmpProofs`**, for every number of children and repetitions and every failure:
`BenchmpLeavesNobody`. The invariant: only the team of the run is ever forked (`TeamOnly`),
in order (`ForkedInOrder`), and the loops that wait, backwards or forwards, have waited for
everybody they have passed (`WaitedFor`).

On top of it come `BenchmpInStep` (nobody measures before all have sent the ready byte,
which comes before the first warm-up, and nobody reports while another measures) and
`BenchmpMergesAll`. The pipes are anonymous, so the
invariant counts: as long as no failure has been noted, the answers collected and those in
the pipe are as many as the children that have come that far (`Counted`). When the count is
full the phase is over for all; `StartGuard` and `QuietGuard` carry that on while bytes lie
in the pipes. During the collection either nobody reports or one child does and all the
pieces in the pipe and read so far are its own (`OneReports`); all others are settled. A
child that dies in between sets the parent's flag, and `NoneGone` says that without the flag
nobody has gone.

The same module has the theorems of the memory and file programs, which run in that
harness, for every size they accept. `RightReported` has two halves. The bounds of
`find_tlb` enclose the threshold (`SearchFits`); that doubling meets `MaxPages` and the
halving ends exactly rests on the named assumption that `MaxPages` is a power of two,
stated by its divisors (`TlbAssumption`). The list of results is sorted and complete
(`ListFits`): `insertsort` puts a result before the first faster one, so by transitivity
behind all slower ones (`SortedInsertion`) and changes no other count (`CountInserted`); in
a sorted list the last is a fastest and a middle one, or the average of the two around the
middle, has at most half on either side (`MedianOf`). `WorkDone` says what is done for each
operation credited, the short cases of section 5 included. Of the bandwidth programs it
shows that the loop has touched every line below its pointer and none above (`SweepFits`);
each of their sixty kernels is `Regular`, its chunk has an access in every line of its own,
which is shown of `Every` and its variants once and then of each table of kernels. Of the
file programs `FileFits` counts bytes, pages and strides; `MappedCount` has the division by
`N` in which `lat_mmap`'s two ways of touching agree. What a job is at all (`JobFits`)
follows from the assumptions on the constants, and `KindsApart` that the actions of one
program do not disturb the claims about another.

`MemoryKept` has the latency programs as well; of the bandwidth programs it is about loops
that have all their buffers (`WithBuffers`: all but `cp8` to `cp64` of bw_mem64). Where a
walk goes next is what the chain says, so the invariant (`ChainFits`) is that some set of
places holds the start, the place reached and every pointer of its own, and lies in the
allocation (`Circle`); nothing less is kept by a load. One lemma for each initialize
function shows that its chain has such a set, for every order of the pages: the order of
the lines comes from reversed bits, of which only their bound is needed (`ReversedFacts`),
and that a definition by halving or by groups has a solution at all is proved once
(`Recursion`). `LineTested` keeps the set while `line_test` cuts the chain and repairs it,
`ChainHalved` the sizes when `malloc` grants only half. In `lat_dram_page` the last page of
a group may hold fewer lines than the others, so there the set is smaller than the chain:
`GroupPlaces` is what all pages of a group have, and `GroupStep` shows that a regrouping
leads nowhere else. Which arguments are taken is the named assumption `ChainAssumption`
(`Walkable`): a stride has room for a pointer, `lat_mem_rd` measures no range shorter than
its stride. Where the code goes on with a pointer it has never set, the model stops
(`astray`), and nothing is claimed.

**`TokenProgramsProofs`**, for every size of the `lat_ctx` ring, every number of iterations
and whatever fails or is killed: `TokenOneAtATime` and `TripsRotate`, of the
token programs with the record locks of `lat_fcntl`. What a round trip times is one rotation
only if the token came through everybody, which no program checks, and the small ones do not
even look at what `read` returns. The invariant orders the counts round the ring
(`TokenComesFrom`: nobody is ahead of who is before it; `TokenReturns`: process 0 is one
round ahead of the last at most), and `TokenIsBack` says at which labels it is not ahead at
all. `lat_sem`, whose partner moves first, and `lat_fcntl`, which passes locks instead of
bytes, have invariants of their own (`SemToken`, `FcntlLocked`: of the two locks process 0
holds the one it has not yet released in its round, so the partner gets as far as process 0
has released). `SmallChild` is needed for the ends of file: left alone, the child of a small
program leaves only when it has made its last round, so that no unchecked `read` returns 0
before.

**`PipelineProofs`**, for tables of any number of rows and any number of scripts, each
interrupted anywhere: `WhatIsPublished`, `PhasesAreComplete` and `MeasuredIsKept`. What a
script has still to do is always an end of its list of steps (`RestOfScript`), so the
number of steps left says where it is (`FixAt`, `CompileAt`, `PlotAt`, `RunAllAt`), and the
rest of the invariant speaks about that number: from the sweep to the commit all rows are
in memory, then in the table (`SweptWhole`); between the emptying and the writing of a
repair the table is in memory (`Repaired`); `run_all.sh` has completed the tables of the
phases it is through, each with a row for everything, measured or, in `sched_policy.csv`,
N/A (`PhasesDone`), and `plot_all.py` has drawn those it is past (`FigsDrawn`). An
interrupt ends these claims, and the next script starts with none of them: nothing relies
on what an interrupted script left behind.

**`ServerProofs`**, of the connection servers, for any number of clients, workers,
connections, rounds and failures, and messages and buffers of any size:
`ServersKeepServing` and `WhatIsCountedIsReal`. Neither property is inductive: why no
server goes, and that an iteration of `lat_tcp` finds its connection empty, depend on what
every other party may do to the connection. The invariant first says whose it is: a client
has it to itself (`ClientEnds`), so has the worker or the child that serves it, and one
that waits to be accepted waits once (`ServerEnds`). Then come the reasons a server could
have to go. The word for it is only ever sent by `-S` (`Words`). The child of `lat_tcp`
takes an end of file before the message size for the same, and `SizeIsTold` says that no
client leaves of itself before its child has been told. A worker of `lmhttp` exits when a
write fails, and `FileIsSent` that what it has still to write is what the client still
waits for. `Tally` has the counts: for `bw_tcp` and `lat_unix_connect` all of them real,
all `Rounds` of them at the end. `OneMessage` says that a message of one fragment is with
the client, on its way, with the child or on its way back, and, by the bound on `left`,
that the child answers it once. In the proof most steps are of one of three kinds
(`ServerLets`, `ClientLets`, `Talks`), each with one lemma, and each action has a lemma
that says of which.

The same module proves `FaultsStayContained` of the datagram servers (`DatagramAnswers`), for
any number of clients, iterations, sends and faults, and all sizes and word lengths. Both
components have a `prog`, a `left` and an `Init`, so `DatagramServers` is an instance there,
`D`, and the theorem has its named assumption in front. A server of `lat_udp` is ended by a
negative number and `lat_rpc`'s by who calls, so the invariant says who may send what
(`Posted`: clients number from 0 upwards, only `-S` sends the rest), and of `bw_udp` that
until then the server answers what a client asked for (`Requested`), which is a datagram
when the byte orders agree and `-m` is not too large. That `lat_udp` may take whatever comes
for its answer needs `OneUnderWay`: as long as the net has doubled nothing, at most one
datagram from or to a client is in it, and then the client waits for its number; a client
that loses one never sends again. After a doubling the number is one of the client's own
earlier ones, and `FewUnderWay` counts the datagrams under way, which only a doubling adds
to. `NeedFits` counts what a call of `bw_udp` has taken, and
`TripsFit` bounds the numbers.

## 7. What is only model-checked

All liveness (`PartnerMeansResult`, `EverybodyLeaves`, `ProgramEnds`, `ComesBack`,
`OrphansLeave`, `ComesThrough`, `DeathNoticed`, `ShutdownWorks`, `ClientsFinish`): it needs
fairness and ENABLED, which are out of the prover's reach. Also one property of the memory
programs, `ChainAsMeant`: that a walk is one circle of so many places in the order meant.
That it stays in its buffer is proved, but its length is a statement about an iterated
function over reversed bits, and needs induction over the walk. It is also meant for lines
and words in powers of two only, which the runs use: of any other number `words_initialize`
visits some place twice and another never, while `MemoryKept` holds for all of them.

## 8. What is not modelled, and why

Statistics, the time-stamp counter and formatting: a sample is the index it is stored at,
so a mean over a wrong *set* of samples shows and a wrong formula does not. This leaves out
the histogram of `CS` (it counts a value whose time stamps are abstracted, and
`hist_percentile` is never called) and `lib_stats.c`. The working set of `lat_ctx` and its
cache effects: data that no control depends on. Full pipes of the rings and full disks. The
console output, whose buffer is inherited as the table's is. `lat_rpc` over TCP, which is a
stream protocol of the RPC library. NUMA and eBPF wrappers and the comparison script:
straight-line shell around external tools. `cache.c`'s search, apart from the chains of
`measure()`: a heuristic over measured times. The other lmbench programs (`lat_proc`,
`lat_syscall`, `lat_select`, `lat_sig`, `lat_fs`, `disk`, `lmdd`, `bw_pipe`, `bw_unix`):
loops around a system call in one process, or variants of what the token programs and
servers already are. Report, figures and build files.

## 9. Running it

    tlc -config CtxSwitchBench.cfg MCCtxSwitchBench.tla     # and so on, as PROJECT.json lists
    tlapm BenchmpProofs.tla                                 # and the other *Proofs.tla

The longest run takes a few minutes on two cores, the longest proof (`BenchmpProofs`) about
twelve.
