------------------------------- MODULE Pipeline -------------------------------
(***************************************************************************)
(* The scripts around the benchmarks: build_and_run.py,                    *)
(* fix_and_generate_all.py, compile_and_sweep.py, run_lat_ctx_sweep.py,    *)
(* sweep_lat_ctx.py, run_lmbench.py, run_all.sh with its phase 1,          *)
(* plot_all.py and generate_sample_figures.py.  They work on the files in  *)
(* results/ and report/figures, one script after the other, and any of     *)
(* them may be interrupted; a script is a list of steps.                   *)
(*                                                                         *)
(* A table is its first line (none in an empty file, or one of the two     *)
(* headers lat_ctx tables are given), whether each row is absent,          *)
(* measured, made up by a formula or "N/A" (na), and whether some lines    *)
(* are there twice: the benchmarks that fork between two rows leave copies *)
(* (see ResultTable).                                                      *)
(* A figure is known by the table it shows.  The tables no figure is drawn *)
(* from are left out.                                                      *)
(***************************************************************************)
EXTENDS Naturals, Sequences, FiniteSets

CONSTANTS
  Rows,                      \* number of rows of a table
  MaxRuns                    \* bound: scripts started
ASSUME PipelineAssumption == Rows \in Nat \ {0} /\ MaxRuns \in Nat

Tables == {"lat_ctx", "core_migration", "sched_policy", "proc_vs_thread"}
Copied == Tables \ {"lat_ctx"}

(* Each table is written by the program of its name; lat_ctx_fixed prints. *)
Step(op)  == <<op, "">>
Plot      == <<<<"fig", "lat_ctx">>, <<"fig", "core_migration">>, <<"fig", "sched_policy">>,
               <<"fig", "proc_vs_thread">>>>
Save      == <<<<"open", "lat_ctx">>, <<"write", "lat_ctx">>>>
Repair(t) == <<<<"read", t>>, <<"open", t>>, <<"write", t>>>>
Fill      == <<Step("missing"), Step("generate"), Step("synthesize"),
               <<"open", "sched_policy">>, <<"write", "sched_policy">>>>
Steps ==
  [build_and_run     |-> <<Step("build"), Step("sweep")>> \o Save \o
                         <<<<"run", "sched_policy">>, <<"run", "proc_vs_thread">>,
                           <<"run", "core_migration">>>>,
   fix_and_generate  |-> <<Step("build")>> \o Repair("core_migration") \o Repair("proc_vs_thread")
                         \o <<Step("sweep")>> \o Save \o Fill \o Plot \o <<Step("commit")>>,
   compile_and_sweep |-> <<Step("compile"), Step("sweep")>> \o Save \o Plot \o <<Step("commit")>>,
   run_lat_ctx_sweep |-> <<Step("sweep")>> \o Save,
   sweep_lat_ctx     |-> <<<<"open", "lat_ctx">>, Step("sweep"), <<"write", "lat_ctx">>>>,
   run_lmbench       |-> <<<<"open", "lat_ctx">>, Step("sweep"), <<"write", "lat_ctx">>>>,
   run_all           |-> <<Step("phase1"), <<"run", "core_migration">>, <<"run", "sched_policy">>,
                           <<"run", "proc_vs_thread">>>>,
   plot_all          |-> Plot,
   sample_figures    |-> <<Step("sample")>>]
Scripts == DOMAIN Steps

VARIABLES
  bin,                       \* the programs that are built
  table,                     \* the files in results/
  fig,                       \* the figures of each table: what they show
  script, todo,              \* the running script and what is left of it
  mem,                       \* what it has read or collected, and not written
  fresh,                     \* tables its "run" steps have completed (history)
  failed,                    \* plot_all raised an exception (history)
  published,                 \* lat_ctx table of the last commit
  runs                       \* scripts started (bound)

disk    == <<bin, table, fig, published>>
work    == <<mem, fresh, failed>>
vars    == <<disk, script, todo, work, runs>>

Row       == 1 .. Rows
All(s)    == [r \in Row |-> s]
File(h, rows, d) == [header |-> h, rows |-> rows, dup |-> d]
Missing   == File("missing", All("absent"), FALSE)
Empty     == File("none", All("absent"), FALSE)
Exists(t) == table[t].header # "missing"
Whole(t)  == table[t].header = "std" /\ \A r \in Row : table[t].rows[r] # "absent"

Init ==
  /\ bin \in {{}, Tables}
  /\ table = [t \in Tables |-> Missing]
  /\ fig = [t \in Tables |-> "none"]
  /\ script = "none" /\ todo = <<>> /\ mem = Empty
  /\ fresh = {} /\ failed = FALSE /\ published = Missing /\ runs = 0

----------------------------------------------------------------------------
Start(s) ==
  /\ script = "none" /\ runs < MaxRuns
  /\ script' = s /\ todo' = Steps[s]
  /\ runs' = runs + 1
  /\ UNCHANGED <<disk, work>>

(* The end of a script: all steps done, an error nobody catches, or an     *)
(* interrupt at any time.  What it has in memory goes with it.             *)
Die ==
  /\ script' = "none" /\ todo' = <<>>
  /\ mem' = Empty /\ fresh' = {} /\ failed' = FALSE

Finish    == script # "none" /\ todo = <<>> /\ Die /\ UNCHANGED <<disk, runs>>
Interrupt == script # "none" /\ todo # <<>> /\ Die /\ UNCHANGED <<disk, runs>>

At(op, t) == script # "none" /\ todo # <<>> /\ Head(todo) = <<op, t>>
Skip(n)   == UNCHANGED script /\ todo' = SubSeq(todo, n+1, Len(todo))
Go        == UNCHANGED script /\ todo' = Tail(todo)
Proceed   == Go /\ UNCHANGED work

(* The content of a table changes; figures that showed it show an old one. *)
Put(t, file) ==
  /\ table' = [table EXCEPT ![t] = file]
  /\ fig' = [fig EXCEPT ![t] = IF file # table[t] /\ @ = "current" THEN "old" ELSE @]

----------------------------------------------------------------------------
(* build: each program that does not compile, or has no source, is skipped. *)
Builds == [build_and_run |-> Tables, fix_and_generate |-> {"lat_ctx", "sched_policy"}]

Build ==
  /\ At("build", "")
  /\ \E built \in SUBSET Builds[script] : bin' = bin \cup built
  /\ Proceed
  /\ UNCHANGED <<table, fig, published, runs>>

(* compile_and_sweep.py does not go on without a program that works. *)
Compile ==
  /\ At("compile", "")
  /\ \/ bin' = bin \cup {"lat_ctx"} /\ (Proceed \/ Die)
     \/ bin' = bin /\ Die
  /\ UNCHANGED <<table, fig, published, runs>>

(* Mutant of Measured: a failing row is always left out. *)
MeasuredOnly(s) ==
  CASE s = "run_lmbench" -> {All("absent")}
    [] s = "sweep_lat_ctx" -> {All("model")}
    [] OTHER -> [Row -> {"measured", "absent"}]

(* One run of lat_ctx_fixed per row; one that fails is left out, replaced  *)
(* by the formula, or (a timeout in build_and_run.py) ends the script.     *)
(* run_lmbench.py reads the standard output of lat_ctx, which prints to    *)
(* standard error.                                                         *)
Measured(s) ==
  CASE s = "run_lmbench" -> {All("absent")}
    [] s = "sweep_lat_ctx" -> {All("model")}
    [] "lat_ctx" \notin bin -> {All("model")}
    [] s \in {"build_and_run", "run_lat_ctx_sweep"} -> [Row -> {"measured", "absent"}]
    [] OTHER -> [Row -> {"measured", "model"}]

Sweep ==
  /\ At("sweep", "")
  /\ script = "run_lat_ctx_sweep" => "lat_ctx" \in bin
  /\ \E rows \in Measured(script) : mem' = File("std", rows, FALSE)
  /\ Go
  /\ UNCHANGED <<disk, fresh, failed, runs>>

SweepEnds ==
  /\ At("sweep", "")
  /\ \/ script = "run_lat_ctx_sweep" /\ "lat_ctx" \notin bin
     \/ script = "build_and_run" /\ "lat_ctx" \in bin
  /\ Die
  /\ UNCHANGED <<disk, runs>>

(* open(..., "w") empties the file, closing it writes the lines out. *)
OpenTable(t) ==
  /\ At("open", t)
  /\ Put(t, Empty)
  /\ Proceed
  /\ UNCHANGED <<bin, published, runs>>

WriteTable(t) ==
  /\ At("write", t)
  /\ Put(t, mem) /\ mem' = Empty
  /\ Go
  /\ UNCHANGED <<bin, published, fresh, failed, runs>>

(* Mutant of ReadTable: no first line counts as a blank one. *)
ReadTableBlank(t) ==
  /\ At("read", t)
  /\ IF ~Exists(t) THEN Skip(3) /\ UNCHANGED mem
     ELSE Go /\ mem' = [table[t] EXCEPT !.dup = FALSE,
                         !.header = IF @ = "none" THEN "blank" ELSE @]
  /\ UNCHANGED <<disk, fresh, failed, runs>>

(* Steps 2 and 3 of fix_and_generate_all.py keep the first line and every  *)
(* other line once; an empty file has no lines[0].                         *)
ReadTable(t) ==
  /\ At("read", t)
  /\ \/ ~Exists(t) /\ Skip(3) /\ UNCHANGED work
     \/ table[t].header = "none" /\ Die
     \/ /\ table[t].header \notin {"missing", "none"}
        /\ mem' = [table[t] EXCEPT !.dup = FALSE] /\ Go /\ UNCHANGED <<fresh, failed>>
  /\ UNCHANGED <<disk, runs>>

----------------------------------------------------------------------------
(* A benchmark that is given -o: it finishes, cannot open its table, or    *)
(* dies after it has emptied it, with some first rows flushed.             *)
(* sched_policy_bench writes N/A for a policy it is refused, or cannot     *)
(* fork for, and counts that as done.                                      *)
Filled(t)   == IF t = "sched_policy" THEN {"measured", "na"} ELSE {"measured"}
Finished(t) ==
  {File("std", rows, t \in Copied /\ \E r \in Row : rows[r] = "measured") :
     rows \in [Row -> Filled(t)]}
FirstOf(file, n, d) ==
  File("std", [r \in Row |-> IF r <= n THEN file.rows[r] ELSE "absent"], d)
Prefixes(t) ==
  {FirstOf(file, n, d) : file \in Finished(t), n \in 0 .. Rows-1, d \in {FALSE, (t \in Copied)}}
    \cup {Empty}

(* Under set -o pipefail a program that fails ends run_all.sh; the other   *)
(* scripts go on with whatever is there.                                   *)
OnFailureGoOn == Proceed                               (* Mutant of OnFailure *)
OnFailure == IF script = "run_all" THEN Die ELSE Proceed

Bench(t) ==
  /\ At("run", t)
  /\ t \in bin
  /\ \/ /\ \E file \in Finished(t) : Put(t, file)
        /\ fresh' = fresh \cup {t} /\ Go /\ UNCHANGED <<mem, failed>>
     \/ UNCHANGED <<table, fig>> /\ OnFailure
     \/ \E file \in Prefixes(t) : Put(t, file) /\ OnFailure
  /\ UNCHANGED <<bin, published, runs>>

NoBench(t) ==
  /\ At("run", t)
  /\ t \notin bin
  /\ OnFailure
  /\ UNCHANGED <<disk, runs>>

(* Phase 1: a header of its own, and then, row by row, lat_ctx of lmbench. *)
(* A row it fails on is passed over; the first one it does not fail on     *)
(* gives no number, so that grep fails and with it the script.             *)
Phase1 ==
  /\ At("phase1", "")
  /\ Put("lat_ctx", File("phase1", All("absent"), FALSE))
  /\ (Proceed \/ Die)
  /\ UNCHANGED <<bin, published, runs>>

(* make fails in lmbench/, or builds no lat_ctx. *)
Phase1Fails ==
  /\ At("phase1", "")
  /\ Die
  /\ UNCHANGED <<disk, runs>>

----------------------------------------------------------------------------
(* Mutant of MissingTable: whatever is there is replaced. *)
MissingTableAlways ==
  /\ At("missing", "")
  /\ Proceed
  /\ UNCHANGED <<disk, runs>>

(* Step 5: a table that exists stays. *)
MissingTable ==
  /\ At("missing", "")
  /\ \/ Exists("sched_policy") /\ Skip(5)
     \/ ~Exists("sched_policy") /\ Go
  /\ UNCHANGED <<disk, work, runs>>

(* For one that does not the benchmark is run, if there is one; what it    *)
(* returns is not acted on.                                                *)
Generate ==
  /\ At("generate", "")
  /\ LET t == "sched_policy"
     IN  \/ UNCHANGED <<table, fig>>
         \/ t \in bin /\ \E file \in Finished(t) \cup Prefixes(t) : Put(t, file)
  /\ Proceed
  /\ UNCHANGED <<bin, published, runs>>

(* Numbers are put in when that left next to nothing: the header is        *)
(* shorter than 50 bytes, with a row it is longer.                         *)
Synthesize ==
  /\ At("synthesize", "")
  /\ \/ /\ table["sched_policy"].rows[1] = "absent"
        /\ mem' = File("std", All("model"), FALSE) /\ Go
     \/ table["sched_policy"].rows[1] # "absent" /\ UNCHANGED mem /\ Skip(3)
  /\ UNCHANGED <<disk, fresh, failed, runs>>

Drawable(t) == table[t].header = "std"

(* Mutant of Draw: plot_all goes on with the next figure. *)
DrawOrNot(t) ==
  /\ At("fig", t)
  /\ fig' = IF Drawable(t) THEN [fig EXCEPT ![t] = "current"] ELSE fig
  /\ Proceed
  /\ UNCHANGED <<bin, table, published, runs>>

(* One figure of plot_all.py: a missing table is skipped, an empty file or *)
(* a header without the column ends plot_all, which the scripts that call  *)
(* it do not mind.                                                         *)
RestOfPlot  == Cardinality({i \in DOMAIN todo : todo[i][1] = "fig"})

Draw(t) ==
  /\ At("fig", t)
  /\ \/ ~Exists(t) /\ Go /\ UNCHANGED <<fig, failed>>
     \/ Drawable(t) /\ fig' = [fig EXCEPT ![t] = "current"] /\ Go /\ UNCHANGED failed
     \/ Exists(t) /\ ~Drawable(t) /\ failed' = TRUE /\ UNCHANGED fig /\ Skip(RestOfPlot)
  /\ UNCHANGED <<bin, table, published, mem, fresh, runs>>

(* generate_sample_figures.py uses the names of the lat_ctx figures. *)
Sample ==
  /\ At("sample", "")
  /\ fig' = [fig EXCEPT !["lat_ctx"] = "sample"]
  /\ Proceed
  /\ UNCHANGED <<bin, table, published, runs>>

(* pdflatex and git commit, whatever came before. *)
Commit ==
  /\ At("commit", "")
  /\ published' = table["lat_ctx"]
  /\ Proceed
  /\ UNCHANGED <<bin, table, fig, runs>>

Next ==
  \/ \E s \in Scripts : Start(s)
  \/ Finish \/ Interrupt
  \/ Build \/ Compile \/ Sweep \/ SweepEnds \/ Phase1 \/ Phase1Fails
  \/ MissingTable \/ Generate \/ Synthesize \/ Sample \/ Commit
  \/ \E t \in Tables :
       OpenTable(t) \/ WriteTable(t) \/ ReadTable(t) \/ Bench(t) \/ NoBench(t) \/ Draw(t)

Spec == Init /\ [][Next]_vars

----------------------------------------------------------------------------
(* Type invariant. *)
Files == [header : {"missing", "none", "std", "phase1"},
          rows : [Row -> {"absent", "measured", "model", "na"}], dup : BOOLEAN]
TypeOK ==
  /\ bin \subseteq Tables
  /\ table \in [Tables -> Files] /\ published \in Files /\ mem \in Files
  /\ fig \in [Tables -> {"none", "sample", "old", "current"}]
  /\ script \in Scripts \cup {"none"}
  /\ fresh \subseteq Tables /\ failed \in BOOLEAN /\ runs \in 0 .. MaxRuns

(* Whatever lat_ctx_fixed does, and whatever an interrupted or other       *)
(* script left behind, the sweep that fix_and_generate_all.py and          *)
(* compile_and_sweep.py commit has every row and the header plot_all.py    *)
(* expects (the fallback model of each point).                             *)
PublishedIsWhole ==
  published # Missing =>
    published.header = "std" /\ \A r \in Row : published.rows[r] # "absent"

(* When run_all.sh comes to "ALL PHASES COMPLETE" the tables of its phases *)
(* 2 to 4 are whole and nothing in them is made up or older than this run: *)
(* tee hides the status of the program in front of it, set -o pipefail     *)
(* does not.  Whole means a row for everything that was to be measured; in *)
(* sched_policy.csv such a row may say N/A.                                *)
CompleteMeansAll ==
  script = "run_all" /\ todo = <<>> =>
    \A t \in Tables \ {"lat_ctx"} :
      /\ t \in fresh /\ Whole(t)
      /\ \A r \in Row : \/ table[t].rows[r] = "measured"
                        \/ t = "sched_policy" /\ table[t].rows[r] = "na"

(* When plot_all.py comes through, each table that exists is the one its   *)
(* figures show: neither an older one, nor a sample.                       *)
PlotIsCurrent ==
  script \in {"plot_all", "fix_and_generate", "compile_and_sweep"}
    /\ ~failed /\ todo \in {<<>>, <<Step("commit")>>}
      => \A t \in Tables : Exists(t) => fig[t] = "current"

(* What is published and drawn is what the tables are. *)
PublishedIsCurrent == TypeOK /\ PublishedIsWhole /\ PlotIsCurrent

(* fix_and_generate_all.py repairs and fills in, outside the lat_ctx       *)
(* sweep.  A measured row is kept as long as its table has it, or is       *)
(* empty, about to be written, and the script has it in memory.  No step   *)
(* loses one - neither to a number that is made up, nor to the benchmark   *)
(* run for a missing table - but an interrupt between open and writelines. *)
Kept(t, r) ==
  \/ table[t].rows[r] = "measured"
  \/ /\ table[t] = Empty /\ todo # <<>> /\ Head(todo) = <<"write", t>>
     /\ mem.rows[r] = "measured"
MeasuredStays ==
  [][script = "fix_and_generate" =>
       \A t \in Tables \ {"lat_ctx"}, r \in Row :
         Kept(t, r) => Kept(t, r)' \/ (script' = "none" /\ table[t] = Empty)]_vars

(* fix_and_generate_all.py: "Fixes corrupted CSVs ... generates all        *)
(* missing data": when it is through, no table is empty or has a line      *)
(* twice.                                                                  *)
FixFixes ==
  script = "fix_and_generate" /\ todo = <<>> =>
    \A t \in Tables : table[t].header \notin {"none"} /\ ~table[t].dup

(* compile_and_sweep.py: "Outputs results/lmbench_lat_ctx.csv with REAL    *)
(* measured latencies".                                                    *)
RealIsMeasured ==
  script = "compile_and_sweep" /\ todo = <<>> =>
    \A r \in Row : table["lat_ctx"].rows[r] = "measured"
=============================================================================
