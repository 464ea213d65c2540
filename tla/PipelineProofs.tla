---------------------------- MODULE PipelineProofs ----------------------------
(***************************************************************************)
(* Proofs about the scripts, for tables of any number of rows and any      *)
(* number of scripts, each of which may be interrupted anywhere.           *)
(***************************************************************************)
EXTENDS Pipeline, FiniteSetTheorems, SequenceTheorems, TLAPS

(* The lists of steps, entry by entry. *)
Ops == {"build", "compile", "sweep", "missing", "generate", "synthesize", "commit",
        "phase1", "sample", "fig", "open", "write", "read", "run"}
StepSet == Ops \X (Tables \cup {""})

LEMMA Pair == ASSUME NEW A, NEW B, NEW x \in A \X B PROVE x = <<x[1], x[2]>>
  BY SMT

LEMMA FixSteps ==
  LET S == Steps["fix_and_generate"] IN
  /\ S \in Seq(StepSet) /\ Len(S) = 20
  /\ S[1][1] = "build"
  /\ S[2][1] = "read" /\ S[2][2] = "core_migration"
  /\ S[3][1] = "open" /\ S[3][2] = "core_migration"
  /\ S[4][1] = "write" /\ S[4][2] = "core_migration"
  /\ S[5][1] = "read" /\ S[5][2] = "proc_vs_thread"
  /\ S[6][1] = "open" /\ S[6][2] = "proc_vs_thread"
  /\ S[7][1] = "write" /\ S[7][2] = "proc_vs_thread"
  /\ S[8][1] = "sweep"
  /\ S[9][1] = "open" /\ S[9][2] = "lat_ctx"
  /\ S[10][1] = "write" /\ S[10][2] = "lat_ctx"
  /\ S[11][1] = "missing"
  /\ S[12][1] = "generate"
  /\ S[13][1] = "synthesize"
  /\ S[14][1] = "open" /\ S[14][2] = "sched_policy"
  /\ S[15][1] = "write" /\ S[15][2] = "sched_policy"
  /\ S[16][1] = "fig" /\ S[16][2] = "lat_ctx"
  /\ S[17][1] = "fig" /\ S[17][2] = "core_migration"
  /\ S[18][1] = "fig" /\ S[18][2] = "sched_policy"
  /\ S[19][1] = "fig" /\ S[19][2] = "proc_vs_thread"
  /\ S[20][1] = "commit"
<1> DEFINE S == Steps["fix_and_generate"]
<1>1. S \in Seq(StepSet)
  <2>1. /\ <<"fig", "core_migration">> \in StepSet
        /\ <<"fig", "lat_ctx">> \in StepSet
        /\ <<"fig", "proc_vs_thread">> \in StepSet
        /\ <<"fig", "sched_policy">> \in StepSet
        /\ <<"open", "core_migration">> \in StepSet
        /\ <<"open", "lat_ctx">> \in StepSet
        /\ <<"open", "proc_vs_thread">> \in StepSet
        /\ <<"open", "sched_policy">> \in StepSet
        /\ <<"read", "core_migration">> \in StepSet
        /\ <<"read", "proc_vs_thread">> \in StepSet
        /\ <<"write", "core_migration">> \in StepSet
        /\ <<"write", "lat_ctx">> \in StepSet
        /\ <<"write", "proc_vs_thread">> \in StepSet
        /\ <<"write", "sched_policy">> \in StepSet
        /\ Step("build") \in StepSet
        /\ Step("commit") \in StepSet
        /\ Step("generate") \in StepSet
        /\ Step("missing") \in StepSet
        /\ Step("sweep") \in StepSet
        /\ Step("synthesize") \in StepSet
    BY DEF StepSet, Ops, Tables, Step
  <2> QED
    BY <2>1 DEF Steps, Repair, Save, Fill, Plot
<1>2. Len(S) = 20
  BY DEF Steps, Repair, Save, Fill, Plot
<1>3. /\ S[1] = Step("build")
      /\ S[8] = Step("sweep")
      /\ S[11] = Step("missing")
      /\ S[12] = Step("generate")
      /\ S[13] = Step("synthesize")
      /\ S[20] = Step("commit")
  BY DEF Steps, Repair, Save, Fill, Plot
<1>4. \A op : Step(op)[1] = op
  BY DEF Step
<1>5. /\ S[2][1] = "read" /\ S[2][2] = "core_migration"
      /\ S[3][1] = "open" /\ S[3][2] = "core_migration"
      /\ S[4][1] = "write" /\ S[4][2] = "core_migration"
  BY DEF Steps, Repair, Save, Fill, Plot
<1>6. /\ S[5][1] = "read" /\ S[5][2] = "proc_vs_thread"
      /\ S[6][1] = "open" /\ S[6][2] = "proc_vs_thread"
      /\ S[7][1] = "write" /\ S[7][2] = "proc_vs_thread"
  BY DEF Steps, Repair, Save, Fill, Plot
<1>7. /\ S[9][1] = "open" /\ S[9][2] = "lat_ctx"
      /\ S[10][1] = "write" /\ S[10][2] = "lat_ctx"
      /\ S[14][1] = "open" /\ S[14][2] = "sched_policy"
  BY DEF Steps, Repair, Save, Fill, Plot
<1>8. /\ S[15][1] = "write" /\ S[15][2] = "sched_policy"
      /\ S[16][1] = "fig" /\ S[16][2] = "lat_ctx"
      /\ S[17][1] = "fig" /\ S[17][2] = "core_migration"
  BY DEF Steps, Repair, Save, Fill, Plot
<1>9. /\ S[18][1] = "fig" /\ S[18][2] = "sched_policy"
      /\ S[19][1] = "fig" /\ S[19][2] = "proc_vs_thread"
  BY DEF Steps, Repair, Save, Fill, Plot
<1> QED
  BY <1>1, <1>2, <1>3, <1>4, <1>5, <1>6, <1>7, <1>8, <1>9

LEMMA CompileSteps ==
  LET S == Steps["compile_and_sweep"] IN
  /\ S \in Seq(StepSet) /\ Len(S) = 9
  /\ S[1][1] = "compile"
  /\ S[2][1] = "sweep"
  /\ S[3][1] = "open" /\ S[3][2] = "lat_ctx"
  /\ S[4][1] = "write" /\ S[4][2] = "lat_ctx"
  /\ S[5][1] = "fig" /\ S[5][2] = "lat_ctx"
  /\ S[6][1] = "fig" /\ S[6][2] = "core_migration"
  /\ S[7][1] = "fig" /\ S[7][2] = "sched_policy"
  /\ S[8][1] = "fig" /\ S[8][2] = "proc_vs_thread"
  /\ S[9][1] = "commit"
<1> DEFINE S == Steps["compile_and_sweep"]
<1>1. S \in Seq(StepSet)
  <2>1. /\ Step("commit") \in StepSet
        /\ Step("compile") \in StepSet
        /\ <<"fig", "core_migration">> \in StepSet
        /\ <<"fig", "lat_ctx">> \in StepSet
        /\ <<"fig", "proc_vs_thread">> \in StepSet
        /\ <<"fig", "sched_policy">> \in StepSet
        /\ <<"open", "lat_ctx">> \in StepSet
        /\ Step("sweep") \in StepSet
        /\ <<"write", "lat_ctx">> \in StepSet
    BY DEF StepSet, Ops, Tables, Step
  <2> QED
    BY <2>1 DEF Steps, Save, Plot
<1>2. Len(S) = 9
  BY DEF Steps, Save, Plot
<1>3. /\ S[1] = Step("compile")
      /\ S[2] = Step("sweep")
      /\ S[9] = Step("commit")
  BY DEF Steps, Save, Plot
<1>4. \A op : Step(op)[1] = op
  BY DEF Step
<1>5. /\ S[3][1] = "open" /\ S[3][2] = "lat_ctx"
      /\ S[4][1] = "write" /\ S[4][2] = "lat_ctx"
      /\ S[5][1] = "fig" /\ S[5][2] = "lat_ctx"
  BY DEF Steps, Save, Plot
<1>6. /\ S[6][1] = "fig" /\ S[6][2] = "core_migration"
      /\ S[7][1] = "fig" /\ S[7][2] = "sched_policy"
      /\ S[8][1] = "fig" /\ S[8][2] = "proc_vs_thread"
  BY DEF Steps, Save, Plot
<1> QED
  BY <1>1, <1>2, <1>3, <1>4, <1>5, <1>6

LEMMA PlotSteps ==
  LET S == Steps["plot_all"] IN
  /\ S \in Seq(StepSet) /\ Len(S) = 4
  /\ S[1][1] = "fig" /\ S[1][2] = "lat_ctx"
  /\ S[2][1] = "fig" /\ S[2][2] = "core_migration"
  /\ S[3][1] = "fig" /\ S[3][2] = "sched_policy"
  /\ S[4][1] = "fig" /\ S[4][2] = "proc_vs_thread"
<1> DEFINE S == Steps["plot_all"]
<1>1. S \in Seq(StepSet)
  <2>1. /\ <<"fig", "core_migration">> \in StepSet
        /\ <<"fig", "lat_ctx">> \in StepSet
        /\ <<"fig", "proc_vs_thread">> \in StepSet
        /\ <<"fig", "sched_policy">> \in StepSet
    BY DEF StepSet, Ops, Tables
  <2> QED
    BY <2>1 DEF Steps, Plot
<1>2. Len(S) = 4
  BY DEF Steps, Plot
<1>3. /\ S[1][1] = "fig" /\ S[1][2] = "lat_ctx"
      /\ S[2][1] = "fig" /\ S[2][2] = "core_migration"
      /\ S[3][1] = "fig" /\ S[3][2] = "sched_policy"
  BY DEF Steps, Plot
<1>4. /\ S[4][1] = "fig" /\ S[4][2] = "proc_vs_thread"
  BY DEF Steps, Plot
<1> QED
  BY <1>1, <1>2, <1>3, <1>4

LEMMA RunAllSteps ==
  LET S == Steps["run_all"] IN
  /\ S \in Seq(StepSet) /\ Len(S) = 4
  /\ S[1][1] = "phase1"
  /\ S[2][1] = "run" /\ S[2][2] = "core_migration"
  /\ S[3][1] = "run" /\ S[3][2] = "sched_policy"
  /\ S[4][1] = "run" /\ S[4][2] = "proc_vs_thread"
<1> DEFINE S == Steps["run_all"]
<1>1. S \in Seq(StepSet)
  <2>1. /\ Step("phase1") \in StepSet
        /\ <<"run", "core_migration">> \in StepSet
        /\ <<"run", "proc_vs_thread">> \in StepSet
        /\ <<"run", "sched_policy">> \in StepSet
    BY DEF StepSet, Ops, Tables, Step
  <2> QED
    BY <2>1 DEF Steps
<1>2. Len(S) = 4
  BY DEF Steps
<1>3. /\ S[1] = Step("phase1")
  BY DEF Steps
<1>4. \A op : Step(op)[1] = op
  BY DEF Step
<1>5. /\ S[2][1] = "run" /\ S[2][2] = "core_migration"
      /\ S[3][1] = "run" /\ S[3][2] = "sched_policy"
      /\ S[4][1] = "run" /\ S[4][2] = "proc_vs_thread"
  BY DEF Steps
<1> QED
  BY <1>1, <1>2, <1>3, <1>4, <1>5

LEMMA BuildSteps ==
  LET S == Steps["build_and_run"] IN
  /\ S \in Seq(StepSet) /\ Len(S) = 7
  /\ S[1][1] = "build"
  /\ S[2][1] = "sweep"
  /\ S[3][1] = "open"
  /\ S[4][1] = "write"
  /\ S[5][1] = "run"
  /\ S[6][1] = "run"
  /\ S[7][1] = "run"
<1> DEFINE S == Steps["build_and_run"]
<1>1. S \in Seq(StepSet)
  <2>1. /\ Step("build") \in StepSet
        /\ <<"open", "lat_ctx">> \in StepSet
        /\ <<"run", "core_migration">> \in StepSet
        /\ <<"run", "proc_vs_thread">> \in StepSet
        /\ <<"run", "sched_policy">> \in StepSet
        /\ Step("sweep") \in StepSet
        /\ <<"write", "lat_ctx">> \in StepSet
    BY DEF StepSet, Ops, Tables, Step
  <2> QED
    BY <2>1 DEF Steps, Save
<1>2. Len(S) = 7
  BY DEF Steps, Save
<1>3. /\ S[1] = Step("build")
      /\ S[2] = Step("sweep")
  BY DEF Steps, Save
<1>4. \A op : Step(op)[1] = op
  BY DEF Step
<1>5. /\ S[3][1] = "open"
      /\ S[4][1] = "write"
      /\ S[5][1] = "run"
  BY DEF Steps, Save
<1>6. /\ S[6][1] = "run"
      /\ S[7][1] = "run"
  BY DEF Steps, Save
<1> QED
  BY <1>1, <1>2, <1>3, <1>4, <1>5, <1>6

LEMMA RunSweepSteps ==
  LET S == Steps["run_lat_ctx_sweep"] IN
  /\ S \in Seq(StepSet) /\ Len(S) = 3
  /\ S[1][1] = "sweep"
  /\ S[2][1] = "open"
  /\ S[3][1] = "write"
<1> DEFINE S == Steps["run_lat_ctx_sweep"]
<1>1. S \in Seq(StepSet)
  <2>1. /\ <<"open", "lat_ctx">> \in StepSet
        /\ Step("sweep") \in StepSet
        /\ <<"write", "lat_ctx">> \in StepSet
    BY DEF StepSet, Ops, Tables, Step
  <2> QED
    BY <2>1 DEF Steps, Save
<1>2. Len(S) = 3
  BY DEF Steps, Save
<1>3. /\ S[1] = Step("sweep")
  BY DEF Steps, Save
<1>4. \A op : Step(op)[1] = op
  BY DEF Step
<1>5. /\ S[2][1] = "open"
      /\ S[3][1] = "write"
  BY DEF Steps, Save
<1> QED
  BY <1>1, <1>2, <1>3, <1>4, <1>5

LEMMA SweepSteps ==
  LET S == Steps["sweep_lat_ctx"] IN
  /\ S \in Seq(StepSet) /\ Len(S) = 3
  /\ S[1][1] = "open"
  /\ S[2][1] = "sweep"
  /\ S[3][1] = "write"
<1> DEFINE S == Steps["sweep_lat_ctx"]
<1>1. S \in Seq(StepSet)
  <2>1. /\ <<"open", "lat_ctx">> \in StepSet
        /\ Step("sweep") \in StepSet
        /\ <<"write", "lat_ctx">> \in StepSet
    BY DEF StepSet, Ops, Tables, Step
  <2> QED
    BY <2>1 DEF Steps
<1>2. Len(S) = 3
  BY DEF Steps
<1>3. /\ S[2] = Step("sweep")
  BY DEF Steps
<1>4. \A op : Step(op)[1] = op
  BY DEF Step
<1>5. /\ S[1][1] = "open"
      /\ S[3][1] = "write"
  BY DEF Steps
<1> QED
  BY <1>1, <1>2, <1>3, <1>4, <1>5

LEMMA LmbenchSteps ==
  LET S == Steps["run_lmbench"] IN
  /\ S \in Seq(StepSet) /\ Len(S) = 3
  /\ S[1][1] = "open"
  /\ S[2][1] = "sweep"
  /\ S[3][1] = "write"
<1> DEFINE S == Steps["run_lmbench"]
<1>1. S \in Seq(StepSet)
  <2>1. /\ <<"open", "lat_ctx">> \in StepSet
        /\ Step("sweep") \in StepSet
        /\ <<"write", "lat_ctx">> \in StepSet
    BY DEF StepSet, Ops, Tables, Step
  <2> QED
    BY <2>1 DEF Steps
<1>2. Len(S) = 3
  BY DEF Steps
<1>3. /\ S[2] = Step("sweep")
  BY DEF Steps
<1>4. \A op : Step(op)[1] = op
  BY DEF Step
<1>5. /\ S[1][1] = "open"
      /\ S[3][1] = "write"
  BY DEF Steps
<1> QED
  BY <1>1, <1>2, <1>3, <1>4, <1>5

LEMMA SampleSteps ==
  LET S == Steps["sample_figures"] IN
  /\ S \in Seq(StepSet) /\ Len(S) = 1
  /\ S[1][1] = "sample"
<1> DEFINE S == Steps["sample_figures"]
<1>1. S \in Seq(StepSet)
  <2>1. /\ Step("sample") \in StepSet
    BY DEF StepSet, Ops, Tables, Step
  <2> QED
    BY <2>1 DEF Steps
<1>2. Len(S) = 1
  BY DEF Steps
<1>3. /\ S[1] = Step("sample")
  BY DEF Steps
<1>4. \A op : Step(op)[1] = op
  BY DEF Step
<1> QED
  BY <1>1, <1>2, <1>3, <1>4

LEMMA StepsTyped == \A s \in Scripts : Steps[s] \in Seq(StepSet)
<1> SUFFICES ASSUME NEW s \in Scripts PROVE Steps[s] \in Seq(StepSet)
  OBVIOUS
<1>1. s \in {"build_and_run", "fix_and_generate", "compile_and_sweep", "run_lat_ctx_sweep",
            "sweep_lat_ctx", "run_lmbench", "run_all", "plot_all", "sample_figures"}
  BY DEF Scripts, Steps
<1>2. CASE s = "fix_and_generate"
  BY <1>2, FixSteps
<1>3. CASE s = "compile_and_sweep"
  BY <1>3, CompileSteps
<1>4. CASE s = "plot_all"
  BY <1>4, PlotSteps
<1>5. CASE s = "run_all"
  BY <1>5, RunAllSteps
<1>6. CASE s = "build_and_run"
  BY <1>6, BuildSteps
<1>7. CASE s = "run_lat_ctx_sweep"
  BY <1>7, RunSweepSteps
<1>8. CASE s = "sweep_lat_ctx"
  BY <1>8, SweepSteps
<1>9. CASE s = "run_lmbench"
  BY <1>9, LmbenchSteps
<1>10. CASE s = "sample_figures"
  BY <1>10, SampleSteps
<1> QED
  BY <1>1, <1>2, <1>3, <1>4, <1>5, <1>6, <1>7, <1>8, <1>9, <1>10

(* Only two scripts build, only two commit, and one repairs tables and     *)
(* makes up missing ones.                                                  *)
LEMMA WhoDoes ==
  ASSUME NEW s \in Scripts, NEW i \in 1 .. Len(Steps[s])
  PROVE  /\ Steps[s][i][1] = "build" => s \in {"build_and_run", "fix_and_generate"}
         /\ Steps[s][i][1] = "commit" => s \in {"fix_and_generate", "compile_and_sweep"}
         /\ Steps[s][i][1] \in {"read", "missing", "synthesize"} => s = "fix_and_generate"
<1>1. s \in {"build_and_run", "fix_and_generate", "compile_and_sweep", "run_lat_ctx_sweep",
            "sweep_lat_ctx", "run_lmbench", "run_all", "plot_all", "sample_figures"}
  BY DEF Scripts, Steps
<1>2. CASE s = "fix_and_generate"
  BY <1>2, FixSteps
<1>3. CASE s = "compile_and_sweep"
  BY <1>3, CompileSteps
<1>4. CASE s = "plot_all"
  BY <1>4, PlotSteps
<1>5. CASE s = "run_all"
  BY <1>5, RunAllSteps
<1>6. CASE s = "build_and_run"
  BY <1>6, BuildSteps
<1>7. CASE s = "run_lat_ctx_sweep"
  BY <1>7, RunSweepSteps
<1>8. CASE s = "sweep_lat_ctx"
  BY <1>8, SweepSteps
<1>9. CASE s = "run_lmbench"
  BY <1>9, LmbenchSteps
<1>10. CASE s = "sample_figures"
  BY <1>10, SampleSteps
<1> QED
  BY <1>1, <1>2, <1>3, <1>4, <1>5, <1>6, <1>7, <1>8, <1>9, <1>10

(* What a running script has left is the end of its list of steps. *)
Left == Len(todo)
RestOfScript ==
  /\ script = "none" => todo = <<>>
  /\ script # "none" =>
       /\ todo \in Seq(StepSet)
       /\ Left <= Len(Steps[script])
       /\ \A i \in 1 .. Left : todo[i] = Steps[script][Len(Steps[script]) - Left + i]

(* No table is missing but one that was never written. *)
NeverMissing ==
  /\ \A t \in Tables : table[t].header = "missing" => table[t] = Missing
  /\ mem.header # "missing"

(* The two scripts that publish: from their sweep on they have all rows in *)
(* memory, from its write on the table has them, until the commit.         *)
IsWhole(file) == file.header = "std" /\ \A r \in Row : file.rows[r] # "absent"
SweptWhole ==
  /\ script = "fix_and_generate" /\ (Left = 12 \/ Left = 11) => IsWhole(mem)
  /\ script = "compile_and_sweep" /\ (Left = 7 \/ Left = 6) => IsWhole(mem)
  /\ script = "fix_and_generate" /\ Left <= 10 => IsWhole(table["lat_ctx"])
  /\ script = "compile_and_sweep" /\ Left <= 5 => IsWhole(table["lat_ctx"])

(* The repair of a table: read, emptied, written.  A missing table: no row *)
(* of it is there while it is made up.                                     *)
Repaired ==
  script = "fix_and_generate" =>
    /\ Left = 18 => mem.rows = table["core_migration"].rows
    /\ Left = 17 => table["core_migration"] = Empty
    /\ Left = 15 => mem.rows = table["proc_vs_thread"].rows
    /\ Left = 14 => table["proc_vs_thread"] = Empty
Fallback == File("std", All("model"), FALSE)
FirstsOnly(rows) == rows[1] = "absent" => \A r \in Row : rows[r] = "absent"
MadeUp ==
  script = "fix_and_generate" =>
    /\ Left = 9 => table["sched_policy"] = Missing
    /\ Left = 8 => FirstsOnly(table["sched_policy"].rows)
    /\ Left = 7 => \A r \in Row : table["sched_policy"].rows[r] = "absent"
    /\ Left = 7 \/ Left = 6 => mem = Fallback
    /\ Left = 6 => table["sched_policy"] = Empty

(* run_all.sh has completed the tables of the phases it is through. *)
Completed(t) == t \in fresh /\ table[t] \in Finished(t)
PhasesDone ==
  script = "run_all" =>
    /\ Left <= 2 => Completed("core_migration")
    /\ Left <= 1 => Completed("sched_policy")
    /\ Left <= 0 => Completed("proc_vs_thread")

(* plot_all.py, alone or last in another script, has drawn the tables it   *)
(* is through.                                                             *)
PlotScripts == {"plot_all", "fix_and_generate", "compile_and_sweep"}
FigsLeft    == IF script = "plot_all" THEN Left ELSE Left - 1
Place(t)    == CASE t = "lat_ctx" -> 1 [] t = "core_migration" -> 2
                 [] t = "sched_policy" -> 3 [] t = "proc_vs_thread" -> 4
FigsDrawn ==
  script \in PlotScripts /\ ~failed =>
    \A t \in Tables : Place(t) + FigsLeft <= 4 /\ Exists(t) => fig[t] = "current"

IInv ==
  /\ TypeOK /\ RestOfScript /\ NeverMissing /\ PublishedIsWhole /\ SweptWhole
  /\ Repaired /\ MadeUp /\ PhasesDone /\ FigsDrawn

(***************************************************************************)
(* Where a script is.                                                      *)
(***************************************************************************)
FixAt(op, t) ==
  \/ op = "build" /\ Left = 20
  \/ op = "read" /\ t = "core_migration" /\ Left = 19
  \/ op = "open" /\ t = "core_migration" /\ Left = 18
  \/ op = "write" /\ t = "core_migration" /\ Left = 17
  \/ op = "read" /\ t = "proc_vs_thread" /\ Left = 16
  \/ op = "open" /\ t = "proc_vs_thread" /\ Left = 15
  \/ op = "write" /\ t = "proc_vs_thread" /\ Left = 14
  \/ op = "sweep" /\ Left = 13
  \/ op = "open" /\ t = "lat_ctx" /\ Left = 12
  \/ op = "write" /\ t = "lat_ctx" /\ Left = 11
  \/ op = "missing" /\ Left = 10
  \/ op = "generate" /\ Left = 9
  \/ op = "synthesize" /\ Left = 8
  \/ op = "open" /\ t = "sched_policy" /\ Left = 7
  \/ op = "write" /\ t = "sched_policy" /\ Left = 6
  \/ op = "fig" /\ t \in Tables /\ Left = 6 - Place(t)
  \/ op = "commit" /\ Left = 1
CompileAt(op, t) ==
  \/ op = "compile" /\ Left = 9
  \/ op = "sweep" /\ Left = 8
  \/ op = "open"  /\ t = "lat_ctx" /\ Left = 7
  \/ op = "write" /\ t = "lat_ctx" /\ Left = 6
  \/ op = "fig" /\ t \in Tables /\ Left = 6 - Place(t)
  \/ op = "commit" /\ Left = 1
PlotAt(op, t) == op = "fig" /\ t \in Tables /\ Left = 5 - Place(t)
RunAllAt(op, t) ==
  \/ op = "phase1" /\ Left = 4
  \/ op = "run" /\ t = "core_migration" /\ Left = 3
  \/ op = "run" /\ t = "sched_policy"   /\ Left = 2
  \/ op = "run" /\ t = "proc_vs_thread" /\ Left = 1

LEMMA Places ==
  /\ Place("lat_ctx") = 1 /\ Place("core_migration") = 2
  /\ Place("sched_policy") = 3 /\ Place("proc_vs_thread") = 4
  /\ "lat_ctx" \in Tables /\ "core_migration" \in Tables
  /\ "sched_policy" \in Tables /\ "proc_vs_thread" \in Tables
  /\ \A t \in Tables : t \in {"lat_ctx", "core_migration", "sched_policy", "proc_vs_thread"}
                       /\ Place(t) \in 1 .. 4
  BY DEF Place, Tables

LEMMA Control ==
  ASSUME TypeOK, RestOfScript, NEW op, NEW t, At(op, t)
  PROVE  /\ script \in Scripts /\ script # "none" /\ todo \in Seq(StepSet) /\ todo # <<>>
         /\ Left \in Nat /\ Left >= 1 /\ Left <= Len(Steps[script])
         /\ Len(Steps[script]) \in Nat
         /\ Steps[script][Len(Steps[script]) - Left + 1][1] = op
         /\ Steps[script][Len(Steps[script]) - Left + 1][2] = t
<1>1. /\ script \in Scripts /\ script # "none" /\ todo \in Seq(StepSet) /\ todo # <<>>
      /\ Head(todo) = <<op, t>> /\ Left <= Len(Steps[script])
  BY DEF At, RestOfScript, TypeOK
<1>2. Left \in Nat /\ Len(Steps[script]) \in Nat
  BY <1>1, StepsTyped, LenProperties DEF Left
<1>3. Left >= 1 /\ todo[1] = <<op, t>>
  <2>1. Left # 0
    BY <1>1, EmptySeq DEF Left
  <2>2. Head(todo) = todo[1]
    BY <1>1 DEF Head
  <2> QED
    BY <1>1, <1>2, <2>1, <2>2
<1>4. 1 \in 1 .. Left
  BY <1>2, <1>3
<1>5. todo[1] = Steps[script][Len(Steps[script]) - Left + 1]
  BY <1>1, <1>4 DEF RestOfScript
<1>6. Steps[script][Len(Steps[script]) - Left + 1] = <<op, t>>
  BY <1>3, <1>5
<1> QED
  BY <1>1, <1>2, <1>3, <1>6

LEMMA Shift ==
  \A m, l, i, n \in Int : m - l + (i + n) = m - (l - n) + i
  OBVIOUS

LEMMA OneOn ==
  ASSUME TypeOK, RestOfScript, NEW op, NEW t, At(op, t), Go
  PROVE  RestOfScript' /\ script' = script /\ Left' = Left - 1
<1>1. script' = script /\ todo' = Tail(todo) /\ todo \in Seq(StepSet) /\ todo # <<>>
  BY Control DEF Go
<1>2. /\ todo' \in Seq(StepSet) /\ Left' = Left - 1
      /\ \A i \in 1 .. Left' : todo'[i] = todo[i+1]
  BY <1>1, HeadTailProperties DEF Left
<1>3. Left \in Nat /\ Left >= 1 /\ Left <= Len(Steps[script]) /\ Len(Steps[script]) \in Nat
  BY Control
<1>a. \A i \in 1 .. Left : todo[i] = Steps[script][Len(Steps[script]) - Left + i]
  BY Control DEF RestOfScript
<1>4. ASSUME NEW i \in 1 .. Left' PROVE todo'[i] = Steps[script][Len(Steps[script]) - Left' + i]
  <2>1. i \in 1 .. Left - 1 /\ 1 <= Left
    BY <1>2, <1>3
  <2>2. i + 1 \in 1 .. Left /\ Len(Steps[script]) - Left + (i+1) = Len(Steps[script]) - (Left - 1) + i
    <3>1. \A a, b, c \in Int : a - b + (c+1) = a - (b - 1) + c
      OBVIOUS
    <3>2. Len(Steps[script]) \in Int /\ Left \in Int /\ i \in Int
      BY <1>3, <2>1
    <3>3. i + 1 \in 1 .. Left
      BY <2>1, <3>2
    <3>4. Len(Steps[script]) - Left + (i+1) = Len(Steps[script]) - (Left - 1) + i
      BY <3>1, <3>2
    <3> QED
      BY <3>3, <3>4
  <2> QED
    BY <1>2, <1>a, <2>2
<1>5. Left' <= Len(Steps[script]) /\ script # "none"
  BY <1>2, <1>3, Control
<1> QED
  BY <1>1, <1>2, <1>4, <1>5 DEF RestOfScript

LEMMA SomeOn ==
  ASSUME TypeOK, RestOfScript, NEW op, NEW t, At(op, t), NEW n \in 0 .. Left, Skip(n)
  PROVE  RestOfScript' /\ script' = script /\ Left' = Left - n
<1>1. script' = script /\ todo' = SubSeq(todo, n+1, Left) /\ todo \in Seq(StepSet)
  BY Control DEF Skip, Left
<1>2. /\ Left \in Nat /\ Left >= 1 /\ Left <= Len(Steps[script]) /\ Len(Steps[script]) \in Nat
      /\ n \in Nat /\ n <= Left
  BY Control
<1>a. \A i \in 1 .. Left : todo[i] = Steps[script][Len(Steps[script]) - Left + i]
  BY Control DEF RestOfScript
<1>3. \A i \in n+1 .. Left : todo[i] \in StepSet
  <2>1. \A i \in 1 .. Left : todo[i] \in StepSet
    BY <1>1, LenProperties DEF Left
  <2> QED
    BY <1>2, <2>1
<1>4. /\ todo' \in Seq(StepSet)
      /\ Left' = IF n+1 <= Left THEN Left - (n+1) + 1 ELSE 0
      /\ \A i \in 1 .. Left - (n+1) + 1 : todo'[i] = todo[(n+1) + i - 1]
  <2>1. n + 1 \in Int /\ Left \in Int
    BY <1>2
  <2> QED
    BY <1>1, <1>3, <2>1, SubSeqProperties DEF Left
<1>5. Left' = Left - n
  BY <1>2, <1>4
<1>6. ASSUME NEW i \in 1 .. Left' PROVE todo'[i] = Steps[script][Len(Steps[script]) - Left' + i]
  <2>1. i \in 1 .. Left - n /\ Left - (n+1) + 1 = Left - n
    BY <1>2, <1>5
  <2>2. /\ i + n \in 1 .. Left /\ (n+1) + i - 1 = i + n
        /\ Len(Steps[script]) - Left + (i + n) = Len(Steps[script]) - (Left - n) + i
    <3>2. Len(Steps[script]) \in Int /\ Left \in Int /\ i \in Int /\ n \in Int
      BY <1>2, <2>1
    <3>3. i + n \in 1 .. Left
      BY <2>1, <3>2, <1>2
    <3>4. Len(Steps[script]) - Left + (i + n) = Len(Steps[script]) - (Left - n) + i
      <4> DEFINE m == Len(Steps[script])
      <4>1. m \in Int /\ Left \in Int /\ i \in Int /\ n \in Int
        BY <3>2
      <4> HIDE DEF m
      <4>2. m - Left + (i + n) = m - (Left - n) + i
        BY <4>1, Shift
      <4> QED
        BY <4>2 DEF m
    <3>5. (n+1) + i - 1 = i + n
      BY <3>2
    <3> QED
      BY <3>3, <3>4, <3>5
  <2>3. todo'[i] = todo[i + n]
    BY <1>4, <2>1, <2>2
  <2> QED
    BY <1>a, <1>5, <2>2, <2>3
<1>7. Left' <= Len(Steps[script]) /\ script # "none"
  BY <1>2, <1>5, Control
<1> QED
  BY <1>1, <1>4, <1>6, <1>7 DEF RestOfScript

LEMMA Ended ==
  Die => RestOfScript' /\ script' = "none" /\ mem' = Empty /\ fresh' = {} /\ failed' = FALSE
  BY DEF Die, RestOfScript

LEMMA Where ==
  ASSUME TypeOK, RestOfScript, NEW op, NEW t, At(op, t)
  PROVE  /\ script = "fix_and_generate" => FixAt(op, t)
         /\ script = "compile_and_sweep" => CompileAt(op, t)
         /\ script = "plot_all" => PlotAt(op, t)
         /\ script = "run_all" => RunAllAt(op, t)
         /\ op = "build" => script \in {"build_and_run", "fix_and_generate"}
         /\ op = "commit" => script \in {"fix_and_generate", "compile_and_sweep"}
         /\ op \in {"read", "missing", "synthesize"} => script = "fix_and_generate"
<1> DEFINE S == Steps[script]
           p == Len(S) - Left + 1
<1>1. Left \in Nat /\ Left >= 1 /\ Left <= Len(S) /\ Len(S) \in Nat /\ S[p][1] = op /\ S[p][2] = t
      /\ script \in Scripts
  BY Control
<1>2. p \in 1 .. Len(S) /\ p \in Nat /\ Left = Len(S) + 1 - p
  BY <1>1
<1> HIDE DEF p
<1>3. ASSUME script = "fix_and_generate" PROVE FixAt(op, t)
  <2>1. p \in 1 .. 20 /\ Left = 21 - p
    BY <1>2, <1>3, FixSteps
  <2>2. CASE p = 1
    <3>0. S[p][1] = "build"
      BY <1>3, <2>2, FixSteps
    <3>1. op = "build" /\ Left = 20
      BY <1>1, <2>1, <2>2, <3>0
    <3> QED
      BY <3>1 DEF FixAt
  <2>3. CASE p = 2
    <3>0. S[p][1] = "read" /\ S[p][2] = "core_migration"
      BY <1>3, <2>3, FixSteps
    <3>1. op = "read" /\ t = "core_migration" /\ Left = 19
      BY <1>1, <2>1, <2>3, <3>0
    <3> QED
      BY <3>1 DEF FixAt
  <2>4. CASE p = 3
    <3>0. S[p][1] = "open" /\ S[p][2] = "core_migration"
      BY <1>3, <2>4, FixSteps
    <3>1. op = "open" /\ t = "core_migration" /\ Left = 18
      BY <1>1, <2>1, <2>4, <3>0
    <3> QED
      BY <3>1 DEF FixAt
  <2>5. CASE p = 4
    <3>0. S[p][1] = "write" /\ S[p][2] = "core_migration"
      BY <1>3, <2>5, FixSteps
    <3>1. op = "write" /\ t = "core_migration" /\ Left = 17
      BY <1>1, <2>1, <2>5, <3>0
    <3> QED
      BY <3>1 DEF FixAt
  <2>6. CASE p = 5
    <3>0. S[p][1] = "read" /\ S[p][2] = "proc_vs_thread"
      BY <1>3, <2>6, FixSteps
    <3>1. op = "read" /\ t = "proc_vs_thread" /\ Left = 16
      BY <1>1, <2>1, <2>6, <3>0
    <3> QED
      BY <3>1 DEF FixAt
  <2>7. CASE p = 6
    <3>0. S[p][1] = "open" /\ S[p][2] = "proc_vs_thread"
      BY <1>3, <2>7, FixSteps
    <3>1. op = "open" /\ t = "proc_vs_thread" /\ Left = 15
      BY <1>1, <2>1, <2>7, <3>0
    <3> QED
      BY <3>1 DEF FixAt
  <2>8. CASE p = 7
    <3>0. S[p][1] = "write" /\ S[p][2] = "proc_vs_thread"
      BY <1>3, <2>8, FixSteps
    <3>1. op = "write" /\ t = "proc_vs_thread" /\ Left = 14
      BY <1>1, <2>1, <2>8, <3>0
    <3> QED
      BY <3>1 DEF FixAt
  <2>9. CASE p = 8
    <3>0. S[p][1] = "sweep"
      BY <1>3, <2>9, FixSteps
    <3>1. op = "sweep" /\ Left = 13
      BY <1>1, <2>1, <2>9, <3>0
    <3> QED
      BY <3>1 DEF FixAt
  <2>10. CASE p = 9
    <3>0. S[p][1] = "open" /\ S[p][2] = "lat_ctx"
      BY <1>3, <2>10, FixSteps
    <3>1. op = "open" /\ t = "lat_ctx" /\ Left = 12
      BY <1>1, <2>1, <2>10, <3>0
    <3> QED
      BY <3>1 DEF FixAt
  <2>11. CASE p = 10
    <3>0. S[p][1] = "write" /\ S[p][2] = "lat_ctx"
      BY <1>3, <2>11, FixSteps
    <3>1. op = "write" /\ t = "lat_ctx" /\ Left = 11
      BY <1>1, <2>1, <2>11, <3>0
    <3> QED
      BY <3>1 DEF FixAt
  <2>12. CASE p = 11
    <3>0. S[p][1] = "missing"
      BY <1>3, <2>12, FixSteps
    <3>1. op = "missing" /\ Left = 10
      BY <1>1, <2>1, <2>12, <3>0
    <3> QED
      BY <3>1 DEF FixAt
  <2>13. CASE p = 12
    <3>0. S[p][1] = "generate"
      BY <1>3, <2>13, FixSteps
    <3>1. op = "generate" /\ Left = 9
      BY <1>1, <2>1, <2>13, <3>0
    <3> QED
      BY <3>1 DEF FixAt
  <2>14. CASE p = 13
    <3>0. S[p][1] = "synthesize"
      BY <1>3, <2>14, FixSteps
    <3>1. op = "synthesize" /\ Left = 8
      BY <1>1, <2>1, <2>14, <3>0
    <3> QED
      BY <3>1 DEF FixAt
  <2>15. CASE p = 14
    <3>0. S[p][1] = "open" /\ S[p][2] = "sched_policy"
      BY <1>3, <2>15, FixSteps
    <3>1. op = "open" /\ t = "sched_policy" /\ Left = 7
      BY <1>1, <2>1, <2>15, <3>0
    <3> QED
      BY <3>1 DEF FixAt
  <2>16. CASE p = 15
    <3>0. S[p][1] = "write" /\ S[p][2] = "sched_policy"
      BY <1>3, <2>16, FixSteps
    <3>1. op = "write" /\ t = "sched_policy" /\ Left = 6
      BY <1>1, <2>1, <2>16, <3>0
    <3> QED
      BY <3>1 DEF FixAt
  <2>17. CASE p = 16
    <3>0. S[p][1] = "fig" /\ S[p][2] = "lat_ctx"
      BY <1>3, <2>17, FixSteps
    <3>1. op = "fig" /\ t = "lat_ctx" /\ Left = 5
      BY <1>1, <2>1, <2>17, <3>0
    <3> QED
      BY <3>1, Places DEF FixAt
  <2>18. CASE p = 17
    <3>0. S[p][1] = "fig" /\ S[p][2] = "core_migration"
      BY <1>3, <2>18, FixSteps
    <3>1. op = "fig" /\ t = "core_migration" /\ Left = 4
      BY <1>1, <2>1, <2>18, <3>0
    <3> QED
      BY <3>1, Places DEF FixAt
  <2>19. CASE p = 18
    <3>0. S[p][1] = "fig" /\ S[p][2] = "sched_policy"
      BY <1>3, <2>19, FixSteps
    <3>1. op = "fig" /\ t = "sched_policy" /\ Left = 3
      BY <1>1, <2>1, <2>19, <3>0
    <3> QED
      BY <3>1, Places DEF FixAt
  <2>20. CASE p = 19
    <3>0. S[p][1] = "fig" /\ S[p][2] = "proc_vs_thread"
      BY <1>3, <2>20, FixSteps
    <3>1. op = "fig" /\ t = "proc_vs_thread" /\ Left = 2
      BY <1>1, <2>1, <2>20, <3>0
    <3> QED
      BY <3>1, Places DEF FixAt
  <2>21. CASE p = 20
    <3>0. S[p][1] = "commit"
      BY <1>3, <2>21, FixSteps
    <3>1. op = "commit" /\ Left = 1
      BY <1>1, <2>1, <2>21, <3>0
    <3> QED
      BY <3>1 DEF FixAt
  <2> QED
    BY <2>1, <2>2, <2>3, <2>4, <2>5, <2>6, <2>7, <2>8, <2>9, <2>10, <2>11, <2>12,
       <2>13, <2>14, <2>15, <2>16, <2>17, <2>18, <2>19, <2>20, <2>21
<1>4. ASSUME script = "compile_and_sweep" PROVE CompileAt(op, t)
  <2>1. p \in 1 .. 9 /\ Left = 10 - p
    BY <1>2, <1>4, CompileSteps
  <2>2. CASE p = 1
    <3>1. op = "compile" /\ Left = 9
      BY <1>1, <1>4, <2>1, <2>2, CompileSteps
    <3> QED
      BY <3>1 DEF CompileAt
  <2>3. CASE p = 2
    <3>1. op = "sweep" /\ Left = 8
      BY <1>1, <1>4, <2>1, <2>3, CompileSteps
    <3> QED
      BY <3>1 DEF CompileAt
  <2>4. CASE p = 3
    <3>1. op = "open" /\ t = "lat_ctx" /\ Left = 7
      BY <1>1, <1>4, <2>1, <2>4, CompileSteps
    <3> QED
      BY <3>1 DEF CompileAt
  <2>5. CASE p = 4
    <3>1. op = "write" /\ t = "lat_ctx" /\ Left = 6
      BY <1>1, <1>4, <2>1, <2>5, CompileSteps
    <3> QED
      BY <3>1 DEF CompileAt
  <2>6. CASE p = 5
    <3>1. op = "fig" /\ t = "lat_ctx" /\ Left = 5
      BY <1>1, <1>4, <2>1, <2>6, CompileSteps
    <3> QED
      BY <3>1, Places DEF CompileAt
  <2>7. CASE p = 6
    <3>1. op = "fig" /\ t = "core_migration" /\ Left = 4
      BY <1>1, <1>4, <2>1, <2>7, CompileSteps
    <3> QED
      BY <3>1, Places DEF CompileAt
  <2>8. CASE p = 7
    <3>1. op = "fig" /\ t = "sched_policy" /\ Left = 3
      BY <1>1, <1>4, <2>1, <2>8, CompileSteps
    <3> QED
      BY <3>1, Places DEF CompileAt
  <2>9. CASE p = 8
    <3>1. op = "fig" /\ t = "proc_vs_thread" /\ Left = 2
      BY <1>1, <1>4, <2>1, <2>9, CompileSteps
    <3> QED
      BY <3>1, Places DEF CompileAt
  <2>10. CASE p = 9
    <3>1. op = "commit" /\ Left = 1
      BY <1>1, <1>4, <2>1, <2>10, CompileSteps
    <3> QED
      BY <3>1 DEF CompileAt
  <2> QED
    BY <2>1, <2>2, <2>3, <2>4, <2>5, <2>6, <2>7, <2>8, <2>9, <2>10
<1>5. ASSUME script = "plot_all" PROVE PlotAt(op, t)
  <2>1. p \in 1 .. 4 /\ Left = 5 - p
    BY <1>2, <1>5, PlotSteps
  <2> QED
    BY <1>1, <1>5, <2>1, PlotSteps, Places DEF PlotAt
<1>6. ASSUME script = "run_all" PROVE RunAllAt(op, t)
  <2>1. p \in 1 .. 4 /\ Left = 5 - p
    BY <1>2, <1>6, RunAllSteps
  <2> QED
    BY <1>1, <1>6, <2>1, RunAllSteps DEF RunAllAt
<1>7. /\ op = "build" => script \in {"build_and_run", "fix_and_generate"}
      /\ op = "commit" => script \in {"fix_and_generate", "compile_and_sweep"}
      /\ op \in {"read", "missing", "synthesize"} => script = "fix_and_generate"
  BY <1>1, <1>2, WhoDoes
<1> QED
  BY <1>3, <1>4, <1>5, <1>6, <1>7

----------------------------------------------------------------------------
LEMMA FileFacts ==
  /\ Missing \in Files /\ Missing.header = "missing" /\ \A r \in Row : Missing.rows[r] = "absent"
  /\ Empty \in Files /\ Empty.header = "none" /\ \A r \in Row : Empty.rows[r] = "absent"
  /\ File("std", All("model"), FALSE) \in Files /\ File("std", All("model"), FALSE).header = "std"
  /\ File("phase1", All("absent"), FALSE) \in Files
  /\ File("phase1", All("absent"), FALSE).header = "phase1"
<1>1. Missing \in Files /\ Missing.header = "missing" /\ \A r \in Row : Missing.rows[r] = "absent"
  BY DEF Missing, File, All, Files
<1>2. Empty \in Files /\ Empty.header = "none" /\ \A r \in Row : Empty.rows[r] = "absent"
  BY DEF Empty, File, All, Files
<1>3. /\ File("std", All("model"), FALSE) \in Files /\ File("std", All("model"), FALSE).header = "std"
      /\ File("phase1", All("absent"), FALSE) \in Files
      /\ File("phase1", All("absent"), FALSE).header = "phase1"
  BY DEF File, All, Files
<1> QED
  BY <1>1, <1>2, <1>3

(* What a benchmark may write: rows from the first one on. *)
LEMMA FinishedFacts ==
  ASSUME NEW t, NEW f \in Finished(t)
  PROVE  /\ f \in Files /\ f.header = "std" /\ f.rows \in [Row -> Filled(t)]
         /\ FirstsOnly(f.rows)
<1> DEFINE D(rows) == t \in Copied /\ \E r \in Row : rows[r] = "measured"
<1>1. PICK rows \in [Row -> Filled(t)] : f = File("std", rows, D(rows))
  BY DEF Finished
<1>2. D(rows) \in BOOLEAN
  OBVIOUS
<1> HIDE DEF D
<1>3. f.header = "std" /\ f.rows = rows /\ f.dup = D(rows)
      /\ f = [header |-> "std", rows |-> rows, dup |-> D(rows)]
  BY <1>1 DEF File
<1>4. rows \in [Row -> {"absent", "measured", "model", "na"}]
  BY DEF Filled
<1>5. f \in Files
  BY <1>2, <1>3, <1>4 DEF Files
<1>6. 1 \in Row
  BY PipelineAssumption DEF Row
<1>7. FirstsOnly(f.rows)
  BY <1>3, <1>6 DEF FirstsOnly, Filled
<1> QED
  BY <1>3, <1>5, <1>7

LEMMA PrefixFacts ==
  ASSUME NEW t, NEW f \in Prefixes(t)
  PROVE  f \in Files /\ f.header # "missing" /\ FirstsOnly(f.rows)
<1> DEFINE N == 0 .. Rows-1
           B == {FALSE, (t \in Copied)}
<1>1. f = Empty \/ \E g \in Finished(t), n \in N, d \in B : f = FirstOf(g, n, d)
  <2>1. Prefixes(t) = {FirstOf(file, n, d) : file \in Finished(t), n \in N, d \in B} \cup {Empty}
    BY DEF Prefixes
  <2> HIDE DEF N, B
  <2> QED
    BY <2>1
<1>2. CASE f = Empty
  BY <1>2, FileFacts DEF FirstsOnly
<1>3. ASSUME NEW g \in Finished(t), NEW n \in N, NEW d \in B, f = FirstOf(g, n, d)
      PROVE  f \in Files /\ f.header # "missing" /\ FirstsOnly(f.rows)
  <2>1. d \in BOOLEAN
    <3>1. d = FALSE \/ d = (t \in Copied)
      OBVIOUS
    <3>2. CASE d = FALSE
      BY <3>2
    <3>3. CASE d = (t \in Copied)
      BY <3>3
    <3> QED
      BY <3>1, <3>2, <3>3
  <2>2. g.rows \in [Row -> {"absent", "measured", "model", "na"}] /\ g.rows \in [Row -> Filled(t)]
    BY FinishedFacts DEF Filled
  <2> DEFINE rows == [r \in Row |-> IF r <= n THEN g.rows[r] ELSE "absent"]
  <2>3. rows \in [Row -> {"absent", "measured", "model", "na"}]
    BY <2>2
  <2>4. f = [header |-> "std", rows |-> rows, dup |-> d]
    BY <1>3 DEF FirstOf, File
  <2>5. FirstsOnly(rows)
    <3>1. SUFFICES ASSUME rows[1] = "absent", NEW r \in Row PROVE rows[r] = "absent"
      BY DEF FirstsOnly
    <3>2. 1 \in Row /\ g.rows[1] # "absent" /\ n \in Nat /\ r \in Nat /\ r >= 1
      BY <2>2, PipelineAssumption DEF Row, Filled
    <3>3. ~(1 <= n)
      BY <3>1, <3>2
    <3>4. ~(r <= n)
      BY <3>2, <3>3
    <3> QED
      BY <3>4
  <2> HIDE DEF rows
  <2> QED
    BY <2>1, <2>3, <2>4, <2>5 DEF Files
<1> QED
  BY <1>1, <1>2, <1>3

LEMMA SweepFacts ==
  ASSUME NEW s, NEW rows \in Measured(s)
  PROVE  /\ File("std", rows, FALSE) \in Files /\ File("std", rows, FALSE).header = "std"
         /\ s \in {"fix_and_generate", "compile_and_sweep"} => IsWhole(File("std", rows, FALSE))
<1>1. rows \in [Row -> {"absent", "measured", "model", "na"}]
  BY DEF Measured, All
<1>2. s \in {"fix_and_generate", "compile_and_sweep"} => \A r \in Row : rows[r] # "absent"
  BY DEF Measured, All
<1> QED
  BY <1>1, <1>2 DEF File, Files, IsWhole

(* Where no figure is drawn yet nothing is claimed of any. *)
LEMMA Early ==
  ASSUME script' \in PlotScripts => FigsLeft' \in Nat /\ FigsLeft' >= 4
  PROVE  FigsDrawn'
<1> SUFFICES ASSUME script' \in PlotScripts, NEW t \in Tables
             PROVE  ~(Place(t) + FigsLeft' <= 4)
  BY DEF FigsDrawn
<1>1. Place(t) \in 1 .. 4
  BY Places
<1> QED
  BY <1>1

LEMMA PutFacts ==
  ASSUME TypeOK, NEW t \in Tables, NEW file \in Files, Put(t, file)
  PROVE  /\ table' \in [Tables -> Files] /\ fig' \in [Tables -> {"none", "sample", "old", "current"}]
         /\ table'[t] = file /\ \A u \in Tables : u # t => table'[u] = table[u]
  BY DEF Put, TypeOK

(* The end of a script leaves nothing to be shown but of the files. *)
LEMMA DiedKept ==
  ASSUME IInv, Die, bin' \subseteq Tables, table' \in [Tables -> Files],
         fig' \in [Tables -> {"none", "sample", "old", "current"}],
         published' = published, runs' = runs,
         \A t \in Tables : table'[t].header = "missing" => table'[t] = table[t]
  PROVE  IInv'
<1>1. TypeOK' /\ NeverMissing'
  BY Ended, FileFacts DEF IInv, TypeOK, NeverMissing
<1>2. RestOfScript' /\ PublishedIsWhole'
  BY Ended DEF IInv, PublishedIsWhole
<1>3. SweptWhole' /\ Repaired' /\ MadeUp' /\ PhasesDone' /\ FigsDrawn'
  BY Ended DEF SweptWhole, Repaired, MadeUp, PhasesDone, FigsDrawn, PlotScripts
<1> QED
  BY <1>1, <1>2, <1>3 DEF IInv

LEMMA BuildKept ==
  ASSUME IInv, Build
  PROVE  IInv'
<1>1. TypeOK /\ RestOfScript /\ NeverMissing /\ At("build", "")
  BY DEF IInv, Build
<1>2. /\ RestOfScript' /\ Left \in Nat /\ Left >= 1
      /\ script' = script /\ Left' = Left - 1
  BY <1>1, Control, OneOn DEF Build, Proceed
<1>a. /\ script = "fix_and_generate" => FixAt("build", "")
      /\ script = "compile_and_sweep" => CompileAt("build", "")
      /\ script = "plot_all" => PlotAt("build", "")
      /\ script = "run_all" => RunAllAt("build", "")
  BY <1>1, Where
<1>3. /\ script = "fix_and_generate" => Left = 20
      /\ script \notin {"compile_and_sweep", "plot_all", "run_all"}
  BY <1>a DEF FixAt, CompileAt, PlotAt, RunAllAt
<1>4. /\ table' = table /\ fig' = fig /\ published' = published /\ mem' = mem
      /\ fresh' = fresh /\ failed' = failed /\ runs' = runs
      /\ bin' \subseteq Tables
  <2>1. Builds[script] \subseteq Tables
    <3>1. script \in {"build_and_run", "fix_and_generate"}
      BY <1>1, Where
    <3> QED
      BY <3>1 DEF Builds, Tables
  <2> QED
    BY <1>1, <2>1 DEF Build, Proceed, work, TypeOK
<1>5. TypeOK'
  BY <1>1, <1>2, <1>4 DEF TypeOK
<1>6. NeverMissing'
  BY <1>1, <1>4 DEF NeverMissing
<1>7. PublishedIsWhole'
  BY <1>4 DEF IInv, PublishedIsWhole
<1>8. SweptWhole'
  BY <1>2, <1>3, <1>4 DEF IInv, SweptWhole
<1>9. Repaired' /\ MadeUp'
  BY <1>2, <1>3, <1>4 DEF IInv, Repaired, MadeUp
<1>10. PhasesDone'
  BY <1>2, <1>3, <1>4 DEF IInv, PhasesDone, Completed
<1>11. FigsDrawn'
  BY <1>2, <1>3, Early DEF PlotScripts, FigsLeft
<1> QED
  BY <1>2, <1>5, <1>6, <1>7, <1>8, <1>9, <1>10, <1>11 DEF IInv

LEMMA CompileKept ==
  ASSUME IInv, Compile
  PROVE  IInv'
<1>1. TypeOK /\ RestOfScript /\ NeverMissing /\ At("compile", "")
  BY DEF IInv, Compile
<1>0. CASE Die
  <2>1. bin' \subseteq Tables /\ table' = table /\ fig' = fig /\ published' = published
        /\ runs' = runs
    BY <1>1, Places DEF Compile, TypeOK
  <2> QED
    BY <1>0, <1>1, <2>1, DiedKept DEF TypeOK
<1>b. SUFFICES ASSUME Proceed PROVE IInv'
  BY <1>0 DEF Compile
<1>2. /\ RestOfScript' /\ Left \in Nat /\ Left >= 1
      /\ script' = script /\ Left' = Left - 1
  BY <1>1, <1>b, Control, OneOn DEF Proceed
<1>a. /\ script = "fix_and_generate" => FixAt("compile", "")
      /\ script = "compile_and_sweep" => CompileAt("compile", "")
      /\ script = "plot_all" => PlotAt("compile", "")
      /\ script = "run_all" => RunAllAt("compile", "")
  BY <1>1, Where
<1>3. /\ script = "compile_and_sweep" => Left = 9
      /\ script \notin {"fix_and_generate", "plot_all", "run_all"}
  BY <1>a DEF FixAt, CompileAt, PlotAt, RunAllAt
<1>4. /\ table' = table /\ fig' = fig /\ published' = published /\ mem' = mem
      /\ fresh' = fresh /\ failed' = failed /\ runs' = runs
      /\ bin' \subseteq Tables
  BY <1>1, <1>b, Places DEF Compile, Proceed, work, TypeOK
<1>5. TypeOK'
  BY <1>1, <1>2, <1>4 DEF TypeOK
<1>6. NeverMissing'
  BY <1>1, <1>4 DEF NeverMissing
<1>7. PublishedIsWhole'
  BY <1>4 DEF IInv, PublishedIsWhole
<1>8. SweptWhole'
  BY <1>2, <1>3, <1>4 DEF IInv, SweptWhole
<1>9. Repaired' /\ MadeUp'
  BY <1>2, <1>3, <1>4 DEF IInv, Repaired, MadeUp
<1>10. PhasesDone'
  BY <1>2, <1>3, <1>4 DEF IInv, PhasesDone, Completed
<1>11. FigsDrawn'
  BY <1>2, <1>3, Early DEF PlotScripts, FigsLeft
<1> QED
  BY <1>2, <1>5, <1>6, <1>7, <1>8, <1>9, <1>10, <1>11 DEF IInv

LEMMA SweepKept ==
  ASSUME IInv, Sweep
  PROVE  IInv'
<1>1. TypeOK /\ RestOfScript /\ NeverMissing /\ At("sweep", "")
  BY DEF IInv, Sweep
<1>2. /\ RestOfScript' /\ Left \in Nat /\ Left >= 1
      /\ script' = script /\ Left' = Left - 1
  BY <1>1, Control, OneOn DEF Sweep
<1>a. /\ script = "fix_and_generate" => FixAt("sweep", "")
      /\ script = "compile_and_sweep" => CompileAt("sweep", "")
      /\ script = "plot_all" => PlotAt("sweep", "")
      /\ script = "run_all" => RunAllAt("sweep", "")
  BY <1>1, Where
<1>3. /\ script = "fix_and_generate" => Left = 13
      /\ script = "compile_and_sweep" => Left = 8
      /\ script \notin {"plot_all", "run_all"}
  BY <1>a DEF FixAt, CompileAt, PlotAt, RunAllAt
<1>4. /\ table' = table /\ fig' = fig /\ published' = published /\ fresh' = fresh
      /\ failed' = failed /\ runs' = runs /\ bin' = bin
      /\ mem' \in Files /\ mem'.header = "std"
      /\ script \in {"fix_and_generate", "compile_and_sweep"} => IsWhole(mem')
  BY SweepFacts DEF Sweep, disk
<1>5. TypeOK'
  BY <1>1, <1>2, <1>4 DEF TypeOK
<1>6. NeverMissing'
  BY <1>1, <1>4 DEF NeverMissing
<1>7. PublishedIsWhole'
  BY <1>4 DEF IInv, PublishedIsWhole
<1>8. SweptWhole'
  BY <1>2, <1>3, <1>4 DEF IInv, SweptWhole
<1>9. Repaired' /\ MadeUp'
  BY <1>2, <1>3, <1>4 DEF IInv, Repaired, MadeUp
<1>10. PhasesDone'
  BY <1>2, <1>3, <1>4 DEF IInv, PhasesDone, Completed
<1>11. FigsDrawn'
  BY <1>2, <1>3, Early DEF PlotScripts, FigsLeft
<1> QED
  BY <1>2, <1>5, <1>6, <1>7, <1>8, <1>9, <1>10, <1>11 DEF IInv

LEMMA SweepEndsKept ==
  ASSUME IInv, SweepEnds
  PROVE  IInv'
  BY DiedKept DEF SweepEnds, disk, IInv, TypeOK

LEMMA OpenTableKept ==
  ASSUME IInv, NEW t \in Tables, OpenTable(t)
  PROVE  IInv'
<1>1. TypeOK /\ RestOfScript /\ NeverMissing /\ At("open", t)
  BY DEF IInv, OpenTable
<1>2. /\ RestOfScript' /\ Left \in Nat /\ Left >= 1
      /\ script' = script /\ Left' = Left - 1
  BY <1>1, Control, OneOn DEF OpenTable, Proceed
<1>a. /\ script = "fix_and_generate" => FixAt("open", t)
      /\ script = "compile_and_sweep" => CompileAt("open", t)
      /\ script = "plot_all" => PlotAt("open", t)
      /\ script = "run_all" => RunAllAt("open", t)
  BY <1>1, Where
<1>3. /\ script = "fix_and_generate" => \/ t = "core_migration" /\ Left = 18
                                        \/ t = "proc_vs_thread" /\ Left = 15
                                        \/ t = "lat_ctx" /\ Left = 12
                                        \/ t = "sched_policy" /\ Left = 7
      /\ script = "compile_and_sweep" => t = "lat_ctx" /\ Left = 7
      /\ script \notin {"plot_all", "run_all"}
  <2>1. ASSUME script = "fix_and_generate", FixAt("open", t)
        PROVE  \/ t = "core_migration" /\ Left = 18
               \/ t = "proc_vs_thread" /\ Left = 15
               \/ t = "lat_ctx" /\ Left = 12
               \/ t = "sched_policy" /\ Left = 7
    BY <2>1 DEF FixAt
  <2>2. ASSUME script = "compile_and_sweep", CompileAt("open", t) PROVE t = "lat_ctx" /\ Left = 7
    BY <2>2 DEF CompileAt
  <2>3. ASSUME script = "plot_all", PlotAt("open", t) PROVE FALSE
    BY <2>3 DEF PlotAt
  <2>4. ASSUME script = "run_all", RunAllAt("open", t)
        PROVE  FALSE
    BY <2>4 DEF RunAllAt
  <2> QED
    BY <1>a, <2>1, <2>2, <2>3, <2>4
<1>4. /\ published' = published /\ mem' = mem /\ fresh' = fresh /\ failed' = failed
      /\ runs' = runs /\ bin' = bin
      /\ table' \in [Tables -> Files] /\ fig' \in [Tables -> {"none", "sample", "old", "current"}]
      /\ table'[t] = Empty /\ Empty.header = "none" /\ \A u \in Tables : u # t => table'[u] = table[u]
  BY <1>1, PutFacts, FileFacts DEF OpenTable, Proceed, work
<1>5. TypeOK'
  BY <1>1, <1>2, <1>4 DEF TypeOK
<1>6. NeverMissing'
  BY <1>1, <1>4 DEF NeverMissing
<1>7. PublishedIsWhole'
  BY <1>4 DEF IInv, PublishedIsWhole
<1>8. SweptWhole'
  BY <1>2, <1>3, <1>4, Places DEF IInv, SweptWhole
<1>9. Repaired' /\ MadeUp'
  BY <1>2, <1>3, <1>4 DEF IInv, Repaired, MadeUp
<1>10. PhasesDone'
  BY <1>2, <1>3, <1>4 DEF IInv, PhasesDone, Completed
<1>11. FigsDrawn'
  BY <1>2, <1>3, Early DEF PlotScripts, FigsLeft
<1> QED
  BY <1>2, <1>5, <1>6, <1>7, <1>8, <1>9, <1>10, <1>11 DEF IInv

LEMMA WriteTableKept ==
  ASSUME IInv, NEW t \in Tables, WriteTable(t)
  PROVE  IInv'
<1>1. TypeOK /\ RestOfScript /\ NeverMissing /\ At("write", t)
  BY DEF IInv, WriteTable
<1>2. /\ RestOfScript' /\ Left \in Nat /\ Left >= 1
      /\ script' = script /\ Left' = Left - 1
  BY <1>1, Control, OneOn DEF WriteTable
<1>a. /\ script = "fix_and_generate" => FixAt("write", t)
      /\ script = "compile_and_sweep" => CompileAt("write", t)
      /\ script = "plot_all" => PlotAt("write", t)
      /\ script = "run_all" => RunAllAt("write", t)
  BY <1>1, Where
<1>3. /\ script = "fix_and_generate" => \/ t = "core_migration" /\ Left = 17
                                        \/ t = "proc_vs_thread" /\ Left = 14
                                        \/ t = "lat_ctx" /\ Left = 11
                                        \/ t = "sched_policy" /\ Left = 6
      /\ script = "compile_and_sweep" => t = "lat_ctx" /\ Left = 6
      /\ script \notin {"plot_all", "run_all"}
  <2>1. ASSUME script = "fix_and_generate", FixAt("write", t)
        PROVE  \/ t = "core_migration" /\ Left = 17
               \/ t = "proc_vs_thread" /\ Left = 14
               \/ t = "lat_ctx" /\ Left = 11
               \/ t = "sched_policy" /\ Left = 6
    BY <2>1 DEF FixAt
  <2>2. ASSUME script = "compile_and_sweep", CompileAt("write", t) PROVE t = "lat_ctx" /\ Left = 6
    BY <2>2 DEF CompileAt
  <2>3. ASSUME script = "plot_all", PlotAt("write", t) PROVE FALSE
    BY <2>3 DEF PlotAt
  <2>4. ASSUME script = "run_all", RunAllAt("write", t)
        PROVE  FALSE
    BY <2>4 DEF RunAllAt
  <2> QED
    BY <1>a, <2>1, <2>2, <2>3, <2>4
<1>4. /\ published' = published /\ mem' = Empty /\ fresh' = fresh /\ failed' = failed
      /\ runs' = runs /\ bin' = bin
      /\ table' \in [Tables -> Files] /\ fig' \in [Tables -> {"none", "sample", "old", "current"}]
      /\ table'[t] = mem /\ \A u \in Tables : u # t => table'[u] = table[u]
  BY <1>1, PutFacts DEF WriteTable, TypeOK
<1>5. TypeOK'
  BY <1>1, <1>2, <1>4, FileFacts DEF TypeOK
<1>6. NeverMissing'
  BY <1>1, <1>4, FileFacts DEF NeverMissing
<1>7. PublishedIsWhole'
  BY <1>4 DEF IInv, PublishedIsWhole
<1>8. SweptWhole'
  BY <1>2, <1>3, <1>4, Places DEF IInv, SweptWhole
<1>9. Repaired' /\ MadeUp'
  BY <1>2, <1>3, <1>4 DEF IInv, Repaired, MadeUp
<1>10. PhasesDone'
  BY <1>2, <1>3, <1>4 DEF IInv, PhasesDone, Completed
<1>11. FigsDrawn'
  BY <1>2, <1>3, Early DEF PlotScripts, FigsLeft
<1> QED
  BY <1>2, <1>5, <1>6, <1>7, <1>8, <1>9, <1>10, <1>11 DEF IInv

LEMMA BenchKept ==
  ASSUME IInv, NEW t \in Tables, Bench(t)
  PROVE  IInv'
<1>1. TypeOK /\ RestOfScript /\ NeverMissing /\ At("run", t)
  BY DEF IInv, Bench
<1>b. \/ UNCHANGED <<table, fig>>
      \/ \E file \in Finished(t) \cup Prefixes(t) : Put(t, file)
  BY DEF Bench
<1>c. /\ table' \in [Tables -> Files] /\ fig' \in [Tables -> {"none", "sample", "old", "current"}]
      /\ \A u \in Tables : u # t => table'[u] = table[u]
      /\ table'[t].header = "missing" => table'[t] = table[t]
  <2>1. CASE UNCHANGED <<table, fig>>
    BY <1>1, <2>1 DEF TypeOK
  <2>2. ASSUME NEW file \in Finished(t) \cup Prefixes(t), Put(t, file)
        PROVE  /\ table' \in [Tables -> Files] /\ fig' \in [Tables -> {"none", "sample", "old", "current"}]
               /\ \A u \in Tables : u # t => table'[u] = table[u]
               /\ table'[t].header # "missing"
    <3>1. file \in Files /\ file.header # "missing"
      BY FinishedFacts, PrefixFacts
    <3> QED
      BY <1>1, <2>2, <3>1, PutFacts
  <2> QED
    BY <1>b, <2>1, <2>2
<1>0. CASE Die
  <2>1. bin' \subseteq Tables /\ published' = published /\ runs' = runs
    BY <1>1 DEF Bench, TypeOK
  <2> QED
    BY <1>0, <1>c, <2>1, DiedKept
<1>d. SUFFICES ASSUME Go, UNCHANGED <<mem, failed>>, fresh' \in {fresh, fresh \cup {t}},
                      script = "run_all" => t \in fresh' /\ table'[t] \in Finished(t)
               PROVE  IInv'
  <2>1. CASE (\E file \in Finished(t) : Put(t, file)) /\ fresh' = fresh \cup {t}
             /\ Go /\ UNCHANGED <<mem, failed>>
    <3>1. PICK file \in Finished(t) : Put(t, file)
      BY <2>1
    <3>2. file \in Files
      BY FinishedFacts
    <3>3. table'[t] = file
      BY <1>1, <3>1, <3>2, PutFacts
    <3> QED
      BY <1>d, <2>1, <3>3
  <2>2. CASE OnFailure
    BY <1>0, <1>d, <2>2 DEF OnFailure, Proceed, work
  <2> QED
    BY <2>1, <2>2 DEF Bench
<1>2. /\ RestOfScript' /\ Left \in Nat /\ Left >= 1
      /\ script' = script /\ Left' = Left - 1
  BY <1>1, <1>d, Control, OneOn
<1>a. /\ script = "fix_and_generate" => FixAt("run", t)
      /\ script = "compile_and_sweep" => CompileAt("run", t)
      /\ script = "plot_all" => PlotAt("run", t)
      /\ script = "run_all" => RunAllAt("run", t)
  BY <1>1, Where
<1>3. /\ script = "run_all" => \/ t = "core_migration" /\ Left = 3
                               \/ t = "sched_policy" /\ Left = 2
                               \/ t = "proc_vs_thread" /\ Left = 1
      /\ script \notin {"fix_and_generate", "compile_and_sweep", "plot_all"}
  <2>1. ASSUME script = "fix_and_generate", FixAt("run", t)
        PROVE  FALSE
    BY <2>1 DEF FixAt
  <2>2. ASSUME script = "compile_and_sweep", CompileAt("run", t) PROVE FALSE
    BY <2>2 DEF CompileAt
  <2>3. ASSUME script = "plot_all", PlotAt("run", t) PROVE FALSE
    BY <2>3 DEF PlotAt
  <2>4. ASSUME script = "run_all", RunAllAt("run", t)
        PROVE  \/ t = "core_migration" /\ Left = 3
               \/ t = "sched_policy" /\ Left = 2
               \/ t = "proc_vs_thread" /\ Left = 1
    BY <2>4 DEF RunAllAt
  <2> QED
    BY <1>a, <2>1, <2>2, <2>3, <2>4
<1>4. /\ published' = published /\ mem' = mem /\ failed' = failed /\ runs' = runs
      /\ bin' = bin /\ fresh' \subseteq Tables /\ fresh \subseteq fresh'
      /\ script' = "run_all" => t \in fresh' /\ table'[t] \in Finished(t)
  BY <1>1, <1>2, <1>d DEF Bench, TypeOK
<1>5. TypeOK'
  BY <1>1, <1>2, <1>4, <1>c DEF TypeOK
<1>6. NeverMissing'
  BY <1>1, <1>4, <1>c DEF NeverMissing
<1>7. PublishedIsWhole'
  BY <1>4 DEF IInv, PublishedIsWhole
<1>8. SweptWhole'
  BY <1>2, <1>3, <1>4, <1>c DEF IInv, SweptWhole
<1>9. Repaired' /\ MadeUp'
  BY <1>2, <1>3, <1>4, <1>c DEF IInv, Repaired, MadeUp
<1>10. PhasesDone'
  BY <1>2, <1>3, <1>4, <1>c DEF IInv, PhasesDone, Completed
<1>11. FigsDrawn'
  BY <1>2, <1>3, Early DEF PlotScripts, FigsLeft
<1> QED
  BY <1>2, <1>5, <1>6, <1>7, <1>8, <1>9, <1>10, <1>11 DEF IInv

LEMMA NoBenchKept ==
  ASSUME IInv, NEW t \in Tables, NoBench(t)
  PROVE  IInv'
<1>1. TypeOK /\ RestOfScript /\ NeverMissing /\ At("run", t)
  BY DEF IInv, NoBench
<1>0. CASE Die
  BY <1>0, DiedKept DEF NoBench, disk, IInv, TypeOK
<1>b. SUFFICES ASSUME Proceed, script # "run_all" PROVE IInv'
  BY <1>0 DEF NoBench, OnFailure
<1>2. /\ RestOfScript' /\ Left \in Nat /\ Left >= 1
      /\ script' = script /\ Left' = Left - 1 /\ script # "run_all"
  BY <1>1, <1>b, Control, OneOn DEF Proceed
<1>a. /\ script = "fix_and_generate" => FixAt("run", t)
      /\ script = "compile_and_sweep" => CompileAt("run", t)
      /\ script = "plot_all" => PlotAt("run", t)
  BY <1>1, Where
<1>3. script \notin {"fix_and_generate", "compile_and_sweep", "plot_all", "run_all"}
  BY <1>a, <1>b DEF FixAt, CompileAt, PlotAt
<1>4. /\ table' = table /\ fig' = fig /\ published' = published /\ mem' = mem
      /\ fresh' = fresh /\ failed' = failed /\ runs' = runs /\ bin' = bin
  BY <1>b DEF NoBench, Proceed, work, disk
<1>5. TypeOK'
  BY <1>1, <1>2, <1>4 DEF TypeOK
<1>6. NeverMissing'
  BY <1>1, <1>4 DEF NeverMissing
<1>7. PublishedIsWhole'
  BY <1>4 DEF IInv, PublishedIsWhole
<1>8. SweptWhole'
  BY <1>2, <1>3, <1>4 DEF IInv, SweptWhole
<1>9. Repaired' /\ MadeUp'
  BY <1>2, <1>3, <1>4 DEF IInv, Repaired, MadeUp
<1>10. PhasesDone'
  BY <1>2, <1>3, <1>4 DEF IInv, PhasesDone, Completed
<1>11. FigsDrawn'
  BY <1>2, <1>3, Early DEF PlotScripts, FigsLeft
<1> QED
  BY <1>2, <1>5, <1>6, <1>7, <1>8, <1>9, <1>10, <1>11 DEF IInv

LEMMA Phase1Kept ==
  ASSUME IInv, Phase1
  PROVE  IInv'
<1>1. TypeOK /\ RestOfScript /\ NeverMissing /\ At("phase1", "")
  BY DEF IInv, Phase1
<1>c. /\ published' = published /\ runs' = runs /\ bin' = bin
      /\ table' \in [Tables -> Files] /\ fig' \in [Tables -> {"none", "sample", "old", "current"}]
      /\ table'["lat_ctx"].header = "phase1" /\ \A u \in Tables : u # "lat_ctx" => table'[u] = table[u]
  <2> DEFINE file == File("phase1", All("absent"), FALSE)
  <2>1. file \in Files /\ file.header = "phase1" /\ "lat_ctx" \in Tables
    BY FileFacts, Places
  <2>2. Put("lat_ctx", file)
    BY DEF Phase1
  <2> HIDE DEF file
  <2> QED
    BY <1>1, <2>1, <2>2, PutFacts DEF Phase1
<1>0. CASE Die
  <2>1. \A u \in Tables : table'[u].header = "missing" => table'[u] = table[u]
    BY <1>c
  <2> QED
    BY <1>0, <1>1, <1>c, <2>1, DiedKept DEF TypeOK
<1>b. SUFFICES ASSUME Proceed PROVE IInv'
  BY <1>0 DEF Phase1
<1>2. /\ RestOfScript' /\ Left \in Nat /\ Left >= 1
      /\ script' = script /\ Left' = Left - 1
  BY <1>1, <1>b, Control, OneOn DEF Proceed
<1>a. /\ script = "fix_and_generate" => FixAt("phase1", "")
      /\ script = "compile_and_sweep" => CompileAt("phase1", "")
      /\ script = "plot_all" => PlotAt("phase1", "")
      /\ script = "run_all" => RunAllAt("phase1", "")
  BY <1>1, Where
<1>3. /\ script = "run_all" => Left = 4
      /\ script \notin {"fix_and_generate", "compile_and_sweep", "plot_all"}
  BY <1>a DEF FixAt, CompileAt, PlotAt, RunAllAt
<1>4. mem' = mem /\ fresh' = fresh /\ failed' = failed
  BY <1>b DEF Proceed, work
<1>5. TypeOK'
  BY <1>1, <1>2, <1>4, <1>c DEF TypeOK
<1>6. NeverMissing'
  BY <1>1, <1>4, <1>c DEF NeverMissing
<1>7. PublishedIsWhole'
  BY <1>c DEF IInv, PublishedIsWhole
<1>8. SweptWhole'
  BY <1>2, <1>3, <1>4, <1>c DEF IInv, SweptWhole
<1>9. Repaired' /\ MadeUp'
  BY <1>2, <1>3, <1>4, <1>c DEF IInv, Repaired, MadeUp
<1>10. PhasesDone'
  BY <1>2, <1>3, <1>4, <1>c DEF IInv, PhasesDone, Completed
<1>11. FigsDrawn'
  BY <1>2, <1>3, Early DEF PlotScripts, FigsLeft
<1> QED
  BY <1>2, <1>5, <1>6, <1>7, <1>8, <1>9, <1>10, <1>11 DEF IInv

LEMMA Phase1FailsKept ==
  ASSUME IInv, Phase1Fails
  PROVE  IInv'
  BY DiedKept DEF Phase1Fails, disk, IInv, TypeOK

LEMMA MissingTableKept ==
  ASSUME IInv, MissingTable
  PROVE  IInv'
<1>1. TypeOK /\ RestOfScript /\ NeverMissing /\ At("missing", "")
  BY DEF IInv, MissingTable
<1>0. Left \in Nat /\ Left >= 1
  BY <1>1, Control
<1>a. /\ script = "fix_and_generate" => FixAt("missing", "")
      /\ script = "compile_and_sweep" => CompileAt("missing", "")
      /\ script = "plot_all" => PlotAt("missing", "")
      /\ script = "run_all" => RunAllAt("missing", "")
  BY <1>1, Where
<1>3. /\ script = "fix_and_generate" => Left = 10
      /\ script \notin {"compile_and_sweep", "plot_all", "run_all"}
  BY <1>a DEF FixAt, CompileAt, PlotAt, RunAllAt
<1>b. script = "fix_and_generate"
  BY <1>1, Where
<1>2. /\ RestOfScript' /\ script' = script
      /\ \/ Left' = 5
         \/ Left' = 9 /\ ~Exists("sched_policy")
  <2>1. CASE Exists("sched_policy")
    <3>1. Skip(5)
      BY <2>1 DEF MissingTable
    <3>2. 5 \in 0 .. Left
      BY <1>0, <1>3, <1>b
    <3>3. RestOfScript' /\ script' = script /\ Left' = Left - 5
      BY <1>1, <3>1, <3>2, SomeOn
    <3> QED
      BY <1>3, <1>b, <3>3
  <2>2. CASE ~Exists("sched_policy")
    <3>1. Go
      BY <2>2 DEF MissingTable
    <3>2. RestOfScript' /\ script' = script /\ Left' = Left - 1
      BY <1>1, <3>1, OneOn
    <3> QED
      BY <1>3, <1>b, <2>2, <3>2
  <2> QED
    BY <2>1, <2>2
<1>4. /\ table' = table /\ fig' = fig /\ published' = published /\ mem' = mem
      /\ fresh' = fresh /\ failed' = failed /\ runs' = runs /\ bin' = bin
  BY DEF MissingTable, disk, work
<1>c. ~Exists("sched_policy") => table["sched_policy"] = Missing
  BY <1>1, Places DEF NeverMissing, Exists
<1>5. TypeOK'
  BY <1>1, <1>2, <1>4 DEF TypeOK
<1>6. NeverMissing'
  BY <1>1, <1>4 DEF NeverMissing
<1>7. PublishedIsWhole'
  BY <1>4 DEF IInv, PublishedIsWhole
<1>8. SweptWhole'
  BY <1>2, <1>3, <1>4, <1>b DEF IInv, SweptWhole
<1>9. Repaired' /\ MadeUp'
  BY <1>2, <1>3, <1>4, <1>c DEF IInv, Repaired, MadeUp
<1>10. PhasesDone'
  BY <1>2, <1>3, <1>4 DEF IInv, PhasesDone, Completed
<1>11. FigsDrawn'
  BY <1>2, <1>3, Early DEF PlotScripts, FigsLeft
<1> QED
  BY <1>2, <1>5, <1>6, <1>7, <1>8, <1>9, <1>10, <1>11 DEF IInv

LEMMA GenerateKept ==
  ASSUME IInv, Generate
  PROVE  IInv'
<1>1. TypeOK /\ RestOfScript /\ NeverMissing /\ At("generate", "")
  BY DEF IInv, Generate
<1>2. /\ RestOfScript' /\ Left \in Nat /\ Left >= 1
      /\ script' = script /\ Left' = Left - 1
  BY <1>1, Control, OneOn DEF Generate, Proceed
<1>a. /\ script = "fix_and_generate" => FixAt("generate", "")
      /\ script = "compile_and_sweep" => CompileAt("generate", "")
      /\ script = "plot_all" => PlotAt("generate", "")
      /\ script = "run_all" => RunAllAt("generate", "")
  BY <1>1, Where
<1>3. /\ script = "fix_and_generate" => Left = 9
      /\ script \notin {"compile_and_sweep", "plot_all", "run_all"}
  BY <1>a DEF FixAt, CompileAt, PlotAt, RunAllAt
<1>4. /\ published' = published /\ mem' = mem /\ fresh' = fresh /\ failed' = failed
      /\ runs' = runs /\ bin' = bin
      /\ table' \in [Tables -> Files] /\ fig' \in [Tables -> {"none", "sample", "old", "current"}]
      /\ table'["sched_policy"].header = "missing" => table'["sched_policy"] = table["sched_policy"]
      /\ \A u \in Tables : u # "sched_policy" => table'[u] = table[u]
      /\ script = "fix_and_generate" => FirstsOnly(table'["sched_policy"].rows)
  <2>1. CASE UNCHANGED <<table, fig>>
    <3>1. script = "fix_and_generate" => table["sched_policy"] = Missing
      BY <1>3 DEF IInv, MadeUp
    <3>2. FirstsOnly(Missing.rows)
      BY FileFacts DEF FirstsOnly
    <3> QED
      BY <1>1, <2>1, <3>1, <3>2 DEF Generate, Proceed, work, TypeOK
  <2>2. ASSUME NEW file \in Files, file.header # "missing", FirstsOnly(file.rows),
               Put("sched_policy", file)
        PROVE  /\ table' \in [Tables -> Files] /\ fig' \in [Tables -> {"none", "sample", "old", "current"}]
               /\ table'["sched_policy"].header # "missing"
               /\ FirstsOnly(table'["sched_policy"].rows)
               /\ \A u \in Tables : u # "sched_policy" => table'[u] = table[u]
    BY <1>1, <2>2, PutFacts, Places
  <2>3. \/ UNCHANGED <<table, fig>>
        \/ \E file \in Files : file.header # "missing" /\ FirstsOnly(file.rows) /\ Put("sched_policy", file)
    BY FinishedFacts, PrefixFacts DEF Generate
  <2>4. /\ published' = published /\ mem' = mem /\ fresh' = fresh /\ failed' = failed
        /\ runs' = runs /\ bin' = bin
    BY DEF Generate, Proceed, work
  <2> QED
    BY <2>1, <2>2, <2>3, <2>4
<1>5. TypeOK'
  BY <1>1, <1>2, <1>4 DEF TypeOK
<1>6. NeverMissing'
  BY <1>1, <1>4 DEF NeverMissing
<1>7. PublishedIsWhole'
  BY <1>4 DEF IInv, PublishedIsWhole
<1>8. SweptWhole'
  BY <1>2, <1>3, <1>4, Places DEF IInv, SweptWhole
<1>9. Repaired' /\ MadeUp'
  BY <1>2, <1>3, <1>4 DEF IInv, Repaired, MadeUp
<1>10. PhasesDone'
  BY <1>2, <1>3, <1>4 DEF IInv, PhasesDone, Completed
<1>11. FigsDrawn'
  BY <1>2, <1>3, Early DEF PlotScripts, FigsLeft
<1> QED
  BY <1>2, <1>5, <1>6, <1>7, <1>8, <1>9, <1>10, <1>11 DEF IInv

LEMMA SynthesizeKept ==
  ASSUME IInv, Synthesize
  PROVE  IInv'
<1>1. TypeOK /\ RestOfScript /\ NeverMissing /\ At("synthesize", "")
  BY DEF IInv, Synthesize
<1>0. Left \in Nat /\ Left >= 1
  BY <1>1, Control
<1>a. /\ script = "fix_and_generate" => FixAt("synthesize", "")
      /\ script = "compile_and_sweep" => CompileAt("synthesize", "")
      /\ script = "plot_all" => PlotAt("synthesize", "")
      /\ script = "run_all" => RunAllAt("synthesize", "")
  BY <1>1, Where
<1>3. /\ script = "fix_and_generate" => Left = 8
      /\ script \notin {"compile_and_sweep", "plot_all", "run_all"}
  BY <1>a DEF FixAt, CompileAt, PlotAt, RunAllAt
<1>b. script = "fix_and_generate"
  BY <1>1, Where
<1>2. /\ RestOfScript' /\ script' = script
      /\ \/ Left' = 5 /\ mem' = mem
         \/ /\ Left' = 7 /\ mem' = Fallback
            /\ \A r \in Row : table["sched_policy"].rows[r] = "absent"
  <2>1. CASE table["sched_policy"].rows[1] = "absent"
    <3>1. FirstsOnly(table["sched_policy"].rows)
      BY <1>3, <1>b DEF IInv, MadeUp
    <3>2. Go /\ mem' = Fallback
      BY <2>1 DEF Synthesize, Fallback
    <3>3. RestOfScript' /\ script' = script /\ Left' = Left - 1
      BY <1>1, <3>2, OneOn
    <3>4. \A r \in Row : table["sched_policy"].rows[r] = "absent"
      BY <2>1, <3>1 DEF FirstsOnly
    <3> QED
      BY <1>0, <1>3, <1>b, <3>2, <3>3, <3>4
  <2>2. CASE table["sched_policy"].rows[1] # "absent"
    <3>1. Skip(3) /\ mem' = mem
      BY <2>2 DEF Synthesize
    <3>2. 3 \in 0 .. Left
      BY <1>0, <1>3, <1>b
    <3>3. RestOfScript' /\ script' = script /\ Left' = Left - 3
      BY <1>1, <3>1, <3>2, SomeOn
    <3> QED
      BY <1>3, <1>b, <3>1, <3>3
  <2> QED
    BY <2>1, <2>2
<1>4. /\ table' = table /\ fig' = fig /\ published' = published
      /\ mem' \in {mem, Fallback} /\ Fallback \in Files /\ Fallback.header # "missing"
      /\ fresh' = fresh /\ failed' = failed /\ runs' = runs /\ bin' = bin
  BY FileFacts DEF Synthesize, disk, Fallback
<1>5. TypeOK'
  BY <1>1, <1>2, <1>4 DEF TypeOK
<1>6. NeverMissing'
  BY <1>1, <1>4 DEF NeverMissing
<1>7. PublishedIsWhole'
  BY <1>4 DEF IInv, PublishedIsWhole
<1>8. SweptWhole'
  BY <1>2, <1>3, <1>4, <1>b DEF IInv, SweptWhole
<1>9. Repaired' /\ MadeUp'
  BY <1>2, <1>3, <1>4 DEF IInv, Repaired, MadeUp
<1>10. PhasesDone'
  BY <1>2, <1>3, <1>4 DEF IInv, PhasesDone, Completed
<1>11. FigsDrawn'
  BY <1>2, <1>3, Early DEF PlotScripts, FigsLeft
<1> QED
  BY <1>2, <1>5, <1>6, <1>7, <1>8, <1>9, <1>10, <1>11 DEF IInv

LEMMA SampleKept ==
  ASSUME IInv, Sample
  PROVE  IInv'
<1>1. TypeOK /\ RestOfScript /\ NeverMissing /\ At("sample", "")
  BY DEF IInv, Sample
<1>2. /\ RestOfScript' /\ Left \in Nat /\ Left >= 1
      /\ script' = script /\ Left' = Left - 1
  BY <1>1, Control, OneOn DEF Sample, Proceed
<1>a. /\ script = "fix_and_generate" => FixAt("sample", "")
      /\ script = "compile_and_sweep" => CompileAt("sample", "")
      /\ script = "plot_all" => PlotAt("sample", "")
      /\ script = "run_all" => RunAllAt("sample", "")
  BY <1>1, Where
<1>3. /\ script \notin {"fix_and_generate", "compile_and_sweep", "plot_all", "run_all"}
  BY <1>a DEF FixAt, CompileAt, PlotAt, RunAllAt
<1>4. /\ table' = table /\ published' = published /\ mem' = mem /\ fresh' = fresh
      /\ failed' = failed /\ runs' = runs /\ bin' = bin
      /\ fig' \in [Tables -> {"none", "sample", "old", "current"}]
  BY <1>1 DEF Sample, Proceed, work, TypeOK
<1>5. TypeOK'
  BY <1>1, <1>2, <1>4 DEF TypeOK
<1>6. NeverMissing'
  BY <1>1, <1>4 DEF NeverMissing
<1>7. PublishedIsWhole'
  BY <1>4 DEF IInv, PublishedIsWhole
<1>8. SweptWhole'
  BY <1>2, <1>3, <1>4 DEF IInv, SweptWhole
<1>9. Repaired' /\ MadeUp'
  BY <1>2, <1>3, <1>4 DEF IInv, Repaired, MadeUp
<1>10. PhasesDone'
  BY <1>2, <1>3, <1>4 DEF IInv, PhasesDone, Completed
<1>11. FigsDrawn'
  BY <1>2, <1>3, Early DEF PlotScripts, FigsLeft
<1> QED
  BY <1>2, <1>5, <1>6, <1>7, <1>8, <1>9, <1>10, <1>11 DEF IInv

LEMMA CommitKept ==
  ASSUME IInv, Commit
  PROVE  IInv'
<1>1. TypeOK /\ RestOfScript /\ NeverMissing /\ At("commit", "")
  BY DEF IInv, Commit
<1>2. /\ RestOfScript' /\ Left \in Nat /\ Left >= 1
      /\ script' = script /\ Left' = Left - 1
  BY <1>1, Control, OneOn DEF Commit, Proceed
<1>a. /\ script = "fix_and_generate" => FixAt("commit", "")
      /\ script = "compile_and_sweep" => CompileAt("commit", "")
      /\ script = "plot_all" => PlotAt("commit", "")
      /\ script = "run_all" => RunAllAt("commit", "")
  BY <1>1, Where
<1>3. /\ script \in {"fix_and_generate", "compile_and_sweep"} /\ Left = 1
  BY <1>1, Where, <1>a DEF FixAt, CompileAt, PlotAt, RunAllAt
<1>4. /\ table' = table /\ fig' = fig /\ mem' = mem /\ fresh' = fresh
      /\ failed' = failed /\ runs' = runs /\ bin' = bin
      /\ published' = table["lat_ctx"]
      /\ script \in {"fix_and_generate", "compile_and_sweep"}
  BY <1>1, Where DEF Commit, Proceed, work
<1>5. TypeOK'
  BY <1>1, <1>2, <1>4, Places DEF TypeOK
<1>6. NeverMissing'
  BY <1>1, <1>4 DEF NeverMissing
<1>7. PublishedIsWhole'
  <2>1. IsWhole(table["lat_ctx"])
    BY <1>3 DEF IInv, SweptWhole
  <2> QED
    BY <1>4, <2>1 DEF PublishedIsWhole, IsWhole
<1>8. SweptWhole'
  BY <1>2, <1>3, <1>4 DEF IInv, SweptWhole
<1>9. Repaired' /\ MadeUp'
  BY <1>2, <1>3, <1>4 DEF IInv, Repaired, MadeUp
<1>10. PhasesDone'
  BY <1>2, <1>3, <1>4 DEF IInv, PhasesDone, Completed
<1>11. FigsDrawn'
  <2>1. ASSUME NEW t \in Tables, ~failed, Exists(t) PROVE fig[t] = "current"
    <3>1. Place(t) + FigsLeft <= 4
      BY <1>3, Places DEF FigsLeft
    <3> QED
      BY <1>3, <2>1, <3>1 DEF IInv, FigsDrawn, PlotScripts
  <2> QED
    BY <1>4, <2>1 DEF FigsDrawn, Exists
<1> QED
  BY <1>2, <1>5, <1>6, <1>7, <1>8, <1>9, <1>10, <1>11 DEF IInv

LEMMA ReadTableKept ==
  ASSUME IInv, NEW t \in Tables, ReadTable(t)
  PROVE  IInv'
<1>1. TypeOK /\ RestOfScript /\ NeverMissing /\ At("read", t)
  BY DEF IInv, ReadTable
<1>2. /\ script = "fix_and_generate" /\ FixAt("read", t)
      /\ Left \in Nat /\ Left >= 1
  BY <1>1, Control, Where
<1>3. (t = "core_migration" /\ Left = 19) \/ (t = "proc_vs_thread" /\ Left = 16)
  BY <1>2 DEF FixAt
<1>0. CASE Die
  BY <1>0, DiedKept DEF ReadTable, disk, IInv, TypeOK
<1>b. SUFFICES ASSUME ~Die PROVE IInv'
  BY <1>0
<1>4. /\ table' = table /\ fig' = fig /\ published' = published /\ bin' = bin
      /\ fresh' = fresh /\ failed' = failed /\ runs' = runs
  BY <1>b DEF ReadTable, disk, work
<1>5. /\ RestOfScript'
      /\ \/ script' = script /\ Left' = Left - 3 /\ mem' = mem
         \/ /\ script' = script /\ Left' = Left - 1 /\ mem' \in Files
            /\ mem'.rows = table[t].rows /\ mem'.header # "missing"
  <2>1. CASE ~Exists(t)
    <3>1. Skip(3) /\ mem' = mem /\ 3 \in 0 .. Left
      BY <1>2, <1>3, <1>b, <2>1 DEF ReadTable, work, Exists
    <3> QED
      BY <1>1, <3>1, SomeOn
  <2>3. CASE Exists(t)
    <3>1. Go /\ mem' = [table[t] EXCEPT !.dup = FALSE]
      BY <1>b, <2>3 DEF ReadTable, Exists
    <3>2. table[t] \in Files
      BY <1>1 DEF TypeOK
    <3>3. mem' \in Files /\ mem'.rows = table[t].rows /\ mem'.header = table[t].header
      BY <3>1, <3>2 DEF Files
    <3> QED
      BY <1>1, <2>3, <3>1, <3>3, OneOn DEF Exists
  <2> QED
    BY <2>1, <2>3
<1>6. TypeOK' /\ NeverMissing'
  BY <1>1, <1>4, <1>5 DEF TypeOK, NeverMissing
<1>7. PublishedIsWhole'
  BY <1>4 DEF IInv, PublishedIsWhole
<1>8. SweptWhole'
  BY <1>2, <1>3, <1>4, <1>5 DEF SweptWhole
<1>9. Repaired' /\ MadeUp'
  BY <1>2, <1>3, <1>4, <1>5 DEF Repaired, MadeUp
<1>10. PhasesDone'
  BY <1>2, <1>5 DEF PhasesDone
<1>11. FigsDrawn'
  BY <1>2, <1>3, <1>5, Early DEF PlotScripts, FigsLeft
<1> QED
  BY <1>5, <1>6, <1>7, <1>8, <1>9, <1>10, <1>11 DEF IInv

LEMMA DrawKept ==
  ASSUME IInv, NEW t \in Tables, Draw(t)
  PROVE  IInv'
<1>1. TypeOK /\ RestOfScript /\ NeverMissing /\ At("fig", t)
  BY DEF IInv, Draw
<1>2. Left \in Nat /\ Left >= 1
  BY <1>1, Control
<1>3. /\ script \in {"fix_and_generate", "compile_and_sweep"} => Left = 6 - Place(t)
      /\ script = "plot_all" => Left = 5 - Place(t)
      /\ script # "run_all"
  <2>1. ASSUME script = "fix_and_generate", FixAt("fig", t) PROVE Left = 6 - Place(t)
    BY <2>1 DEF FixAt
  <2>2. ASSUME script = "compile_and_sweep", CompileAt("fig", t) PROVE Left = 6 - Place(t)
    BY <2>2 DEF CompileAt
  <2>3. ASSUME script = "plot_all", PlotAt("fig", t) PROVE Left = 5 - Place(t)
    BY <2>3 DEF PlotAt
  <2>4. ASSUME script = "run_all", RunAllAt("fig", t) PROVE FALSE
    BY <2>4 DEF RunAllAt
  <2> QED
    BY <1>1, <2>1, <2>2, <2>3, <2>4, Where
<1>4. /\ table' = table /\ published' = published /\ bin' = bin /\ mem' = mem
      /\ fresh' = fresh /\ runs' = runs
  BY DEF Draw
<1>5. Place(t) \in 1 .. 4
  BY Places
<1>6. RestOfPlot \in 0 .. Left
  <2>1. todo \in Seq(StepSet) /\ DOMAIN todo = 1 .. Left
    BY <1>1, Control DEF Left
  <2>2. IsFiniteSet(1 .. Left) /\ Cardinality(1 .. Left) = Left
    BY <1>2, FS_Interval
  <2>3. {i \in DOMAIN todo : todo[i][1] = "fig"} \subseteq 1 .. Left
    BY <2>1
  <2>4. RestOfPlot \in Nat /\ RestOfPlot <= Left
    BY <2>2, <2>3, FS_Subset, FS_CardinalityType DEF RestOfPlot
  <2> QED
    BY <1>2, <2>4
<1>7. /\ RestOfScript' /\ script' = script
      /\ fig' \in [Tables -> {"none", "sample", "old", "current"}] /\ failed' \in BOOLEAN
      /\ \/ failed' = TRUE /\ Left' \in Int /\ Left' <= Left
         \/ /\ failed' = failed /\ Left' = Left - 1 /\ (Exists(t) => fig'[t] = "current")
            /\ \A u \in Tables : u # t => fig'[u] = fig[u]
  <2>1. CASE ~Exists(t) /\ Go /\ UNCHANGED <<fig, failed>>
    BY <1>1, <2>1, OneOn DEF TypeOK
  <2>2. CASE Drawable(t) /\ fig' = [fig EXCEPT ![t] = "current"] /\ Go /\ UNCHANGED failed
    <3>1. fig \in [Tables -> {"none", "sample", "old", "current"}] /\ failed \in BOOLEAN
      BY <1>1 DEF TypeOK
    <3> QED
      BY <1>1, <2>2, <3>1, OneOn
  <2>3. CASE failed' = TRUE /\ UNCHANGED fig /\ Skip(RestOfPlot)
    <3>1. RestOfScript' /\ script' = script /\ Left' = Left - RestOfPlot
      BY <1>1, <1>6, <2>3, SomeOn
    <3>2. Left' \in Int /\ Left' <= Left
      BY <1>2, <1>6, <3>1
    <3> QED
      BY <1>1, <2>3, <3>1, <3>2 DEF TypeOK
  <2> QED
    BY <2>1, <2>2, <2>3 DEF Draw
<1>8. TypeOK' /\ NeverMissing'
  BY <1>1, <1>4, <1>7 DEF TypeOK, NeverMissing
<1>9. PublishedIsWhole'
  BY <1>4 DEF IInv, PublishedIsWhole
<1>10. SweptWhole'
  <2>1. script \in {"fix_and_generate", "compile_and_sweep"} => Left <= 5
    BY <1>3, <1>5
  <2>2. script \in {"fix_and_generate", "compile_and_sweep"} => IsWhole(table["lat_ctx"])
    BY <1>2, <2>1 DEF IInv, SweptWhole
  <2>3. Left' \in Int /\ Left' <= Left
    BY <1>2, <1>7
  <2> QED
    BY <1>2, <1>4, <1>7, <2>1, <2>2, <2>3 DEF SweptWhole
<1>11. Repaired' /\ MadeUp'
  <2>1. script = "fix_and_generate" => Left <= 5 /\ Left' \in Int /\ Left' <= 5
    BY <1>2, <1>3, <1>5, <1>7
  <2> QED
    BY <1>7, <2>1 DEF Repaired, MadeUp
<1>12. PhasesDone'
  BY <1>3, <1>7 DEF PhasesDone
<1>13. FigsDrawn'
  <2>1. SUFFICES ASSUME script \in PlotScripts, ~failed', NEW u \in Tables,
                        Place(u) + FigsLeft' <= 4, Exists(u)
                 PROVE  fig'[u] = "current"
    BY <1>4, <1>7 DEF FigsDrawn, Exists
  <2>2. /\ ~failed /\ Left' = Left - 1 /\ (Exists(t) => fig'[t] = "current")
        /\ \A v \in Tables : v # t => fig'[v] = fig[v]
    BY <1>7, <2>1
  <2>3. FigsLeft = 5 - Place(t) /\ FigsLeft' = 4 - Place(t)
    BY <1>2, <1>3, <1>5, <1>7, <2>1, <2>2 DEF PlotScripts, FigsLeft
  <2>4. Place(u) \in 1 .. 4
    BY Places
  <2>5. Place(u) <= Place(t)
    BY <1>5, <2>1, <2>3, <2>4
  <2>6. CASE u = t
    BY <2>1, <2>2, <2>6
  <2>7. CASE u # t
    <3>1. Place(u) # Place(t)
      BY <2>7, Places
    <3>2. Place(u) + FigsLeft <= 4
      BY <1>5, <2>3, <2>4, <2>5, <3>1
    <3> QED
      BY <2>1, <2>2, <2>7, <3>2 DEF IInv, FigsDrawn
  <2> QED
    BY <2>6, <2>7
<1> QED
  BY <1>7, <1>8, <1>9, <1>10, <1>11, <1>12, <1>13 DEF IInv

LEMMA StartKept ==
  ASSUME IInv, NEW s \in Scripts, Start(s)
  PROVE  IInv'
<1>1. /\ TypeOK /\ NeverMissing
      /\ script' = s /\ todo' = Steps[s] /\ mem' = mem /\ fresh' = fresh /\ failed' = failed
      /\ runs' = runs + 1 /\ runs < MaxRuns
      /\ table' = table /\ fig' = fig /\ published' = published /\ bin' = bin
  BY DEF IInv, Start, disk, work
<1>2. Steps[s] \in Seq(StepSet) /\ Left' = Len(Steps[s]) /\ Len(Steps[s]) \in Nat
  BY <1>1, StepsTyped, LenProperties DEF Left
<1>3. /\ s = "fix_and_generate" => Left' = 20
      /\ s = "compile_and_sweep" => Left' = 9
      /\ s = "plot_all" => Left' = 4
      /\ s = "run_all" => Left' = 4
  <2>1. s = "fix_and_generate" => Left' = 20
    BY <1>2, FixSteps
  <2>2. s = "compile_and_sweep" => Left' = 9
    BY <1>2, CompileSteps
  <2>3. s = "plot_all" => Left' = 4
    BY <1>2, PlotSteps
  <2>4. s = "run_all" => Left' = 4
    BY <1>2, RunAllSteps
  <2> QED
    BY <2>1, <2>2, <2>3, <2>4
<1>4. TypeOK' /\ NeverMissing'
  <2>2. runs' \in 0 .. MaxRuns
    BY <1>1, PipelineAssumption DEF TypeOK
  <2>3. TypeOK'
    BY <1>1, <2>2 DEF TypeOK
  <2> QED
    BY <1>1, <2>3 DEF NeverMissing
<1>5. RestOfScript'
  <2>1. s # "none"
    BY DEF Scripts, Steps
  <2>2. ASSUME NEW i \in 1 .. Left'
        PROVE  Steps[s][i] = Steps[s][Len(Steps[s]) - Left' + i]
    BY <1>2
  <2> QED
    BY <1>1, <1>2, <2>1, <2>2 DEF RestOfScript
<1>6. PublishedIsWhole'
  BY <1>1 DEF IInv, PublishedIsWhole
<1>7. SweptWhole' /\ Repaired' /\ MadeUp' /\ PhasesDone'
  BY <1>1, <1>3 DEF SweptWhole, Repaired, MadeUp, PhasesDone
<1>8. FigsDrawn'
  BY <1>1, <1>3, Early DEF PlotScripts, FigsLeft
<1> QED
  BY <1>4, <1>5, <1>6, <1>7, <1>8 DEF IInv

LEMMA EndKept ==
  ASSUME IInv, Finish \/ Interrupt
  PROVE  IInv'
  BY DiedKept DEF Finish, Interrupt, disk, IInv, TypeOK

LEMMA InitHolds == Init => IInv
<1> SUFFICES ASSUME Init PROVE IInv
  OBVIOUS
<1>1. TypeOK
  <2>1. Missing \in Files /\ Empty \in Files
    BY FileFacts
  <2>2. runs \in 0 .. MaxRuns
    BY PipelineAssumption DEF Init
  <2>3. bin \subseteq Tables /\ fresh \subseteq Tables
    BY DEF Init
  <2> QED
    BY <2>1, <2>2, <2>3 DEF Init, TypeOK
<1>2. RestOfScript /\ PublishedIsWhole
  BY DEF Init, RestOfScript, PublishedIsWhole
<1>3. NeverMissing
  BY FileFacts DEF Init, NeverMissing
<1>4. SweptWhole /\ Repaired /\ MadeUp /\ PhasesDone /\ FigsDrawn
  BY DEF Init, SweptWhole, Repaired, MadeUp, PhasesDone, FigsDrawn, PlotScripts
<1> QED
  BY <1>1, <1>2, <1>3, <1>4 DEF IInv

LEMMA IInvHolds == Spec => []IInv
<1>1. IInv /\ [Next]_vars => IInv'
  <2> SUFFICES ASSUME IInv, [Next]_vars PROVE IInv'
    OBVIOUS
  <2>1. CASE UNCHANGED vars
    BY <2>1
       DEF vars, disk, work, IInv, TypeOK, RestOfScript, Left, NeverMissing,
           PublishedIsWhole, SweptWhole, Repaired, MadeUp, PhasesDone, Completed, FigsDrawn,
           FigsLeft, Exists
  <2> QED
    BY <2>1, StartKept, EndKept, BuildKept, CompileKept, SweepKept, SweepEndsKept,
       Phase1Kept, Phase1FailsKept, MissingTableKept, GenerateKept, SynthesizeKept, SampleKept, CommitKept, OpenTableKept,
       WriteTableKept, ReadTableKept, BenchKept, NoBenchKept, DrawKept
       DEF Next
<1> QED
  BY <1>1, InitHolds, PTL DEF Spec

----------------------------------------------------------------------------
(* The lat_ctx table that is committed has every row and the right header, *)
(* and when plot_all.py comes through each figure shows the table that     *)
(* exists, whatever scripts were started, interrupted or failed before.    *)
THEOREM WhatIsPublished == Spec => []PublishedIsCurrent
<1>1. ASSUME IInv PROVE PlotIsCurrent
  <2>1. SUFFICES ASSUME script \in PlotScripts, ~failed,
                        todo \in {<<>>, <<Step("commit")>>}, NEW t \in Tables, Exists(t)
                 PROVE  fig[t] = "current"
    BY DEF PlotIsCurrent, PlotScripts
  <2>2. Place(t) \in 1 .. 4
    BY Places
  <2>3. FigsLeft \in Int /\ FigsLeft <= 0
    <3>1. CASE todo = <<>>
      BY <3>1 DEF FigsLeft, Left
    <3>2. CASE todo = <<Step("commit")>>
      <4>1. Left = 1 /\ todo[1] = Step("commit")
        BY <3>2 DEF Left
      <4>2. script # "plot_all"
        <5> SUFFICES ASSUME script = "plot_all" PROVE FALSE
          OBVIOUS
        <5>1. Len(Steps["plot_all"]) = 4 /\ Steps["plot_all"][4][1] = "fig"
          BY PlotSteps
        <5>2. todo[1] = Steps["plot_all"][4]
          BY <1>1, <4>1, <5>1 DEF IInv, RestOfScript
        <5>3. Step("commit")[1] = "commit"
          BY DEF Step
        <5> QED
          BY <4>1, <5>1, <5>2, <5>3
      <4> QED
        BY <4>1, <4>2 DEF FigsLeft
    <3> QED
      BY <2>1, <3>1, <3>2
  <2>4. Place(t) + FigsLeft <= 4
    BY <2>2, <2>3
  <2> QED
    BY <1>1, <2>1, <2>4 DEF IInv, FigsDrawn
<1>2. IInv => PublishedIsCurrent
  BY <1>1 DEF IInv, PublishedIsCurrent
<1> QED
  BY <1>2, IInvHolds, PTL

(* When run_all.sh says that all phases are complete, the tables of phases *)
(* 2 to 4 have a row for everything that was to be measured, nothing in    *)
(* them is made up or older than this run, and only the table of the       *)
(* scheduling policies may say N/A, for a policy that was refused.         *)
THEOREM PhasesAreComplete == Spec => []CompleteMeansAll
<1>1. ASSUME IInv PROVE CompleteMeansAll
  <2>1. SUFFICES ASSUME script = "run_all", todo = <<>>, NEW t \in Tables \ {"lat_ctx"}
                 PROVE  /\ t \in fresh /\ Whole(t)
                        /\ \A r \in Row : \/ table[t].rows[r] = "measured"
                                          \/ t = "sched_policy" /\ table[t].rows[r] = "na"
    BY DEF CompleteMeansAll
  <2>2. Left = 0
    BY <2>1 DEF Left
  <2>3. Completed(t)
    BY <1>1, <2>1, <2>2 DEF IInv, PhasesDone, Tables
  <2>4. t \in fresh /\ table[t].header = "std" /\ table[t].rows \in [Row -> Filled(t)]
    BY <2>3, FinishedFacts DEF Completed
  <2>5. ASSUME NEW r \in Row
        PROVE  \/ table[t].rows[r] = "measured"
               \/ t = "sched_policy" /\ table[t].rows[r] = "na"
    BY <2>4 DEF Filled
  <2>6. Whole(t)
    BY <2>4, <2>5 DEF Whole
  <2> QED
    BY <2>4, <2>5, <2>6
<1> QED
  BY <1>1, IInvHolds, PTL

(* While fix_and_generate_all.py runs, no measured row outside the lat_ctx *)
(* sweep is replaced by one that is made up, and none is lost unless the   *)
(* script is interrupted between emptying a table it repairs and writing   *)
(* it.                                                                     *)
THEOREM MeasuredIsKept == Spec => MeasuredStays
<1> DEFINE Stays ==
      script = "fix_and_generate" =>
        \A t \in Tables \ {"lat_ctx"}, r \in Row :
          Kept(t, r) => Kept(t, r)' \/ (script' = "none" /\ table[t] = Empty)
<1>1. IInv /\ [Next]_vars => [Stays]_vars
  <2> SUFFICES ASSUME IInv, Next, script = "fix_and_generate",
                      NEW t \in Tables \ {"lat_ctx"}, NEW r \in Row, Kept(t, r)
               PROVE  Kept(t, r)' \/ (script' = "none" /\ table[t] = Empty)
    OBVIOUS
  <2>a. TypeOK /\ RestOfScript
    BY DEF IInv
  (* While a table is empty and about to be written, the step is its write, *)
  (* or the script ends.                                                    *)
  <2>b. ASSUME NEW op, NEW u, At(op, u) PROVE FixAt(op, u)
    BY <2>a, <2>b, Where
  <2>c. ASSUME table[t].rows[r] # "measured"
        PROVE  table[t] = Empty /\ mem.rows[r] = "measured"
    BY <2>c DEF Kept
  <2>e. ASSUME NEW op, NEW u, At(op, u), op # "write" \/ u # t
        PROVE  table[t].rows[r] = "measured"
    BY <2>e DEF Kept, At
  <2>d. CASE script' = "none" /\ table' = table
    BY <2>c, <2>d DEF Kept
  <2>1. ASSUME table' = table, NEW op, NEW u, At(op, u), op # "write"
        PROVE  Kept(t, r)'
    BY <2>1, <2>e DEF Kept
  <2>2. ASSUME NEW u \in Tables, OpenTable(u) PROVE Kept(t, r)'
    <3>1. /\ At("open", u) /\ Go /\ mem' = mem /\ table'[u] = Empty
          /\ \A v \in Tables : v # u => table'[v] = table[v]
      BY <2>a, <2>2, PutFacts, FileFacts DEF OpenTable, Proceed, work
    <3>2. table[t].rows[r] = "measured"
      BY <2>e, <3>1
    <3>3. CASE u # t
      BY <3>1, <3>2, <3>3 DEF Kept
    <3>4. CASE u = t
      <4>1. /\ Left \in {18, 15, 7} /\ Left \in Nat
            /\ Left = 18 => t = "core_migration"
            /\ Left = 15 => t = "proc_vs_thread"
            /\ Left = 7 => t = "sched_policy"
        BY <2>b, <3>1, <3>4 DEF FixAt
      <4>2. Left # 7 /\ mem.rows = table[t].rows
        BY <3>2, <4>1 DEF IInv, Repaired, MadeUp
      <4>3. RestOfScript' /\ script' = script /\ Left' = Left - 1
        BY <2>a, <3>1, OneOn
      <4>4. todo'[1] = <<"write", t>> /\ todo' # <<>>
        <5>1. Left' \in {17, 14} /\ Len(Steps["fix_and_generate"]) = 20
              /\ todo' \in Seq(StepSet) /\ script # "none"
          BY <4>1, <4>2, <4>3, FixSteps DEF RestOfScript, Scripts, Steps
        <5>2. 1 \in 1 .. Left'
          BY <5>1
        <5>3. todo'[1] = Steps["fix_and_generate"][20 - Left' + 1]
          BY <4>3, <5>1, <5>2 DEF RestOfScript
        <5>4. todo'[1] \in StepSet /\ todo' # <<>>
          BY <5>1, <5>2, LenProperties, EmptySeq DEF Left
        <5>5. ASSUME Left = 18 PROVE todo'[1][1] = "write" /\ todo'[1][2] = t
          <6>1. todo'[1] = Steps["fix_and_generate"][4] /\ t = "core_migration"
            BY <4>1, <4>3, <5>3, <5>5
          <6> QED
            BY <6>1, FixSteps
        <5>6. ASSUME Left = 15 PROVE todo'[1][1] = "write" /\ todo'[1][2] = t
          <6>1. todo'[1] = Steps["fix_and_generate"][7] /\ t = "proc_vs_thread"
            BY <4>1, <4>3, <5>3, <5>6
          <6> QED
            BY <6>1, FixSteps
        <5>7. todo'[1][1] = "write" /\ todo'[1][2] = t
          BY <4>1, <4>2, <5>5, <5>6
        <5>8. todo'[1] = <<todo'[1][1], todo'[1][2]>>
          BY <5>4, Pair DEF StepSet
        <5> QED
          BY <5>4, <5>7, <5>8
      <4>5. Head(todo') = <<"write", t>>
        BY <4>4 DEF Head
      <4> QED
        BY <3>1, <3>2, <3>4, <4>2, <4>4, <4>5 DEF Kept
    <3> QED
      BY <3>3, <3>4
  <2>3. ASSUME NEW u \in Tables, WriteTable(u) PROVE Kept(t, r)'
    <3>1. /\ At("write", u) /\ table'[u] = mem
          /\ \A v \in Tables : v # u => table'[v] = table[v]
      BY <2>a, <2>3, PutFacts DEF WriteTable, TypeOK
    <3>2. u # "lat_ctx" => table[u] = Empty
      BY <2>b, <3>1 DEF FixAt, IInv, Repaired, MadeUp
    <3>3. CASE table[t].rows[r] = "measured"
      <4>1. u # t
        BY <3>2, <3>3, FileFacts
      <4> QED
        BY <3>1, <3>3, <4>1 DEF Kept
    <3>4. CASE table[t].rows[r] # "measured"
      <4>1. u = t /\ mem.rows[r] = "measured"
        BY <2>c, <2>e, <3>1, <3>4
      <4> QED
        BY <3>1, <4>1 DEF Kept
    <3> QED
      BY <3>3, <3>4
  <2>4. ASSUME Generate PROVE Kept(t, r)'
    <3>1. At("generate", "") /\ table["sched_policy"] = Missing
      <4>1. At("generate", "")
        BY <2>4 DEF Generate
      <4>2. FixAt("generate", "")
        BY <4>1, <2>b
      <4>3. Left = 9
        BY <4>2 DEF FixAt
      <4> QED
        BY <4>1, <4>3 DEF IInv, MadeUp
    <3>2. table[t].rows[r] = "measured"
      BY <2>e, <3>1
    <3>3. t # "sched_policy"
      BY <3>1, <3>2, FileFacts
    <3>4. table' = table \/ \E file \in Files : Put("sched_policy", file)
      BY <2>4, FinishedFacts, PrefixFacts DEF Generate
    <3>5. table'[t] = table[t]
      BY <2>a, <3>3, <3>4, PutFacts, Places
    <3> QED
      BY <3>2, <3>5 DEF Kept
  <2>5. ~Phase1 /\ \A u \in Tables : ~Bench(u)
    <3>1. Phase1 => FixAt("phase1", "")
      BY <2>b DEF Phase1
    <3>2. ASSUME NEW u \in Tables, Bench(u) PROVE FixAt("run", u)
      BY <2>b, <3>2 DEF Bench
    <3>3. \A u \in Tables : ~FixAt("run", u)
      BY DEF FixAt
    <3>4. ~FixAt("phase1", "")
      BY DEF FixAt
    <3> QED
      BY <3>1, <3>2, <3>3, <3>4
  <2>6. CASE Finish \/ Interrupt
    BY <2>6, <2>d DEF Finish, Interrupt, Die, disk
  <2>7. CASE \/ Build \/ Compile \/ Sweep \/ SweepEnds \/ Phase1Fails \/ MissingTable
             \/ Synthesize \/ Sample \/ Commit
    BY <2>1, <2>7
       DEF Build, Compile, Sweep, SweepEnds, Phase1Fails, MissingTable, Synthesize, Sample,
           Commit, disk
  <2>8. ASSUME NEW u \in Tables, ReadTable(u) \/ NoBench(u) \/ Draw(u) PROVE Kept(t, r)'
    BY <2>1, <2>8 DEF ReadTable, NoBench, Draw, disk
  <2>9. \A s \in Scripts : ~Start(s)
    BY DEF Start
  <2> QED
    BY <2>2, <2>3, <2>4, <2>5, <2>6, <2>7, <2>8, <2>9 DEF Next
<1> QED
  BY <1>1, IInvHolds, PTL DEF MeasuredStays, Spec
===============================================================================
