----------------------------- MODULE ResultTable -----------------------------
(***************************************************************************)
(* The table core_migration_penalty.c writes and what the scripts make of  *)
(* it.  The program keeps its CSV open while run_ring forks, so the rows   *)
(* still in the stdio buffer are copied into every child, and exit(0)      *)
(* makes each child write its copy out once more, through the file offset  *)
(* all of them share.  A process that a signal kills writes nothing.       *)
(*                                                                         *)
(* CoreMigration is composed with that buffer: every action of it says     *)
(* here what it does to the table.  The buffer never fills up (a table is  *)
(* some 500 bytes of 4096), and the disk never does.  The scripts run when *)
(* every process has gone: they wait for the end of the program's output.  *)
(***************************************************************************)
EXTENDS CoreMigration, SequencesExt

VARIABLES
  out,                       \* lines in each process's buffer of fp
  file                       \* lines on disk

tableVars == <<out, file>>

Header == 0                  \* a row is the number of its scenario
Whole  == <<Header>> \o [s \in 1 .. Len(Scenarios) |-> s]

(* fopen and the fprintf of the header. *)
TableInit ==
  /\ Init
  /\ out = [i \in Proc |-> IF i = Parent THEN <<Header>> ELSE <<>>]
  /\ file = <<>>

(* fork copies the buffer. *)
CopyBuffer(k) ==
  /\ out' = [out EXCEPT ![k] = out[Parent]]
  /\ UNCHANGED file

(* exit flushes what the process has. *)
FlushAtExit(i) ==
  /\ file' = file \o out[i]
  /\ out' = [out EXCEPT ![i] = <<>>]

(* Death by SIGPIPE. *)
Discard(i) ==
  /\ out' = [out EXCEPT ![i] = <<>>]
  /\ UNCHANGED file

(* Mutant of PrintRow: the row of a scenario is numbered for the next. *)
PrintRowOfNext ==
  LET rows == Append(out[Parent], scene + 1)
  IN  IF scene < Len(Scenarios)
      THEN out' = [out EXCEPT ![Parent] = rows] /\ UNCHANGED file
      ELSE /\ file' = file \o rows
           /\ out' = [out EXCEPT ![Parent] = <<>>]

(* The fprintf after run_ring, and after the last one fclose. *)
PrintRow ==
  LET rows == Append(out[Parent], scene)
  IN  IF scene < Len(Scenarios)
      THEN out' = [out EXCEPT ![Parent] = rows] /\ UNCHANGED file
      ELSE /\ file' = file \o rows
           /\ out' = [out EXCEPT ![Parent] = <<>>]

TableNext ==
  \/ \E k \in Child :
       \/ Fork(k) /\ CopyBuffer(k)
       \/ (ForkFails(k) \/ Settle(k) \/ ChildRead(k) \/ ChildWrite(k) \/ Reap(k))
          /\ UNCHANGED tableVars
       \/ ChildKilled(k) /\ Discard(k)
       \/ Leave(k) /\ FlushAtExit(k)
  \/ (StartRing \/ ParentWrite \/ ParentRead \/ Report) /\ UNCHANGED tableVars
  \/ ParentKilled /\ Discard(Parent)
  \/ NextScenario /\ PrintRow
  \/ Terminating /\ UNCHANGED tableVars

TableSpec == TableInit /\ [][TableNext]_<<vars, tableVars>>

(* The buffer blocks nobody: the processes run as in CoreMigration.        *)
FairTableSpec ==
  TableSpec /\ WF_vars(ParentStep) /\ \A k \in Child : WF_vars(ChildStep(k))

----------------------------------------------------------------------------
(* The scripts. *)

(* Mutant of Repaired: only a line equal to the one before it is dropped. *)
RepairedAdjacent(f) ==
  FoldLeft(LAMBDA clean, line :
             IF line \in {Header, Last(clean)} THEN clean ELSE Append(clean, line),
           <<Head(f)>>, Tail(f))

(* Step 2 of fix_and_generate_all.py: the first line, then every further   *)
(* line that is neither the header nor one already kept.  The script stops *)
(* with an IndexError when there is no first line.                         *)
Repaired(f) ==
  FoldLeft(LAMBDA clean, line :
             IF line = Head(f) \/ Contains(Tail(clean), line) THEN clean
             ELSE Append(clean, line),
           <<Head(f)>>, Tail(f))

(* Mutant of Loaded: the repeated headers are not filtered out. *)
LoadedWithHeaders(f) == 2 .. Len(f)

(* load_csv of plot_all.py: pandas takes the first line for the header,    *)
(* and the rows that repeat it are dropped; those left keep their places.  *)
Loaded(f) == {i \in 2 .. Len(f) : f[i] # Head(f)}

(* fig5 and fig6 group the rows by scenario and take the mean of each      *)
(* group, which for copies of one row is that row.                         *)
Bars(f) == {f[i] : i \in Loaded(f)}

----------------------------------------------------------------------------

(* Every buffer holds the beginning of the table, up to the scenario the   *)
(* program is at, and every line on disk is a line of the table.           *)
TableTypeOK ==
  /\ TypeOK
  /\ \A i \in Proc : IsPrefix(out[i], SubSeq(Whole, 1, scene))
  /\ file \in Seq(ToSet(Whole))

(* However often forks, exits and deaths by SIGPIPE copied or lost parts   *)
(* of it, what is on disk repairs to the beginning of the table, in order, *)
(* with no row twice and none of a scenario still running; and to the      *)
(* whole table when the program returned.  A second repair changes nothing.*)
RepairRestores ==
  file # <<>> =>
    /\ IsPrefix(Repaired(file),
                IF pc[Parent] = "exited" THEN Whole ELSE SubSeq(Whole, 1, scene))
    /\ pc[Parent] = "exited" => Repaired(file) = Whole
    /\ Repaired(Repaired(file)) = Repaired(file)

(* The figures do not depend on whether the table was repaired first: each *)
(* scenario that was written is one bar, and a header never is.            *)
FiguresNeedNoRepair ==
  file # <<>> => Bars(file) = ToSet(Tail(Repaired(file)))

(* The table survives what the exits of forked children do to it: see its  *)
(* three parts.                                                            *)
TableSurvives == TableTypeOK /\ RepairRestores /\ FiguresNeedNoRepair

(* report/PROJECT_REPORT.md:158 of the 44 KB of this table: "Core          *)
(* migration latencies (multi-point measurement)".  When the program has   *)
(* returned, every line on disk is there once.                             *)
RowsAreMeasurements ==
  pc[Parent] = "exited" => \A i, j \in DOMAIN file : file[i] = file[j] => i = j
=============================================================================
