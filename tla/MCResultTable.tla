--------------------------- MODULE MCResultTable ---------------------------
(* core_migration_penalty.c and its table, on small instances for TLC. *)
EXTENDS ResultTable

Same == [i \in Proc |-> i]                         \* scenario A: {0, 1}
Diff == [i \in Proc |-> IF i = 0 THEN 0 ELSE 2]    \* scenario B: {0, 2}
Free == [i \in Proc |-> FreeCpu]                   \* scenarios C and D: NULL

Program == <<Same, Diff, Free>>
OneRing == <<Free>>                               \* scenario C alone

Cpus == 0 .. 3
NoCpu == 99
=============================================================================
