\* The scenarios in the order of main, three children each; any fork may fail.
\* With three children one of them has only other children for neighbours, and
\* a hole in the ring may be next to the parent or away from it.
CONSTANTS
  N = 4
  Iterations = 2
  Warmup = 1
  Online <- Cpus
  FreeCpu <- NoCpu
  Scenarios <- Program
SPECIFICATION FairTableSpec
INVARIANT TableSurvives
PROPERTIES
  MeasuredAsLabelled
  ScenariosDoNotOverlap
  EverybodyLeaves
