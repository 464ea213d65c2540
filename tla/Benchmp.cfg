\* Two children: enough for reports to interleave and for one to die while the
\* other is in its loop.
CONSTANTS
  parallel = 2
  repetitions = 2
SPECIFICATION FairSpec
INVARIANTS
  PhasesInStep
  ResultsMerged
  NobodyLeftBehind
PROPERTIES
  ComesBack
  OrphansLeave
CHECK_DEADLOCK FALSE
