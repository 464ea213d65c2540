\* All five policies, under each kind of rights; the fork may fail and the
\* child may be killed at any moment.
CONSTANTS
  N = 2
  Iterations = 2
  Warmup = 1
SPECIFICATION FairSpec
PROPERTIES
  MeasuredUnderPolicy
  OnlyRealTimeRefused
  ProgramEnds
