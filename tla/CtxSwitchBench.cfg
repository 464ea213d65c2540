\* Three workers.  -i 0 and -i 1 are below the warm-up, so the workers leave
\* while the parent still warms up; -i 4 lets it measure two rotations.
CONSTANTS
  N = 4
  IterationArgs = {0, 1, 4}
  PinArgs = {FALSE}
  Warmup = 2
SPECIFICATION FairSpec
INVARIANTS
  SamplesAreCarried
PROPERTIES
  SampleIsRotation
  ImplementsRing
  EverybodyLeaves
