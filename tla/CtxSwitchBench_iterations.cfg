\* The promise of the -i option.
CONSTANTS
  N = 2
  IterationArgs = {3}
  PinArgs = {FALSE}
  Warmup = 2
SPECIFICATION FairSpec
PROPERTIES
  MeasuresIterations
