\* Every interleaving of the two threads over five round trips.
CONSTANTS
  Iterations = 3
  Warmup = 2
SPECIFICATION FairSpec
INVARIANTS
  NoLostWakeup
PROPERTIES
  SampleIsRoundTrip
  ImplementsRing
  PartnerMeansResult
