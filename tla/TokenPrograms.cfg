\* Four processes: daemons with a daemon on either side.  Three turns: the trip of initialize and two iterations.
CONSTANTS
  CtxProcs = 4
  MaxTrips = 3
SPECIFICATION FairFcntlSpec
INVARIANTS
  OneAtATime
PROPERTIES
  TripIsRotation
  DeathNoticed
  ComesThrough
CHECK_DEADLOCK FALSE
