\* Three scripts in a row are one that leaves something behind, one that
\* meets it, and one after that.
CONSTANTS
  Rows = 2
  MaxRuns = 3
SPECIFICATION Spec
INVARIANTS
  PublishedIsCurrent
  CompleteMeansAll
PROPERTIES
  MeasuredStays
CHECK_DEADLOCK FALSE
