\* The last lap ends with the token at node 0 and nobody left to move.
CONSTANTS
  N = 5
  MaxLaps = 25
SPECIFICATION BoundedSpec
INVARIANTS
  InStep
CHECK_DEADLOCK FALSE
