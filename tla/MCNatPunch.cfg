\* The program stops when both calls have returned.
SPECIFICATION PunchFairSpec
CONSTANTS
  A = A
  B = B
  Filtering = {A, B}
  Punches = 2
  MaxRetry = 4
  MaxTtl = 1
  MaxNoise = 1
  Calls <- CallsMC
INVARIANTS NotBothFail
PROPERTIES CallsReturn
CHECK_DEADLOCK FALSE
