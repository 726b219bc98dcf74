SPECIFICATION FairSpec
CONSTANTS
  N = 3
  Stubs = {3}
  MinPort = 1024
  MaxPort = 65535
  Reach = 10
  Strides = {1, 2, 5, 7}
INVARIANTS FreedWhenAllEnded SuccessIsReal
INVARIANTS MixedIdsRoundTrip StrategiesAgree NextPortIsTried VerdictsAreEarned
PROPERTY Returns
CHECK_DEADLOCK FALSE
