\* The program stops once both ends have closed or failed.
SPECIFICATION FairSpec
CONSTANTS
    alice = alice
    bob = bob
    A = alice
    B = bob
    MaxTry = 3
    MaxData = 1
INVARIANTS TokensAgree
PROPERTIES MeetingSpec CallsReturn HalfOpenEnds
CHECK_DEADLOCK FALSE
