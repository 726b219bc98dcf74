SPECIFICATION Spec
CONSTANTS
  p1 = p1
  p2 = p2
  Programs = {p1, p2}
  Passcodes = {"strong", "short"}
  MaxRegistrations = 2
  MaxRuns = 4
  MaxCrashes = 1
SYMMETRY ProgramSymmetry
INVARIANTS NeverMixed LoadedWhole
PROPERTIES IdentityKept
CHECK_DEADLOCK FALSE
