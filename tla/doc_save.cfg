SPECIFICATION SetSpec
CONSTANTS
  Admins = {a, b}
  RtKeys = {k1}
  BootKeys = {}
  Culprits = {u1, u2}
  MaxOps = 3
  MaxEdits = 0
  MaxCrashes = 0
CHECK_DEADLOCK FALSE
INVARIANT BansAreSaved
