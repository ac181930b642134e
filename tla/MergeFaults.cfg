SPECIFICATION Spec
CONSTANTS
  a = a
  b = b
  build = build
  main = main
  Name = {a, b}
  Specs <- Both
  MaxNMR = 5
  MaxTag = 2
  MaxRev = 1
  MaxFaults = 1
  MaxEdits = 0
INVARIANTS
  OrphansNeedFaults
PROPERTIES
  ResolutionStays
CHECK_DEADLOCK FALSE
