SPECIFICATION Spec
CONSTANTS
  a = a
  b = b
  build = build
  main = main
  Name = {a, b}
  Specs <- Growing
  MaxNMR = 7
  MaxTag = 2
  MaxRev = 1
  MaxFaults = 0
  MaxEdits = 1
INVARIANTS
  TagHasOnlyItsBranches
CHECK_DEADLOCK FALSE
