SPECIFICATION Spec
CONSTANTS
  a = a
  b = b
  build = build
  main = main
  Name = {a, b}
  Specs <- Swapping
  MaxNMR = 4
  MaxTag = 2
  MaxRev = 1
  MaxFaults = 1
  MaxEdits = 1
SYMMETRY Alike
INVARIANTS
  NamesItsOwn
  OrphansNeedFaults
  FinalMRIsTagged
PROPERTIES
  TagStays
  WithinPromise
CHECK_DEADLOCK FALSE
