SPECIFICATION FairSpec
CONSTANTS
  a = a
  b = b
  build = build
  main = main
  Name = {a, b}
  Specs <- Both
  MaxNMR = 4
  MaxTag = 2
  MaxRev = 1
  MaxFaults = 0
  MaxEdits = 0
PROPERTIES
  ResolvedReleaseIsTagged
CHECK_DEADLOCK FALSE
