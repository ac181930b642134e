SPECIFICATION FairSpec
CONSTANTS
  a = a
  b = b
  build = build
  main = main
  Name = {a, b}
  Specs <- Growing
  MaxNMR = 4
  MaxTag = 2
  MaxRev = 1
  MaxFaults = 0
  MaxEdits = 1
INVARIANTS
  TypeOK
  TagAccountsForBranches
  ReadyMeansReleased
PROPERTIES
  Progresses
  DeletionCompletes
CHECK_DEADLOCK FALSE
