SPECIFICATION FairSpec
CONSTANTS
  n1 = n1
  n2 = n2
  feature = feature
  build = build
  NoNMR = NoNMR
  NMR = {n1}
  Branch = {feature, build}
  Source <- SameSource
  Target <- BuildTarget
  Checked = {}
  MaxMR = 1
  MaxFaults = 1
  MaxEdits = 0
PROPERTIES
  ConflictsAreReported
CHECK_DEADLOCK FALSE
