SPECIFICATION FairSpec
CONSTANTS
  n1 = n1
  n2 = n2
  feature = feature
  build = build
  NoNMR = NoNMR
  NMR = {n1, n2}
  Branch = {feature, build}
  Source <- SameSource
  Target <- BuildTarget
  Checked = {n1}
  MaxMR = 3
  MaxFaults = 1
  MaxEdits = 1
INVARIANTS
  TypeOK
  OwnsItsMR
  ReadyMeansMerged
  ProcessedMeansSettled
  NoDuplicateMRs
  LeaksNeedFaults
PROPERTIES
  DeletedIsFinal
  KeepsPromise
  Settles
  DeletionCompletes
CHECK_DEADLOCK FALSE
