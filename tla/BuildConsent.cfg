SPECIFICATION Spec
CONSTANTS
  b1 = b1
  b2 = b2
  u1 = u1
  u2 = u2
  n1 = n1
  n2 = n2
  main1 = main1
  main2 = main2
  Nobody = Nobody
  Builds = {b1}
  URL = {u1, u2}
  Name = {n1, n2}
  BranchName = {main1, main2}
  MergeName <- Apart
  Specs <- Withdrawing
  MaxUID <- Life
  MaxFaults = 0
  MaxEdits = 1
INVARIANTS
  ConsentReached
CHECK_DEADLOCK FALSE
