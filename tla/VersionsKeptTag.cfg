SPECIFICATION Spec
CONSTANTS
  m1 = m1
  m2 = m2
  Nobody = Nobody
  Merges = {m1}
  Before <- Twenty
  PageSize = 20
  MaxTag = 27
  MaxFaults = 1
  MaxEdits = 1
  MaxMeddling = 0
INVARIANTS
  TaggedAsAsked
CHECK_DEADLOCK FALSE
