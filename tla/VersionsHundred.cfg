SPECIFICATION Spec
CONSTANTS
  m1 = m1
  m2 = m2
  Nobody = Nobody
  Merges = {m1, m2}
  Before <- Hundred
  PageSize = 20
  MaxTag = 104
  MaxFaults = 0
  MaxEdits = 0
  MaxMeddling = 0
INVARIANTS
  TaggedAsAsked
