SPECIFICATION FairSpec
CONSTANTS
  m1 = m1
  m2 = m2
  Nobody = Nobody
  Merges = {m1, m2}
  Before <- Twenty
  PageSize = 20
  MaxTag = 27
  MaxFaults = 2
  MaxEdits = 1
  MaxMeddling = 1
INVARIANTS
  TypeOK
  ReleaseHasItsTag
  VersionsNeedFaults
PROPERTIES
  VersionsGrow
  Releases
