SPECIFICATION FairSpec
CONSTANTS
  good = good
  bad = bad
  Conn = {c1, c2}
  Dest = {good, bad}
  Nowhere = nowhere
  Coverage <- MCCoverage
  Forbidden = {bad}
  MaxGrants = 1
  MaxPauses = 1
CHECK_DEADLOCK FALSE
INVARIANTS
  SplicedChecked
  OnceOneConnection
  SpentIsUsed
PROPERTIES
  ConnectionResolved
