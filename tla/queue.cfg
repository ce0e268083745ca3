SPECIFICATION Spec
CONSTANTS
  base = base
  api = api
  evil = evil
  Host = {api, base}
  Below <- MCBelow
  Blocked = {}
  Port = {443}
  Permitted = {443}
  PanelPort = 443
  Reason = {why}
  NoReason = none
  Scope = {"permanent"}
  Lifetime <- MCLifetime
  PauseLength = {}
  PendingMax = 1
  InitialRows <- NoRows
  MaxTime = 1
  Worker = {w1, w2}
  Traffic = {"acl", "submit"}
  Free = free
  Malformed = malformed
  MaxRequests = 2
  Tab = {t1}
  NoTab = notab
  Terminal = {}
  Menu = {"approve", "deny", "erase"}
  MaxRows = 1
  MaxRestarts = 1
SYMMETRY Interchangeable
INVARIANTS
  PendingUnique
  PendingWithinCap
  DenialHonoured
PROPERTIES
  ResolvedIsFinal
