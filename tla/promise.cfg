SPECIFICATION Spec
CONSTANTS
  base = base
  api = api
  evil = evil
  Host = {base, evil}
  Below <- MCBelow
  Blocked = {evil}
  Port = {443, 80}
  Permitted = {443}
  PanelPort = 443
  Reason = {}
  NoReason = none
  Scope = {"once", "permanent"}
  Lifetime <- MCLifetime
  PauseLength = {1}
  PendingMax = 1
  InitialRows <- NoRows
  MaxTime = 1
  Worker = {w1}
  Traffic = {"acl"}
  Free = free
  Malformed = malformed
  MaxRequests = 1
  Tab = {t1}
  NoTab = notab
  Terminal = {c1}
  Menu = {"add", "wildcard", "revoke"}
  MaxRows = 1
  MaxRestarts = 0
SYMMETRY Interchangeable
INVARIANTS
  BlockedNeverAdmitted
PROPERTIES
  KeepsPromise
