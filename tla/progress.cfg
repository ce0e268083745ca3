SPECIFICATION FairSpec
CONSTANTS
  base = base
  api = api
  evil = evil
  Host = {api}
  Below <- MCBelow
  Blocked = {}
  Port = {443}
  Permitted = {443}
  PanelPort = 443
  Reason = {}
  NoReason = none
  Scope = {"permanent"}
  Lifetime <- MCLifetime
  PauseLength = {}
  PendingMax = 1
  InitialRows <- NoRows
  MaxTime = 1
  Worker = {w1, w2}
  Traffic = {"acl", "submit"}
  Free = free
  Malformed = malformed
  MaxRequests = 1
  Tab = {t1, t2}
  NoTab = notab
  Terminal = {c1}
  Menu = {"approve", "deny"}
  MaxRows = 1
  MaxRestarts = 1
PROPERTIES
  LocksReleased
