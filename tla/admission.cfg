SPECIFICATION Spec
CONSTANTS
  base = base
  api = api
  evil = evil
  Host = {api, base}
  Below <- MCBelow
  Blocked = {}
  Port = {443}
  Permitted = {443}
  PanelPort = 443
  Reason = {}
  NoReason = none
  Scope = {"once", "permanent"}
  Lifetime <- MCLifetime
  PauseLength = {}
  PendingMax = 1
  InitialRows <- NoRows
  MaxTime = 1
  Worker = {w1, w2}
  Traffic = {"acl"}
  Free = free
  Malformed = malformed
  MaxRequests = 1
  Tab = {t1}
  NoTab = notab
  Terminal = {}
  Menu = {"add", "wildcard", "approve", "revoke"}
  MaxRows = 2
  MaxRestarts = 0
SYMMETRY Interchangeable
INVARIANTS
  TypeOK
  VerdictFresh
  OnceSpentOnce
