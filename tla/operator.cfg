SPECIFICATION Spec
CONSTANTS
  base = base
  api = api
  evil = evil
  Host = {api, base, evil}
  Below <- MCBelow
  Blocked = {evil}
  Port = {443}
  Permitted = {443}
  PanelPort = 443
  Reason = {}
  NoReason = none
  Scope = {"permanent"}
  Lifetime <- MCLifetime
  PauseLength = {1}
  PendingMax = 2
  InitialRows <- LegacyRows
  MaxTime = 1
  Worker = {w1}
  Traffic = {"acl"}
  Free = free
  Malformed = malformed
  MaxRequests = 1
  Tab = {t1, t2}
  NoTab = notab
  Terminal = {}
  Menu = {"approve", "deny", "revoke", "erase", "remove_defaults", "refuse", "pause", "resume"}
  MaxRows = 4
  MaxRestarts = 1
SYMMETRY Interchangeable
INVARIANTS
  LogNeverLies
  OneEntryPerApproval
  GateMatchesLog
  GroupDiesTogether
