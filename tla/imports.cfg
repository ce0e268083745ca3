SPECIFICATION Spec
CONSTANTS
  base = base
  api = api
  evil = evil
  shipped = shipped
  typed = typed
  Host = {base, api, evil}
  Below = {}
  Blocked = {evil}
  Port = {443}
  Permitted = {443}
  PanelPort = 443
  Reason = {}
  NoReason = none
  Scope = {"24h", "permanent"}
  Lifetime <- MCLifetime
  PauseLength = {}
  PendingMax = 0
  InitialRows <- NoRows
  MaxTime = 1
  Text = {shipped, typed}
  NoText = notext
  Malformed = malformed
  Lists <- MCLists
  PanelLists <- MCLists
  CliLists <- MCCliLists
  MaxByHand = 1
  MaxImports = 2
INVARIANTS
  ImportComplete
PROPERTIES
  NothingTwice
  WordsKeptAlone
