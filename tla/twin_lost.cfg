SPECIFICATION Spec
CONSTANTS
  Www = "www"
  Tld <- MCTld
  NotAName = notaname
  Databases <- MCDeadTwin
  Psl <- MCPsl
  Blocked <- MCBlocked
  Names <- MCNames
  Ports = {443, 8443}
  Typed <- MCTyped
  Candidates = 2
  Nobody = nobody
  MaxFailures = 0
  MaxOperations = 0
CHECK_DEADLOCK FALSE
INVARIANTS
  ApprovalCarried
