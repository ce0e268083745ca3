SPECIFICATION FairSpec
CONSTANTS
  Www = "www"
  Tld <- MCTld
  NotAName = notaname
  Databases <- MCDatabases
  Psl <- MCPsl
  Blocked <- MCBlocked
  Names <- MCNames
  Ports = {443, 8443}
  Typed <- MCTyped
  Candidates = 2
  Nobody = nobody
  MaxFailures = 2
  MaxOperations = 1
CHECK_DEADLOCK FALSE
INVARIANTS
  TypeOK
  SchemaCurrent
  NothingLost
  NothingGained
  FoldKeepsOwner
  WildcardJudged
PROPERTIES
  BothUp
