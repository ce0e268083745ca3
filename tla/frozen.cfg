SPECIFICATION Spec
CONSTANTS
  Dest = {a}
  Rejected = rejected
  Window = 2
  Hour = 2
  SubmissionCap = 1
  RejectCap = 1
  RecentMax = 1
  Mixes <- MCMixes
  MaxRows = 2
  MaxTime = 2
  MaxRestarts = 0
INVARIANTS
  RevocationIsImmediate
