SPECIFICATION Spec
CONSTANTS
  Dest = {a}
  Rejected = rejected
  Window = 2
  Hour = 3
  SubmissionCap = 1
  RejectCap = 1
  RecentMax = 1
  Mixes <- MCMixes
  MaxRows = 4
  MaxTime = 3
  MaxRestarts = 1
INVARIANTS
  TypeOK
  NoFlood
  BudgetsHold
  OneTripPerWindow
  AnswerLogged
  CurrentUnlessFailed
