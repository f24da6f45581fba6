SPECIFICATION FairSpec
CONSTANTS
  Key = {k1,k2}
  Target = {a, b}
  Request = {r1,r2}
  NoKey = NoKey
  NoTarget = NoTarget
  MaxRuns = 2
CHECK_DEADLOCK FALSE
PROPERTIES
  CompletedNeverRunsAgain
  AnswersOnce
  ClaimsEnd
