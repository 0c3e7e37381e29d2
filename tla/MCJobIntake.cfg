SPECIFICATION IntakeSpec
CONSTANTS
  r1 = r1
  r2 = r2
  r3 = r3
  r4 = r4
  r5 = r5
  b1 = b1
  b2 = b2
  k = k
  Nothing = Nothing
  NoKey = NoKey
  MaxFaults = 1
  Requests <- MCRequests
  Bodies <- MCBodies
  BodyOf <- MCBodyOf
  KeyOf <- MCKeyOf
SYMMETRY SameBody
CHECK_DEADLOCK FALSE
INVARIANTS ReplaysAgree AnsweredRunsOnce ToldItsJob RetryIsAnswered
