\* Four requests with one key, one of them with another body.
SPECIFICATION FairSpec
CONSTANTS
  r1 = r1
  r2 = r2
  r3 = r3
  r4 = r4
  Requests = {r1, r2, r3, r4}
  Bodies = {"same", "other"}
  Body <- MCBody
INVARIANTS TypeOK 
PROPERTIES AnswersAreTrue EveryRequestEnds
CHECK_DEADLOCK FALSE
