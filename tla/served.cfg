SPECIFICATION Spec
CONSTANTS
  Workers = {w1, w2}
  DocIds = {1, 2}
  FirstDocs = {1}
  Several = TRUE
  MaxWrites = 2
  MaxClock = 2
  MaxRequests = 2
INVARIANTS TypeOK AnswersCurrent
CHECK_DEADLOCK FALSE
