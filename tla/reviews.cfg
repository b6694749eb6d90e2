SPECIFICATION Spec
CONSTANTS
  DocIds = {d1, d2}
  Signers = {p1, p2}
  MaxEdits = 3
  MaxReviews = 3
  MaxSignings = 2
INVARIANTS TypeOK FiledOnce HistoryAgrees
PROPERTIES SinceCovers IntegrationAccounts SignoffsStand
CHECK_DEADLOCK FALSE
CONSTRAINT Bounded
SYMMETRY Perms
