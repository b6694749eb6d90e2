SPECIFICATION Spec
CONSTANTS
  p1 = p1
  p2 = p2
  s1 = s1
  s2 = s2
  s3 = s3
  NoSession = NoSession
  Procs = {p1}
  Sessions = {s1, s2}
  DocIds <- MCDocIds
  OldDocs <- MCOldDocs
  Owner <- SerialOwner
  Commands <- SerialCommands
  Edits <- Revisions
  StartTime = 2
  MaxTime = 3
  MaxCommands = 4
  MaxCrashes = 0
SYMMETRY SymmetricSessions
INVARIANTS TypeOK ReviewsExplained SurvivorsCarryHistory
PROPERTIES ArchivedFrozen NewOverwritesNothing
CHECK_DEADLOCK FALSE
