SPECIFICATION Spec
CONSTANTS
  p1 = p1
  p2 = p2
  s1 = s1
  s2 = s2
  s3 = s3
  NoSession = NoSession
  Procs = {p1}
  Sessions = {s1, s2, s3}
  DocIds <- MCDocIds
  OldDocs <- MCOldDocs
  Owner <- SerialOwner
  Commands <- MergeCommands
  Edits <- Revision
  StartTime = 2
  MaxTime = 2
  MaxCommands = 6
  MaxCrashes = 0
SYMMETRY SymmetricSessions

PROPERTIES ImplementsSessionLog
CHECK_DEADLOCK FALSE
