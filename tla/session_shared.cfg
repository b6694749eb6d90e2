SPECIFICATION Spec
CONSTANTS
  p1 = p1
  p2 = p2
  s1 = s1
  s2 = s2
  s3 = s3
  NoSession = NoSession
  Procs = {p1, p2}
  Sessions = {s1, s2}
  DocIds <- MCFreeIds
  OldDocs <- MCOldDocs
  Owner <- SharedOwner
  Commands <- SharedCommands
  Edits <- RevisionOrRetire
  StartTime = 2
  MaxTime = 2
  MaxCommands = 3
  MaxCrashes = 1
INVARIANTS AckedKept
PROPERTIES FailedCloseKeepsRecord
CHECK_DEADLOCK FALSE
