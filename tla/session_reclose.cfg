SPECIFICATION Spec
CONSTANTS
  p1 = p1
  p2 = p2
  s1 = s1
  s2 = s2
  s3 = s3
  NoSession = NoSession
  Procs = {p1}
  Sessions = {s1, s2}
  DocIds <- MCFreeIds
  OldDocs <- MCTwoDocs
  Owner <- SerialOwner
  Commands <- MergeCommands
  Edits <- Revision
  StartTime = 3
  MaxTime = 3
  MaxCommands = 5
  MaxCrashes = 0
INVARIANT OneEntryPerSession
CHECK_DEADLOCK FALSE
