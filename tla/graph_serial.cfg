SPECIFICATION Spec
CONSTANTS
  p1 = p1
  p2 = p2
  Procs = {p1}
  DocIds <- MCDocIds
  InitDocs <- MCInitDocs
  InitEdges <- MCInitEdges
  EdgeArgs <- MCEdgeArgs
  MaxBatch = 2
  MaxCommands = 3
  MaxCrashes = 1
INVARIANTS TypeOK NoDangling LedgerExact
PROPERTIES SnapshotEdgesKept
CHECK_DEADLOCK FALSE
