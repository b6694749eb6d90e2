SPECIFICATION Spec
CONSTANTS
  Readers = {p1, p2}
  FlagDocs = {d1, d2}
  MaxFlagId = 3
  MaxFlagCommands = 4
  Editors = {p1, p2}
  TermIds = {"graph/edge", "graph/node", "edge", "graph"}
  Top = "lexicon"
  ContextOf <- MCContextOf
  TermRefs = {"full", "node", "bare", "part"}
  Slug <- MCSlug
  Contains <- MCContains
  Aliases <- MCAliases
  InitTerms = {"graph/edge", "edge"}
  MaxTermCommands = 3
  Ingesters = {p1, p2}
  MaxRawId = 3
  MaxIngestCommands = 4
INVARIANTS TypeOK CopiedOnce StatusAgrees
PROPERTIES FlagsStand TermsStand CaptureKept
CHECK_DEADLOCK FALSE
