SPECIFICATION Spec
CONSTANTS
  p1 = p1
  p2 = p2
  repo = repo
  sub = sub
  kb = kb
  copy = copy
  docs = docs
  host = host
  url = url
  me = me
  git = git
  Unset = Unset
  Home = Home
  Procs = {p1, p2}
  Dirs <- MCDirs
  Parent <- MCParent
  Names = {docs, host}
  Urls = {url}
  Values = {me, git}
  InitHome <- MCHome
  InitMarkers <- MCInitMarkers
  Markers <- MCMarkers
  GitUser <- MCGitUser
  Commands <- MCCommands
  MaxCommands = 3
  MaxEdits = 1
  MaxCrashes = 1
INVARIANTS TypeOK LostOnlyToOverlap NameMeansOneStore
PROPERTIES DirectoriesStayPut RebindNeedsForceOrRace
SYMMETRY Perms
CHECK_DEADLOCK FALSE
