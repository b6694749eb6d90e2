SPECIFICATION Spec
CONSTANTS
  p1 = p1
  p2 = p2
  repo = repo
  sub = sub
  kb = kb
  copy = copy
  docs = docs
  host = host
  url = url
  me = me
  git = git
  Unset = Unset
  Home = Home
  Procs = {p1}
  Dirs <- MCDirs
  Parent <- MCParent
  Names = {docs, host}
  Urls = {url}
  Values = {me, git}
  InitHome <- EmptyHome
  InitMarkers <- MCInitMarkers
  Markers <- MCMarkers
  GitUser <- MCGitUser
  Commands <- MCUserCommands
  MaxCommands = 3
  MaxEdits = 1
  MaxCrashes = 1
PROPERTIES UserKeysFindNoStore
CHECK_DEADLOCK FALSE
