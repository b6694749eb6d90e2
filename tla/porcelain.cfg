SPECIFICATION Spec
CONSTANTS
  DocIds = {1, 2, 3}
  Words = {"w1", "w2", "dashes"}
  Dashes = "dashes"
  Tasks <- MCTasks
  FirstStore <- MCStores
  Menu <- MCMenu
INVARIANTS TypeOK StrictOnOutput WritesStayWithNamed  MapCountsAll
CHECK_DEADLOCK FALSE
