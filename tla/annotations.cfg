\* One process at a time, which may end between any two statements.
SPECIFICATION Spec
CONSTANTS
  Processes = {p1}
  Actors = {cli, mcp}
  Objects = {f}
  Kinds = {"rename", "comment"}
  Values = {a, b}
  CanStop = TRUE
  MaxEvents = 4
SYMMETRY Symmetry
CHECK_DEADLOCK FALSE
INVARIANTS LogMatchesFacts AtMostOneRename UndoneOnce FactIsLogged
PROPERTIES BookSpec
