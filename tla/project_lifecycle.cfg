\* Two commands on one directory, three analyses of two passes.
SPECIFICATION Spec
CONSTANTS
  Procs = {p1, p2}
  Passes = 2
  MaxRuns = 3
  None = None
CHECK_DEADLOCK FALSE
INVARIANTS ProjectIsWhole PromisesAreKept
PROPERTIES OnlyRefreshErases
