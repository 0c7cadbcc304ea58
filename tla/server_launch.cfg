\* Two callers and three starts: a caller that wakes late clears a newer task.
SPECIFICATION Spec
CONSTANTS
  Calls = {c1, c2}
  Starts = {s1, s2, s3}
  None = None
CHECK_DEADLOCK FALSE
INVARIANTS StartsAnswerOnce ServersAreOwned
PROPERTIES BootstrapReturns
