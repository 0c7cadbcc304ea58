\* Typing, picking, loading and jumping around fetches that return late.
SPECIFICATION FairSpec
CONSTANTS
  Fetches = {f1, f2}
  Empty = Empty
  Short = {m}
  Long = {ma, main}
  NoTask = NoTask
  MaxKinds = 4
  MaxTyped = 3
CHECK_DEADLOCK FALSE
INVARIANTS ListFits
PROPERTIES LeftBehindIsIgnored StaleListGoes
