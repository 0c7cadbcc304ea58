\* Calls that wait for the server, the server lost again by shutdown.
SPECIFICATION Spec
CONSTANTS
  Calls = {c1, c2}
  Gestures = {"bootstrap", "load", "run", "jump", "pseudocode", "target", "window", "shutdown"}
  Offsets = {0}
  Filters = {}
  NoAddress = NoAddress
  ClientAtStart = FALSE
  MaxRequests = 3
  MaxRecent = 2
  MaxNavigation = 2
SYMMETRY CallSymmetry
CHECK_DEADLOCK FALSE
PROPERTIES ScreenSpec
