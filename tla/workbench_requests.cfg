\* Loads, decodes and jumps racing each other and Cancel, the client up.
SPECIFICATION FairSpec
CONSTANTS
  Calls = {c1, c2, c3}
  Gestures = {"load", "badFile", "run", "jump", "cancel"}
  Offsets = {0}
  Filters = {}
  NoAddress = NoAddress
  ClientAtStart = TRUE
  MaxRequests = 6
  MaxRecent = 2
  MaxNavigation = 2
CHECK_DEADLOCK FALSE
INVARIANTS TypeOK ResultOfLoadedImage BusyHasOwner RoutesOfLoadedImage
PROPERTIES NewestRequestWins CancelIsFinal BusySettles
