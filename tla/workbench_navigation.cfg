\* Jump, Back and Forward while rows are selected and the filter is edited.
SPECIFICATION Spec
CONSTANTS
  Calls = {c1, c2}
  Gestures = {"load", "jump", "back", "forward", "select", "filter"}
  Offsets = {0, 1, 2}
  Filters = {{0, 1, 2}, {1}, {}}
  NoAddress = NoAddress
  ClientAtStart = TRUE
  MaxRequests = 4
  MaxRecent = 2
  MaxNavigation = 2
SYMMETRY CallSymmetry
CHECK_DEADLOCK FALSE
INVARIANTS RouteListsSound SelectionFollowsListing
PROPERTIES HistoryIsKept
