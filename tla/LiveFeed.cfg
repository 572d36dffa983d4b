\* One row, its owner and one more user, the tab of either, and up to two writes.
SPECIFICATION Spec
CONSTANTS
  Owner = o
  Grantees = {g}
  Everyone = everyone
  MaxActs = 1
  MaxEvents = 2
INVARIANTS
  RowIsCurrent
  VisibleRowShows
  LostRowLeaves
  AccessIsCurrent
  NeverSharedNeverSeen
CHECK_DEADLOCK FALSE
