CONSTANTS
  MaxRows = 3
  Names <- PlainNames
  MaxOld = 1
  MaxFailing = 1
SPECIFICATION ViewSpec
INVARIANTS
  SavedWhole
  RefreshKeepsOrder
PROPERTY
  OverwritesAnnounced
CHECK_DEADLOCK FALSE
