CONSTANTS
  MaxJobs = 2
  LabelEdits = TRUE
  MaxFiles = 2
  Buttons = {"Cancel", "Pause", "Resume", "Remove", "Clear", "Add", "Refresh"}
SPECIFICATION FairSpec
INVARIANT
  RowsAreJobs
PROPERTIES
  SelectionKept
  Converges
CHECK_DEADLOCK FALSE
