SPECIFICATION CascadeSpec
CONSTANTS
  Null = 0
  Default = 7
  Keys <- OwnKeys
  Fks <- OwnFks
  Bases <- OwnBases
  Rules <- OwnRules
  MayRun <- OneOverAnother
CHECK_DEADLOCK FALSE
INVARIANT RowsKept
