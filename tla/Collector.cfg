SPECIFICATION Spec
CONSTANTS
  BufferSize = 3
  MaxCaptures = 5
  MaxErrors = 2
\* the program stops after Shutdown
CHECK_DEADLOCK FALSE
INVARIANTS TypeOK HistoryIsLatest ScreenAgrees RowsAscend GapsAreErrors
PROPERTIES ScreenFollows
