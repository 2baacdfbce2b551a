\* Every site of one function at a time stops recording; the table has room for two records or for all.
SPECIFICATION Spec
CONSTANTS
  Programs <- Disciplined
  Probed = {0, 1}
  World = {0, 1}
  Rooms = {2, 20}
  MaxCold = 1
  MaxFrames = 4
  MaxHost = 1
INVARIANTS OutputExact StateExact CommandsExact IdleFrameReplays
CHECK_DEADLOCK FALSE
