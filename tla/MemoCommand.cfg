\* Every site records and the table has room.
SPECIFICATION Spec
CONSTANTS
  Programs <- Deep
  Probed = {0, 1}
  World = {0, 1}
  Rooms = {20}
  MaxCold = 0
  MaxFrames = 4
  MaxHost = 1
INVARIANTS CommandsExact
CHECK_DEADLOCK FALSE
