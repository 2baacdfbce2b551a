\* Bindings, host sources, resources and randomness, with every host operation between and inside runs.
CONSTANTS
  Bindings = {time}
  Values = {one, closureA}
  Opaque = {closureA}
  Slots = {}
  Cells = {}
  Classes = {net}
  HostData = hostData
  Absent = absent
  Unfingerprintable = unfingerprintable
  NotRead = notRead
  NoFork = noFork
  HostInterleaves = TRUE
  ResolvesInRun = TRUE
  MaxSerial = 2
  MaxClock = 1
  MaxHostSteps = 3
  MaxRuns = 2
  MaxScriptSteps = 3
SPECIFICATION MCSpec
INVARIANTS GateSound QuietRunsSkipped SerialNamesContent
PROPERTIES ForcedUntilBegin
CHECK_DEADLOCK FALSE
