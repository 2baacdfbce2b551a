\* A plain slot and a state-var cell, with host edits, restores and reloads.
CONSTANTS
  Bindings = {}
  Values = {one, other}
  Opaque = {}
  Slots = {counter, xs}
  Cells = {xs}
  Classes = {}
  HostData = hostData
  Absent = absent
  Unfingerprintable = unfingerprintable
  NotRead = notRead
  NoFork = noFork
  HostInterleaves = TRUE
  ResolvesInRun = TRUE
  MaxSerial = 0
  MaxClock = 1
  MaxHostSteps = 2
  MaxRuns = 2
  MaxScriptSteps = 3
SPECIFICATION MCSpec
INVARIANTS TypeOK GateSound QuietRunsSkipped
CHECK_DEADLOCK FALSE
