\* Frames are atomic for the host; one opaque value is bound in place of another.
CONSTANTS
  Bindings = {time}
  Values = {closureA, closureB}
  Opaque = {closureA, closureB}
  Slots = {}
  Cells = {}
  Classes = {}
  HostData = hostData
  Absent = absent
  Unfingerprintable = unfingerprintable
  NotRead = notRead
  NoFork = noFork
  HostInterleaves = FALSE
  ResolvesInRun = FALSE
  MaxSerial = 3
  MaxClock = 1
  MaxHostSteps = 2
  MaxRuns = 2
  MaxScriptSteps = 2
SPECIFICATION MCSpec
INVARIANTS SkipReproducesRun
CHECK_DEADLOCK FALSE
