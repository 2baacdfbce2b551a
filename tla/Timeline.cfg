\* A ring of three frames, a reload, writes, in the three loops.
SPECIFICATION Spec
CONSTANTS
  Inputs = {i1, i2}
  Names = {n}
  Values = {v}
  Own = own
  Fresh = fresh
  Run <- MCRun
  Forks = {k1, k2, k3, k4}
  HistoryLength = 3
  Modes = {"window", "agent", "headless"}
  ResumeFrozen = FALSE
  StepFails = FALSE
  MaxFrame = 4
  MaxGeneration = 1
SYMMETRY ForkSymmetry
INVARIANTS TypeOK ForksAccounted Reproducible
PROPERTIES ImplementsHistory
