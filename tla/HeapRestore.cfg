\* One stack and its fork: a snapshot whose state holds a function is restored.
SPECIFICATION Spec
CONSTANTS
  MaxIndex = 1
  MaxGen = 1
  Default = default
  Mains = {main}
  Forks = {f1}
  Slots = {slot}
  Stateful = {main}
  Keeping = {}
  Runners = {main}
  MaxObj = 2
  FnSnapshots = TRUE
INVARIANTS RootsResolve
