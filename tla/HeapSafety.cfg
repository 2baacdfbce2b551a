\* A main stack, another on its context, and forks of either.
SPECIFICATION Spec
CONSTANTS
  MaxIndex = 0
  MaxGen = 1
  Default = default
  Mains = {main, other}
  Forks = {f1}
  Slots = {slot}
  Stateful = {main, f1}
  Keeping = {other}
  Runners = {main, other}
  MaxObj = 3
  FnSnapshots = FALSE
INVARIANTS TypeOK NoAliasing RootsResolve FreeListExact
PROPERTIES ImplementsObjects
