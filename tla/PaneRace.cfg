SPECIFICATION MCSpec
CONSTANTS
  Keys = {k}
  Missing = Missing
  Unlimited = Unlimited
  Working = Working
  Mutation = Mutation
  Idle = Idle
  TicksPerMs = 1
  Ids = {1, 2, 3, 4}
  Policies <- ForeverOnly
  Failing = {}
  Threaded = TRUE
  Allowed = {"change"}
  MaxEvents = 3
INVARIANTS OutdatedIsInvalidated
