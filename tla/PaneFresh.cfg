SPECIFICATION MCSpec
CONSTANTS
  Keys = {k}
  Missing = Missing
  Unlimited = Unlimited
  Working = Working
  Mutation = Mutation
  Idle = Idle
  TicksPerMs = 1
  Ids = {1, 2, 3, 4}
  Policies <- Changing
  Failing = {1}
  Threaded = TRUE
  Allowed = {"input", "sleep", "time", "slow", "change"}
  MaxEvents = 3
INVARIANTS InFlightBacked SkippedFrameIsCurrent
PROPERTIES ImplementsFeed
