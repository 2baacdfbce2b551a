\* A client without threads, with every kind of event but time; the scheduling of MCFair.
SPECIFICATION MCFair
CONSTANTS
  Keys = {k}
  Missing = Missing
  Unlimited = Unlimited
  Working = Working
  Mutation = Mutation
  Idle = Idle
  TicksPerMs = 1
  Ids = {1, 2, 3, 4}
  Policies <- ForeverOnly
  Failing = {1}
  Threaded = FALSE
  Allowed = {"input", "sleep", "mutate", "slow", "edit", "change", "script", "exit"}
  MaxEvents = 3
INVARIANTS TypeOK InFlightBacked SkippedFrameIsCurrent OutdatedIsInvalidated
PROPERTIES ShowsLatest ImplementsFeed
