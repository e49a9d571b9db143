CONSTANTS
  Jobs = {j1, j2}
  Concurrency = 1
  StoreMayFail = TRUE
  MaxClock = 1
  MaxCalls = 2
SPECIFICATION FairDispatchSpec
 
PROPERTY QueuedIsServed
CHECK_DEADLOCK FALSE
