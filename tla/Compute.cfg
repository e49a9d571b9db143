CONSTANTS
  Jobs = {j1}
  MaxFaults = 2
  Capacity = 1
  MaxOthers = 1
  Credentials = {t1}
  MaxRestarts = 1
SPECIFICATION FairSpec
INVARIANT CompleteMeansGone
INVARIANT OneLocalJob
INVARIANT HoldingsAreJournaled
PROPERTY InputsAreReleased
CHECK_DEADLOCK FALSE
