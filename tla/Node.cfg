CONSTANTS
  Runners <- AllRunners
  Records <- Catalogue
  Rank <- ByRank
  Size <- BySize
  Allowed = {"a", "b", "c"}
  MaxCids = 2
  MaxBytes = 2
  Rewardable = {"b"}
  Versions <- Releases
  Listing <- NewestFirst
  MaxTroubles = 2
  Askers = {"o1"}
  MaxRestarts = 1
SPECIFICATION ReleasedSpec
INVARIANT RemovalsFromWhole
INVARIANT PlanIsGreedy
 
 
PROPERTY WantedIsKept
PROPERTY NothingStartsLate
PROPERTY Contributes
CHECK_DEADLOCK FALSE
