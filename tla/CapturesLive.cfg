CONSTANTS
  Uploads = {u1}
  Images = {i1, i2}
  Keys = {nokey}
  NoKey = nokey
  Documents = {{i1}}
  FrameCounts = {0}
  Readers = {r1}
  MaxFiles = 2
  MaxBytes = 2
  MaxFileBytes = 2
  MaxWrites = 1
  MaxCommits = 1
  MaxLosses = 0
  MaxCrashes = 1
  DraftsLoseFiles = FALSE
SPECIFICATION FairCapturesSpec
INVARIANT StoredIsComplete
INVARIANT AccountingIsExact
PROPERTY OrphansReclaimed
CHECK_DEADLOCK FALSE
