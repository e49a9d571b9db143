CONSTANTS
  Uploads = {u1, u2}
  Images = {i1}
  Keys = {k1}
  NoKey = nokey
  Documents = {{i1}}
  FrameCounts = {1}
  Readers = {}
  MaxFiles = 2
  MaxBytes = 2
  MaxFileBytes = 1
  MaxWrites = 0
  MaxCommits = 2
  MaxLosses = 1
  MaxCrashes = 0
  DraftsLoseFiles = FALSE
SPECIFICATION CapturesSpec
SYMMETRY UploadSymmetry
INVARIANT OneReplica
INVARIANT ClaimedIsOnDisk
PROPERTY JobsKeepTheirCapture
CHECK_DEADLOCK FALSE
