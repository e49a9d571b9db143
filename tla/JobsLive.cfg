CONSTANTS
  Jobs = {j1}
  MaxInstances = 2
  StoreMayFail = FALSE
  Captures = {c1}
  NoCapture = none
  Requests = {r1}
  Legacy = {}
  MaxCrashes = 1
SPECIFICATION FairSpec
PROPERTY JobsEnd
PROPERTY CleanupSettles
