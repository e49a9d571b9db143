CONSTANTS
  Jobs = {j1, j2}
  MaxInstances = 2
  StoreMayFail = TRUE
  Captures = {c1}
  NoCapture = none
  Requests = {r1, r2}
  Legacy = {}
  MaxCrashes = 2
SPECIFICATION Spec
INVARIANT CompleteMeansQuiet
INVARIANT GrantMeansQuiet
PROPERTY TerminalIsFinal
INVARIANT OneActiveReconstruction
CONSTRAINT OneByOne
SYMMETRY Symmetric
