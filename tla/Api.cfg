CONSTANTS
  Sessions = {s1, g1}
  Grants = {g1}
  MaxAttempts = 1
  MaxGlobal = 2
  Keys <- ScopedKeys
  Operations = {"POST jobs", "POST compute jobs"}
  MaxEntries = 1
  Inputs = {x1}
  Requests = {r1, r2}
  Names = {n1}
  Address = {"loopback", "lan", "proxy"}
  AllowLan = TRUE
  TrustProxy = FALSE
  MaxArrivals = 2
SPECIFICATION Spec
SYMMETRY RequestSymmetry
 
INVARIANT OneCredential
INVARIANT InputsStayPinned
PROPERTY RevokedStaysRevoked
CHECK_DEADLOCK FALSE
