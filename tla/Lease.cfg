SPECIFICATION StoreFairSpec
CONSTANTS
  p1 = p1
  p2 = p2
  p3 = p3
  p4 = p4
  u1 = u1
  u2 = u2
  Updates = {u1, u2}
  Processes = {p1, p2, p3}
  Nobody = Nobody
  Hosts = {"h1"}
  Namespaces = {"n1", "n2"}
  Pids = {1}
  Home <- OneHome
  Space <- TwoSpaces
  Pid <- ReusedPids
  OneShot = {p1}
  Linux = TRUE
  MaxBoots = 1
 
 
PROPERTY SuccessorGetsLease
CHECK_DEADLOCK FALSE
