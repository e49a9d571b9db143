SPECIFICATION Spec
CONSTANTS
  Processes = {node, other}
  Node = node
  NoKey = 0
  MaxKeys = 5
  Pasted = pasted
  NoToken = 0
  MaxGrants = 2
  MaxFaults = 2
  Requests = {r1, r2}
SYMMETRY Symmetry
INVARIANT TokenWorks
INVARIANT OneIdentity
 
CHECK_DEADLOCK FALSE
