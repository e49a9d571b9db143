SPECIFICATION FairPinsSpec
CONSTANTS
  Cids = {c1}
  Owners = {o1, o2}
  Sweepers = {s1, s2}
INVARIANT RemovalJustified
PROPERTY WantedGetsPinned
