\* Two connections of a node log in for the first time at once.
SPECIFICATION Spec
CONSTANTS
  Msg = {1}
  Link = {l1, l2}
  None = None
  AckCap = 1
  OhiCap = 1
  WireMax = 1
  MaxCrash = 0
INVARIANT
  LoginEnds
