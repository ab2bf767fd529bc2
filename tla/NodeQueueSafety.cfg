\* Two messages, two connections that may race, full channels, one crash.
SPECIFICATION Spec
CONSTANTS
  Msg = {1, 2}
  Link = {l1, l2}
  None = None
  AckCap = 2
  OhiCap = 1
  WireMax = 2
  MaxCrash = 1
SYMMETRY LinkSymmetry
INVARIANTS
  TypeOK
  NoLoss
  FilePresent
  ScheduledOnce
  ConnExclusive
PROPERTY
  ImplementsMailbox
