\* Two messages, one connection, presence notices; a peer reads on or goes away.
SPECIFICATION PeerSpec
CONSTANTS
  Msg = {1, 2}
  Link = {l1}
  None = None
  AckCap = 1
  OhiCap = 1
  WireMax = 2
  MaxCrash = 0
PROPERTIES
  Delivered
  LogoutEnds
