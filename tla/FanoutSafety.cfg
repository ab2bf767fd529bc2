\* One message with up to two for entries, two UserEdit requests, one crash.
\* Posters and writers may block each other for ever (see FanoutLock.cfg).
SPECIFICATION Spec
CONSTANTS
  u1 = u1
  u2 = u2
  g1 = g1
  g2 = g2
  User <- MCUser
  Group <- MCGroup
  Member <- MCMember
  Invited <- MCInvited
  Msg = {m1}
  Edit = {e1, e2}
  None = None
  UserNodeMax = 2
  NumMod = 3
  MaxTo = 2
  MaxCrash = 1
SYMMETRY Symmetry
INVARIANTS
  TypeOK
  Fanned
  NodeInherits
  OnlyRecipients
  NoneOnError
  OwnQueue
CHECK_DEADLOCK FALSE
