\* One user gets a second node; then the link of one of its nodes posts while
\* the link of the other edits the user.
SPECIFICATION FairSpec
CONSTANTS
  u1 = u1
  u2 = u2
  g1 = g1
  g2 = g2
  User <- MCUser
  Group <- MCGroup
  Member <- MCMember
  Invited <- MCInvited
  Msg = {m1}
  Edit = {e1, e2}
  None = None
  UserNodeMax = 2
  NumMod = 3
  MaxTo = 1
  MaxCrash = 0
PROPERTY
  PostAnswered
CHECK_DEADLOCK FALSE
