\* Two users, three names, two objects, two threads in group operations, one restart.
\* Calls end when names run out.
SPECIFICATION Spec
CONSTANTS
  Uid = {u1, u2}
  Name = {n1, n2, n3}
  BadName = {}
  Obj = {o1, o2}
  Thread = {t1, t2}
  None = None
  Defunct = Defunct
  MaxRestart = 1
SYMMETRY Symmetry
INVARIANTS
  TypeOK
  NameExclusive
  GroupListed
  GroupAlive
  MemberAlias
  JoinedReal
PROPERTIES
  ImplementsRegistry
CHECK_DEADLOCK FALSE
