\* Two threads, three versions with and without aliases, two crashes.
SPECIFICATION Spec
CONSTANTS
  Thread = {t1, t2}
  a1 = a1
  a2 = a2
  Alias <- MCAlias
  Touched <- MCTouched
  None = None
  Torn = Torn
  MaxVer = 3
  MaxCrash = 2
SYMMETRY ThreadSymmetry
INVARIANTS
  TypeOK
  RecordWhole
  NoPanic
  AliasIndex
  FetchCurrent
  MissMeansUpdate
PROPERTY
  ImplementsRecord
