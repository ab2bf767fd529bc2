\* Two links of a user that may come and go at once.
SPECIFICATION Spec
CONSTANTS
  Link = {l1, l2}
  None = None
SYMMETRY LinkSymmetry
INVARIANTS
  TypeOK
  HolderListed
  RefcountExact
