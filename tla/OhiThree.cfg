\* A third link between the two halves of two unrefs.
SPECIFICATION Spec
CONSTANTS
  Link = {l1, l2, l3}
  None = None
SYMMETRY LinkSymmetry
INVARIANT
  HolderListed
