\* Two links of a user send notices out of order.
SPECIFICATION Spec
CONSTANTS
  Link = {l1, l2}
  None = None
SYMMETRY LinkSymmetry
INVARIANT
  PresenceTold
