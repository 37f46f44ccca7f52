SPECIFICATION Spec
CONSTANTS
  k1 = k1
  k2 = k2
  Procs = {p1, p2}
  Creds = {c1}
  KeyIds = {k1, k2}
  Plan <- Guide
  MaxGen = 2
SYMMETRY Symmetry
INVARIANT GivenUpIsUnsure
