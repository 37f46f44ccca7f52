SPECIFICATION Spec
CONSTANTS
  k1 = k1
  k2 = k2
  Procs = {p1, p2}
  Creds = {c1, c2}
  KeyIds = {k1, k2}
  Plan <- Staged
  MaxGen = 3
SYMMETRY Symmetry
INVARIANTS
  RetiredIsUnreferenced
  RunningCanRead
  GivenUpIsUnsure
