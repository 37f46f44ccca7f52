SPECIFICATION Spec
CONSTANTS
  None = None
  Procs = {p1, p2}
  Keys = {k1}
  MaxSessions = 1
SYMMETRY Symmetry
INVARIANT GrantContinuedOnce
