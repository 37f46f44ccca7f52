SPECIFICATION Spec
CONSTANTS
  None = None
  Procs = {p1, p2}
  Keys = {k1}
  MaxSessions = 2
SYMMETRY Symmetry
INVARIANTS
  CompletedIsLinked
  OneContinuation
  LinkedStaysClosed
  OpenIsActive
PROPERTIES
  KeyKeepsItsSession
  StatusFollowsMachine
