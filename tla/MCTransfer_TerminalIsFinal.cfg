SPECIFICATION Spec
CONSTANTS
  None = None
  Owners = {o1, o2}
  Callbacks = {c1}
  FullAmount = 1
  MaxFaults = 0
SYMMETRY Symmetry
PROPERTY TerminalIsFinal
