SPECIFICATION Spec
CONSTANTS
  Owners = {o1, o2}
  MaxTokens = 3
SYMMETRY Symmetry
INVARIANTS
  TypeOK
  ReadyWasNotOffered
  HolderUsesCurrent
PROPERTIES
  ForgetsOnlyDeadTokens
  UnresolvedIsRetained
