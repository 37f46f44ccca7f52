SPECIFICATION Spec
CONSTANTS
  Owners = {o1, o2}
  MaxTokens = 2
SYMMETRY Symmetry
INVARIANT RetiredKeyIsGone
