SPECIFICATION Spec
CONSTANTS
  Requests = {r1, r2}
  Keys = {k1, k2, k3}
  Window = 3
  Second = 2
  Limit = 2
  Maximum = 3
  MaxCounted = 4
SYMMETRY Symmetry
INVARIANTS
  CountIsExact
  PaymentsAreLimited
  RetryAfterIsEnough
PROPERTIES
  WalletReadmitsRetry
