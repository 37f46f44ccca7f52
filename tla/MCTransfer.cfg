SPECIFICATION Spec
CONSTANTS
  None = None
  Owners = {o1, o2}
  Callbacks = {c1, c2}
  FullAmount = 1
  MaxFaults = 1
SYMMETRY Symmetry
VIEW View
INVARIANTS
  AtMostOneInstruction
  ClosedMovesNoMoney
  CompletedIsDelivered
  ClosesOnlyAtRest
  ReconcilableKeepsCredential
  UnknownIsFlagged
  UnfinishedIsScheduled
  ContinuesOnce
  IInv
PROPERTIES
  StatusNeverReturns
  CallbackBindsOnce
  KeepsContract
