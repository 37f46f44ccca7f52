--------------------------- MODULE MCPaymentLimits ---------------------------
(* The limits on a small instance. Requests and keys are interchangeable.  *)
EXTENDS PaymentLimits, TLC

Symmetry == Permutations(Requests) \cup Permutations(Keys)
=============================================================================
