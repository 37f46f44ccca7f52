--------------------------- MODULE MCPaymentToken ---------------------------
(* PaymentToken on small instances. Operations are interchangeable.        *)
EXTENDS PaymentToken, TLC

Symmetry == Permutations(Owners)
=============================================================================
