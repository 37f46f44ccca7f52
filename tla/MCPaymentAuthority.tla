------------------------- MODULE MCPaymentAuthority -------------------------
(* Every single scope, and every scope beside the agreed one, as an answer. *)
EXTENDS PaymentAuthority, TLC

Agreed == [type |-> "outgoing-payment", actions |-> {"create", "read", "list"}, on |-> "sender",
           limits |-> [receiver |-> "incoming", debit |-> 1, more |-> FALSE]]

MCAnswers == {<<s>> : s \in Scopes} \cup {<<Agreed, s>> : s \in Scopes}

Symmetry ==
  Permutations(Users) \cup Permutations(Emails) \cup Permutations(Addresses)
  \cup Permutations(Transactions) \cup Permutations(Registrations)
=============================================================================
