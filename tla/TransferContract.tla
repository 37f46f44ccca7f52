-------------------------- MODULE TransferContract --------------------------
(***************************************************************************)
(* What a transfer promises its sender, without leases, processes, retries *)
(* or credentials: the provider is asked at most once, only after consent, *)
(* and a transfer reported closed or paid tells the truth about the money. *)
(* Transfer implements it (see its refinement mapping Phase).              *)
(***************************************************************************)
EXTENDS Naturals

CONSTANT FullAmount    \* the amount the recipient is quoted

VARIABLES
  phase,      \* what the sender is told
  request,    \* the one instruction to pay: "none", "sent", "accepted", "refused"
  payment,    \* the payment at the provider: "none", "open", "failed"
  delivered   \* what has reached the recipient

contractVars == <<phase, request, payment, delivered>>

(* "abandoned" is a failure before any callback was bound, which a stalled *)
(* creation may still revive; "closed" is for good.                        *)
Phases == {"absent", "preparing", "abandoned", "instructed", "paid", "closed"}

ContractInit ==
  /\ phase = "absent"
  /\ request = "none"
  /\ payment = "none"
  /\ delivered = 0

Open ==
  /\ phase = "absent"
  /\ phase' = "preparing"
  /\ UNCHANGED <<request, payment, delivered>>

Abandon ==
  /\ phase = "preparing"
  /\ phase' \in {"abandoned", "closed"}
  /\ UNCHANGED <<request, payment, delivered>>

Revive ==
  /\ phase = "abandoned"
  /\ phase' = "preparing"
  /\ UNCHANGED <<request, payment, delivered>>

Instruct ==
  /\ phase = "preparing"
  /\ phase' = "instructed"
  /\ UNCHANGED <<request, payment, delivered>>

(* The instruction leaves once, while the sender is told it may have. *)
Ask ==
  /\ phase = "instructed"
  /\ request = "none"
  /\ request' = "sent"
  /\ UNCHANGED <<phase, payment, delivered>>

(* It is answered while the sender is still told that it may be. *)
Decide ==
  /\ phase = "instructed"
  /\ request = "sent"
  /\ \/ request' = "accepted" /\ payment' = "open"
     \/ request' = "refused" /\ UNCHANGED payment
  /\ UNCHANGED <<phase, delivered>>

Move ==
  /\ payment = "open"
  /\ delivered < FullAmount
  /\ delivered' = delivered + 1
  /\ UNCHANGED <<phase, request, payment>>

Fail ==
  /\ payment = "open"
  /\ payment' = "failed"
  /\ UNCHANGED <<phase, request, delivered>>

Pay ==
  /\ phase = "instructed"
  /\ delivered = FullAmount
  /\ phase' = "paid"
  /\ UNCHANGED <<request, payment, delivered>>

Close ==
  /\ phase = "instructed"
  /\ request = "refused" \/ payment = "failed"
  /\ phase' = "closed"
  /\ UNCHANGED <<request, payment, delivered>>

ContractNext ==
  Open \/ Abandon \/ Revive \/ Instruct \/ Ask \/ Decide \/ Move \/ Fail \/ Pay \/ Close

ContractSpec == ContractInit /\ [][ContractNext]_contractVars
=============================================================================
