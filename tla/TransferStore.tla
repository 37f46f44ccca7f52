--------------------------- MODULE TransferStore ---------------------------
(***************************************************************************)
(* The row of ONE transfer in PostgreSQL and the operations of             *)
(* TransferRepository on it (src/src/repositories/transfer.repository.ts). *)
(* Every operation of the repository is one SQL statement or transaction,  *)
(* so it is one atomic step.                                               *)
(*                                                                         *)
(* Times are abstracted to what the code asks of them:                     *)
(*   - lease.live              lease_until > now()                         *)
(*   - row.state_changed_at    "old" once 60 s have passed since it        *)
(*   - row.next_attempt_at     "null", "later" (in the future) or "due"    *)
(*   - expired                 expires_at <= now                           *)
(***************************************************************************)
EXTENDS Naturals

CONSTANTS
  Owners,        \* slots for running operations; each claims with its own lease_owner
  Callbacks,     \* fingerprints of the callbacks whose interaction hash verifies
  FullAmount,    \* receive_amount of the quote, in units of delivery
  MaxFaults,     \* bound on crashes, failed calls and stalled heartbeats
  None

ASSUME OwnersAssumption == None \notin Owners
ASSUME CallbacksAssumption == None \notin Callbacks
ASSUME AmountAssumption == FullAmount \in Nat \ {0}
ASSUME FaultsAssumption == MaxFaults \in Nat

VARIABLES
  row,       \* the transfers row, or NoRow before it is reserved
  lease,     \* lease_owner, and whether lease_until is in the future
  expired,   \* expires_at has passed
  faults     \* faults so far, at most MaxFaults

(* The statuses of schema.sql:174, by the part they play. *)
Preparing == {"CREATING", "AWAITING_AUTHORIZATION", "FINALIZING", "AUTHORIZED"}
Instructed == {"SUBMITTING", "PENDING", "UNKNOWN"}
Terminal == {"COMPLETED", "FAILED", "EXPIRED"}
Interruptible == {"CREATING", "FINALIZING", "SUBMITTING"}
Statuses == Preparing \cup Instructed \cup Terminal

Rows == [status : Statuses \cup {"NONE"},
         state_changed_at : {"recent", "old"},
         next_attempt_at : {"null", "later", "due"},
         callback_fingerprint : Callbacks \cup {None},
         incoming_payment_url : BOOLEAN,     \* known
         incoming_completed_at : BOOLEAN,    \* set
         quote_url : BOOLEAN,                \* known, with receive_amount
         outgoing_payment_url : BOOLEAN,     \* known
         provider_failed : BOOLEAN,
         sent_amount : 0 .. FullAmount,
         received_amount : 0 .. FullAmount,
         reconciliation_required : BOOLEAN,
         cleanup_state : {"PENDING", "DONE"}]

Leases == [owner : Owners \cup {None}, live : BOOLEAN]

NoRow == [status |-> "NONE",
          state_changed_at |-> "recent",
          next_attempt_at |-> "null",
          callback_fingerprint |-> None,
          incoming_payment_url |-> FALSE,
          incoming_completed_at |-> FALSE,
          quote_url |-> FALSE,
          outgoing_payment_url |-> FALSE,
          provider_failed |-> FALSE,
          sent_amount |-> 0,
          received_amount |-> 0,
          reconciliation_required |-> FALSE,
          cleanup_state |-> "PENDING"]

NoLease == [owner |-> None, live |-> FALSE]

Exists == row.status # "NONE"
IsTerminal(t) == t.status \in Terminal

StoreInit ==
  /\ row = NoRow
  /\ lease = NoLease
  /\ expired = FALSE
  /\ faults = 0

-----------------------------------------------------------------------------
(* Leases. *)

Available == ~lease.live

Holds(o) == lease.owner = o /\ lease.live

(* withOwner: a credential is written in a transaction that locks the row. *)
WithAnyOwner(o) == TRUE    \* mutant: the lease is not checked
WithOwner(o) == Holds(o)

Take(o) == lease' = [owner |-> o, live |-> TRUE]

Drop(o) == lease' = IF lease.owner = o THEN NoLease ELSE lease

(* reserve: insert ... on conflict do nothing, for a key not seen before. *)
Insert ==
  /\ row.status = "NONE"
  /\ row' = [NoRow EXCEPT !.status = "CREATING", !.next_attempt_at = "later"]

(* transition: one UPDATE guarded by the live lease, the expected status   *)
(* and the amounts, which may not decrease.                                *)
CanTransition(o, expected, new) ==
  /\ Holds(o)
  /\ row.status \in expected
  /\ row.sent_amount <= new.sent_amount
  /\ row.received_amount <= new.received_amount

(* state_changed_at is reset only by a change of status. *)
Stamped(new) ==
  [new EXCEPT !.state_changed_at = IF new.status = row.status THEN @ ELSE "recent"]

-----------------------------------------------------------------------------
(* Faults and time. *)

Fault ==
  /\ faults < MaxFaults
  /\ faults' = faults + 1

(* 60 s pass since the last change of status. *)
Age ==
  /\ row.status \in Interruptible
  /\ row.state_changed_at = "recent"
  /\ row' = [row EXCEPT !.state_changed_at = "old"]
  /\ UNCHANGED <<lease, expired, faults>>

(* next_attempt_at is reached. *)
FallDue ==
  /\ row.next_attempt_at = "later"
  /\ row' = [row EXCEPT !.next_attempt_at = "due"]
  /\ UNCHANGED <<lease, expired, faults>>

(* expires_at is reached. *)
Expire ==
  /\ Exists
  /\ ~expired
  /\ expired' = TRUE
  /\ UNCHANGED <<row, lease, faults>>
=============================================================================
