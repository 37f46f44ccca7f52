------------------------- MODULE TransferInvariant -------------------------
(***************************************************************************)
(* The strengthening of Transfer's safety properties that its steps        *)
(* preserve.  It says what a process may assume of the row between its     *)
(* last look and its next write, which is what the lease, the expected     *)
(* status of update and the history of the request give together.          *)
(***************************************************************************)
EXTENDS Transfer

(* Where a creation is before it asks the sender for consent. *)
Creating == {"c_claim", "c_alive", "c_incoming", "c_record", "c_quote", "c_grant",
             "c_session", "c_await"}

(* Failed or expired before any callback was bound: create may revive it.  *)
Abandoned(t) == t.status \in {"FAILED", "EXPIRED"} /\ t.callback_fingerprint = None

(* What a row, or a copy of it, says of the payment is so at the provider. *)
Evidence(t) ==
  /\ t.provider_failed => payment = "failed"
  /\ t.status = "PENDING" => payment # "none"

(* What the row t says, against what was asked of the provider: before     *)
(* consent nothing, and a final status only with its reason.               *)
RowOK(t) ==
  /\ t.status \in {"FINALIZING", "AUTHORIZED", "COMPLETED"} \cup Instructed
       => t.callback_fingerprint # None
  /\ t.status \in {"NONE"} \cup Preparing \/ Abandoned(t) => request = "none"
  /\ request = "sent" => t.status \in {"SUBMITTING", "UNKNOWN"}
  /\ t.status \in {"FAILED", "EXPIRED"} /\ request = "accepted"
       => payment = "failed" /\ delivered < FullAmount
  /\ t.status = "COMPLETED" => delivered = FullAmount
  /\ Evidence(t)

(* What a process at the label l may rely on while the row is t: nothing   *)
(* overtakes the creation into consent, or the sender into a result.       *)
LabelRow(l, t) ==
  /\ l \in Creating =>
       t.status \in {"CREATING", "FAILED", "EXPIRED"} /\ t.callback_fingerprint = None
  /\ l = "s_send" => request = "none" /\ t.status \in {"SUBMITTING", "UNKNOWN"}

(* What its own copy of the row says at the label l. *)
LabelSnap(l, t) ==
  /\ l \in Creating \ {"c_claim"} => t.status \in {"CREATING", "FAILED", "EXPIRED"}
  /\ l \in {"h_session", "h_finalize"} => t.status = "AWAITING_AUTHORIZATION"
  /\ l \in {"h_alive", "h_continue", "h_save", "h_await", "h_store", "h_authorize"}
       => t.status = "FINALIZING"
  /\ l \in {"s_check", "s_submit"} => t.status = "AUTHORIZED"
  /\ l \in {"s_send", "s_wait", "s_unknown"} => t.status = "SUBMITTING"
  /\ l \in {"r_outgoing", "r_incoming"} => t.status \in {"PENDING", "UNKNOWN"}
  /\ l = "r_incoming" => payment # "none"

ProcessOK(o) ==
  /\ LabelRow(pc[o], row)
  /\ LabelSnap(pc[o], snap[o])
  /\ Evidence(snap[o])
  /\ pc[o] \in {"h_claim", "h_session", "h_finalize"} => cb[o] \in Callbacks

(* One creation, and one process about to send. *)
Alone == \A o, p \in Owners :
  \/ pc[o] \in Creating /\ pc[p] \in Creating
  \/ pc[o] = "s_send" /\ pc[p] = "s_send"
  => o = p

ProviderOK ==
  /\ sends = IF request = "none" THEN 0 ELSE 1
  /\ payment # "none" <=> request = "accepted"
  /\ delivered > 0 => payment # "none"

(* What the steps preserve together: however operations, lapsed leases and *)
(* provider answers interleave, the row, every process's view of it and    *)
(* the provider agree as far as the transfer's safety needs.               *)
IInv == RowOK(row) /\ ProviderOK /\ Alone /\ \A o \in Owners : ProcessOK(o)
=============================================================================
