------------------------------ MODULE Transfer ------------------------------
(***************************************************************************)
(* The life of one transfer: TransferService                               *)
(* (src/src/services/transfer.service.ts) over the row of TransferStore,   *)
(* the session in Redis, the outgoing credential and the provider.         *)
(*                                                                         *)
(* A process o \in Owners runs one leased operation at a time: create,     *)
(* handleCallback, the maintain of a status read or that of the worker.    *)
(* pc[o] is the next awaited call; one step is one call and the local code *)
(* up to the next.  snap[o] is the operation's variable t, the row as its  *)
(* last claim, update or load returned it.  A renewal of the lease, by the *)
(* heartbeat or by alive(), leaves a live lease live: it is the guard      *)
(* Holds(o).  Credentials other than the outgoing one are abstracted to    *)
(* calls that may fail; PaymentToken models their life.                    *)
(***************************************************************************)
EXTENDS TransferStore

VARIABLES
  pc, kind, snap, cb, sess,   \* per process: next call, operation, t, callback, session read
  session,    \* Redis: "none", "fresh", or "continued" once interactionSent
  token,      \* the outgoing credential is stored
  request,    \* the create-outgoing-payment request, as the provider sees it
  payment,    \* the outgoing payment at the provider
  delivered,  \* amount that reached the incoming payment
  incoming,   \* the incoming payment at the provider
  sends,      \* history: create-outgoing requests sent
  refs        \* history: grant.continue calls that carried the interact_ref

store == <<row, lease, expired>>
provider == <<request, payment, delivered, incoming>>
history == <<sends, refs>>
local == <<pc, kind, snap, cb, sess>>
vars == <<store, faults, local, session, token, provider, history>>

Sessions == {"none", "fresh", "continued"}
Kinds == {"none", "create", "callback", "resume", "poll", "worker"}

CreateLabels == {"c_claim", "c_alive", "c_incoming", "c_record", "c_quote", "c_grant",
                 "c_session", "c_await", "c_fail", "c_delete"}
CallbackLabels == {"h_claim", "h_session", "h_finalize", "h_alive", "h_continue", "h_save",
                   "h_await", "h_store", "h_authorize", "h_fail", "h_delete"}
SubmitLabels == {"s_check", "s_submit", "s_send", "s_wait", "s_unknown", "s_delete"}
MaintainLabels == {"m_age", "m_catch", "m_flag", "m_defer", "r_outgoing", "r_incoming"}
CleanupLabels == {"k_delete", "k_null", "k_alive", "k_complete", "k_commit",
                  "k_tokens", "k_retry", "k_done", "k_again"}
Labels == {"idle", "release"} \cup CreateLabels \cup CallbackLabels \cup SubmitLabels
            \cup MaintainLabels \cup CleanupLabels

TypeOK ==
  /\ row \in Rows
  /\ lease \in Leases
  /\ expired \in BOOLEAN
  /\ faults \in 0 .. MaxFaults
  /\ pc \in [Owners -> Labels]
  /\ kind \in [Owners -> Kinds]
  /\ snap \in [Owners -> Rows]
  /\ cb \in [Owners -> Callbacks \cup {None}]
  /\ sess \in [Owners -> Sessions]
  /\ session \in Sessions
  /\ token \in BOOLEAN
  /\ request \in {"none", "sent", "accepted", "refused"}
  /\ payment \in {"none", "open", "failed"}
  /\ delivered \in 0 .. FullAmount
  /\ incoming \in {"none", "open", "completed", "expired"}
  /\ sends \in Nat
  /\ refs \in Nat

Init ==
  /\ StoreInit
  /\ pc = [o \in Owners |-> "idle"]
  /\ kind = [o \in Owners |-> "none"]
  /\ snap = [o \in Owners |-> NoRow]
  /\ cb = [o \in Owners |-> None]
  /\ sess = [o \in Owners |-> "none"]
  /\ session = "none"
  /\ token = FALSE
  /\ request = "none"
  /\ payment = "none"
  /\ delivered = 0
  /\ incoming = "none"
  /\ sends = 0
  /\ refs = 0

-----------------------------------------------------------------------------
(* Steps shared by the operations. *)

Goto(o, label) == pc' = [pc EXCEPT ![o] = label]

(* The operation o begins. *)
Begin(o, k, label) ==
  /\ pc[o] = "idle"
  /\ kind' = [kind EXCEPT ![o] = k]
  /\ Goto(o, label)

(* The operation o is over and its locals are gone. *)
Finish(o) ==
  /\ Goto(o, "idle")
  /\ kind' = [kind EXCEPT ![o] = "none"]
  /\ snap' = [snap EXCEPT ![o] = NoRow]
  /\ cb' = [cb EXCEPT ![o] = None]
  /\ sess' = [sess EXCEPT ![o] = "none"]

(* A guarded UPDATE of the row to new.  It returns the row and the         *)
(* operation goes on at ok; or it matches nothing, and goes on at none; or *)
(* the call fails, before or after it took effect, and goes on at err.     *)
Write(o, expected, new, ok, none, err) ==
  /\ \/ /\ CanTransition(o, expected, new)
        /\ row' = Stamped(new)
        /\ snap' = [snap EXCEPT ![o] = Stamped(new)]
        /\ Goto(o, ok)
        /\ UNCHANGED faults
     \/ /\ ~CanTransition(o, expected, new)
        /\ Goto(o, none)
        /\ UNCHANGED <<row, snap, faults>>
     \/ /\ Fault
        /\ Goto(o, err)
        /\ \/ UNCHANGED row
           \/ CanTransition(o, expected, new) /\ row' = Stamped(new)
        /\ UNCHANGED snap
  /\ UNCHANGED <<lease, expired, kind, cb, sess, session, token, provider, history>>

(* update: the status must still be the one the operation last saw. *)
Update(o, new, ok, err) == Write(o, {snap[o].status}, new, ok, err, err)

(* A step that touches no shared state. *)
Local(o, label) ==
  /\ Goto(o, label)
  /\ UNCHANGED <<store, kind, snap, cb, sess, session, token, provider, history>>

(* alive(), after calls that may themselves fail. *)
CheckAlive(o, ok, err) ==
  \/ Holds(o) /\ Local(o, ok) /\ UNCHANGED faults
  \/ ~Holds(o) /\ Local(o, err) /\ UNCHANGED faults
  \/ Fault /\ Local(o, err)

(* deleteSession swallows a failure of Redis. *)
DeleteSession(o, label) ==
  /\ \/ session' = "none" /\ UNCHANGED faults
     \/ Fault /\ UNCHANGED session
  /\ Goto(o, label)
  /\ UNCHANGED <<store, kind, snap, cb, sess, token, provider, history>>

SessionVisible == session # "none" /\ ~expired

(* The finally of leased(): the lease is dropped if it is still this       *)
(* operation's; when that call fails the lease is left to lapse.           *)
Release(o) ==
  /\ pc[o] = "release"
  /\ \/ Drop(o) /\ UNCHANGED faults
     \/ Fault /\ UNCHANGED lease
  /\ Finish(o)
  /\ UNCHANGED <<row, expired, session, token, provider, history>>

-----------------------------------------------------------------------------
(* create: reserve the key, prepare the incoming payment and the quote, and *)
(* ask for the sender's consent.                                            *)

Reserve(o) ==
  /\ Insert
  /\ Begin(o, "create", "c_claim")
  /\ UNCHANGED <<lease, expired, faults, snap, cb, sess, session, token, provider, history>>

(* A status read that learned the id from a replay may hold the lease.     *)
CreateClaim(o) ==
  /\ pc[o] = "c_claim"
  /\ \/ /\ Available
        /\ Take(o)
        /\ snap' = [snap EXCEPT ![o] = row]
        /\ Goto(o, "c_alive")
        /\ UNCHANGED <<kind, cb, sess>>
     \/ ~Available /\ Finish(o) /\ UNCHANGED lease
  /\ UNCHANGED <<row, expired, faults, session, token, provider, history>>

CreateIncoming(o) ==
  \/ pc[o] = "c_alive" /\ CheckAlive(o, "c_incoming", "c_fail")
  \/ /\ pc[o] = "c_incoming"
     /\ \/ incoming' = "open" /\ Goto(o, "c_record") /\ UNCHANGED faults
        \/ incoming' \in {incoming, "open"} /\ Goto(o, "c_fail") /\ Fault
     /\ UNCHANGED <<store, kind, snap, cb, sess, session, token, request, payment, delivered, history>>

RecordIncoming(o) ==
  /\ pc[o] = "c_record"
  /\ Update(o, [row EXCEPT !.incoming_payment_url = TRUE], "c_quote", "c_fail")

(* acquireIncoming, the quote and its checks change nothing else here. *)
RecordQuote(o) ==
  /\ pc[o] = "c_quote"
  /\ \/ ~expired /\ Update(o, [row EXCEPT !.quote_url = TRUE], "c_grant", "c_fail")
     \/ expired /\ Local(o, "c_fail") /\ UNCHANGED faults

RequestConsent(o) ==
  \/ pc[o] = "c_grant" /\ CheckAlive(o, "c_session", "c_fail")
  \/ /\ pc[o] = "c_session"
     /\ \/ ~expired /\ session' = "fresh" /\ Goto(o, "c_await") /\ UNCHANGED faults
        \/ expired /\ Goto(o, "c_fail") /\ UNCHANGED <<session, faults>>
        \/ session' \in {session, "fresh"} /\ Goto(o, "c_fail") /\ Fault
     /\ UNCHANGED <<store, kind, snap, cb, sess, token, provider, history>>
  \/ /\ pc[o] = "c_await"
     /\ Update(o, [row EXCEPT !.status = "AWAITING_AUTHORIZATION", !.next_attempt_at = "later"],
               "release", "c_fail")

(* The catch of create: 410 makes it EXPIRED, everything else FAILED. *)
CreateFails(o) ==
  \/ /\ pc[o] = "c_fail"
     /\ \E s \in {"EXPIRED", "FAILED"} :
          Write(o, {"CREATING"}, [row EXCEPT !.status = s, !.next_attempt_at = "due"],
                "c_delete", "c_delete", "release")
  \/ pc[o] = "c_delete" /\ DeleteSession(o, "release")

Create(o) ==
  CreateClaim(o) \/ CreateIncoming(o) \/ RecordIncoming(o) \/ RecordQuote(o)
    \/ RequestConsent(o) \/ CreateFails(o)

-----------------------------------------------------------------------------
(* handleCallback. *)

Callback(o, c) ==
  /\ Exists
  /\ row.callback_fingerprint = c \/ (row.callback_fingerprint = None /\ SessionVisible)
  /\ Begin(o, "callback", "h_claim")
  /\ cb' = [cb EXCEPT ![o] = c]
  /\ UNCHANGED <<store, faults, snap, sess, session, token, provider, history>>

(* Another callback was bound since this one was checked. *)
ConsumedUnchecked(o) == FALSE    \* mutant: only the check before the claim
Consumed(o) == row.callback_fingerprint \notin {None, cb[o]}

CallbackClaim(o) ==
  /\ pc[o] = "h_claim"
  /\ \/ /\ Available
        /\ Take(o)
        /\ snap' = [snap EXCEPT ![o] = row]
        /\ \/ /\ ~Consumed(o)
              /\ row.status = "AUTHORIZED"
              /\ kind' = [kind EXCEPT ![o] = "resume"]
              /\ Goto(o, "s_check")
           \/ /\ ~Consumed(o)
              /\ row.status = "AWAITING_AUTHORIZATION"
              /\ Goto(o, "h_session")
              /\ UNCHANGED kind
           \/ /\ \/ Consumed(o)
                 \/ row.status \notin {"AUTHORIZED", "AWAITING_AUTHORIZATION"}
              /\ Goto(o, "release")
              /\ UNCHANGED kind
        /\ UNCHANGED <<cb, sess>>
     \/ ~Available /\ Finish(o) /\ UNCHANGED lease
  /\ UNCHANGED <<row, expired, faults, session, token, provider, history>>

(* continueAfter is abstracted: a visible session may be too early to use. *)
ReadSession(o) ==
  /\ pc[o] = "h_session"
  /\ sess' = [sess EXCEPT ![o] = session]
  /\ \/ SessionVisible /\ Goto(o, "h_finalize")
     \/ Goto(o, "release")
  /\ UNCHANGED <<store, faults, kind, snap, cb, session, token, provider, history>>

BindCallback(o) ==
  /\ pc[o] = "h_finalize"
  /\ Update(o, [row EXCEPT !.status = "FINALIZING", !.callback_fingerprint = cb[o],
                           !.next_attempt_at = "later"],
            "h_alive", "release")

(* grant.continue: consent is pending, final, or refused; or no answer. *)
Continue(o) ==
  \/ pc[o] = "h_alive" /\ CheckAlive(o, "h_continue", "h_fail")
  \/ /\ pc[o] = "h_continue"
     /\ refs' = IF sess[o] = "continued" THEN refs ELSE refs + 1
     /\ \E label \in {"h_save", "h_store", "h_fail"} : Goto(o, label)
     /\ UNCHANGED <<store, faults, kind, snap, cb, sess, session, token, provider, sends>>

(* What is saved for the next visit: interactionSent is set. *)
SessionUnmarked(o) == sess[o]    \* mutant: interactionSent is left as it was read
NextSession(o) == "continued"

ConsentPending(o) ==
  \/ /\ pc[o] = "h_save"
     /\ \/ ~expired /\ session' = NextSession(o) /\ Goto(o, "h_await") /\ UNCHANGED faults
        \/ expired /\ Goto(o, "h_fail") /\ UNCHANGED <<session, faults>>
        \/ session' \in {session, NextSession(o)} /\ Goto(o, "h_fail") /\ Fault
     /\ UNCHANGED <<store, kind, snap, cb, sess, token, provider, history>>
  \/ /\ pc[o] = "h_await"
     /\ Update(o, [row EXCEPT !.status = "AWAITING_AUTHORIZATION", !.next_attempt_at = "later"],
               "release", "h_fail")

(* The outgoing credential is inserted under the live lease. *)
ConsentFinal(o) ==
  \/ /\ pc[o] = "h_store"
     /\ \/ WithOwner(o) /\ ~token /\ token' = TRUE /\ Goto(o, "h_authorize") /\ UNCHANGED faults
        \/ (~WithOwner(o) \/ token) /\ Goto(o, "h_fail") /\ UNCHANGED <<token, faults>>
        \/ token' \in {token, token \/ WithOwner(o)} /\ Goto(o, "h_fail") /\ Fault
     /\ UNCHANGED <<store, kind, snap, cb, sess, session, provider, history>>
  \/ /\ pc[o] = "h_authorize"
     /\ Update(o, [row EXCEPT !.status = "AUTHORIZED", !.next_attempt_at = "due"],
               "s_check", "h_fail")

CallbackFails(o) ==
  \/ /\ pc[o] = "h_fail"
     /\ Write(o, {"FINALIZING"}, [row EXCEPT !.status = "FAILED", !.next_attempt_at = "due"],
              "h_delete", "h_delete", "release")
  \/ pc[o] = "h_delete" /\ DeleteSession(o, "release")

HandleCallback(o) ==
  CallbackClaim(o) \/ ReadSession(o) \/ BindCallback(o) \/ Continue(o)
    \/ ConsentPending(o) \/ ConsentFinal(o) \/ CallbackFails(o)

-----------------------------------------------------------------------------
(* Where maintain goes on with the row t. *)

SettleLabelUnknown(t) ==    \* mutant: an unknown outcome is cleaned up like a result
  IF IsTerminal(t) \/ t.status = "UNKNOWN" THEN "k_delete" ELSE "m_defer"
SettleLabel(t) == IF IsTerminal(t) THEN "k_delete" ELSE "m_defer"

WorkLabel(o, t) ==
  CASE t.status = "AUTHORIZED" /\ kind[o] = "worker" -> "s_check"
    [] t.status \in {"PENDING", "UNKNOWN"} /\ t.provider_failed -> "r_incoming"
    [] t.status \in {"PENDING", "UNKNOWN"} /\ ~t.provider_failed -> "r_outgoing"
    [] OTHER -> SettleLabel(t)

(* submit returns t to its caller, or throws. *)
AfterSubmit(o, t) ==
  CASE kind[o] = "callback" -> "h_delete"
    [] kind[o] = "resume" -> "release"
    [] OTHER -> WorkLabel(o, t)

SubmitThrows(o) == IF kind[o] = "worker" THEN "m_catch" ELSE "release"

UpdateInSubmit(o, new) == Update(o, new, AfterSubmit(o, new), SubmitThrows(o))

-----------------------------------------------------------------------------
(* submit. *)

(* recordOutgoing: a read of the outgoing payment may lag behind it. *)
RecordOutgoing(o, ok, err) ==
  \E amount \in 0 .. delivered, failed \in {FALSE, payment = "failed"} :
    Update(o, [row EXCEPT !.outgoing_payment_url = TRUE,
                          !.sent_amount = amount,
                          !.provider_failed = snap[o].provider_failed \/ failed,
                          !.status = "PENDING",
                          !.reconciliation_required = FALSE,
                          !.next_attempt_at = "due"],
           ok, err)

(* Expiry, the wallets, the outgoing credential and the lease are checked. *)
CheckSubmit(o) ==
  /\ pc[o] = "s_check"
  /\ \/ /\ expired
        /\ UpdateInSubmit(o, [row EXCEPT !.status = "EXPIRED", !.next_attempt_at = "due"])
     \/ /\ ~expired   \* a wallet was unlinked
        /\ UpdateInSubmit(o, [row EXCEPT !.status = "FAILED", !.next_attempt_at = "due"])
     \/ /\ ~expired
        /\ token
        /\ CheckAlive(o, "s_submit", SubmitThrows(o))
     \/ /\ ~expired
        /\ ~token
        /\ Local(o, SubmitThrows(o))
        /\ UNCHANGED faults

MarkSubmitting(o) ==
  /\ pc[o] = "s_submit"
  /\ Update(o, [row EXCEPT !.status = "SUBMITTING", !.next_attempt_at = "later"],
            "s_send", SubmitThrows(o))

(* outgoingPayment.create, after assertUsable. *)
Send(o) ==
  /\ pc[o] = "s_send"
  /\ \/ /\ token
        /\ sends' = sends + 1
        /\ request' = "sent"
        /\ Goto(o, "s_wait")
        /\ UNCHANGED faults
     \/ ~token /\ Goto(o, "s_unknown") /\ UNCHANGED <<sends, request, faults>>
     \/ Goto(o, "s_unknown") /\ Fault /\ UNCHANGED <<sends, request>>
  /\ UNCHANGED <<store, kind, snap, cb, sess, session, token, payment, delivered, incoming, refs>>

(* The answer: an explicit refusal, the payment, or an error or timeout    *)
(* that says nothing of what the provider did or will do.                  *)
Answer(o) ==
  /\ pc[o] = "s_wait"
  /\ \/ /\ request = "refused"
        /\ \E s \in {"EXPIRED", "FAILED"} :
             UpdateInSubmit(o, [row EXCEPT !.status = s, !.reconciliation_required = FALSE,
                                           !.next_attempt_at = "due"])
     \/ request = "accepted" /\ RecordOutgoing(o, "s_delete", "s_unknown")
     \/ Local(o, "s_unknown") /\ UNCHANGED faults

(* mutants: the ambiguous outcome is a failure; or it is never tried again *)
UnknownAsFailed == [row EXCEPT !.status = "FAILED", !.next_attempt_at = "due"]
UnknownUnscheduled ==
  [row EXCEPT !.status = "UNKNOWN", !.reconciliation_required = TRUE, !.next_attempt_at = "null"]
UnknownRow ==
  [row EXCEPT !.status = "UNKNOWN", !.reconciliation_required = TRUE, !.next_attempt_at = "due"]

OutcomeUnknown(o) == pc[o] = "s_unknown" /\ UpdateInSubmit(o, UnknownRow)

Submit(o) ==
  \/ CheckSubmit(o) \/ MarkSubmitting(o) \/ Send(o) \/ Answer(o) \/ OutcomeUnknown(o)
  \/ pc[o] = "s_delete" /\ DeleteSession(o, AfterSubmit(o, snap[o]))

-----------------------------------------------------------------------------
(* maintain, by a status read (poll) or by the worker. *)

ClaimFor(o, k) ==
  /\ Available
  /\ Take(o)
  /\ snap' = [snap EXCEPT ![o] = row]
  /\ Begin(o, k, "m_age")
  /\ UNCHANGED <<row, expired, faults, cb, sess, session, token, provider, history>>

Poll(o) == Exists /\ ClaimFor(o, "poll")

ClaimDue(o) == row.next_attempt_at = "due" /\ ClaimFor(o, "worker")

(* mutants: FINALIZING is not timed out; anything past its expiry expires,
   or the instruction that is out does *)
StaleNotFinalizing(t) == t.status \in Interruptible \ {"FINALIZING"} /\ t.state_changed_at = "old"
ExpirableAny(t) == expired
ExpirableSubmitting(t) ==
  t.status \in {"CREATING", "AWAITING_AUTHORIZATION", "AUTHORIZED", "SUBMITTING"} /\ expired

Stale(t) == t.status \in Interruptible /\ t.state_changed_at = "old"

Expirable(t) == t.status \in {"CREATING", "AWAITING_AUTHORIZATION", "AUTHORIZED"} /\ expired

InterruptedRetried ==    \* mutant: the send is tried again
  [row EXCEPT !.status = IF @ = "SUBMITTING" THEN "AUTHORIZED" ELSE "FAILED"]

(* Interrupted work is failed, or unknown once the instruction may be out. *)
Interrupted ==
  IF row.status = "SUBMITTING"
  THEN [row EXCEPT !.status = "UNKNOWN", !.reconciliation_required = TRUE]
  ELSE [row EXCEPT !.status = "FAILED", !.reconciliation_required = FALSE]

AgeOut(o) ==
  /\ pc[o] = "m_age"
  /\ \/ /\ Stale(snap[o])
        /\ Update(o, Interrupted, WorkLabel(o, Interrupted), "release")
     \/ /\ ~Stale(snap[o])
        /\ Expirable(snap[o])
        /\ Update(o, [row EXCEPT !.status = "EXPIRED"], "k_delete", "release")
     \/ /\ ~Stale(snap[o])
        /\ ~Expirable(snap[o])
        /\ Local(o, WorkLabel(o, snap[o]))
        /\ UNCHANGED faults

(* refresh, first half: read the outgoing payment by its URL, or find it   *)
(* in the list, which may not show it.  It throws without a stored         *)
(* credential, with one that expired or whose rotation is unresolved, and  *)
(* when the provider does not answer or refuses it.                        *)
ReadOutgoing(o) ==
  /\ pc[o] = "r_outgoing"
  /\ \/ token /\ payment # "none" /\ RecordOutgoing(o, "r_incoming", "m_catch")
     \/ /\ token
        /\ ~snap[o].outgoing_payment_url
        /\ Update(o, [row EXCEPT !.reconciliation_required = TRUE], "m_defer", "m_catch")
     \/ Local(o, "m_catch") /\ UNCHANGED faults

(* mutant: a closed incoming payment is taken for a paid one *)
ReceiptStatusByClose(o, closed) == IF closed THEN "COMPLETED" ELSE "PENDING"
ReceiptStatus(o, closed) ==
  IF delivered >= FullAmount THEN "COMPLETED"
  ELSE IF snap[o].provider_failed THEN "FAILED" ELSE "PENDING"

(* refresh, second half: the recipient's provider says what has arrived;   *)
(* this read needs a credential of its own and throws as the first does.   *)
ReadIncoming(o) ==
  /\ pc[o] = "r_incoming"
  /\ \/ \E closed \in {FALSE, incoming # "open"} :
          LET new == [row EXCEPT
                        !.received_amount = delivered,
                        !.incoming_completed_at = snap[o].incoming_completed_at \/ closed,
                        !.status = ReceiptStatus(o, closed),
                        !.reconciliation_required = FALSE]
          IN  Update(o, new, SettleLabel(new), "m_catch")
     \/ Local(o, "m_catch") /\ UNCHANGED faults

(* mutant: the flag is recomputed, not kept *)
FlaggedAnew(o, needsHelp) == [row EXCEPT !.reconciliation_required = needsHelp]
Flagged(o, needsHelp) ==
  [row EXCEPT !.reconciliation_required = snap[o].reconciliation_required \/ needsHelp]

(* The catch of maintain reloads the row, whatever its status is by now,   *)
(* and flags it when the failure calls for an operator.                    *)
RefreshFails(o) ==
  \/ /\ pc[o] = "m_catch"
     /\ \/ snap' = [snap EXCEPT ![o] = row] /\ Goto(o, "m_flag") /\ UNCHANGED faults
        \/ Goto(o, "release") /\ Fault /\ UNCHANGED snap
     /\ UNCHANGED <<store, kind, cb, sess, session, token, provider, history>>
  \/ /\ pc[o] = "m_flag"
     /\ \E needsHelp \in BOOLEAN :
          Update(o, Flagged(o, needsHelp), SettleLabel(row), "release")

Defer(o) ==
  /\ pc[o] = "m_defer"
  /\ Update(o, [row EXCEPT !.next_attempt_at = "later"], "release", "release")

Maintain(o) ==
  AgeOut(o) \/ ReadOutgoing(o) \/ ReadIncoming(o) \/ RefreshFails(o) \/ Defer(o)

-----------------------------------------------------------------------------
(* cleanup of a terminal transfer. *)

IncomingResolved(t) ==
  ~t.incoming_payment_url \/ t.incoming_completed_at \/ incoming = "expired"

CleanupLabel(t) ==
  CASE t.cleanup_state = "DONE" -> "k_null"
    [] t.cleanup_state # "DONE" /\ IncomingResolved(t) -> "k_tokens"
    [] OTHER -> "k_alive"

(* Close the incoming payment; its credential may be missing or unusable. *)
CompleteIncoming(o) ==
  \/ /\ pc[o] = "k_alive"
     /\ \/ CheckAlive(o, "k_complete", "k_retry")
        \/ Local(o, "k_retry") /\ UNCHANGED faults
  \/ /\ pc[o] = "k_complete"
     /\ \/ /\ incoming \in {"open", "completed"}
           /\ incoming' = "completed"
           /\ \/ Goto(o, "k_commit") /\ UNCHANGED faults
              \/ Goto(o, "k_retry") /\ Fault
        \/ Goto(o, "k_retry") /\ UNCHANGED <<incoming, faults>>
     /\ UNCHANGED <<store, kind, snap, cb, sess, session, token, request, payment, delivered, history>>
  \/ /\ pc[o] = "k_commit"
     /\ Update(o, [row EXCEPT !.incoming_completed_at = TRUE], "k_tokens", "k_retry")

(* Revoke and clear the credentials: all of them, or not all. The incoming *)
(* one is kept while the incoming payment is unresolved.                   *)
ClearCredentials(o) ==
  /\ \/ /\ WithOwner(o)
        /\ \/ pc[o] = "k_tokens" /\ token' = FALSE /\ Goto(o, "k_done")
           \/ pc[o] \in {"k_tokens", "k_retry"} /\ token' \in {token, FALSE} /\ Goto(o, "k_again")
     \/ /\ ~WithOwner(o)
        /\ pc[o] \in {"k_tokens", "k_retry"}
        /\ UNCHANGED token
        /\ Goto(o, "release")
  /\ UNCHANGED <<store, faults, kind, snap, cb, sess, session, provider, history>>

CleanupDropped == [row EXCEPT !.next_attempt_at = "null"]    \* mutant: not scheduled again
CleanupAgain == [row EXCEPT !.cleanup_state = "PENDING", !.next_attempt_at = "later"]

CloseCleanup(o) ==
  \/ /\ pc[o] = "k_null"
     /\ Update(o, [row EXCEPT !.next_attempt_at = "null"], "release", "release")
  \/ /\ pc[o] = "k_done"
     /\ Update(o, [row EXCEPT !.cleanup_state = "DONE", !.next_attempt_at = "null"],
               "release", "release")
  \/ /\ pc[o] = "k_again"
     /\ Update(o, CleanupAgain, "release", "release")

Cleanup(o) ==
  \/ pc[o] = "k_delete" /\ DeleteSession(o, CleanupLabel(snap[o]))
  \/ CompleteIncoming(o) \/ ClearCredentials(o) \/ CloseCleanup(o)

-----------------------------------------------------------------------------
(* The process dies, or its heartbeat stalls; a lease nobody renews lapses. *)

Crash(o) ==
  /\ pc[o] # "idle"
  /\ Fault
  /\ Finish(o)
  /\ UNCHANGED <<store, session, token, provider, history>>

Running(o) == pc[o] \notin {"idle", "c_claim", "h_claim"}

Lapse ==
  /\ lease.live
  /\ ~Running(lease.owner)
  /\ lease' = [lease EXCEPT !.live = FALSE]
  /\ UNCHANGED <<row, expired, faults, local, session, token, provider, history>>

HeartbeatStalls(o) ==
  /\ Holds(o)
  /\ Running(o)
  /\ Fault
  /\ lease' = [lease EXCEPT !.live = FALSE]
  /\ UNCHANGED <<row, expired, local, session, token, provider, history>>

(* The provider (external). *)

Accept ==
  /\ request = "sent"
  /\ request' = "accepted"
  /\ payment' = "open"
  /\ UNCHANGED <<delivered, incoming>>

Refuse ==
  /\ request = "sent"
  /\ request' = "refused"
  /\ UNCHANGED <<payment, delivered, incoming>>

Deliver ==
  /\ payment = "open"
  /\ incoming = "open"
  /\ delivered < FullAmount
  /\ delivered' = delivered + 1
  /\ UNCHANGED <<request, payment, incoming>>

PaymentFails ==
  /\ payment = "open"
  /\ payment' = "failed"
  /\ UNCHANGED <<request, delivered, incoming>>

(* The transfer expires no later than its incoming payment, once quoted. *)
IncomingExpires ==
  /\ incoming = "open"
  /\ row.quote_url => expired
  /\ incoming' = "expired"
  /\ UNCHANGED <<request, payment, delivered>>

Provider ==
  /\ Accept \/ Refuse \/ Deliver \/ PaymentFails \/ IncomingExpires
  /\ UNCHANGED <<store, faults, local, session, token, history>>

Clock ==
  /\ Age \/ FallDue \/ Expire
  /\ UNCHANGED <<local, session, token, provider, history>>

-----------------------------------------------------------------------------
(* What process o does on its own once its operation has begun. *)
Step(o) ==
  Create(o) \/ HandleCallback(o) \/ Submit(o) \/ Maintain(o) \/ Cleanup(o) \/ Release(o)

Arrival(o) == Reserve(o) \/ Poll(o) \/ \E c \in Callbacks : Callback(o, c)

Next ==
  \/ \E o \in Owners : Arrival(o) \/ ClaimDue(o) \/ Step(o) \/ Crash(o) \/ HeartbeatStalls(o)
  \/ Lapse \/ Provider \/ Clock

Spec == Init /\ [][Next]_vars

-----------------------------------------------------------------------------
(* Safety. *)

(* However the callbacks, the worker and lapsed leases interleave, the     *)
(* provider is sent at most one create-outgoing request (submit 278-282).  *)
AtMostOneInstruction == sends <= 1

(* A transfer reported FAILED or EXPIRED was not paid and moves no money   *)
(* from then on: no request is on its way and no payment is open, although *)
(* submit may be overtaken by a worker that finds its lease lapsed         *)
(* (232-244, 269-302, 343-348).                                            *)
ClosedMovesNoMoney ==
  row.status \in {"FAILED", "EXPIRED"} =>
    request # "sent" /\ payment # "open" /\ delivered < FullAmount

(* COMPLETED is reported only when the quoted amount has arrived (343).    *)
CompletedIsDelivered == row.status = "COMPLETED" => delivered = FullAmount

(* Cleanup never closes the incoming payment under an outgoing payment     *)
(* that could still pay into it (385-405).                                 *)
ClosesOnlyAtRest ==
  incoming = "completed" =>
    /\ request # "sent"
    /\ payment = "open" => delivered = FullAmount

(* A payment that was instructed and may need reconciling keeps the        *)
(* credential that can read it: neither a cleanup that lost its lease nor  *)
(* a retried one may clear it (314-319, 406-412).                          *)
ReconcilableKeepsCredential ==
  \/ row.status \in {"AUTHORIZED", "SUBMITTING", "UNKNOWN"}
  \/ row.status = "PENDING" /\ ~row.provider_failed
  => token

(* An unknown outcome is always flagged for reconciliation, whichever of   *)
(* the callers that can overwrite the flag ran last (250-252, 288-298).    *)
UnknownIsFlagged == row.status = "UNKNOWN" => row.reconciliation_required

(* The worker can always find a transfer that still needs work: its        *)
(* next_attempt_at is never null before cleanup is DONE (37, 414-416).     *)
UnfinishedIsScheduled ==
  Exists /\ row.next_attempt_at = "null" => IsTerminal(row) /\ row.cleanup_state = "DONE"

(* The callback's grant.continue: at most one operation is in it, even     *)
(* after leases lapse, and the interact_ref is sent once (171-187).        *)
ContinuesOnce ==
  /\ \A o, p \in Owners : pc[o] = "h_continue" /\ pc[p] = "h_continue" => o = p
  /\ refs <= 1

(* No step takes a transfer back to a stage before its instruction, and    *)
(* COMPLETED is final, whoever writes last; FAILED and EXPIRED are final   *)
(* once a callback was bound (52-59, 477-481).                             *)
StatusNeverReturns ==
  [][ /\ row.status \in Instructed => row'.status \in Instructed \cup Terminal
      /\ row.status = "COMPLETED" => row'.status = "COMPLETED"
      /\ IsTerminal(row) /\ row.callback_fingerprint # None => row'.status = row.status ]_row

(* The callback that moved a transfer to FINALIZING is the only one it     *)
(* ever accepts (154, 161, 171).                                           *)
CallbackBindsOnce ==
  [][ row.callback_fingerprint # None =>
        row'.callback_fingerprint = row.callback_fingerprint ]_row

-----------------------------------------------------------------------------
(* Refinement: the row as its sender may understand it. *)

Phase ==
  CASE row.status = "NONE" -> "absent"
    [] row.status \in Preparing -> "preparing"
    [] row.status \in Instructed -> "instructed"
    [] row.status = "COMPLETED" -> "paid"
    [] row.status \in {"FAILED", "EXPIRED"} /\ row.callback_fingerprint = None -> "abandoned"
    [] OTHER -> "closed"

Contract == INSTANCE TransferContract WITH phase <- Phase

(* The transfer keeps the contract: one instruction, decided only while    *)
(* the row says it may be out, and closed only on a refusal or a failure.  *)
KeepsContract == Contract!ContractSpec

-----------------------------------------------------------------------------
(* Liveness.  The server and the worker run, time passes, the lease of a   *)
(* dead or finished operation lapses.  Nobody is obliged to poll.          *)

Schedule ==
  /\ \A o \in Owners : WF_vars(Step(o))
  /\ SF_vars(\E o \in Owners : ClaimDue(o))
  /\ WF_vars(Age /\ Clock)
  /\ WF_vars(FallDue /\ Clock)
  /\ WF_vars(Expire /\ Clock)
  /\ WF_vars(Lapse)

(* Both reads of refresh succeed when they are tried often enough.  The    *)
(* code does not see to that: an expiry, one lost rotation answer or one   *)
(* refusal makes a credential unusable for good (payment-token.service.ts  *)
(* 49, 64-79, 86-89), and the payment then stays PENDING or UNKNOWN until  *)
(* an operator settles it (DEVELOPER_GUIDE.md:275-280).  So this assumes   *)
(* that neither reconciliation credential is lost, and that a payment the  *)
(* provider holds shows up in its list.                                    *)
FreshReads ==
  \A o \in Owners :
    /\ SF_vars(ReadOutgoing(o) /\ pc'[o] = "r_incoming")
    /\ SF_vars(ReadIncoming(o) /\ pc'[o] # "m_catch")

FairSpec == Spec /\ Schedule
FreshSpec == FairSpec /\ FreshReads

(* Whatever crashes or stalls, no transfer stays for ever in a stage that  *)
(* only a running operation or a waiting user would move on (232-244).     *)
InterruptedResolves ==
  row.status \in Preparing \cup {"SUBMITTING"}
    ~> row.status \in Terminal \cup {"PENDING", "UNKNOWN"}

(* A transfer that was delivered in full is reported COMPLETED, even when  *)
(* the answer to its instruction was lost, as long as FreshReads holds:    *)
(* neither credential that refresh reads with is lost (314-352).           *)
DeliveredIsReported ==
  row.status \in Instructed /\ delivered = FullAmount ~> row.status = "COMPLETED"

-----------------------------------------------------------------------------
(* What the guide says and the code does not keep.  create claims its row  *)
(* by the lease alone (64), without looking at its status.  If it stalls   *)
(* between the reservation and that claim, a status read or the worker may *)
(* end the transfer (FAILED after 60 s, EXPIRED at its expiry).  The       *)
(* updates of create (83, 109) then keep that status, and the last one     *)
(* (137) writes AWAITING_AUTHORIZATION over it.                            *)

(* "Transfers progress through CREATING, ... then COMPLETED or FAILED"     *)
(* (DEVELOPER_GUIDE.md:258-259): a terminal status is the last one.        *)
TerminalIsFinal == [][IsTerminal(row) => row'.status = row.status]_row
=============================================================================
