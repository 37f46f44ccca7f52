--------------------------- MODULE TransferSafety ---------------------------
(***************************************************************************)
(* The theorems about the types and the money of Transfer, for every set   *)
(* of owners and of callbacks, any amount and any number of faults: IInv   *)
(* is inductive, and what TLC checks about money follows from it.          *)
(***************************************************************************)
EXTENDS TransferInvariant, TLAPS

USE OwnersAssumption, CallbacksAssumption, AmountAssumption, FaultsAssumption
    DEF OwnersAssumption, CallbacksAssumption, AmountAssumption, FaultsAssumption
USE DEF Labels, CreateLabels, CallbackLabels, SubmitLabels, MaintainLabels, CleanupLabels

-----------------------------------------------------------------------------
(* Type correctness: one lemma per shared step, one per group of actions.  *)

LEMMA StampedType ==
  ASSUME NEW STATE new, new \in Rows
  PROVE  Stamped(new) \in Rows
  BY DEF Stamped, Rows

LEMMA WriteType ==
  ASSUME TypeOK, NEW o \in Owners, NEW STATE expected, NEW STATE new, new \in Rows,
         NEW STATE ok, NEW STATE none, NEW STATE err, ok \in Labels, none \in Labels, err \in Labels,
         Write(o, expected, new, ok, none, err)
  PROVE  TypeOK'
<1>1. Stamped(new) \in Rows
  BY StampedType
<1>2. row' \in Rows /\ snap' \in [Owners -> Rows]
  BY <1>1 DEF Write, TypeOK
<1>3. pc' \in [Owners -> Labels]
  BY DEF Write, Goto, TypeOK
<1>4. faults' \in 0 .. MaxFaults
  BY DEF Write, Fault, TypeOK
<1>5. QED
  BY <1>2, <1>3, <1>4 DEF Write, TypeOK, provider, history

LEMMA UpdateType ==
  ASSUME TypeOK, NEW o \in Owners, NEW STATE new, new \in Rows,
         NEW STATE ok, NEW STATE err, ok \in Labels, err \in Labels,
         Update(o, new, ok, err)
  PROVE  TypeOK'
  BY WriteType DEF Update

LEMMA LocalType ==
  ASSUME TypeOK, NEW o \in Owners, NEW STATE label, label \in Labels,
         Local(o, label), faults' \in 0 .. MaxFaults
  PROVE  TypeOK'
  BY DEF Local, Goto, TypeOK, store, provider, history

LEMMA CheckAliveType ==
  ASSUME TypeOK, NEW o \in Owners, NEW STATE ok, NEW STATE err, ok \in Labels, err \in Labels,
         CheckAlive(o, ok, err)
  PROVE  TypeOK'
<1>1. faults' \in 0 .. MaxFaults
  BY DEF CheckAlive, Fault, TypeOK
<1>2. QED
  BY <1>1, LocalType DEF CheckAlive

LEMMA DeleteSessionType ==
  ASSUME TypeOK, NEW o \in Owners, NEW STATE label, label \in Labels, DeleteSession(o, label)
  PROVE  TypeOK'
<1>1. faults' \in 0 .. MaxFaults
  BY DEF DeleteSession, Fault, TypeOK
<1>2. QED
  BY <1>1 DEF DeleteSession, Goto, TypeOK, Sessions, store, provider, history

LEMMA NoRowType == NoRow \in Rows
  BY DEF NoRow, Rows, Statuses, Preparing

LEMMA FinishType ==
  ASSUME TypeOK, NEW o \in Owners, Finish(o)
  PROVE  /\ pc' \in [Owners -> Labels]
         /\ kind' \in [Owners -> Kinds]
         /\ snap' \in [Owners -> Rows]
         /\ cb' \in [Owners -> Callbacks \cup {None}]
         /\ sess' \in [Owners -> Sessions]
  BY NoRowType DEF Finish, Goto, TypeOK, Kinds, Sessions

LEMMA TakeType ==
  ASSUME NEW o \in Owners, Take(o)
  PROVE  lease' \in Leases
  BY DEF Take, Leases

LEMMA InitType == Init => TypeOK
<1> SUFFICES ASSUME Init PROVE TypeOK
  OBVIOUS
<1>1. row \in Rows /\ snap \in [Owners -> Rows]
  BY NoRowType DEF Init, StoreInit
<1>2. lease \in Leases
  BY DEF Init, StoreInit, NoLease, Leases
<1>3. expired \in BOOLEAN /\ token \in BOOLEAN
  BY Zenon DEF Init, StoreInit
<1>5. faults \in 0 .. MaxFaults /\ delivered \in 0 .. FullAmount /\ sends \in Nat /\ refs \in Nat
  BY DEF Init, StoreInit
<1>4. /\ pc \in [Owners -> Labels]
      /\ kind \in [Owners -> Kinds]
      /\ cb \in [Owners -> Callbacks \cup {None}]
      /\ sess \in [Owners -> Sessions]
  BY DEF Init, Kinds, Sessions
<1>7. QED
  BY <1>1, <1>2, <1>3, <1>4, <1>5 DEF Init, TypeOK, Sessions

-----------------------------------------------------------------------------

LEMMA CreateType ==
  ASSUME TypeOK, NEW o \in Owners, Create(o)
  PROVE  TypeOK'
<1>1. CASE CreateClaim(o)
  <2>1. lease' \in Leases
    BY <1>1, TakeType DEF CreateClaim, TypeOK
  <2>2. CASE ~Available
    BY <1>1, <2>1, <2>2, FinishType DEF CreateClaim, TypeOK, provider, history
  <2>3. CASE Available
    BY <1>1, <2>1, <2>3 DEF CreateClaim, TypeOK, Goto, provider, history
  <2>4. QED
    BY <2>2, <2>3
<1>2. CASE CreateIncoming(o)
  <2>1. CASE pc[o] = "c_alive" /\ CheckAlive(o, "c_incoming", "c_fail")
    BY <2>1, CheckAliveType
  <2>2. CASE pc[o] = "c_incoming"
    <3>1. faults' \in 0 .. MaxFaults
      BY <1>2, <2>2 DEF CreateIncoming, Fault, TypeOK
    <3>2. QED
      BY <1>2, <2>2, <3>1 DEF CreateIncoming, Goto, TypeOK, store, history
  <2>3. QED
    BY <1>2, <2>1, <2>2 DEF CreateIncoming
<1>3. CASE RecordIncoming(o)
  <2>1. [row EXCEPT !.incoming_payment_url = TRUE] \in Rows
    BY DEF TypeOK, Rows
  <2>2. QED
    BY <1>3, <2>1, UpdateType DEF RecordIncoming
<1>4. CASE RecordQuote(o)
  <2>1. [row EXCEPT !.quote_url = TRUE] \in Rows
    BY DEF TypeOK, Rows
  <2>2. CASE ~expired
    BY <1>4, <2>1, <2>2, UpdateType DEF RecordQuote
  <2>3. CASE expired
    BY <1>4, <2>3, LocalType DEF RecordQuote, TypeOK
  <2>4. QED
    BY <2>2, <2>3
<1>5. CASE RequestConsent(o)
  <2>1. CASE pc[o] = "c_grant" /\ CheckAlive(o, "c_session", "c_fail")
    BY <2>1, CheckAliveType
  <2>2. CASE pc[o] = "c_session"
    <3>1. faults' \in 0 .. MaxFaults
      BY <1>5, <2>2 DEF RequestConsent, Fault, TypeOK
    <3>2. QED
      BY <1>5, <2>2, <3>1 DEF RequestConsent, Goto, TypeOK, Sessions, store, provider, history
  <2>3. CASE pc[o] = "c_await"
    <3>1. [row EXCEPT !.status = "AWAITING_AUTHORIZATION", !.next_attempt_at = "later"] \in Rows
      BY DEF TypeOK, Rows, Statuses, Preparing
    <3>2. QED
      BY <1>5, <2>3, <3>1, UpdateType DEF RequestConsent
  <2>4. QED
    BY <1>5, <2>1, <2>2, <2>3 DEF RequestConsent
<1>6. CASE CreateFails(o)
  <2>1. \A s \in {"EXPIRED", "FAILED"} : [row EXCEPT !.status = s, !.next_attempt_at = "due"] \in Rows
    BY DEF TypeOK, Rows, Statuses, Terminal
  <2>2. CASE pc[o] = "c_delete"
    BY <1>6, <2>2, DeleteSessionType DEF CreateFails
  <2>3. CASE pc[o] = "c_fail"
    <3>1. PICK s \in {"EXPIRED", "FAILED"} :
            Write(o, {"CREATING"}, [row EXCEPT !.status = s, !.next_attempt_at = "due"],
                  "c_delete", "c_delete", "release")
      BY <1>6, <2>3 DEF CreateFails
    <3>2. QED
      BY <2>1, <3>1, WriteType
  <2>4. QED
    BY <1>6, <2>2, <2>3 DEF CreateFails
<1>7. QED
  BY <1>1, <1>2, <1>3, <1>4, <1>5, <1>6 DEF Create

LEMMA CallbackType ==
  ASSUME TypeOK, NEW o \in Owners, HandleCallback(o)
  PROVE  TypeOK'
<1>1. CASE CallbackClaim(o)
  <2>1. lease' \in Leases
    BY <1>1, TakeType DEF CallbackClaim, TypeOK
  <2>2. CASE ~Available
    BY <1>1, <2>1, <2>2, FinishType DEF CallbackClaim, TypeOK, provider, history
  <2>3. CASE Available
    <3>1. kind' \in [Owners -> Kinds] /\ pc' \in [Owners -> Labels] /\ snap' \in [Owners -> Rows]
      BY <1>1, <2>3 DEF CallbackClaim, TypeOK, Goto, Kinds
    <3>2. QED
      BY <1>1, <2>1, <2>3, <3>1 DEF CallbackClaim, TypeOK, provider, history
  <2>4. QED
    BY <2>2, <2>3
<1>2. CASE ReadSession(o)
  BY <1>2 DEF ReadSession, TypeOK, Goto, store, provider, history
<1>3. CASE BindCallback(o)
  <2>1. [row EXCEPT !.status = "FINALIZING", !.callback_fingerprint = cb[o],
                    !.next_attempt_at = "later"] \in Rows
    BY DEF TypeOK, Rows, Statuses, Preparing
  <2>2. QED
    BY <1>3, <2>1, UpdateType DEF BindCallback
<1>4. CASE Continue(o)
  <2>1. CASE pc[o] = "h_alive" /\ CheckAlive(o, "h_continue", "h_fail")
    BY <2>1, CheckAliveType
  <2>2. CASE pc[o] = "h_continue"
    <3>1. refs' \in Nat
      BY <1>4, <2>2 DEF Continue, TypeOK
    <3>2. pc' \in [Owners -> Labels]
      BY <1>4, <2>2 DEF Continue, Goto, TypeOK
    <3>3. QED
      BY <1>4, <2>2, <3>1, <3>2 DEF Continue, TypeOK, store, provider
  <2>3. QED
    BY <1>4, <2>1, <2>2 DEF Continue
<1>5. CASE ConsentPending(o)
  <2>1. CASE pc[o] = "h_save"
    <3>1. faults' \in 0 .. MaxFaults
      BY <1>5, <2>1 DEF ConsentPending, Fault, TypeOK
    <3>2. QED
      BY <1>5, <2>1, <3>1
         DEF ConsentPending, NextSession, Goto, TypeOK, Sessions, store, provider, history
  <2>2. CASE pc[o] = "h_await"
    <3>1. [row EXCEPT !.status = "AWAITING_AUTHORIZATION", !.next_attempt_at = "later"] \in Rows
      BY DEF TypeOK, Rows, Statuses, Preparing
    <3>2. QED
      BY <1>5, <2>2, <3>1, UpdateType DEF ConsentPending
  <2>3. QED
    BY <1>5, <2>1, <2>2 DEF ConsentPending
<1>6. CASE ConsentFinal(o)
  <2>1. CASE pc[o] = "h_store"
    <3>1. faults' \in 0 .. MaxFaults
      BY <1>6, <2>1 DEF ConsentFinal, Fault, TypeOK
    <3>2. token' \in BOOLEAN
      BY <1>6, <2>1, Zenon DEF ConsentFinal, TypeOK
    <3>3. pc' \in [Owners -> Labels]
      BY <1>6, <2>1 DEF ConsentFinal, Goto, TypeOK
    <3>4. QED
      BY <1>6, <2>1, <3>1, <3>2, <3>3 DEF ConsentFinal, TypeOK, store, provider, history
  <2>2. CASE pc[o] = "h_authorize"
    <3>1. [row EXCEPT !.status = "AUTHORIZED", !.next_attempt_at = "due"] \in Rows
      BY DEF TypeOK, Rows, Statuses, Preparing
    <3>2. QED
      BY <1>6, <2>2, <3>1, UpdateType DEF ConsentFinal
  <2>3. QED
    BY <1>6, <2>1, <2>2 DEF ConsentFinal
<1>7. CASE CallbackFails(o)
  <2>1. [row EXCEPT !.status = "FAILED", !.next_attempt_at = "due"] \in Rows
    BY DEF TypeOK, Rows, Statuses, Terminal
  <2>2. QED
    BY <1>7, <2>1, WriteType, DeleteSessionType DEF CallbackFails
<1>8. QED
  BY <1>1, <1>2, <1>3, <1>4, <1>5, <1>6, <1>7 DEF HandleCallback

LEMMA NextLabels ==
  ASSUME NEW o \in Owners, NEW STATE t
  PROVE  /\ SettleLabel(t) \in Labels
         /\ WorkLabel(o, t) \in Labels
         /\ AfterSubmit(o, t) \in Labels
         /\ SubmitThrows(o) \in Labels
         /\ CleanupLabel(t) \in Labels
<1>1. SettleLabel(t) \in Labels
  BY DEF SettleLabel
<1>2. WorkLabel(o, t) \in Labels
  BY <1>1 DEF WorkLabel
<1>3. AfterSubmit(o, t) \in Labels
  BY <1>2 DEF AfterSubmit
<1>4. SubmitThrows(o) \in Labels
  BY DEF SubmitThrows
<1>5. CleanupLabel(t) \in Labels
  BY DEF CleanupLabel
<1>6. QED
  BY <1>1, <1>2, <1>3, <1>4, <1>5

LEMMA UpdateInSubmitType ==
  ASSUME TypeOK, NEW o \in Owners, NEW STATE new, new \in Rows, UpdateInSubmit(o, new)
  PROVE  TypeOK'
  BY NextLabels, UpdateType DEF UpdateInSubmit

(* The row recordOutgoing writes. *)
LEMMA RecordOutgoingType ==
  ASSUME TypeOK, NEW o \in Owners, NEW STATE ok, NEW STATE err, ok \in Labels, err \in Labels,
         RecordOutgoing(o, ok, err)
  PROVE  TypeOK'
<1>1. PICK amount \in 0 .. delivered, failed \in {FALSE, payment = "failed"} :
        Update(o, [row EXCEPT !.outgoing_payment_url = TRUE,
                              !.sent_amount = amount,
                              !.provider_failed = snap[o].provider_failed \/ failed,
                              !.status = "PENDING",
                              !.reconciliation_required = FALSE,
                              !.next_attempt_at = "due"], ok, err)
  BY DEF RecordOutgoing
<1>2. amount \in 0 .. FullAmount
  BY DEF TypeOK
<1>3. (snap[o].provider_failed \/ failed) \in BOOLEAN
  BY Zenon
<1>4. [row EXCEPT !.outgoing_payment_url = TRUE,
                  !.sent_amount = amount,
                  !.provider_failed = snap[o].provider_failed \/ failed,
                  !.status = "PENDING",
                  !.reconciliation_required = FALSE,
                  !.next_attempt_at = "due"] \in Rows
  BY <1>2, <1>3 DEF TypeOK, Rows, Statuses, Instructed
<1>5. QED
  BY <1>1, <1>4, UpdateType

LEMMA SubmitType ==
  ASSUME TypeOK, NEW o \in Owners, Submit(o)
  PROVE  TypeOK'
<1>1. \A s \in {"EXPIRED", "FAILED"} :
        /\ [row EXCEPT !.status = s, !.next_attempt_at = "due"] \in Rows
        /\ [row EXCEPT !.status = s, !.reconciliation_required = FALSE,
                       !.next_attempt_at = "due"] \in Rows
  BY DEF TypeOK, Rows, Statuses, Terminal
<1>2. UnknownRow \in Rows
  BY DEF UnknownRow, TypeOK, Rows, Statuses, Instructed
<1>3. [row EXCEPT !.status = "SUBMITTING", !.next_attempt_at = "later"] \in Rows
  BY DEF TypeOK, Rows, Statuses, Instructed
<1>4. CASE CheckSubmit(o)
  <2>1. CASE UpdateInSubmit(o, [row EXCEPT !.status = "EXPIRED", !.next_attempt_at = "due"])
    BY <1>1, <2>1, UpdateInSubmitType
  <2>2. CASE UpdateInSubmit(o, [row EXCEPT !.status = "FAILED", !.next_attempt_at = "due"])
    BY <1>1, <2>2, UpdateInSubmitType
  <2>3. CASE CheckAlive(o, "s_submit", SubmitThrows(o))
    BY <2>3, NextLabels, CheckAliveType
  <2>4. CASE Local(o, SubmitThrows(o)) /\ UNCHANGED faults
    BY <2>4, NextLabels, LocalType DEF TypeOK
  <2>5. QED
    BY <1>4, <2>1, <2>2, <2>3, <2>4 DEF CheckSubmit
<1>5. CASE MarkSubmitting(o)
  BY <1>3, <1>5, NextLabels, UpdateType DEF MarkSubmitting
<1>6. CASE Send(o)
  <2>1. faults' \in 0 .. MaxFaults /\ sends' \in Nat
    BY <1>6 DEF Send, Fault, TypeOK
  <2>2. pc' \in [Owners -> Labels] /\ request' \in {"none", "sent", "accepted", "refused"}
    BY <1>6 DEF Send, Goto, TypeOK
  <2>3. QED
    BY <1>6, <2>1, <2>2 DEF Send, TypeOK, store
<1>7. CASE Answer(o)
  <2>1. CASE \E s \in {"EXPIRED", "FAILED"} :
               UpdateInSubmit(o, [row EXCEPT !.status = s, !.reconciliation_required = FALSE,
                                             !.next_attempt_at = "due"])
    BY <1>1, <2>1, UpdateInSubmitType
  <2>2. CASE RecordOutgoing(o, "s_delete", "s_unknown")
    BY <2>2, RecordOutgoingType
  <2>3. CASE Local(o, "s_unknown") /\ UNCHANGED faults
    BY <2>3, LocalType DEF TypeOK
  <2>4. QED
    BY <1>7, <2>1, <2>2, <2>3 DEF Answer
<1>8. CASE OutcomeUnknown(o)
  BY <1>2, <1>8, UpdateInSubmitType DEF OutcomeUnknown
<1>9. CASE DeleteSession(o, AfterSubmit(o, snap[o]))
  BY <1>9, NextLabels, DeleteSessionType
<1>10. QED
  BY <1>4, <1>5, <1>6, <1>7, <1>8, <1>9 DEF Submit

LEMMA MaintainType ==
  ASSUME TypeOK, NEW o \in Owners, Maintain(o)
  PROVE  TypeOK'
<1>1. CASE AgeOut(o)
  <2>1. Interrupted \in Rows
    BY DEF Interrupted, TypeOK, Rows, Statuses, Terminal, Instructed
  <2>2. [row EXCEPT !.status = "EXPIRED"] \in Rows
    BY DEF TypeOK, Rows, Statuses, Terminal
  <2>3. CASE Update(o, Interrupted, WorkLabel(o, Interrupted), "release")
    BY <2>1, <2>3, NextLabels, UpdateType
  <2>4. CASE Update(o, [row EXCEPT !.status = "EXPIRED"], "k_delete", "release")
    BY <2>2, <2>4, UpdateType
  <2>5. CASE Local(o, WorkLabel(o, snap[o])) /\ UNCHANGED faults
    BY <2>5, NextLabels, LocalType DEF TypeOK
  <2>6. QED
    BY <1>1, <2>3, <2>4, <2>5 DEF AgeOut
<1>2. CASE ReadOutgoing(o)
  <2>1. [row EXCEPT !.reconciliation_required = TRUE] \in Rows
    BY DEF TypeOK, Rows
  <2>2. CASE RecordOutgoing(o, "r_incoming", "m_catch")
    BY <2>2, RecordOutgoingType
  <2>3. CASE Update(o, [row EXCEPT !.reconciliation_required = TRUE], "m_defer", "m_catch")
    BY <2>1, <2>3, UpdateType
  <2>4. CASE Local(o, "m_catch") /\ UNCHANGED faults
    BY <2>4, LocalType DEF TypeOK
  <2>5. QED
    BY <1>2, <2>2, <2>3, <2>4 DEF ReadOutgoing
<1>3. CASE ReadIncoming(o)
  <2> DEFINE New(closed) ==
               [row EXCEPT !.received_amount = delivered,
                           !.incoming_completed_at = snap[o].incoming_completed_at \/ closed,
                           !.status = ReceiptStatus(o, closed),
                           !.reconciliation_required = FALSE]
  <2>0. CASE Local(o, "m_catch") /\ UNCHANGED faults
    BY <2>0, LocalType DEF TypeOK
  <2> SUFFICES ASSUME \E closed \in {FALSE, incoming # "open"} :
                        Update(o, New(closed), SettleLabel(New(closed)), "m_catch")
               PROVE  TypeOK'
    BY <1>3, <2>0 DEF ReadIncoming
  <2>1. PICK closed \in {FALSE, incoming # "open"} :
          Update(o, New(closed), SettleLabel(New(closed)), "m_catch")
    OBVIOUS
  <2>2. (snap[o].incoming_completed_at \/ closed) \in BOOLEAN
    BY Zenon
  <2>3. ReceiptStatus(o, closed) \in Statuses
    BY DEF ReceiptStatus, Statuses, Terminal, Instructed
  <2>4. New(closed) \in Rows
    BY <2>2, <2>3 DEF TypeOK, Rows
  <2> HIDE DEF New
  <2>5. QED
    BY <2>1, <2>4, NextLabels, UpdateType
<1>4. CASE RefreshFails(o)
  <2>1. CASE pc[o] = "m_catch"
    <3>1. faults' \in 0 .. MaxFaults
      BY <1>4, <2>1 DEF RefreshFails, Fault, TypeOK
    <3>2. snap' \in [Owners -> Rows] /\ pc' \in [Owners -> Labels]
      BY <1>4, <2>1 DEF RefreshFails, Goto, TypeOK
    <3>3. QED
      BY <1>4, <2>1, <3>1, <3>2 DEF RefreshFails, TypeOK, store, provider, history
  <2>2. CASE pc[o] = "m_flag"
    <3>1. PICK needsHelp \in BOOLEAN : Update(o, Flagged(o, needsHelp), SettleLabel(row), "release")
      BY <1>4, <2>2 DEF RefreshFails
    <3>2. (snap[o].reconciliation_required \/ needsHelp) \in BOOLEAN
      BY Zenon
    <3>3. Flagged(o, needsHelp) \in Rows
      BY <3>2 DEF Flagged, TypeOK, Rows
    <3>4. QED
      BY <3>1, <3>3, NextLabels, UpdateType
  <2>3. QED
    BY <1>4, <2>1, <2>2 DEF RefreshFails
<1>5. CASE Defer(o)
  <2>1. [row EXCEPT !.next_attempt_at = "later"] \in Rows
    BY DEF TypeOK, Rows
  <2>2. QED
    BY <1>5, <2>1, UpdateType DEF Defer
<1>6. QED
  BY <1>1, <1>2, <1>3, <1>4, <1>5 DEF Maintain

LEMMA CleanupType ==
  ASSUME TypeOK, NEW o \in Owners, Cleanup(o)
  PROVE  TypeOK'
<1>1. CASE DeleteSession(o, CleanupLabel(snap[o]))
  BY <1>1, NextLabels, DeleteSessionType
<1>2. CASE CompleteIncoming(o)
  <2>1. CASE pc[o] = "k_alive"
    BY <1>2, <2>1, CheckAliveType, LocalType DEF CompleteIncoming, TypeOK
  <2>2. CASE pc[o] = "k_complete"
    <3>1. faults' \in 0 .. MaxFaults
      BY <1>2, <2>2 DEF CompleteIncoming, Fault, TypeOK
    <3>2. QED
      BY <1>2, <2>2, <3>1 DEF CompleteIncoming, Goto, TypeOK, store, history
  <2>3. CASE pc[o] = "k_commit"
    <3>1. [row EXCEPT !.incoming_completed_at = TRUE] \in Rows
      BY DEF TypeOK, Rows
    <3>2. QED
      BY <1>2, <2>3, <3>1, UpdateType DEF CompleteIncoming
  <2>4. QED
    BY <1>2, <2>1, <2>2, <2>3 DEF CompleteIncoming
<1>3. CASE ClearCredentials(o)
  <2>1. token' \in BOOLEAN
    BY <1>3, Zenon DEF ClearCredentials, TypeOK
  <2>2. pc' \in [Owners -> Labels]
    <3>1. PICK label \in {"k_done", "k_again", "release"} : Goto(o, label)
      BY <1>3, Zenon DEF ClearCredentials
    <3>2. label \in Labels
      OBVIOUS
    <3> QED BY <3>1, <3>2 DEF Goto, TypeOK
  <2>3. QED
    BY <1>3, <2>1, <2>2 DEF ClearCredentials, TypeOK, store, provider, history
<1>4. CASE CloseCleanup(o)
  <2>1. /\ [row EXCEPT !.next_attempt_at = "null"] \in Rows
        /\ [row EXCEPT !.cleanup_state = "DONE", !.next_attempt_at = "null"] \in Rows
        /\ CleanupAgain \in Rows
    BY DEF CleanupAgain, TypeOK, Rows
  <2>2. QED
    BY <1>4, <2>1, UpdateType DEF CloseCleanup
<1>5. QED
  BY <1>1, <1>2, <1>3, <1>4 DEF Cleanup

LEMMA ReleaseType ==
  ASSUME TypeOK, NEW o \in Owners, Release(o)
  PROVE  TypeOK'
<1>1. lease' \in Leases
  <2>1. NoLease \in Leases
    BY DEF NoLease, Leases
  <2>2. QED
    BY <2>1 DEF Release, Drop, TypeOK
<1>2. faults' \in 0 .. MaxFaults
  BY DEF Release, Fault, TypeOK
<1>3. QED
  BY <1>1, <1>2, FinishType DEF Release, TypeOK, provider, history

LEMMA ArrivalType ==
  ASSUME TypeOK, NEW o \in Owners, Arrival(o) \/ ClaimDue(o)
  PROVE  TypeOK'
<1>1. CASE Reserve(o)
  <2>1. [NoRow EXCEPT !.status = "CREATING", !.next_attempt_at = "later"] \in Rows
    BY NoRowType DEF Rows, Statuses, Preparing
  <2>2. QED
    BY <1>1, <2>1 DEF Reserve, Insert, Begin, Goto, TypeOK, Kinds, provider, history
<1>2. CASE \E k \in {"poll", "worker"} : ClaimFor(o, k)
  <2>1. PICK k \in {"poll", "worker"} : ClaimFor(o, k)
    BY <1>2
  <2>2. lease' \in Leases
    BY <2>1, TakeType DEF ClaimFor
  <2>3. QED
    BY <2>1, <2>2 DEF ClaimFor, Begin, Goto, TypeOK, Kinds, provider, history
<1>3. CASE \E c \in Callbacks : Callback(o, c)
  BY <1>3 DEF Callback, Begin, Goto, TypeOK, Kinds, store, provider, history
<1>4. QED
  BY <1>1, <1>2, <1>3 DEF Arrival, Poll, ClaimDue

LEMMA EnvironmentType ==
  ASSUME TypeOK, Lapse \/ Provider \/ Clock \/ \E o \in Owners : Crash(o) \/ HeartbeatStalls(o)
  PROVE  TypeOK'
<1>1. CASE Lapse
  BY <1>1 DEF Lapse, TypeOK, Leases, local, provider, history
<1>2. CASE Provider
  <2>1. /\ request' \in {"none", "sent", "accepted", "refused"}
        /\ payment' \in {"none", "open", "failed"}
        /\ incoming' \in {"none", "open", "completed", "expired"}
        /\ delivered' \in 0 .. FullAmount
    BY <1>2 DEF Provider, Accept, Refuse, Deliver, PaymentFails, IncomingExpires, TypeOK
  <2>2. QED
    BY <1>2, <2>1 DEF Provider, TypeOK, store, local, history
<1>3. CASE Clock
  <2>1. row' \in Rows
    BY <1>3 DEF Clock, Age, FallDue, Expire, TypeOK, Rows
  <2>2. expired' \in BOOLEAN
    BY <1>3, Zenon DEF Clock, Age, FallDue, Expire, TypeOK
  <2>3. lease' \in Leases /\ faults' \in 0 .. MaxFaults
    BY <1>3 DEF Clock, Age, FallDue, Expire, TypeOK
  <2>4. QED
    BY <1>3, <2>1, <2>2, <2>3 DEF Clock, TypeOK, local, provider, history
<1>4. CASE \E o \in Owners : Crash(o) \/ HeartbeatStalls(o)
  <2>1. PICK o \in Owners : Crash(o) \/ HeartbeatStalls(o)
    BY <1>4
  <2>2. faults' \in 0 .. MaxFaults
    BY <2>1 DEF Crash, HeartbeatStalls, Fault, TypeOK
  <2>3. CASE Crash(o)
    BY <2>2, <2>3, FinishType DEF Crash, TypeOK, store, provider, history
  <2>4. CASE HeartbeatStalls(o)
    BY <2>2, <2>4 DEF HeartbeatStalls, TypeOK, Leases, local, provider, history
  <2>5. QED
    BY <2>1, <2>3, <2>4
<1>5. QED
  BY <1>1, <1>2, <1>3, <1>4

(* Every reachable state of Transfer is well typed. *)
THEOREM TypeCorrect == Spec => []TypeOK
<1>1. TypeOK /\ [Next]_vars => TypeOK'
  <2>1. CASE Next
    BY <2>1, CreateType, CallbackType, SubmitType, MaintainType, CleanupType, ReleaseType,
       ArrivalType, EnvironmentType
       DEF Next, Step
  <2>2. CASE UNCHANGED vars
    BY <2>2 DEF vars, TypeOK, store, local, provider, history
  <2>3. QED
    BY <2>1, <2>2
<1>2. QED
  BY <1>1, InitType, PTL DEF Spec

-----------------------------------------------------------------------------
(* Safety: what the invariant reads of the row, and how steps keep it.     *)

Early == {"h_claim", "h_session", "h_finalize"}

(* s and t agree on all the invariant reads of a row. *)
SameRow(s, t) ==
  /\ s.status = t.status
  /\ s.callback_fingerprint = t.callback_fingerprint
  /\ s.provider_failed = t.provider_failed

LEMMA StampedSame ==
  ASSUME NEW STATE new, new \in Rows
  PROVE  SameRow(Stamped(new), new)
  BY DEF Stamped, Rows, SameRow

LEMMA SameKeeps ==
  ASSUME NEW STATE s, NEW STATE t, SameRow(s, t)
  PROVE  /\ RowOK(t) => RowOK(s)
         /\ Evidence(t) => Evidence(s)
         /\ \A l : LabelRow(l, t) => LabelRow(l, s)
         /\ \A l : LabelSnap(l, t) => LabelSnap(l, s)
<1>1. Evidence(t) => Evidence(s)
  BY DEF SameRow, Evidence
<1>2. RowOK(t) => RowOK(s)
  BY <1>1 DEF SameRow, RowOK, Abandoned
<1>3. \A l : LabelRow(l, t) => LabelRow(l, s)
  BY DEF SameRow, LabelRow
<1>4. \A l : LabelSnap(l, t) => LabelSnap(l, s)
  BY DEF SameRow, LabelSnap
<1>5. QED
  BY <1>1, <1>2, <1>3, <1>4

-----------------------------------------------------------------------------
(* Two shapes cover almost every step: a process moves on and the row is   *)
(* as good as unchanged, or it writes the row.                             *)

LEMMA MoveKeeps ==
  ASSUME TypeOK, IInv, NEW o \in Owners, NEW STATE label, Goto(o, label),
         SameRow(row', row),
         UNCHANGED <<request, payment, delivered, sends>>,
         \A p \in Owners \ {o} : snap'[p] = snap[p] /\ cb'[p] = cb[p],
         label \in Creating => pc[o] \in Creating,
         label # "s_send",
         LabelSnap(label, snap'[o]),
         Evidence(snap'[o]),
         label \in Early => cb'[o] \in Callbacks
  PROVE  IInv'
<1>1. \A p \in Owners : pc'[p] = IF p = o THEN label ELSE pc[p]
  BY DEF Goto, TypeOK
<1>2. Evidence(row)'
  BY DEF IInv, RowOK, Evidence, SameRow
<1>3. RowOK(row)'
  BY <1>2 DEF IInv, RowOK, Abandoned, SameRow
<1>4. ProviderOK'
  BY DEF IInv, ProviderOK
<1>5. Alone'
  BY <1>1 DEF IInv, Alone
<1>6. ASSUME NEW p \in Owners PROVE ProcessOK(p)'
  <2>1. LabelRow(pc[p], row)'
    <3>1. LabelRow(pc[p], row) /\ LabelRow(pc[o], row)
      BY DEF IInv, ProcessOK
    <3>2. QED
      BY <1>1, <3>1 DEF LabelRow, SameRow
  <2>2. CASE p = o
    BY <1>1, <2>1, <2>2 DEF ProcessOK, LabelSnap, Evidence, Early
  <2>3. CASE p # o
    <3>1. ProcessOK(p) /\ snap'[p] = snap[p] /\ cb'[p] = cb[p] /\ pc'[p] = pc[p]
      BY <1>1, <2>3 DEF IInv
    <3>2. QED
      BY <2>1, <3>1 DEF ProcessOK, LabelSnap, Evidence
  <2>4. QED
    BY <2>2, <2>3
<1>7. QED
  BY <1>3, <1>4, <1>5, <1>6 DEF IInv

(* The row the write leaves suits the provider and every other process. *)
Fits(o, new) ==
  RowOK(new) /\ \A p \in Owners \ {o} : LabelRow(pc[p], new)

LEMMA WriteKeeps ==
  ASSUME TypeOK, IInv, NEW o \in Owners, NEW STATE expected, NEW STATE new, new \in Rows,
         NEW STATE ok, NEW STATE none, NEW STATE err,
         Write(o, expected, new, ok, none, err),
         {none, err} \cap (Creating \cup Early \cup {"s_send"}) = {},
         LabelSnap(none, snap[o]),
         LabelSnap(err, snap[o]),
         ok \notin Early,
         row.status \in expected => /\ Fits(o, new)
                                    /\ LabelRow(ok, new)
                                    /\ LabelSnap(ok, new)
                                    /\ ok \in Creating => pc[o] \in Creating
                                    /\ ok = "s_send" => \A p \in Owners : pc[p] # "s_send"
  PROVE  IInv'
<1> DEFINE S == Stamped(new)
<1>a. UNCHANGED <<request, payment, delivered, sends, cb>>
  BY DEF Write, provider, history
<1>b. SameRow(S, new) /\ S \in Rows
  BY StampedSame, StampedType
<1>1. ASSUME NEW STATE label, pc' = [pc EXCEPT ![o] = label], UNCHANGED <<row, snap>>,
             label \in {none, err}
      PROVE  IInv'
  <2>1. LabelSnap(label, snap'[o]) /\ label \notin Creating \cup Early \cup {"s_send"}
    BY <1>1
  <2>2. Evidence(snap'[o])
    BY <1>1 DEF IInv, ProcessOK
  <2>3. SameRow(row', row)
    BY <1>1 DEF SameRow
  <2>4. QED
    BY <1>a, <1>1, <2>1, <2>2, <2>3, MoveKeeps DEF Goto
<1>2. ASSUME NEW STATE label, pc' = [pc EXCEPT ![o] = label], row' = S, row.status \in expected,
             snap' = [snap EXCEPT ![o] = S] \/ UNCHANGED snap,
             \/ label = ok /\ snap'[o] = S
             \/ label = err /\ snap' = snap
      PROVE  IInv'
  <2>1. \A p \in Owners : pc'[p] = IF p = o THEN label ELSE pc[p]
    BY <1>2 DEF TypeOK
  <2>2. /\ RowOK(S) /\ Evidence(S)
        /\ \A p \in Owners \ {o} : LabelRow(pc[p], S)
        /\ LabelRow(ok, S)
        /\ LabelSnap(ok, S)
    BY <1>b, <1>2, SameKeeps DEF Fits, RowOK
  <2>3. RowOK(row)'
    BY <1>a, <1>2, <2>2 DEF RowOK, Evidence
  <2>4. ProviderOK'
    BY <1>a DEF IInv, ProviderOK
  <2>5. Alone'
    BY <1>2, <2>1 DEF IInv, Alone
  <2>6. ASSUME NEW p \in Owners PROVE ProcessOK(p)'
    <3>1. CASE p = o
      <4>1. LabelRow(label, S)
        BY <1>2, <2>2 DEF LabelRow
      <4>2. LabelSnap(label, snap'[o]) /\ Evidence(snap'[o])
        BY <1>2, <2>2 DEF IInv, ProcessOK
      <4>3. label \notin Early
        BY <1>2
      <4>4. QED
        BY <1>a, <1>2, <2>1, <3>1, <4>1, <4>2, <4>3
           DEF ProcessOK, LabelRow, LabelSnap, Evidence, Early
    <3>2. CASE p # o
      <4>1. ProcessOK(p) /\ snap'[p] = snap[p] /\ cb'[p] = cb[p] /\ pc'[p] = pc[p]
        BY <1>a, <1>2, <2>1, <3>2 DEF IInv, TypeOK
      <4>2. LabelRow(pc[p], S)
        BY <2>2, <3>2
      <4>3. QED
        BY <1>a, <1>2, <4>1, <4>2 DEF ProcessOK, LabelRow, LabelSnap, Evidence
    <3>3. QED
      BY <3>1, <3>2
  <2>7. QED
    BY <2>3, <2>4, <2>5, <2>6 DEF IInv
<1>3. CASE CanTransition(o, expected, new) /\ row' = S /\ snap' = [snap EXCEPT ![o] = S] /\ Goto(o, ok)
  <2>1. snap'[o] = S
    BY <1>3 DEF TypeOK
  <2>2. QED
    BY <1>2, <1>3, <2>1 DEF Goto, CanTransition
<1>4. CASE \E label \in {none, err} : Goto(o, label) /\ UNCHANGED <<row, snap>>
  BY <1>1, <1>4 DEF Goto
<1>5. CASE Goto(o, err) /\ CanTransition(o, expected, new) /\ row' = S /\ UNCHANGED snap
  BY <1>2, <1>5 DEF Goto, CanTransition
<1>6. QED
  BY <1>3, <1>4, <1>5 DEF Write

(* A write that leaves the status, the callback and the failure alone. *)
LEMMA QuietKeeps ==
  ASSUME TypeOK, IInv, NEW o \in Owners, NEW STATE new, new \in Rows, SameRow(new, row),
         NEW STATE ok, NEW STATE err,
         Update(o, new, ok, err),
         err \notin Creating \cup Early \cup {"s_send"},
         LabelSnap(err, snap[o]),
         ok \notin Early \cup {"s_send"},
         ok \in Creating => pc[o] \in Creating,
         snap[o].status = row.status => LabelSnap(ok, row)
  PROVE  IInv'
<1>1. Fits(o, new)
  BY SameKeeps DEF IInv, ProcessOK, Fits
<1>2. LabelRow(ok, new)
  <2>1. LabelRow(pc[o], row)
    BY DEF IInv, ProcessOK
  <2>2. LabelRow(ok, row)
    BY <2>1 DEF LabelRow
  <2>3. QED
    BY <2>2, SameKeeps
<1>3. row.status \in {snap[o].status} => LabelSnap(ok, new)
  BY SameKeeps
<1>4. QED
  BY <1>1, <1>2, <1>3, WriteKeeps DEF Update

(* The labels that rely on nothing. *)
Free == {"idle", "release", "c_fail", "c_delete", "h_fail", "h_delete", "s_delete",
         "m_age", "m_catch", "m_flag", "m_defer"} \cup CleanupLabels

LEMMA FreeLabels ==
  ASSUME NEW STATE l, l \in Free
  PROVE  /\ l \notin Creating \cup Early \cup {"s_send"}
         /\ \A t : LabelSnap(l, t) /\ LabelRow(l, t)
<1>1. l \notin Creating \cup Early \cup {"s_send"}
  BY DEF Free, Creating, Early
<1>2. ASSUME NEW t PROVE LabelRow(l, t)
  BY <1>1 DEF LabelRow
<1>3. ASSUME NEW t PROVE LabelSnap(l, t)
  BY <1>1 DEF Free, LabelSnap, Early
<1>4. QED
  BY <1>1, <1>2, <1>3

(* A write after which the process relies on nothing. *)
LEMMA FreeWriteKeeps ==
  ASSUME TypeOK, IInv, NEW o \in Owners, NEW STATE expected, NEW STATE new, new \in Rows,
         NEW STATE ok, NEW STATE none, NEW STATE err,
         Write(o, expected, new, ok, none, err),
         ok \in Free, none \in Free, err \in Free,
         row.status \in expected => Fits(o, new)
  PROVE  IInv'
<1>1. {none, err} \cap (Creating \cup Early \cup {"s_send"}) = {}
  BY FreeLabels
<1>2. /\ LabelSnap(none, snap[o]) /\ LabelSnap(err, snap[o])
      /\ LabelSnap(ok, new) /\ LabelRow(ok, new)
      /\ ok \notin Creating \cup Early \cup {"s_send"}
  BY FreeLabels
<1>3. QED
  BY <1>1, <1>2, WriteKeeps

(* A process that only moves on. *)
LEMMA LocalKeeps ==
  ASSUME TypeOK, IInv, NEW o \in Owners, NEW STATE label, Goto(o, label),
         UNCHANGED <<row, snap, cb, request, payment, delivered, sends>>,
         label \in Creating => pc[o] \in Creating,
         label \notin Early \cup {"s_send"},
         LabelSnap(label, snap[o])
  PROVE  IInv'
<1>1. SameRow(row', row)
  BY DEF SameRow
<1>2. Evidence(snap'[o]) /\ LabelSnap(label, snap'[o])
  BY DEF IInv, ProcessOK
<1>3. QED
  BY <1>1, <1>2, MoveKeeps

(* An operation that is over. *)
LEMMA FinishKeeps ==
  ASSUME TypeOK, IInv, NEW o \in Owners, Finish(o),
         UNCHANGED <<row, request, payment, delivered, sends>>
  PROVE  IInv'
<1>1. snap'[o] = NoRow /\ \A p \in Owners \ {o} : snap'[p] = snap[p] /\ cb'[p] = cb[p]
  BY DEF Finish, TypeOK
<1>2. SameRow(row', row)
  BY DEF SameRow
<1>3. Evidence(snap'[o])
  BY <1>1 DEF Evidence, NoRow
<1>4. "idle" \notin Creating \cup Early /\ LabelSnap("idle", snap'[o])
  BY DEF Creating, Early, LabelSnap
<1>5. QED
  BY <1>1, <1>2, <1>3, <1>4, MoveKeeps DEF Finish

(* An operation that takes the lease reads the row. *)
LEMMA ClaimKeeps ==
  ASSUME TypeOK, IInv, NEW o \in Owners, NEW STATE label, Goto(o, label),
         snap' = [snap EXCEPT ![o] = row],
         UNCHANGED <<row, cb, request, payment, delivered, sends>>,
         label \in Creating => pc[o] \in Creating,
         label # "s_send",
         LabelSnap(label, row),
         label \in Early => cb[o] \in Callbacks
  PROVE  IInv'
<1>1. snap'[o] = row /\ \A p \in Owners \ {o} : snap'[p] = snap[p]
  BY DEF TypeOK
<1>2. SameRow(row', row)
  BY DEF SameRow
<1>3. Evidence(row)
  BY DEF IInv, RowOK
<1>4. QED
  BY <1>1, <1>2, <1>3, MoveKeeps

LEMMA CheckAliveKeeps ==
  ASSUME TypeOK, IInv, NEW o \in Owners, NEW STATE ok, NEW STATE err, CheckAlive(o, ok, err),
         ok \in Creating => pc[o] \in Creating,
         ok \notin Early \cup {"s_send"},
         LabelSnap(ok, snap[o]),
         err \in Free
  PROVE  IInv'
<1>1. CASE Local(o, ok)
  BY <1>1, LocalKeeps DEF Local, store, provider, history
<1>2. CASE Local(o, err)
  BY <1>2, LocalKeeps, FreeLabels DEF Local, store, provider, history
<1>3. QED
  BY <1>1, <1>2 DEF CheckAlive

LEMMA DeleteSessionKeeps ==
  ASSUME TypeOK, IInv, NEW o \in Owners, NEW STATE label, DeleteSession(o, label),
         label \notin Creating \cup Early \cup {"s_send"},
         LabelSnap(label, snap[o])
  PROVE  IInv'
  BY LocalKeeps DEF DeleteSession, store, provider, history

-----------------------------------------------------------------------------
(* create *)

LEMMA ReserveKeeps ==
  ASSUME TypeOK, IInv, NEW o \in Owners, Reserve(o)
  PROVE  IInv'
<1>1. /\ row.status = "NONE"
      /\ row'.status = "CREATING"
      /\ row'.callback_fingerprint = None
      /\ row'.provider_failed = FALSE
      /\ pc[o] = "idle"
      /\ pc' = [pc EXCEPT ![o] = "c_claim"]
      /\ UNCHANGED <<snap, cb, request, payment, delivered, sends>>
  BY DEF Reserve, Insert, NoRow, Begin, Goto, provider, history
<1>2. \A p \in Owners : pc'[p] = IF p = o THEN "c_claim" ELSE pc[p]
  BY <1>1 DEF TypeOK
<1>3. request = "none"
  BY <1>1 DEF IInv, RowOK
<1>4. RowOK(row)'
  BY <1>1, <1>3 DEF RowOK, Evidence, Instructed, Preparing, Abandoned
<1>5. \A p \in Owners : pc[p] \notin Creating \cup {"s_send"}
  BY <1>1 DEF IInv, ProcessOK, LabelRow
<1>6. ProviderOK' /\ Alone'
  BY <1>1, <1>2, <1>5 DEF IInv, ProviderOK, Alone
<1>7. ASSUME NEW p \in Owners PROVE ProcessOK(p)'
  <2>1. LabelRow(pc[p], row)'
    BY <1>1, <1>2, <1>5 DEF LabelRow
  <2>2. LabelSnap(pc[p], snap[p])'
    BY <1>1, <1>2 DEF IInv, ProcessOK, LabelSnap
  <2>3. QED
    BY <1>1, <1>2, <2>1, <2>2 DEF IInv, ProcessOK, Evidence
<1>8. QED
  BY <1>4, <1>6, <1>7 DEF IInv

LEMMA CreateKeeps ==
  ASSUME TypeOK, IInv, NEW o \in Owners, Create(o)
  PROVE  IInv'
<1> USE DEF Creating, Early, Free, LabelSnap
<1>1. LabelRow(pc[o], row) /\ LabelSnap(pc[o], snap[o]) /\ RowOK(row)
  BY DEF IInv, ProcessOK
<1>2. CASE CreateClaim(o)
  <2>1. CASE ~Available
    BY <1>2, <2>1, FinishKeeps DEF CreateClaim, provider, history
  <2>2. CASE Available
    <3>1. pc[o] = "c_claim" /\ LabelSnap("c_alive", row)
      BY <1>1, <1>2 DEF CreateClaim, LabelRow
    <3>2. QED
      BY <1>2, <2>2, <3>1, ClaimKeeps DEF CreateClaim, provider, history
  <2>3. QED
    BY <2>1, <2>2
<1>3. CASE CreateIncoming(o)
  <2>1. CASE pc[o] = "c_alive" /\ CheckAlive(o, "c_incoming", "c_fail")
    BY <1>1, <2>1, CheckAliveKeeps
  <2>2. CASE pc[o] = "c_incoming"
    <3>1. PICK label \in {"c_record", "c_fail"} : Goto(o, label)
      BY <1>3, <2>2 DEF CreateIncoming
    <3>2. UNCHANGED <<row, snap, cb, request, payment, delivered, sends>>
      BY <1>3, <2>2 DEF CreateIncoming, store, history
    <3>3. LabelSnap(label, snap[o])
      BY <1>1, <2>2
    <3>4. QED
      BY <2>2, <3>1, <3>2, <3>3, LocalKeeps
  <2>3. QED
    BY <1>3, <2>1, <2>2 DEF CreateIncoming
<1>4. CASE RecordIncoming(o)
  <2>1. [row EXCEPT !.incoming_payment_url = TRUE] \in Rows
        /\ SameRow([row EXCEPT !.incoming_payment_url = TRUE], row)
    BY DEF TypeOK, Rows, SameRow
  <2>2. snap[o].status = row.status => LabelSnap("c_quote", row)
    BY <1>1, <1>4 DEF RecordIncoming
  <2>3. QED
    BY <1>4, <2>1, <2>2, QuietKeeps DEF RecordIncoming
<1>5. CASE RecordQuote(o)
  <2>1. [row EXCEPT !.quote_url = TRUE] \in Rows
        /\ SameRow([row EXCEPT !.quote_url = TRUE], row)
    BY DEF TypeOK, Rows, SameRow
  <2>2. snap[o].status = row.status => LabelSnap("c_grant", row)
    BY <1>1, <1>5 DEF RecordQuote
  <2>3. CASE Local(o, "c_fail")
    BY <2>3, LocalKeeps DEF Local, store, provider, history
  <2>4. QED
    BY <1>5, <2>1, <2>2, <2>3, QuietKeeps DEF RecordQuote
<1>6. CASE RequestConsent(o)
  <2>1. CASE pc[o] = "c_grant" /\ CheckAlive(o, "c_session", "c_fail")
    BY <1>1, <2>1, CheckAliveKeeps
  <2>2. CASE pc[o] = "c_session"
    <3>1. PICK label \in {"c_await", "c_fail"} : Goto(o, label)
      BY <1>6, <2>2 DEF RequestConsent
    <3>2. UNCHANGED <<row, snap, cb, request, payment, delivered, sends>>
      BY <1>6, <2>2 DEF RequestConsent, store, provider, history
    <3>3. LabelSnap(label, snap[o])
      BY <1>1, <2>2
    <3>4. QED
      BY <2>2, <3>1, <3>2, <3>3, LocalKeeps
  <2>3. CASE pc[o] = "c_await"
    <3> DEFINE New == [row EXCEPT !.status = "AWAITING_AUTHORIZATION", !.next_attempt_at = "later"]
    <3>1. /\ New \in Rows
          /\ New.status = "AWAITING_AUTHORIZATION"
          /\ New.callback_fingerprint = row.callback_fingerprint
          /\ New.provider_failed = row.provider_failed
      BY DEF TypeOK, Rows, Statuses, Preparing
    <3>2. row.status \in {"CREATING", "FAILED", "EXPIRED"} /\ row.callback_fingerprint = None
      BY <1>1, <2>3 DEF LabelRow
    <3>3. RowOK(New)
      BY <1>1, <3>1, <3>2 DEF RowOK, Abandoned, Evidence, Preparing, Instructed
    <3>4. \A p \in Owners \ {o} : pc[p] \notin Creating \cup {"s_send"}
      BY <2>3, <3>2 DEF IInv, Alone, ProcessOK, LabelRow
    <3>5. Fits(o, New)
      BY <3>3, <3>4 DEF Fits, LabelRow
    <3>6. Write(o, {snap[o].status}, New, "release", "c_fail", "c_fail")
      BY <1>6, <2>3 DEF RequestConsent, Update
    <3> HIDE DEF New
    <3>7. QED
      BY <3>1, <3>5, <3>6, FreeWriteKeeps
  <2>4. QED
    BY <1>6, <2>1, <2>2, <2>3 DEF RequestConsent
<1>7. CASE CreateFails(o)
  <2>1. CASE pc[o] = "c_fail"
    <3>1. PICK s \in {"EXPIRED", "FAILED"} :
            Write(o, {"CREATING"}, [row EXCEPT !.status = s, !.next_attempt_at = "due"],
                  "c_delete", "c_delete", "release")
      BY <1>7, <2>1 DEF CreateFails
    <3> DEFINE New == [row EXCEPT !.status = s, !.next_attempt_at = "due"]
    <3>2. /\ New \in Rows
          /\ New.status = s
          /\ New.callback_fingerprint = row.callback_fingerprint
          /\ New.provider_failed = row.provider_failed
      BY DEF TypeOK, Rows, Statuses, Terminal
    <3>3. ASSUME row.status = "CREATING" PROVE Fits(o, New)
      <4>1. RowOK(New)
        BY <1>1, <3>2, <3>3 DEF RowOK, Abandoned, Evidence, Preparing, Instructed
      <4>2. ASSUME NEW p \in Owners PROVE LabelRow(pc[p], New)
        BY <3>2, <3>3 DEF IInv, ProcessOK, LabelRow
      <4>3. QED
        BY <4>1, <4>2 DEF Fits
    <3>4. Write(o, {"CREATING"}, New, "c_delete", "c_delete", "release")
      BY <3>1
    <3> HIDE DEF New
    <3>5. QED
      BY <3>2, <3>3, <3>4, FreeWriteKeeps
  <2>2. CASE pc[o] = "c_delete" /\ DeleteSession(o, "release")
    BY <2>2, DeleteSessionKeeps
  <2>3. QED
    BY <1>7, <2>1, <2>2 DEF CreateFails
<1>8. QED
  BY <1>2, <1>3, <1>4, <1>5, <1>6, <1>7 DEF Create

-----------------------------------------------------------------------------
(* handleCallback *)

LEMMA UpdateKeeps ==
  ASSUME TypeOK, IInv, NEW o \in Owners, NEW STATE new, new \in Rows,
         NEW STATE ok, NEW STATE err, Update(o, new, ok, err),
         ok \notin Creating \cup Early \cup {"s_send"},
         err \notin Creating \cup Early \cup {"s_send"},
         LabelSnap(err, snap[o]),
         row.status = snap[o].status => Fits(o, new) /\ LabelSnap(ok, new)
  PROVE  IInv'
<1>1. LabelRow(ok, new)
  BY DEF LabelRow
<1>2. {err} \cap (Creating \cup Early \cup {"s_send"}) = {}
  OBVIOUS
<1>3. Write(o, {snap[o].status}, new, ok, err, err)
  BY DEF Update
<1>4. row.status \in {snap[o].status} => Fits(o, new) /\ LabelRow(ok, new) /\ LabelSnap(ok, new)
  BY <1>1
<1>5. QED
  BY <1>2, <1>3, <1>4, WriteKeeps

(* Past creation, only the sender is in the way of a write. *)
LEMMA FitsPast ==
  ASSUME IInv, NEW o \in Owners, NEW STATE new, RowOK(new),
         row.status \notin {"CREATING", "FAILED", "EXPIRED"},
         row.status \in {"SUBMITTING", "UNKNOWN"} =>
           new.status \in {"SUBMITTING", "UNKNOWN"} \/ request # "none"
  PROVE  Fits(o, new)
  BY DEF Fits, IInv, ProcessOK, LabelRow

LEMMA CallbackKeeps ==
  ASSUME TypeOK, IInv, NEW o \in Owners, HandleCallback(o)
  PROVE  IInv'
<1> USE DEF Creating, Early, Free, LabelSnap
<1>1. LabelSnap(pc[o], snap[o]) /\ RowOK(row) /\ (pc[o] \in Early => cb[o] \in Callbacks)
  BY DEF IInv, ProcessOK
<1>2. CASE CallbackClaim(o)
  <2>1. CASE ~Available
    BY <1>2, <2>1, FinishKeeps DEF CallbackClaim, provider, history
  <2>2. CASE Available
    <3>1. PICK label \in {"s_check", "h_session", "release"} :
            Goto(o, label) /\ LabelSnap(label, row)
      BY <1>2, <2>2 DEF CallbackClaim
    <3>2. /\ snap' = [snap EXCEPT ![o] = row]
          /\ UNCHANGED <<row, cb, request, payment, delivered, sends>>
          /\ cb[o] \in Callbacks
      BY <1>1, <1>2, <2>2 DEF CallbackClaim, provider, history
    <3>3. QED
      BY <3>1, <3>2, ClaimKeeps
  <2>3. QED
    BY <2>1, <2>2
<1>3. CASE ReadSession(o)
  <2>1. PICK label \in {"h_finalize", "release"} : Goto(o, label)
    BY <1>3 DEF ReadSession
  <2>2. /\ UNCHANGED <<row, snap, cb, request, payment, delivered, sends>>
        /\ cb[o] \in Callbacks
        /\ LabelSnap(label, snap[o])
        /\ SameRow(row', row)
        /\ Evidence(snap'[o])
    BY <1>1, <1>3, <2>1 DEF ReadSession, store, provider, history, SameRow, IInv, ProcessOK
  <2>3. QED
    BY <2>1, <2>2, MoveKeeps
<1>4. CASE BindCallback(o)
  <2> DEFINE New == [row EXCEPT !.status = "FINALIZING", !.callback_fingerprint = cb[o],
                                !.next_attempt_at = "later"]
  <2>1. /\ New \in Rows
        /\ New.status = "FINALIZING"
        /\ New.callback_fingerprint = cb[o]
        /\ New.provider_failed = row.provider_failed
    BY DEF TypeOK, Rows, Statuses, Preparing
  <2>2. cb[o] # None /\ snap[o].status = "AWAITING_AUTHORIZATION"
    BY <1>1, <1>4 DEF BindCallback
  <2>3. ASSUME row.status = "AWAITING_AUTHORIZATION" PROVE Fits(o, New)
    <3>1. RowOK(New)
      BY <1>1, <2>1, <2>2, <2>3 DEF RowOK, Abandoned, Evidence, Preparing, Instructed
    <3>2. QED
      BY <2>3, <3>1, FitsPast
  <2>4. Update(o, New, "h_alive", "release")
    BY <1>4 DEF BindCallback
  <2> HIDE DEF New
  <2>5. QED
    BY <2>1, <2>2, <2>3, <2>4, UpdateKeeps
<1>5. CASE Continue(o)
  <2>1. CASE pc[o] = "h_alive" /\ CheckAlive(o, "h_continue", "h_fail")
    BY <1>1, <2>1, CheckAliveKeeps
  <2>2. CASE pc[o] = "h_continue"
    <3>1. PICK label \in {"h_save", "h_store", "h_fail"} : Goto(o, label)
      BY <1>5, <2>2 DEF Continue
    <3>2. UNCHANGED <<row, snap, cb, request, payment, delivered, sends>>
      BY <1>5, <2>2 DEF Continue, store, provider
    <3>3. LabelSnap(label, snap[o])
      BY <1>1, <2>2
    <3>4. QED
      BY <3>1, <3>2, <3>3, LocalKeeps
  <2>3. QED
    BY <1>5, <2>1, <2>2 DEF Continue
<1>6. CASE ConsentPending(o)
  <2>1. CASE pc[o] = "h_save"
    <3>1. PICK label \in {"h_await", "h_fail"} : Goto(o, label)
      BY <1>6, <2>1 DEF ConsentPending
    <3>2. UNCHANGED <<row, snap, cb, request, payment, delivered, sends>>
      BY <1>6, <2>1 DEF ConsentPending, store, provider, history
    <3>3. LabelSnap(label, snap[o])
      BY <1>1, <2>1
    <3>4. QED
      BY <3>1, <3>2, <3>3, LocalKeeps
  <2>2. CASE pc[o] = "h_await"
    <3> DEFINE New == [row EXCEPT !.status = "AWAITING_AUTHORIZATION", !.next_attempt_at = "later"]
    <3>1. /\ New \in Rows
          /\ New.status = "AWAITING_AUTHORIZATION"
          /\ New.callback_fingerprint = row.callback_fingerprint
          /\ New.provider_failed = row.provider_failed
      BY DEF TypeOK, Rows, Statuses, Preparing
    <3>2. snap[o].status = "FINALIZING"
      BY <1>1, <2>2
    <3>3. ASSUME row.status = "FINALIZING" PROVE Fits(o, New)
      <4>1. RowOK(New)
        BY <1>1, <3>1, <3>3 DEF RowOK, Abandoned, Evidence, Preparing, Instructed
      <4>2. QED
        BY <3>3, <4>1, FitsPast
    <3>4. Update(o, New, "release", "h_fail")
      BY <1>6, <2>2 DEF ConsentPending
    <3> HIDE DEF New
    <3>5. QED
      BY <3>1, <3>2, <3>3, <3>4, UpdateKeeps
  <2>3. QED
    BY <1>6, <2>1, <2>2 DEF ConsentPending
<1>7. CASE ConsentFinal(o)
  <2>1. CASE pc[o] = "h_store"
    <3>1. PICK label \in {"h_authorize", "h_fail"} : Goto(o, label)
      BY <1>7, <2>1 DEF ConsentFinal
    <3>2. UNCHANGED <<row, snap, cb, request, payment, delivered, sends>>
      BY <1>7, <2>1 DEF ConsentFinal, store, provider, history
    <3>3. LabelSnap(label, snap[o])
      BY <1>1, <2>1
    <3>4. QED
      BY <3>1, <3>2, <3>3, LocalKeeps
  <2>2. CASE pc[o] = "h_authorize"
    <3> DEFINE New == [row EXCEPT !.status = "AUTHORIZED", !.next_attempt_at = "due"]
    <3>1. /\ New \in Rows
          /\ New.status = "AUTHORIZED"
          /\ New.callback_fingerprint = row.callback_fingerprint
          /\ New.provider_failed = row.provider_failed
      BY DEF TypeOK, Rows, Statuses, Preparing
    <3>2. snap[o].status = "FINALIZING"
      BY <1>1, <2>2
    <3>3. ASSUME row.status = "FINALIZING" PROVE Fits(o, New)
      <4>1. RowOK(New)
        BY <1>1, <3>1, <3>3 DEF RowOK, Abandoned, Evidence, Preparing, Instructed
      <4>2. QED
        BY <3>3, <4>1, FitsPast
    <3>4. Update(o, New, "s_check", "h_fail")
      BY <1>7, <2>2 DEF ConsentFinal
    <3> HIDE DEF New
    <3>5. QED
      BY <3>1, <3>2, <3>3, <3>4, UpdateKeeps
  <2>3. QED
    BY <1>7, <2>1, <2>2 DEF ConsentFinal
<1>8. CASE CallbackFails(o)
  <2>1. CASE pc[o] = "h_fail"
    <3> DEFINE New == [row EXCEPT !.status = "FAILED", !.next_attempt_at = "due"]
    <3>1. /\ New \in Rows
          /\ New.status = "FAILED"
          /\ New.callback_fingerprint = row.callback_fingerprint
          /\ New.provider_failed = row.provider_failed
      BY DEF TypeOK, Rows, Statuses, Terminal
    <3>2. ASSUME row.status = "FINALIZING" PROVE Fits(o, New)
      <4>1. RowOK(New)
        BY <1>1, <3>1, <3>2 DEF RowOK, Abandoned, Evidence, Preparing, Instructed
      <4>2. QED
        BY <3>2, <4>1, FitsPast
    <3>3. Write(o, {"FINALIZING"}, New, "h_delete", "h_delete", "release")
      BY <1>8, <2>1 DEF CallbackFails
    <3> HIDE DEF New
    <3>4. QED
      BY <3>1, <3>2, <3>3, FreeWriteKeeps
  <2>2. CASE pc[o] = "h_delete" /\ DeleteSession(o, "release")
    BY <2>2, DeleteSessionKeeps
  <2>3. QED
    BY <1>8, <2>1, <2>2 DEF CallbackFails
<1>9. QED
  BY <1>2, <1>3, <1>4, <1>5, <1>6, <1>7, <1>8 DEF HandleCallback

-----------------------------------------------------------------------------
(* submit *)

LEMMA ContinueLabels ==
  ASSUME NEW o \in Owners, NEW STATE t, Evidence(t)
  PROVE  /\ SettleLabel(t) \in Free
         /\ SubmitThrows(o) \in Free
         /\ CleanupLabel(t) \in Free
         /\ WorkLabel(o, t) \notin Creating \cup Early \cup {"s_send"}
         /\ LabelSnap(WorkLabel(o, t), t)
         /\ AfterSubmit(o, t) \notin Creating \cup Early \cup {"s_send"}
         /\ LabelSnap(AfterSubmit(o, t), t)
<1>1. SettleLabel(t) \in Free /\ SubmitThrows(o) \in Free /\ CleanupLabel(t) \in Free
  BY DEF SettleLabel, SubmitThrows, CleanupLabel, Free
<1>2. WorkLabel(o, t) \notin Creating \cup Early \cup {"s_send"} /\ LabelSnap(WorkLabel(o, t), t)
  <2>1. CASE t.status = "AUTHORIZED" /\ kind[o] = "worker"
    BY <2>1 DEF WorkLabel, LabelSnap, Creating, Early
  <2>2. CASE t.status \in {"PENDING", "UNKNOWN"} /\ t.provider_failed
    BY <2>2 DEF WorkLabel, LabelSnap, Creating, Early, Evidence
  <2>3. CASE t.status \in {"PENDING", "UNKNOWN"} /\ ~t.provider_failed
    BY <2>3 DEF WorkLabel, LabelSnap, Creating, Early
  <2>4. CASE WorkLabel(o, t) = SettleLabel(t)
    BY <1>1, <2>4, FreeLabels
  <2>5. QED
    BY <2>1, <2>2, <2>3, <2>4 DEF WorkLabel
<1>3. AfterSubmit(o, t) \notin Creating \cup Early \cup {"s_send"} /\ LabelSnap(AfterSubmit(o, t), t)
  <2>1. CASE AfterSubmit(o, t) \in {"h_delete", "release"}
    BY <2>1, FreeLabels DEF Free
  <2>2. CASE AfterSubmit(o, t) = WorkLabel(o, t)
    BY <1>2, <2>2
  <2>3. QED
    BY <2>1, <2>2 DEF AfterSubmit
<1>4. QED
  BY <1>1, <1>2, <1>3

LEMMA UpdateInSubmitKeeps ==
  ASSUME TypeOK, IInv, NEW o \in Owners, NEW STATE new, new \in Rows,
         UpdateInSubmit(o, new), Evidence(new),
         row.status = snap[o].status => Fits(o, new)
  PROVE  IInv'
<1>1. SubmitThrows(o) \in Free
  BY ContinueLabels
<1>2. SubmitThrows(o) \notin Creating \cup Early \cup {"s_send"} /\ LabelSnap(SubmitThrows(o), snap[o])
  BY <1>1, FreeLabels
<1>3. AfterSubmit(o, new) \notin Creating \cup Early \cup {"s_send"} /\ LabelSnap(AfterSubmit(o, new), new)
  BY ContinueLabels
<1>4. QED
  BY <1>2, <1>3, UpdateKeeps DEF UpdateInSubmit

LEMMA RecordOutgoingKeeps ==
  ASSUME TypeOK, IInv, NEW o \in Owners, NEW STATE ok, NEW STATE err, RecordOutgoing(o, ok, err),
         payment # "none",
         snap[o].status \in Instructed,
         ok \in {"s_delete", "r_incoming"},
         err \in {"m_catch", "s_unknown"},
         LabelSnap(err, snap[o])
  PROVE  IInv'
<1>1. PICK amount \in 0 .. delivered, failed \in {FALSE, payment = "failed"} :
        Update(o, [row EXCEPT !.outgoing_payment_url = TRUE,
                              !.sent_amount = amount,
                              !.provider_failed = snap[o].provider_failed \/ failed,
                              !.status = "PENDING",
                              !.reconciliation_required = FALSE,
                              !.next_attempt_at = "due"], ok, err)
  BY DEF RecordOutgoing
<1> DEFINE New == [row EXCEPT !.outgoing_payment_url = TRUE,
                              !.sent_amount = amount,
                              !.provider_failed = snap[o].provider_failed \/ failed,
                              !.status = "PENDING",
                              !.reconciliation_required = FALSE,
                              !.next_attempt_at = "due"]
<1>2. amount \in 0 .. FullAmount
  BY DEF TypeOK
<1>3. (snap[o].provider_failed \/ failed) \in BOOLEAN
  BY Zenon
<1>4. /\ New \in Rows
      /\ New.status = "PENDING"
      /\ New.callback_fingerprint = row.callback_fingerprint
      /\ New.provider_failed = (snap[o].provider_failed \/ failed)
  <2>1. row \in Rows
    BY DEF TypeOK
  <2> QED BY <1>2, <1>3, <2>1 DEF Rows, Statuses, Instructed
<1>5. Update(o, New, ok, err)
  BY <1>1
<1>6. (snap[o].provider_failed \/ failed) => payment = "failed"
  BY DEF IInv, ProcessOK, Evidence
<1> HIDE DEF New
<1>7. request = "accepted"
  BY DEF IInv, ProviderOK
<1>8. Evidence(New)
  BY <1>4, <1>6 DEF Evidence
<1>9. ASSUME row.status = snap[o].status PROVE Fits(o, New)
  <2>1. RowOK(row)
    BY DEF IInv
  <2>2. RowOK(New)
    BY <1>4, <1>7, <1>8, <1>9, <2>1 DEF RowOK, Abandoned, Preparing, Instructed
  <2>3. QED
    BY <1>7, <1>9, <2>2, FitsPast DEF Instructed
<1>10. ok \notin Creating \cup Early \cup {"s_send"} /\ err \notin Creating \cup Early \cup {"s_send"}
  BY DEF Creating, Early
<1>11. LabelSnap(ok, New)
  BY <1>4 DEF LabelSnap, Creating
<1>12. QED
  BY <1>4, <1>5, <1>9, <1>10, <1>11, UpdateKeeps

LEMMA SendKeeps ==
  ASSUME TypeOK, IInv, NEW o \in Owners, Send(o)
  PROVE  IInv'
<1>1. /\ pc[o] = "s_send"
      /\ request = "none"
      /\ row.status \in {"SUBMITTING", "UNKNOWN"}
      /\ snap[o].status = "SUBMITTING"
  BY DEF Send, IInv, ProcessOK, LabelRow, LabelSnap
<1>2. UNCHANGED <<row, snap, cb, payment, delivered>>
  BY DEF Send, store
<1>3. CASE Goto(o, "s_unknown") /\ UNCHANGED <<sends, request>>
  <2>1. "s_unknown" \notin Creating \cup Early \cup {"s_send"} /\ LabelSnap("s_unknown", snap[o])
    BY <1>1 DEF Creating, Early, LabelSnap
  <2>2. QED
    BY <1>2, <1>3, <2>1, LocalKeeps
<1>4. CASE sends' = sends + 1 /\ request' = "sent" /\ Goto(o, "s_wait")
  <2>1. \A p \in Owners : pc'[p] = IF p = o THEN "s_wait" ELSE pc[p]
    BY <1>4 DEF Goto, TypeOK
  <2>2. RowOK(row)'
    BY <1>1, <1>2, <1>4 DEF IInv, RowOK, Abandoned, Evidence, Preparing
  <2>3. ProviderOK'
    BY <1>1, <1>2, <1>4 DEF IInv, ProviderOK
  <2>4. Alone'
    BY <2>1 DEF IInv, Alone, Creating
  <2>5. ASSUME NEW p \in Owners PROVE ProcessOK(p)'
    <3>1. ProcessOK(p) /\ (p # o => pc[p] # "s_send")
      BY <1>1 DEF IInv, Alone
    <3>2. QED
      BY <1>1, <1>2, <2>1, <3>1 DEF ProcessOK, LabelRow, LabelSnap, Evidence, Creating
  <2>6. QED
    BY <2>2, <2>3, <2>4, <2>5 DEF IInv
<1>5. QED
  BY <1>3, <1>4 DEF Send

LEMMA SubmitKeeps ==
  ASSUME TypeOK, IInv, NEW o \in Owners, Submit(o)
  PROVE  IInv'
<1>1. LabelSnap(pc[o], snap[o]) /\ Evidence(snap[o]) /\ RowOK(row)
  BY DEF IInv, ProcessOK
<1>2. CASE CheckSubmit(o)
  <2>1. pc[o] = "s_check" /\ snap[o].status = "AUTHORIZED"
    BY <1>1, <1>2 DEF CheckSubmit, LabelSnap
  <2>2. ASSUME NEW s \in {"EXPIRED", "FAILED"},
               UpdateInSubmit(o, [row EXCEPT !.status = s, !.next_attempt_at = "due"])
        PROVE  IInv'
    <3> DEFINE New == [row EXCEPT !.status = s, !.next_attempt_at = "due"]
    <3>1. /\ New \in Rows
          /\ New.status = s
          /\ New.callback_fingerprint = row.callback_fingerprint
          /\ New.provider_failed = row.provider_failed
      BY DEF TypeOK, Rows, Statuses, Terminal
    <3>2. UpdateInSubmit(o, New)
      BY <2>2
    <3> HIDE DEF New
    <3>3. Evidence(New)
      BY <1>1, <3>1 DEF RowOK, Evidence
    <3>4. ASSUME row.status = "AUTHORIZED" PROVE Fits(o, New)
      <4>1. RowOK(New)
        BY <1>1, <3>1, <3>3, <3>4 DEF RowOK, Abandoned, Preparing, Instructed
      <4>2. QED
        BY <3>4, <4>1, FitsPast
    <3>5. QED
      BY <2>1, <3>1, <3>2, <3>3, <3>4, UpdateInSubmitKeeps
  <2>3. CASE CheckAlive(o, "s_submit", SubmitThrows(o))
    <3>1. LabelSnap("s_submit", snap[o]) /\ "s_submit" \notin Creating \cup Early \cup {"s_send"}
      BY <2>1 DEF LabelSnap, Creating, Early
    <3>2. SubmitThrows(o) \in Free
      BY <1>1, ContinueLabels
    <3>3. QED
      BY <2>3, <3>1, <3>2, CheckAliveKeeps
  <2>4. CASE Local(o, SubmitThrows(o)) /\ UNCHANGED faults
    <3>1. SubmitThrows(o) \in Free
      BY <1>1, ContinueLabels
    <3>2. QED
      BY <2>4, <3>1, FreeLabels, LocalKeeps DEF Local, store, provider, history
  <2>5. QED
    BY <1>2, <2>2, <2>3, <2>4 DEF CheckSubmit
<1>3. CASE MarkSubmitting(o)
  <2> DEFINE New == [row EXCEPT !.status = "SUBMITTING", !.next_attempt_at = "later"]
  <2>1. /\ New \in Rows
        /\ New.status = "SUBMITTING"
        /\ New.callback_fingerprint = row.callback_fingerprint
        /\ New.provider_failed = row.provider_failed
    BY DEF TypeOK, Rows, Statuses, Instructed
  <2>2. snap[o].status = "AUTHORIZED"
    BY <1>1, <1>3 DEF MarkSubmitting, LabelSnap
  <2>3. Write(o, {snap[o].status}, New, "s_send", SubmitThrows(o), SubmitThrows(o))
    BY <1>3 DEF MarkSubmitting, Update
  <2> HIDE DEF New
  <2>4. ASSUME row.status = "AUTHORIZED"
        PROVE  Fits(o, New) /\ request = "none" /\ \A p \in Owners : pc[p] # "s_send"
    <3>1. request = "none"
      BY <1>1, <2>4 DEF RowOK, Preparing
    <3>2. RowOK(New)
      BY <1>1, <2>1, <2>4, <3>1 DEF RowOK, Abandoned, Evidence, Preparing, Instructed
    <3>3. Fits(o, New)
      BY <2>4, <3>2, FitsPast
    <3>4. \A p \in Owners : pc[p] # "s_send"
      BY <2>4 DEF IInv, ProcessOK, LabelRow
    <3>5. QED
      BY <3>1, <3>3, <3>4
  <2>5. {SubmitThrows(o)} \cap (Creating \cup Early \cup {"s_send"}) = {}
        /\ LabelSnap(SubmitThrows(o), snap[o])
    BY <1>1, ContinueLabels, FreeLabels
  <2>6. ASSUME row.status = "AUTHORIZED" PROVE LabelRow("s_send", New) /\ LabelSnap("s_send", New)
    BY <2>1, <2>4, <2>6 DEF LabelRow, LabelSnap, Creating
  <2>7. "s_send" \notin Creating \cup Early
    BY DEF Creating, Early
  <2>8. QED
    BY <2>1, <2>2, <2>3, <2>4, <2>5, <2>6, <2>7, WriteKeeps
<1>4. CASE Send(o)
  BY <1>4, SendKeeps
<1>5. CASE Answer(o)
  <2>1. pc[o] = "s_wait" /\ snap[o].status = "SUBMITTING"
    BY <1>1, <1>5 DEF Answer, LabelSnap
  <2>2. "s_unknown" \notin Creating \cup Early \cup {"s_send"} /\ LabelSnap("s_unknown", snap[o])
    BY <2>1 DEF Creating, Early, LabelSnap
  <2>3. ASSUME request = "refused", NEW s \in {"EXPIRED", "FAILED"},
               UpdateInSubmit(o, [row EXCEPT !.status = s, !.reconciliation_required = FALSE,
                                             !.next_attempt_at = "due"])
        PROVE  IInv'
    <3> DEFINE New == [row EXCEPT !.status = s, !.reconciliation_required = FALSE,
                                  !.next_attempt_at = "due"]
    <3>1. /\ New \in Rows
          /\ New.status = s
          /\ New.callback_fingerprint = row.callback_fingerprint
          /\ New.provider_failed = row.provider_failed
      BY DEF TypeOK, Rows, Statuses, Terminal
    <3>2. UpdateInSubmit(o, New)
      BY <2>3
    <3> HIDE DEF New
    <3>3. Evidence(New)
      BY <1>1, <3>1 DEF RowOK, Evidence
    <3>4. ASSUME row.status = "SUBMITTING" PROVE Fits(o, New)
      <4>1. RowOK(New)
        BY <1>1, <2>3, <3>1, <3>3, <3>4 DEF RowOK, Abandoned, Preparing, Instructed
      <4>2. QED
        BY <2>3, <3>4, <4>1, FitsPast
    <3>5. QED
      BY <2>1, <3>1, <3>2, <3>3, <3>4, UpdateInSubmitKeeps
  <2>4. CASE request = "accepted" /\ RecordOutgoing(o, "s_delete", "s_unknown")
    <3>1. payment # "none" /\ snap[o].status \in Instructed
      BY <2>1, <2>4 DEF IInv, ProviderOK, Instructed
    <3>2. QED
      BY <2>2, <2>4, <3>1, RecordOutgoingKeeps
  <2>5. CASE Local(o, "s_unknown") /\ UNCHANGED faults
    BY <2>2, <2>5, LocalKeeps DEF Local, store, provider, history
  <2>6. QED
    BY <1>5, <2>3, <2>4, <2>5 DEF Answer
<1>6. CASE OutcomeUnknown(o)
  <2>1. /\ UnknownRow \in Rows
        /\ UnknownRow.status = "UNKNOWN"
        /\ UnknownRow.callback_fingerprint = row.callback_fingerprint
        /\ UnknownRow.provider_failed = row.provider_failed
    BY DEF UnknownRow, TypeOK, Rows, Statuses, Instructed
  <2>2. snap[o].status = "SUBMITTING"
    BY <1>1, <1>6 DEF OutcomeUnknown, LabelSnap
  <2>3. Evidence(UnknownRow)
    BY <1>1, <2>1 DEF RowOK, Evidence
  <2>4. ASSUME row.status = "SUBMITTING" PROVE Fits(o, UnknownRow)
    <3>1. RowOK(UnknownRow)
      BY <1>1, <2>1, <2>3, <2>4 DEF RowOK, Abandoned, Preparing, Instructed
    <3>2. QED
      BY <2>1, <2>4, <3>1, FitsPast
  <2>5. QED
    BY <1>6, <2>1, <2>2, <2>3, <2>4, UpdateInSubmitKeeps DEF OutcomeUnknown
<1>7. CASE DeleteSession(o, AfterSubmit(o, snap[o]))
  BY <1>1, <1>7, ContinueLabels, DeleteSessionKeeps
<1>8. QED
  BY <1>2, <1>3, <1>4, <1>5, <1>6, <1>7 DEF Submit

-----------------------------------------------------------------------------
(* maintain and cleanup *)

LEMMA MaintainKeeps ==
  ASSUME TypeOK, IInv, NEW o \in Owners, Maintain(o)
  PROVE  IInv'
<1>1. LabelSnap(pc[o], snap[o]) /\ Evidence(snap[o]) /\ RowOK(row)
  BY DEF IInv, ProcessOK
<1>2. {"m_catch", "m_flag", "m_defer", "release", "k_delete"} \subseteq Free
  BY DEF Free
<1>3. CASE AgeOut(o)
  <2>1. CASE Stale(snap[o]) /\ Update(o, Interrupted, WorkLabel(o, Interrupted), "release")
    <3>1. /\ Interrupted \in Rows
          /\ Interrupted.callback_fingerprint = row.callback_fingerprint
          /\ Interrupted.provider_failed = row.provider_failed
          /\ Interrupted.status = IF row.status = "SUBMITTING" THEN "UNKNOWN" ELSE "FAILED"
      BY DEF Interrupted, TypeOK, Rows, Statuses, Terminal, Instructed
    <3>2. Evidence(Interrupted)
      BY <1>1, <3>1 DEF RowOK, Evidence
    <3>3. ASSUME row.status \in Interruptible PROVE Fits(o, Interrupted)
      <4>1. RowOK(Interrupted)
        BY <1>1, <3>1, <3>2, <3>3 DEF RowOK, Abandoned, Preparing, Instructed, Interruptible
      <4>2. ASSUME NEW p \in Owners PROVE LabelRow(pc[p], Interrupted)
        BY <3>1, <3>3 DEF IInv, ProcessOK, LabelRow, Interruptible
      <4>3. QED
        BY <4>1, <4>2 DEF Fits
    <3>4. /\ WorkLabel(o, Interrupted) \notin Creating \cup Early \cup {"s_send"}
          /\ LabelSnap(WorkLabel(o, Interrupted), Interrupted)
      BY <3>2, ContinueLabels
    <3>5. "release" \notin Creating \cup Early \cup {"s_send"} /\ LabelSnap("release", snap[o])
      BY <1>2, FreeLabels
    <3>6. snap[o].status \in Interruptible
      BY <2>1 DEF Stale
    <3>7. QED
      BY <2>1, <3>1, <3>3, <3>4, <3>5, <3>6, UpdateKeeps
  <2>2. CASE Expirable(snap[o]) /\ Update(o, [row EXCEPT !.status = "EXPIRED"], "k_delete", "release")
    <3> DEFINE New == [row EXCEPT !.status = "EXPIRED"]
    <3>1. /\ New \in Rows
          /\ New.status = "EXPIRED"
          /\ New.callback_fingerprint = row.callback_fingerprint
          /\ New.provider_failed = row.provider_failed
      BY DEF TypeOK, Rows, Statuses, Terminal
    <3>2. Write(o, {snap[o].status}, New, "k_delete", "release", "release")
      BY <2>2 DEF Update
    <3> HIDE DEF New
    <3>3. ASSUME row.status \in {"CREATING", "AWAITING_AUTHORIZATION", "AUTHORIZED"}
          PROVE  Fits(o, New)
      <4>1. RowOK(New)
        BY <1>1, <3>1, <3>3 DEF RowOK, Abandoned, Evidence, Preparing, Instructed
      <4>2. ASSUME NEW p \in Owners PROVE LabelRow(pc[p], New)
        BY <3>1, <3>3 DEF IInv, ProcessOK, LabelRow
      <4>3. QED
        BY <4>1, <4>2 DEF Fits
    <3>4. row.status \in {snap[o].status} => Fits(o, New)
      BY <2>2, <3>3 DEF Expirable
    <3>5. QED
      BY <1>2, <3>1, <3>2, <3>4, FreeWriteKeeps
  <2>3. CASE Local(o, WorkLabel(o, snap[o])) /\ UNCHANGED faults
    BY <1>1, <2>3, ContinueLabels, LocalKeeps DEF Local, store, provider, history
  <2>4. QED
    BY <1>3, <2>1, <2>2, <2>3 DEF AgeOut
<1>4. CASE ReadOutgoing(o)
  <2>1. pc[o] = "r_outgoing" /\ snap[o].status \in {"PENDING", "UNKNOWN"}
    BY <1>1, <1>4 DEF ReadOutgoing, LabelSnap
  <2>2. CASE payment # "none" /\ RecordOutgoing(o, "r_incoming", "m_catch")
    <3>1. LabelSnap("m_catch", snap[o]) /\ snap[o].status \in Instructed
      BY <1>2, <2>1, FreeLabels DEF Instructed
    <3>2. QED
      BY <2>2, <3>1, RecordOutgoingKeeps
  <2>3. CASE Update(o, [row EXCEPT !.reconciliation_required = TRUE], "m_defer", "m_catch")
    <3>1. /\ [row EXCEPT !.reconciliation_required = TRUE] \in Rows
          /\ SameRow([row EXCEPT !.reconciliation_required = TRUE], row)
      BY DEF TypeOK, Rows, SameRow
    <3>2. Fits(o, [row EXCEPT !.reconciliation_required = TRUE])
      BY <3>1, SameKeeps DEF IInv, ProcessOK, Fits
    <3>3. QED
      BY <1>2, <2>3, <3>1, <3>2, FreeWriteKeeps DEF Update
  <2>4. CASE Local(o, "m_catch") /\ UNCHANGED faults
    BY <1>2, <2>4, FreeLabels, LocalKeeps DEF Local, store, provider, history
  <2>5. QED
    BY <1>4, <2>2, <2>3, <2>4 DEF ReadOutgoing
<1>5. CASE ReadIncoming(o)
  <2> DEFINE New(closed) ==
               [row EXCEPT !.received_amount = delivered,
                           !.incoming_completed_at = snap[o].incoming_completed_at \/ closed,
                           !.status = ReceiptStatus(o, closed),
                           !.reconciliation_required = FALSE]
  <2>0. CASE Local(o, "m_catch") /\ UNCHANGED faults
    BY <1>2, <2>0, FreeLabels, LocalKeeps DEF Local, store, provider, history
  <2> SUFFICES ASSUME \E closed \in {FALSE, incoming # "open"} :
                        Update(o, New(closed), SettleLabel(New(closed)), "m_catch")
               PROVE  IInv'
    BY <1>5, <2>0 DEF ReadIncoming
  <2>1. PICK closed \in {FALSE, incoming # "open"} :
          Update(o, New(closed), SettleLabel(New(closed)), "m_catch")
    OBVIOUS
  <2>2. (snap[o].incoming_completed_at \/ closed) \in BOOLEAN
    BY Zenon
  <2>3. ReceiptStatus(o, closed) \in {"COMPLETED", "FAILED", "PENDING"}
    BY DEF ReceiptStatus
  <2>4. /\ New(closed) \in Rows
        /\ New(closed).status = ReceiptStatus(o, closed)
        /\ New(closed).callback_fingerprint = row.callback_fingerprint
        /\ New(closed).provider_failed = row.provider_failed
    <3>1. row \in Rows /\ delivered \in 0 .. FullAmount
      BY DEF TypeOK
    <3> DEFINE resolved == snap[o].incoming_completed_at \/ closed
               status == ReceiptStatus(o, closed)
    <3>2. resolved \in BOOLEAN /\ status \in Statuses
      BY <2>2, <2>3 DEF Statuses, Terminal, Instructed
    <3>3. New(closed) = [row EXCEPT !.received_amount = delivered, !.incoming_completed_at = resolved,
                                    !.status = status, !.reconciliation_required = FALSE]
      OBVIOUS
    <3> HIDE DEF New, resolved, status
    <3>4. /\ New(closed) \in Rows
          /\ New(closed).status = status
          /\ New(closed).callback_fingerprint = row.callback_fingerprint
          /\ New(closed).provider_failed = row.provider_failed
      BY <3>1, <3>2, <3>3 DEF Rows
    <3> QED BY <3>4 DEF status
  <2> HIDE DEF New
  <2>5. /\ snap[o].status \in {"PENDING", "UNKNOWN"}
        /\ payment # "none"
        /\ request = "accepted"
    BY <1>1, <1>5 DEF ReadIncoming, LabelSnap, IInv, ProviderOK
  <2>6. /\ ReceiptStatus(o, closed) = "COMPLETED" => delivered = FullAmount
        /\ ReceiptStatus(o, closed) = "FAILED" => payment = "failed" /\ delivered < FullAmount
    BY <1>1 DEF ReceiptStatus, Evidence, TypeOK
  <2>7. ASSUME row.status \in {"PENDING", "UNKNOWN"} PROVE Fits(o, New(closed))
    <3>1. Evidence(New(closed))
      BY <1>1, <2>4, <2>5 DEF RowOK, Evidence
    <3>2. RowOK(New(closed))
      BY <1>1, <2>3, <2>4, <2>5, <2>6, <2>7, <3>1 DEF RowOK, Abandoned, Preparing, Instructed
    <3>3. QED
      BY <2>5, <2>7, <3>2, FitsPast
  <2>8. SettleLabel(New(closed)) \in Free
    BY DEF SettleLabel, Free
  <2>9. Write(o, {snap[o].status}, New(closed), SettleLabel(New(closed)), "m_catch", "m_catch")
    BY <2>1 DEF Update
  <2>10. row.status \in {snap[o].status} => Fits(o, New(closed))
    BY <2>5, <2>7
  <2>11. QED
    BY <1>2, <2>4, <2>8, <2>9, <2>10, FreeWriteKeeps
<1>6. CASE RefreshFails(o)
  <2>1. CASE pc[o] = "m_catch"
    <3>1. CASE snap' = [snap EXCEPT ![o] = row] /\ Goto(o, "m_flag")
      BY <1>2, <1>6, <2>1, <3>1, FreeLabels, ClaimKeeps DEF RefreshFails, store, provider, history
    <3>2. CASE Goto(o, "release") /\ UNCHANGED snap
      BY <1>2, <1>6, <2>1, <3>2, FreeLabels, LocalKeeps DEF RefreshFails, store, provider, history
    <3>3. QED
      BY <1>6, <2>1, <3>1, <3>2 DEF RefreshFails
  <2>2. CASE pc[o] = "m_flag"
    <3>1. PICK needsHelp \in BOOLEAN : Update(o, Flagged(o, needsHelp), SettleLabel(row), "release")
      BY <1>6, <2>2 DEF RefreshFails
    <3>2. (snap[o].reconciliation_required \/ needsHelp) \in BOOLEAN
      BY Zenon
    <3>3. Flagged(o, needsHelp) \in Rows /\ SameRow(Flagged(o, needsHelp), row)
      BY <3>2 DEF Flagged, TypeOK, Rows, SameRow
    <3>4. Fits(o, Flagged(o, needsHelp))
      BY <3>3, SameKeeps DEF IInv, ProcessOK, Fits
    <3>5. SettleLabel(row) \in Free
      BY DEF SettleLabel, Free
    <3>6. QED
      BY <1>2, <3>1, <3>3, <3>4, <3>5, FreeWriteKeeps DEF Update
  <2>3. QED
    BY <1>6, <2>1, <2>2 DEF RefreshFails
<1>7. CASE Defer(o)
  <2>1. /\ [row EXCEPT !.next_attempt_at = "later"] \in Rows
        /\ SameRow([row EXCEPT !.next_attempt_at = "later"], row)
    BY DEF TypeOK, Rows, SameRow
  <2>2. Fits(o, [row EXCEPT !.next_attempt_at = "later"])
    BY <2>1, SameKeeps DEF IInv, ProcessOK, Fits
  <2>3. QED
    BY <1>2, <1>7, <2>1, <2>2, FreeWriteKeeps DEF Defer, Update
<1>8. QED
  BY <1>3, <1>4, <1>5, <1>6, <1>7 DEF Maintain

LEMMA QuietFreeKeeps ==
  ASSUME TypeOK, IInv, NEW o \in Owners, NEW STATE new, new \in Rows, SameRow(new, row),
         NEW STATE ok, NEW STATE err, ok \in Free, err \in Free, Update(o, new, ok, err)
  PROVE  IInv'
<1>1. Fits(o, new)
  BY SameKeeps DEF IInv, ProcessOK, Fits
<1>2. QED
  BY <1>1, FreeWriteKeeps DEF Update

LEMMA CleanupKeeps ==
  ASSUME TypeOK, IInv, NEW o \in Owners, Cleanup(o)
  PROVE  IInv'
<1>1. {"k_delete", "k_null", "k_alive", "k_complete", "k_commit", "k_tokens", "k_retry",
       "k_done", "k_again", "release"} \subseteq Free
  BY DEF Free
<1>2. ASSUME NEW label \in Free, Goto(o, label),
             UNCHANGED <<row, snap, cb, request, payment, delivered, sends>>
      PROVE  IInv'
  BY <1>2, FreeLabels, LocalKeeps
<1>3. CASE DeleteSession(o, CleanupLabel(snap[o]))
  <2>1. CleanupLabel(snap[o]) \in Free
    BY DEF CleanupLabel, Free
  <2>2. QED
    BY <1>3, <2>1, FreeLabels, DeleteSessionKeeps
<1>4. CASE CompleteIncoming(o)
  <2>1. CASE pc[o] = "k_alive"
    <3>1. CASE CheckAlive(o, "k_complete", "k_retry")
      BY <1>1, <3>1, FreeLabels, CheckAliveKeeps
    <3>2. CASE Local(o, "k_retry")
      BY <1>1, <1>2, <3>2 DEF Local, store, provider, history
    <3>3. QED
      BY <1>4, <2>1, <3>1, <3>2 DEF CompleteIncoming
  <2>2. CASE pc[o] = "k_complete"
    BY <1>1, <1>2, <1>4, <2>2 DEF CompleteIncoming, store, history
  <2>3. CASE pc[o] = "k_commit"
    <3>1. /\ [row EXCEPT !.incoming_completed_at = TRUE] \in Rows
          /\ SameRow([row EXCEPT !.incoming_completed_at = TRUE], row)
      BY DEF TypeOK, Rows, SameRow
    <3>2. QED
      BY <1>1, <1>4, <2>3, <3>1, QuietFreeKeeps DEF CompleteIncoming
  <2>4. QED
    BY <1>4, <2>1, <2>2, <2>3 DEF CompleteIncoming
<1>5. CASE ClearCredentials(o)
  BY <1>1, <1>2, <1>5 DEF ClearCredentials, store, provider, history
<1>6. CASE CloseCleanup(o)
  <2>1. /\ [row EXCEPT !.next_attempt_at = "null"] \in Rows
        /\ SameRow([row EXCEPT !.next_attempt_at = "null"], row)
    BY DEF TypeOK, Rows, SameRow
  <2>2. /\ [row EXCEPT !.cleanup_state = "DONE", !.next_attempt_at = "null"] \in Rows
        /\ SameRow([row EXCEPT !.cleanup_state = "DONE", !.next_attempt_at = "null"], row)
    BY DEF TypeOK, Rows, SameRow
  <2>3. CleanupAgain \in Rows /\ SameRow(CleanupAgain, row)
    BY DEF CleanupAgain, TypeOK, Rows, SameRow
  <2>4. QED
    BY <1>1, <1>6, <2>1, <2>2, <2>3, QuietFreeKeeps DEF CloseCleanup
<1>7. QED
  BY <1>3, <1>4, <1>5, <1>6 DEF Cleanup

-----------------------------------------------------------------------------
(* Arrivals, faults, time and the provider. *)

LEMMA ArrivalKeeps ==
  ASSUME TypeOK, IInv, NEW o \in Owners, Arrival(o) \/ ClaimDue(o)
  PROVE  IInv'
<1>1. CASE Reserve(o)
  BY <1>1, ReserveKeeps
<1>2. CASE \E k \in {"poll", "worker"} : ClaimFor(o, k)
  <2>1. "m_age" \in Free
    BY DEF Free
  <2>2. QED
    BY <1>2, <2>1, FreeLabels, ClaimKeeps DEF ClaimFor, Begin, provider, history
<1>3. CASE \E c \in Callbacks : Callback(o, c)
  <2>1. PICK c \in Callbacks : Callback(o, c)
    BY <1>3
  <2>2. /\ Goto(o, "h_claim")
        /\ cb' = [cb EXCEPT ![o] = c]
        /\ UNCHANGED <<row, snap, request, payment, delivered, sends>>
    BY <2>1 DEF Callback, Begin, store, provider, history
  <2>3. cb'[o] \in Callbacks /\ \A p \in Owners \ {o} : cb'[p] = cb[p] /\ snap'[p] = snap[p]
    BY <2>2 DEF TypeOK
  <2>4. SameRow(row', row) /\ Evidence(snap'[o]) /\ LabelSnap("h_claim", snap'[o])
    BY <2>2 DEF SameRow, IInv, ProcessOK, LabelSnap, Creating
  <2>5. "h_claim" \notin Creating
    BY DEF Creating
  <2>6. QED
    BY <2>2, <2>3, <2>4, <2>5, MoveKeeps
<1>4. QED
  BY <1>1, <1>2, <1>3 DEF Arrival, Poll, ClaimDue

(* Nothing the invariant reads changes. *)
LEMMA FrameKeeps ==
  ASSUME IInv, SameRow(row', row),
         UNCHANGED <<pc, snap, cb, request, payment, delivered, sends>>
  PROVE  IInv'
<1>1. RowOK(row)'
  BY DEF IInv, RowOK, Abandoned, Evidence, SameRow
<1>2. ProviderOK' /\ Alone'
  BY DEF IInv, ProviderOK, Alone
<1>3. ASSUME NEW p \in Owners PROVE ProcessOK(p)'
  BY DEF IInv, ProcessOK, LabelRow, LabelSnap, Evidence, SameRow
<1>4. QED
  BY <1>1, <1>2, <1>3 DEF IInv

LEMMA ProviderKeeps ==
  ASSUME TypeOK, IInv, Provider
  PROVE  IInv'
<1>1. UNCHANGED <<row, pc, snap, cb, sends>>
  BY DEF Provider, store, local, history
<1>2. RowOK(row) /\ ProviderOK
  BY DEF IInv
<1>3. CASE Accept
  <2>1. request = "sent" /\ payment = "none"
    BY <1>2, <1>3 DEF Accept, ProviderOK
  <2>2. RowOK(row)' /\ ProviderOK'
    BY <1>1, <1>2, <1>3, <2>1 DEF Accept, RowOK, Evidence, Abandoned, Preparing, ProviderOK
  <2>3. ASSUME NEW p \in Owners PROVE ProcessOK(p)'
    BY <1>1, <1>3, <2>1 DEF Accept, IInv, ProcessOK, LabelRow, LabelSnap, Evidence
  <2>4. QED
    BY <1>1, <2>2, <2>3 DEF IInv, Alone
<1>4. CASE Refuse
  <2>1. RowOK(row)' /\ ProviderOK'
    BY <1>1, <1>2, <1>4 DEF Refuse, RowOK, Evidence, Abandoned, Preparing, ProviderOK
  <2>2. ASSUME NEW p \in Owners PROVE ProcessOK(p)'
    BY <1>1, <1>4 DEF Refuse, IInv, ProcessOK, LabelRow, LabelSnap, Evidence
  <2>3. QED
    BY <1>1, <2>1, <2>2 DEF IInv, Alone
<1>5. CASE Deliver
  <2>1. RowOK(row)' /\ ProviderOK'
    BY <1>1, <1>2, <1>5 DEF Deliver, RowOK, Evidence, ProviderOK, TypeOK
  <2>2. ASSUME NEW p \in Owners PROVE ProcessOK(p)'
    BY <1>1, <1>5 DEF Deliver, IInv, ProcessOK, LabelRow, LabelSnap, Evidence
  <2>3. QED
    BY <1>1, <2>1, <2>2 DEF IInv, Alone
<1>6. CASE PaymentFails
  <2>1. RowOK(row)' /\ ProviderOK'
    BY <1>1, <1>2, <1>6 DEF PaymentFails, RowOK, Evidence, ProviderOK
  <2>2. ASSUME NEW p \in Owners PROVE ProcessOK(p)'
    BY <1>1, <1>6 DEF PaymentFails, IInv, ProcessOK, LabelRow, LabelSnap, Evidence
  <2>3. QED
    BY <1>1, <2>1, <2>2 DEF IInv, Alone
<1>7. CASE IncomingExpires
  BY <1>1, <1>7, FrameKeeps DEF IncomingExpires, SameRow
<1>8. QED
  BY <1>3, <1>4, <1>5, <1>6, <1>7 DEF Provider

LEMMA EnvironmentKeeps ==
  ASSUME TypeOK, IInv,
         Lapse \/ Provider \/ Clock \/ \E o \in Owners : Release(o) \/ Crash(o) \/ HeartbeatStalls(o)
  PROVE  IInv'
<1>1. CASE Lapse
  BY <1>1, FrameKeeps DEF Lapse, SameRow, local, provider, history
<1>2. CASE Clock
  <2>1. SameRow(row', row)
    BY <1>2 DEF Clock, Age, FallDue, Expire, TypeOK, Rows, SameRow
  <2>2. QED
    BY <1>2, <2>1, FrameKeeps DEF Clock, local, provider, history
<1>3. ASSUME NEW o \in Owners, Release(o) \/ Crash(o) PROVE IInv'
  BY <1>3, FinishKeeps DEF Release, Crash, store, provider, history
<1>4. ASSUME NEW o \in Owners, HeartbeatStalls(o) PROVE IInv'
  BY <1>4, FrameKeeps DEF HeartbeatStalls, SameRow, local, provider, history
<1>5. QED
  BY <1>1, <1>2, <1>3, <1>4, ProviderKeeps

LEMMA InitSafe == Init => IInv
<1> SUFFICES ASSUME Init PROVE IInv
  OBVIOUS
<1>1. /\ row.status = "NONE" /\ row.callback_fingerprint = None /\ row.provider_failed = FALSE
      /\ request = "none" /\ payment = "none" /\ delivered = 0 /\ sends = 0
  BY DEF Init, StoreInit, NoRow
<1>2. RowOK(row) /\ ProviderOK
  BY <1>1 DEF RowOK, Evidence, Abandoned, Preparing, Instructed, ProviderOK
<1>3. \A p \in Owners : pc[p] = "idle" /\ snap[p] = NoRow
  BY DEF Init
<1>4. Alone
  BY <1>3 DEF Alone, Creating
<1>5. ASSUME NEW p \in Owners PROVE ProcessOK(p)
  BY <1>3 DEF ProcessOK, LabelRow, LabelSnap, Evidence, Creating, NoRow
<1>6. QED
  BY <1>2, <1>4, <1>5 DEF IInv

-----------------------------------------------------------------------------

(* The strengthening holds in every reachable state: see TransferInvariant. *)
THEOREM Inductive == Spec => []IInv
<1>1. TypeOK /\ IInv /\ [Next]_vars => IInv'
  <2> SUFFICES ASSUME TypeOK, IInv, [Next]_vars PROVE IInv'
    OBVIOUS
  <2>1. CASE UNCHANGED vars
    BY <2>1, FrameKeeps DEF vars, store, local, provider, history, SameRow
  <2>2. CASE Next
    BY <2>2, CreateKeeps, CallbackKeeps, SubmitKeeps, MaintainKeeps, CleanupKeeps, ArrivalKeeps,
       EnvironmentKeeps
       DEF Next, Step
  <2>3. QED
    BY <2>1, <2>2
<1>2. QED
  BY <1>1, InitSafe, TypeCorrect, PTL DEF Spec

(* However callbacks, the worker, crashes and lapsed leases interleave,    *)
(* the provider is sent at most one create-outgoing request.               *)
THEOREM InstructedOnce == Spec => []AtMostOneInstruction
<1>1. IInv => AtMostOneInstruction
  BY DEF IInv, ProviderOK, AtMostOneInstruction
<1>2. QED
  BY <1>1, Inductive, PTL

(* A transfer reported FAILED or EXPIRED was not paid, has no request on   *)
(* its way and no open payment.                                            *)
THEOREM ClosedIsSettled == Spec => []ClosedMovesNoMoney
<1>1. TypeOK /\ IInv => ClosedMovesNoMoney
  BY DEF IInv, RowOK, ProviderOK, TypeOK, ClosedMovesNoMoney
<1>2. QED
  BY <1>1, Inductive, TypeCorrect, PTL

(* COMPLETED is reported only when the quoted amount has arrived. *)
THEOREM CompletedIsPaid == Spec => []CompletedIsDelivered
<1>1. IInv => CompletedIsDelivered
  BY DEF IInv, RowOK, CompletedIsDelivered
<1>2. QED
  BY <1>1, Inductive, PTL
=============================================================================
