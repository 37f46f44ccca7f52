-------------------------- MODULE TransferOutcomes --------------------------
(***************************************************************************)
(* The theorems about Transfer beyond the money itself: what a process may *)
(* rely on while it holds the lease and after it has lost it, that a       *)
(* transfer is flagged, scheduled, readable and closed as it should be,    *)
(* that consent is asked for once, and that Transfer implements            *)
(* TransferContract.                                                       *)
(***************************************************************************)
EXTENDS TransferSafety

USE OwnersAssumption, CallbacksAssumption, AmountAssumption, FaultsAssumption
    DEF OwnersAssumption, CallbacksAssumption, AmountAssumption, FaultsAssumption

(* Labels after a call without a known answer, or without a claim: the     *)
(* copy may be older than the row although the lease is held.              *)
Failing == {"release", "c_fail", "c_delete", "h_fail", "h_delete", "s_unknown", "m_catch"}
Doubtful == Failing \cup {"idle", "c_claim", "h_claim", "k_retry", "k_again"}

(* Labels of a cleanup, and of a callback that has been bound.             *)
Settling == {"k_delete", "k_null", "k_alive", "k_complete", "k_commit", "k_tokens", "k_retry",
             "k_done", "k_again"}
Finalizing == {"h_alive", "h_continue", "h_save", "h_await", "h_store", "h_authorize"}
Closing == {"m_age", "k_delete", "k_alive", "k_complete"}

(* What holds of the row, and of every copy of it. *)
FlagOK(t) == t.status = "UNKNOWN" => t.reconciliation_required
Scheduled(t) ==
  t.next_attempt_at = "null" => t.status = "NONE" \/ (IsTerminal(t) /\ t.cleanup_state = "DONE")
Reconcilable(t) ==
  \/ t.status \in {"AUTHORIZED", "SUBMITTING", "UNKNOWN"}
  \/ t.status = "PENDING" /\ ~t.provider_failed

Agrees(s, t) ==
  /\ s.status = t.status
  /\ s.callback_fingerprint = t.callback_fingerprint
  /\ s.cleanup_state = t.cleanup_state

(* Nothing has happened before the row is reserved. *)
Untouched == ~Exists => row = NoRow /\ ~lease.live /\ \A o \in Owners : pc[o] = "idle"

(* A result that nobody can revive: no creation holds the lease or may     *)
(* still take it.                                                          *)
Final ==
  /\ IsTerminal(row)
  /\ row.incoming_payment_url
  /\ \A p \in Owners : pc[p] \in Creating => pc[p] # "c_claim" /\ ~Holds(p)

(* What every process knows at its label, with the lease or without. *)
ViewOK(o) ==
  /\ FlagOK(snap[o])
  /\ snap[o].incoming_payment_url => row.incoming_payment_url
  /\ pc[o] \in Settling => IsTerminal(snap[o])
  /\ pc[o] = "k_null" => snap[o].cleanup_state = "DONE"
  /\ pc[o] = "s_delete" => snap[o].status = "PENDING"
  /\ pc[o] \in {"k_alive", "k_complete"} => snap[o].incoming_payment_url
  /\ pc[o] \in Closing /\ IsTerminal(snap[o]) /\ snap[o].incoming_payment_url => Final

(* What the one that holds the lease knows. *)
HolderOK(o) ==
  Holds(o) =>
    /\ pc[o] \notin Doubtful => Agrees(snap[o], row)
    /\ pc[o] \in Settling => IsTerminal(row)
    /\ pc[o] \in {"h_session", "h_finalize"} => row.callback_fingerprint \in {None, cb[o]}
    /\ pc[o] = "h_authorize" => token
    /\ pc[o] = "h_finalize" /\ refs >= 1 => sess[o] = "continued"

(* One operation is past the binding of its callback, and the row shows it. *)
OneConsent ==
  /\ \A o, p \in Owners : pc[o] \in Finalizing /\ pc[p] \in Finalizing => o = p
  /\ \A o \in Owners : pc[o] \in Finalizing =>
       row.status \in {"FINALIZING", "FAILED"} /\ row.callback_fingerprint # None

(* Once the interact_ref was sent, every session left to use is marked. *)
RefOnce ==
  /\ refs <= 1
  /\ refs >= 1 => row.callback_fingerprint # None
  /\ refs >= 1 /\ row.status = "AWAITING_AUTHORIZATION" => session # "fresh"
  /\ \A o \in Owners : pc[o] = "h_await" => session # "fresh"
  /\ \A o \in Owners : pc[o] \in {"h_alive", "h_continue"} /\ refs >= 1 => sess[o] = "continued"

ClosureOK ==
  /\ row.incoming_payment_url => \A p \in Owners : pc[p] # "c_claim"
  /\ incoming = "completed" => Final

(* Who may rely on what, by lease and by label: preserved together with    *)
(* IInv by every step.                                                     *)
Custody ==
  /\ Untouched
  /\ FlagOK(row) /\ Scheduled(row)
  /\ Reconcilable(row) => token
  /\ OneConsent /\ RefOnce /\ ClosureOK
  /\ \A o \in Owners : ViewOK(o) /\ HolderOK(o)

-----------------------------------------------------------------------------
(* The shapes of a process's step. *)

(* Without a write, a process whose copy of the row is s goes from the     *)
(* label l to the label m.                                                 *)
Flow(l, m, s) ==
  /\ m \notin {"c_claim", "h_session", "h_alive", "m_age", "s_delete"}
  /\ m \in Creating => l \in Creating
  /\ m \in Finalizing => l \in Finalizing
  /\ m = "h_finalize" => l = "h_session"
  /\ m = "h_continue" => l = "h_alive"
  /\ m = "h_await" => l = "h_save"
  /\ m = "h_authorize" => l = "h_store"
  /\ m \in Settling => IsTerminal(s) /\ l \in Settling \cup {"m_age", "s_delete"}
  /\ m = "k_null" => s.cleanup_state = "DONE"
  /\ m \in {"k_alive", "k_complete"} => s.incoming_payment_url
  /\ m \in Closing => l \in Closing \cup {"s_delete"}
  /\ l \in Doubtful => m \in Doubtful

Passes(o, l, m) ==
  /\ pc[o] = l /\ l # "idle"
  /\ Goto(o, m)
  /\ Flow(l, m, snap[o])
  /\ UNCHANGED <<row, snap, lease, cb>>
  /\ IF l = "h_session" THEN sess' = [sess EXCEPT ![o] = session] ELSE UNCHANGED sess
  /\ m = "h_finalize" => session # "none"
  /\ refs' = IF l = "h_continue" /\ sess[o] # "continued" THEN refs + 1 ELSE refs
  /\ l = "h_continue" => m # "h_continue"
  /\ \/ session' \in {session, "none"}
     \/ l = "c_session" /\ session' = "fresh"
     \/ l = "h_save" /\ session' = "continued"
  /\ m = "h_await" => session' = "continued"
  /\ \/ token' = token
     \/ l = "h_store" /\ token'
     \/ l \in {"k_tokens", "k_retry"} /\ Holds(o)
  /\ m = "h_authorize" => token'
  /\ incoming' = "completed" => incoming = "completed" \/ l = "k_complete"

(* How the write made at the label l takes the status of the row t to that *)
(* of u.                                                                   *)
Turn(l, t, u) ==
  \/ /\ l \in {"c_record", "c_quote", "m_flag", "m_defer", "k_commit", "k_null", "k_done", "k_again"}
     /\ u.status = t.status
  \/ /\ l = "c_await"
     /\ t.status \in {"CREATING", "FAILED", "EXPIRED"}
     /\ u.status = "AWAITING_AUTHORIZATION"
  \/ l = "c_fail" /\ t.status = "CREATING" /\ u.status \in {"FAILED", "EXPIRED"}
  \/ l = "h_finalize" /\ t.status = "AWAITING_AUTHORIZATION" /\ u.status = "FINALIZING"
  \/ l = "h_await" /\ t.status = "FINALIZING" /\ u.status = "AWAITING_AUTHORIZATION"
  \/ l = "h_authorize" /\ t.status = "FINALIZING" /\ u.status = "AUTHORIZED"
  \/ l = "h_fail" /\ t.status = "FINALIZING" /\ u.status = "FAILED"
  \/ l = "s_check" /\ t.status = "AUTHORIZED" /\ u.status \in {"FAILED", "EXPIRED"}
  \/ l = "s_submit" /\ t.status = "AUTHORIZED" /\ u.status = "SUBMITTING"
  \/ /\ l = "s_wait"
     /\ t.status = "SUBMITTING"
     /\ u.status = "PENDING" \/ (u.status \in {"FAILED", "EXPIRED"} /\ request = "refused")
  \/ l = "s_unknown" /\ t.status = "SUBMITTING" /\ u.status = "UNKNOWN"
  \/ /\ l = "m_age"
     /\ \/ t.status = "SUBMITTING" /\ u.status = "UNKNOWN"
        \/ t.status \in {"CREATING", "FINALIZING"} /\ u.status = "FAILED"
        \/ /\ t.status \in {"CREATING", "AWAITING_AUTHORIZATION", "AUTHORIZED"}
           /\ u.status = "EXPIRED"
  \/ /\ l = "r_outgoing"
     /\ t.status \in {"PENDING", "UNKNOWN"}
     /\ u.status \in {t.status, "PENDING"}
  \/ /\ l = "r_incoming"
     /\ t.status \in {"PENDING", "UNKNOWN"}
     /\ u.status \in {"COMPLETED", "FAILED", "PENDING"}

(* The row u that a write of o leaves. *)
Stores(o, u) ==
  /\ Turn(pc[o], row, u)
  /\ u.callback_fingerprint = IF pc[o] = "h_finalize" THEN cb[o] ELSE row.callback_fingerprint
  /\ u.incoming_payment_url <=> row.incoming_payment_url \/ pc[o] = "c_record"
  /\ FlagOK(u) /\ Scheduled(u)
  /\ Reconcilable(u) => token

(* After a write that answered with the row u, a process goes from l to m. *)
Lands(l, m, u) ==
  /\ m \notin {"idle", "c_claim", "h_claim", "h_session", "h_finalize", "m_age", "k_alive", "k_complete",
               "k_null", "k_retry", "k_again"}
  /\ m \in Creating => l \in Creating
  /\ m \in Finalizing => l = "h_finalize" /\ m = "h_alive"
  /\ m = "s_delete" => u.status = "PENDING"
  /\ m \in Settling => IsTerminal(u)

WrittenBy(o, l, m) ==
  /\ pc[o] = l
  /\ Goto(o, m)
  /\ Holds(o)
  /\ row' \in Rows
  /\ Stores(o, row')
  /\ \/ snap' = [snap EXCEPT ![o] = row'] /\ Lands(l, m, row')
     \/ UNCHANGED snap /\ (m \in Failing \/ (l = "k_commit" /\ m = "k_retry"))
  /\ UNCHANGED <<lease, cb, sess, session, token, incoming, refs>>

(* What every step of the process o does: the row is left alone, or the    *)
(* holder of the lease writes it.                                          *)
Careful(o) ==
  /\ Custody'
  /\ row' = row \/ (Holds(o) /\ Stores(o, row'))

-----------------------------------------------------------------------------
(* Each shape preserves Custody. *)

LEMMA PassCustody ==
  ASSUME TypeOK, IInv, Custody, NEW o \in Owners, NEW STATE l, NEW STATE m, Passes(o, l, m)
  PROVE  Careful(o)
<1>1. \A p \in Owners : pc'[p] = IF p = o THEN m ELSE pc[p]
  BY DEF Passes, Goto, TypeOK
<1>2. /\ pc[o] = l
      /\ Flow(l, m, snap[o])
      /\ UNCHANGED <<row, snap, lease, cb>>
      /\ \A p \in Owners : Holds(p)' <=> Holds(p)
  BY DEF Passes, Holds
<1>3. \A p \in Owners \ {o} : sess'[p] = sess[p]
  BY DEF Passes, TypeOK
<1>4. Exists
  BY DEF Custody, Untouched, Passes
<1>5. l # "h_session" => UNCHANGED sess
  BY DEF Passes
<1>a. l = "h_session" => sess'[o] = session
  BY DEF Passes, TypeOK
<1>b. l \in Creating => row.callback_fingerprint = None
  BY <1>2 DEF IInv, ProcessOK, LabelRow
<1>c. l \in Finalizing => /\ row.status \in {"FINALIZING", "FAILED"}
                          /\ row.callback_fingerprint # None
                          /\ \A p \in Owners : pc[p] \in Finalizing => p = o
  BY <1>2 DEF Custody, OneConsent
<1>d. refs' # refs => l = "h_continue" /\ sess[o] # "continued" /\ refs' = refs + 1
  BY DEF Passes
<1>e. "h_continue" \in Finalizing /\ "c_session" \in Creating /\ "h_save" \in Finalizing
  BY DEF Finalizing, Creating
<1>6. Untouched'
  BY <1>2, <1>4 DEF Untouched, Exists
<1>7. FlagOK(row)' /\ Scheduled(row)'
  BY <1>2 DEF Custody, FlagOK, Scheduled, IsTerminal
<1>8. (Reconcilable(row) => token)'
  <2>1. CASE token' \/ token' = token
    BY <1>2, <2>1 DEF Custody, Reconcilable
  <2>2. CASE l \in {"k_tokens", "k_retry"} /\ Holds(o)
    <3>1. IsTerminal(row)
      BY <1>2, <2>2 DEF Custody, HolderOK, Settling
    <3>2. QED
      BY <1>2, <3>1 DEF Reconcilable, IsTerminal, Terminal
  <2>3. QED
    BY <2>1, <2>2 DEF Passes
<1>9. OneConsent'
  BY <1>1, <1>2 DEF Custody, OneConsent, Flow
<1>10. RefOnce'
  <2>1. refs' <= 1 /\ (refs' >= 1 => row'.callback_fingerprint # None)
    <3>1. CASE refs' = refs
      BY <1>2, <3>1 DEF Custody, RefOnce
    <3>2. CASE refs' # refs
      <4>1. ~(refs >= 1) /\ refs \in Nat
        BY <1>2, <1>d, <3>2 DEF Custody, RefOnce, TypeOK
      <4>2. QED
        BY <1>2, <1>c, <1>d, <1>e, <3>2, <4>1
    <3>3. QED
      BY <3>1, <3>2
  <2>2. ASSUME session' = "fresh", session # "fresh"
        PROVE  row.callback_fingerprint = None /\ l = "c_session" /\ refs' = refs
    BY <1>b, <1>d, <1>e, <2>2 DEF Passes
  <2>3. (refs >= 1 /\ row.status = "AWAITING_AUTHORIZATION" => session # "fresh")'
    <3>1. CASE refs' = refs
      BY <1>2, <2>2, <3>1 DEF Custody, RefOnce
    <3>2. CASE refs' # refs
      BY <1>2, <1>c, <1>d, <1>e, <3>2
    <3>3. QED
      BY <3>1, <3>2
  <2>4. ASSUME NEW p \in Owners, pc'[p] = "h_await" PROVE session' # "fresh"
    <3>1. CASE p = o
      BY <1>1, <2>4, <3>1 DEF Passes
    <3>2. CASE p # o
      <4>1. pc[p] = "h_await"
        BY <1>1, <2>4, <3>2
      <4>2. session # "fresh" /\ row.callback_fingerprint # None
        BY <4>1 DEF Custody, RefOnce, OneConsent, Finalizing
      <4>3. QED
        BY <2>2, <4>2
    <3>3. QED
      BY <3>1, <3>2
  <2>5. ASSUME NEW p \in Owners, pc'[p] \in {"h_alive", "h_continue"}, refs' >= 1
        PROVE  sess'[p] = "continued"
    <3>1. pc'[p] \in Finalizing /\ pc[p] \in {"h_alive", "h_continue"} /\ (p = o => l = "h_alive")
      BY <1>1, <1>2, <2>5 DEF Finalizing, Flow, Passes
    <3>2. refs' = refs
      BY <1>c, <1>d, <1>e, <3>1 DEF Finalizing
    <3>3. sess[p] = "continued"
      BY <2>5, <3>1, <3>2 DEF Custody, RefOnce
    <3>4. QED
      BY <1>3, <1>5, <3>1, <3>3
  <2>6. QED
    BY <2>1, <2>3, <2>4, <2>5 DEF RefOnce
<1>11. Final => Final'
  <2> SUFFICES ASSUME Final PROVE Final'
    OBVIOUS
  <2>1. IsTerminal(row)' /\ row'.incoming_payment_url
    BY <1>2 DEF Final, IsTerminal
  <2>2. ASSUME NEW p \in Owners, pc'[p] \in Creating PROVE pc'[p] # "c_claim" /\ ~Holds(p)'
    <3>1. pc[p] \in Creating /\ pc'[p] # "c_claim"
      BY <1>1, <1>2, <2>2 DEF Flow, Final
    <3>2. QED
      BY <1>2, <3>1 DEF Final
  <2>3. QED
    BY <2>1, <2>2 DEF Final
<1>12. ClosureOK'
  <2>1. \A p \in Owners : pc'[p] = "c_claim" => pc[p] = "c_claim"
    BY <1>1, <1>2 DEF Flow
  <2>2. incoming' = "completed" => Final
    <3>1. CASE incoming = "completed"
      BY <3>1 DEF Custody, ClosureOK
    <3>2. CASE l = "k_complete"
      BY <1>2, <3>2 DEF Custody, ViewOK, Closing, Settling
    <3>3. QED
      BY <3>1, <3>2 DEF Passes
  <2>3. (row.incoming_payment_url => \A p \in Owners : pc[p] # "c_claim")'
    BY <1>2, <2>1 DEF Custody, ClosureOK
  <2>4. QED
    BY <1>11, <2>2, <2>3 DEF ClosureOK
<1>13. ASSUME NEW p \in Owners PROVE ViewOK(p)'
  <2>1. ViewOK(p)
    BY DEF Custody
  <2>2. snap'[p] = snap[p]
    BY <1>2
  <2>3. CASE p = o
    <3>1. pc'[o] = m
      BY <1>1
    <3>2. m \in Closing /\ IsTerminal(snap[o]) => l \in Closing
      BY <1>2, <2>1, <2>3 DEF Flow, ViewOK, IsTerminal, Terminal
    <3>3. QED
      BY <1>2, <1>11, <2>1, <2>2, <2>3, <3>1, <3>2 DEF Flow, ViewOK, FlagOK, IsTerminal
  <2>4. CASE p # o
    BY <1>1, <1>2, <1>11, <2>1, <2>2, <2>4 DEF ViewOK, FlagOK, IsTerminal
  <2>5. QED
    BY <2>3, <2>4
<1>14. ASSUME NEW p \in Owners, Holds(p)' PROVE HolderOK(p)'
  <2>1. HolderOK(p) /\ Holds(p) /\ ViewOK(p)
    BY <1>2, <1>14 DEF Custody
  <2>2. CASE p = o
    <3>1. pc'[o] = m /\ Holds(o)
      BY <1>1, <2>1, <2>2
    <3>2. m \notin Doubtful => Agrees(snap[o], row)
      BY <1>2, <2>1, <2>2 DEF Flow, HolderOK
    <3>3. m \in Settling => IsTerminal(row)
      <4>1. CASE l \in Settling
        BY <1>2, <2>1, <2>2, <4>1 DEF HolderOK
      <4>2. CASE l \in {"m_age", "s_delete"}
        <5>1. Agrees(snap[o], row)
          BY <1>2, <2>1, <2>2, <4>2 DEF HolderOK, Doubtful, Failing
        <5>2. QED
          BY <1>2, <5>1 DEF Flow, Agrees, IsTerminal
      <4>3. QED
        BY <1>2, <4>1, <4>2 DEF Flow
    <3>4. m \in {"h_session", "h_finalize"} => row.callback_fingerprint \in {None, cb[o]}
      BY <1>2, <2>1, <2>2 DEF Flow, HolderOK
    <3>5. ASSUME m = "h_finalize", refs' >= 1 PROVE sess'[o] = "continued"
      <4>1. l = "h_session" /\ refs' = refs /\ session # "none" /\ sess'[o] = session
        BY <1>2, <1>a, <1>d, <3>5 DEF Flow, Passes
      <4>2. Agrees(snap[o], row)
        BY <1>2, <2>1, <2>2, <4>1 DEF HolderOK, Doubtful, Failing
      <4>3. snap[o].status = "AWAITING_AUTHORIZATION"
        BY <1>2, <4>1 DEF IInv, ProcessOK, LabelSnap
      <4>4. session # "fresh"
        BY <3>5, <4>1, <4>2, <4>3 DEF Custody, RefOnce, Agrees
      <4>5. QED
        BY <4>1, <4>4 DEF TypeOK, Sessions
    <3>6. m = "h_authorize" => token'
      BY DEF Passes
    <3>7. QED
      BY <1>2, <2>2, <3>1, <3>2, <3>3, <3>4, <3>5, <3>6 DEF HolderOK, Agrees, IsTerminal
  <2>3. CASE p # o
    <3>1. pc'[p] = pc[p] /\ snap'[p] = snap[p] /\ cb'[p] = cb[p] /\ sess'[p] = sess[p]
      BY <1>1, <1>2, <1>3, <2>3
    <3>2. ~Holds(o)
      BY <2>1, <2>3 DEF Holds
    <3>3. token => token'
      BY <3>2 DEF Passes
    <3>4. ASSUME pc[p] = "h_finalize" PROVE refs' = refs
      <4>1. Agrees(snap[p], row) /\ snap[p].status = "AWAITING_AUTHORIZATION"
        BY <2>1, <3>4 DEF HolderOK, Doubtful, Failing, IInv, ProcessOK, LabelSnap
      <4>2. QED
        BY <1>c, <1>d, <1>e, <4>1 DEF Agrees
    <3>5. QED
      BY <1>2, <2>1, <3>1, <3>3, <3>4 DEF HolderOK, Agrees, IsTerminal
  <2>4. QED
    BY <2>2, <2>3
<1>15. QED
  BY <1>2, <1>6, <1>7, <1>8, <1>9, <1>10, <1>12, <1>13, <1>14 DEF Custody, Careful, HolderOK

(* A write by the holder of the lease. *)
LEMMA WriteCustody ==
  ASSUME TypeOK, IInv, Custody, NEW o \in Owners, NEW STATE l, NEW STATE m, WrittenBy(o, l, m)
  PROVE  Careful(o)
<1>1. \A p \in Owners : pc'[p] = IF p = o THEN m ELSE pc[p]
  BY DEF WrittenBy, Goto, TypeOK
<1>2. /\ pc[o] = l
      /\ Stores(o, row')
      /\ UNCHANGED <<lease, cb, sess, session, token, incoming, refs>>
      /\ \A p \in Owners : Holds(p)' <=> Holds(p)
      /\ \A p \in Owners : Holds(p) => p = o
      /\ Holds(o)
  BY DEF WrittenBy, Holds
<1>3. \/ snap' = [snap EXCEPT ![o] = row'] /\ Lands(l, m, row')
      \/ UNCHANGED snap /\ (m \in Failing \/ (l = "k_commit" /\ m = "k_retry"))
  BY DEF WrittenBy
<1>4. Exists
  BY <1>2 DEF Custody, Untouched, Holds
<1>5. Turn(l, row, row') /\ LabelSnap(l, snap[o]) /\ LabelRow(l, row)
  BY <1>2 DEF Stores, IInv, ProcessOK
<1>6. Untouched'
  <2>1. row'.status # "NONE"
    BY <1>4, <1>5 DEF Turn, Exists
  <2>2. QED
    BY <2>1 DEF Untouched, Exists
<1>7. FlagOK(row)' /\ Scheduled(row)' /\ (Reconcilable(row) => token)'
  BY <1>2 DEF Stores, FlagOK, Scheduled, Reconcilable, IsTerminal
<1>8. \A p \in Owners : /\ pc'[p] \in Creating => pc[p] \in Creating
                        /\ pc'[p] = "c_claim" => p # o /\ pc[p] = "c_claim"
                        /\ pc'[p] \in Finalizing /\ p = o => l = "h_finalize" /\ m = "h_alive"
                        /\ pc'[p] \notin {"h_continue", "h_await"} \/ p # o
  BY <1>1, <1>2, <1>3 DEF Lands, Failing, Creating, Finalizing
<1>9. ASSUME NEW p \in Owners, p # o, pc[p] \in Finalizing
      PROVE  /\ row'.status \in {"FINALIZING", "FAILED"}
             /\ row'.callback_fingerprint = row.callback_fingerprint
             /\ row.callback_fingerprint # None
             /\ l # "h_finalize"
  <2>1. /\ row.status \in {"FINALIZING", "FAILED"}
        /\ row.callback_fingerprint # None
        /\ l \notin Finalizing
    BY <1>2, <1>9 DEF Custody, OneConsent
  <2>2. l \notin Creating
    BY <1>5, <2>1 DEF LabelRow
  <2>3. l \notin {"h_await", "h_authorize", "c_await"}
    BY <2>1, <2>2 DEF Finalizing, Creating
  <2>4. row'.status \in {"FINALIZING", "FAILED"} /\ l # "h_finalize"
    BY <1>5, <2>1, <2>3 DEF Turn
  <2>5. QED
    BY <1>2, <2>1, <2>4 DEF Stores
<1>10. l = "h_finalize" => /\ row.status = "AWAITING_AUTHORIZATION"
                           /\ row'.status = "FINALIZING"
                           /\ row'.callback_fingerprint = cb[o]
                           /\ cb[o] # None
                           /\ row.callback_fingerprint \in {None, cb[o]}
  <2> SUFFICES ASSUME l = "h_finalize"
               PROVE  /\ row.status = "AWAITING_AUTHORIZATION"
                      /\ row'.status = "FINALIZING"
                      /\ row'.callback_fingerprint = cb[o]
                      /\ cb[o] # None
                      /\ row.callback_fingerprint \in {None, cb[o]}
    OBVIOUS
  <2>1. row.status = "AWAITING_AUTHORIZATION" /\ row'.status = "FINALIZING"
    BY <1>5 DEF Turn
  <2>2. cb[o] \in Callbacks
    BY <1>2 DEF IInv, ProcessOK
  <2>3. row.callback_fingerprint \in {None, cb[o]}
    BY <1>2 DEF Custody, HolderOK
  <2>4. QED
    BY <1>2, <2>1, <2>2, <2>3 DEF Stores
<1>11. OneConsent'
  <2>1. ASSUME NEW p \in Owners, pc'[p] \in Finalizing
        PROVE  row'.status \in {"FINALIZING", "FAILED"} /\ row'.callback_fingerprint # None
    BY <1>1, <1>8, <1>9, <1>10, <2>1
  <2>2. ASSUME NEW p \in Owners, NEW q \in Owners, pc'[p] \in Finalizing, pc'[q] \in Finalizing, p # q
        PROVE  FALSE
    <3>1. p # o /\ q # o => FALSE
      BY <1>1, <2>2 DEF Custody, OneConsent
    <3>2. QED
      BY <1>1, <1>8, <1>9, <2>2, <3>1
  <2>3. QED
    BY <2>1, <2>2 DEF OneConsent
<1>12. RefOnce'
  <2>1. refs' <= 1 /\ (refs' >= 1 => row'.callback_fingerprint # None)
    BY <1>2, <1>10 DEF Custody, RefOnce, Stores
  <2>2. (refs >= 1 /\ row.status = "AWAITING_AUTHORIZATION" => session # "fresh")'
    <3>1. CASE l \in Creating
      BY <1>2, <1>5, <3>1 DEF Custody, RefOnce, LabelRow
    <3>2. CASE l = "h_await"
      BY <1>2, <3>2 DEF Custody, RefOnce
    <3>3. CASE l \notin Creating /\ l # "h_await"
      <4>1. row'.status = "AWAITING_AUTHORIZATION" => row.status = "AWAITING_AUTHORIZATION"
        BY <1>5, <3>3 DEF Turn, Creating
      <4>2. QED
        BY <1>2, <4>1 DEF Custody, RefOnce
    <3>4. QED
      BY <3>1, <3>2, <3>3
  <2>3. ASSUME NEW p \in Owners, pc'[p] = "h_await" PROVE session' # "fresh"
    BY <1>1, <1>2, <1>8, <2>3 DEF Custody, RefOnce
  <2>4. ASSUME NEW p \in Owners, pc'[p] \in {"h_alive", "h_continue"}, refs' >= 1
        PROVE  sess'[p] = "continued"
    <3>1. CASE p # o
      BY <1>1, <1>2, <2>4, <3>1 DEF Custody, RefOnce
    <3>2. CASE p = o
      <4>1. l = "h_finalize"
        BY <1>8, <2>4, <3>2 DEF Finalizing
      <4>2. QED
        BY <1>2, <2>4, <3>2, <4>1 DEF Custody, HolderOK
    <3>3. QED
      BY <3>1, <3>2
  <2>5. QED
    BY <2>1, <2>2, <2>3, <2>4 DEF RefOnce
<1>13. Final => Final'
  <2> SUFFICES ASSUME Final PROVE Final'
    OBVIOUS
  <2>1. l \notin Creating
    BY <1>2 DEF Final
  <2>2. IsTerminal(row)' /\ row'.incoming_payment_url
    BY <1>2, <1>5, <2>1 DEF Final, IsTerminal, Terminal, Turn, Creating, Stores
  <2>3. \A p \in Owners : pc'[p] \in Creating => pc'[p] # "c_claim" /\ ~Holds(p)'
    BY <1>2, <1>8 DEF Final
  <2>4. QED
    BY <2>2, <2>3 DEF Final
<1>14. (row.incoming_payment_url => \A p \in Owners : pc[p] # "c_claim")'
  <2>1. CASE l = "c_record"
    BY <1>2, <1>8, <2>1 DEF IInv, Alone, Creating
  <2>2. CASE l # "c_record"
    BY <1>2, <1>8, <2>2 DEF Custody, ClosureOK, Stores
  <2>3. QED
    BY <2>1, <2>2
<1>15. ClosureOK'
  BY <1>2, <1>13, <1>14 DEF Custody, ClosureOK
<1>16. ASSUME NEW p \in Owners PROVE ViewOK(p)'
  <2>1. ViewOK(p)
    BY DEF Custody
  <2>2. row.incoming_payment_url => row'.incoming_payment_url
    BY <1>2 DEF Stores
  <2>3. ASSUME pc'[p] \in {pc[p]} \cup Failing \cup {"k_retry"}, snap'[p] = snap[p],
               pc'[p] = "k_retry" => pc[p] \in Settling
        PROVE  ViewOK(p)'
    <3>1. pc'[p] # pc[p] => pc'[p] \notin Closing \cup {"k_null", "s_delete"}
      BY <2>3 DEF Failing, Closing
    <3>2. pc'[p] \in Settling => pc[p] \in Settling
      BY <2>3 DEF Failing, Settling
    <3>3. QED
      BY <1>13, <2>1, <2>2, <2>3, <3>1, <3>2 DEF ViewOK, FlagOK, IsTerminal, Closing
  <2>4. CASE p = o /\ snap'[o] = row' /\ Lands(l, m, row')
    <3>1. FlagOK(row') /\ pc'[p] = m /\ snap'[p] = row'
      BY <1>1, <1>2, <2>4 DEF Stores
    <3>2. m \in Settling => IsTerminal(row')
      BY <2>4 DEF Lands
    <3>3. ASSUME m \in Closing, IsTerminal(row'), row'.incoming_payment_url PROVE Final'
      <4>1. \A q \in Owners : pc'[q] \in Creating => pc'[q] # "c_claim" /\ ~Holds(q)'
        BY <1>1, <1>2, <1>14, <3>3 DEF Closing, Creating
      <4>2. QED
        BY <3>3, <4>1 DEF Final, IsTerminal
    <3>4. QED
      BY <2>4, <3>1, <3>2, <3>3 DEF Lands, ViewOK, FlagOK, IsTerminal
  <2>5. QED
    <3>1. CASE p # o
      <4>1. pc'[p] = pc[p] /\ snap'[p] = snap[p]
        BY <1>1, <1>3, <3>1 DEF TypeOK
      <4>2. QED
        BY <2>3, <4>1 DEF Settling
    <3>2. CASE p = o /\ UNCHANGED snap /\ (m \in Failing \/ (l = "k_commit" /\ m = "k_retry"))
      <4>1. pc'[p] = m /\ pc[p] = l /\ snap'[p] = snap[p]
        BY <1>1, <1>2, <3>2
      <4>2. m = "k_retry" => l \in Settling
        BY <3>2 DEF Settling, Failing
      <4>3. QED
        BY <2>3, <3>2, <4>1, <4>2
    <3>3. CASE p = o /\ snap' = [snap EXCEPT ![o] = row'] /\ Lands(l, m, row')
      BY <2>4, <3>3 DEF TypeOK
    <3>4. QED
      BY <1>3, <3>1, <3>2, <3>3
<1>17. HolderOK(o)'
  <2>1. pc'[o] = m
    BY <1>1
  <2>2. CASE snap'[o] = row' /\ Lands(l, m, row')
    <3>1. m \notin {"h_session", "h_finalize", "h_authorize"}
      BY <2>2 DEF Lands, Finalizing
    <3>2. QED
      BY <2>1, <2>2, <3>1 DEF HolderOK, Agrees, Lands, IsTerminal
  <2>3. CASE m \in Failing
    BY <2>1, <2>3 DEF HolderOK, Failing, Doubtful, Settling
  <2>4. CASE l = "k_commit" /\ m = "k_retry"
    <3>1. IsTerminal(row)
      BY <1>2, <2>4 DEF Custody, HolderOK, Settling
    <3>2. IsTerminal(row)'
      BY <1>5, <2>4, <3>1 DEF Turn, IsTerminal
    <3>3. QED
      BY <2>1, <2>4, <3>2 DEF HolderOK, Doubtful
  <2>5. QED
    BY <1>3, <2>2, <2>3, <2>4 DEF TypeOK
<1>18. \A p \in Owners : HolderOK(p)'
  BY <1>2, <1>17 DEF HolderOK
<1>19. QED
  BY <1>6, <1>7, <1>11, <1>12, <1>15, <1>16, <1>18 DEF Custody, Careful, WrittenBy

(* An operation that takes the lapsed or free lease, and reads the row. *)
LEMMA TakeCustody ==
  ASSUME TypeOK, IInv, Custody, NEW o \in Owners, NEW STATE m,
         Available, Take(o), Exists, Goto(o, m),
         snap' = [snap EXCEPT ![o] = row],
         UNCHANGED <<row, cb, sess, session, token, incoming, refs>>,
         m \in {"c_alive", "h_session", "s_check", "release", "m_age"},
         m = "c_alive" => pc[o] = "c_claim",
         m = "h_session" => row.callback_fingerprint \in {None, cb[o]}
  PROVE  Careful(o)
<1>1. \A p \in Owners : pc'[p] = IF p = o THEN m ELSE pc[p]
  BY DEF Goto, TypeOK
<1>2. \A p \in Owners : snap'[p] = IF p = o THEN row ELSE snap[p]
  BY DEF TypeOK
<1>3. \A p \in Owners : Holds(p)' => p = o
  BY DEF Take, Holds
<1>4. m \notin Settling \cup Finalizing \cup {"h_finalize", "s_delete", "c_claim"}
  BY DEF Settling, Finalizing
<1>5. Untouched'
  BY DEF Untouched, Exists
<1>6. FlagOK(row)' /\ Scheduled(row)' /\ (Reconcilable(row) => token)'
  BY DEF Custody, FlagOK, Scheduled, Reconcilable, IsTerminal
<1>7. OneConsent'
  BY <1>1, <1>4 DEF Custody, OneConsent
<1>8. RefOnce'
  BY <1>1 DEF Custody, RefOnce
<1>9. Final => Final'
  <2> SUFFICES ASSUME Final PROVE Final'
    OBVIOUS
  <2>1. m # "c_alive"
    BY DEF Final, Creating
  <2>2. m \notin Creating
    BY <2>1 DEF Creating
  <2>3. \A p \in Owners : pc'[p] \in Creating => pc'[p] # "c_claim" /\ ~Holds(p)'
    BY <1>1, <1>3, <2>2 DEF Final
  <2>4. QED
    BY <2>3 DEF Final, IsTerminal
<1>10. ClosureOK'
  BY <1>1, <1>4, <1>9 DEF Custody, ClosureOK
<1>11. ASSUME NEW p \in Owners PROVE ViewOK(p)'
  <2>1. ViewOK(p)
    BY DEF Custody
  <2>2. CASE p # o
    BY <1>1, <1>2, <1>9, <2>1, <2>2 DEF ViewOK, FlagOK, IsTerminal
  <2>3. CASE p = o
    <3>1. pc'[o] = m /\ snap'[o] = row
      BY <1>1, <1>2
    <3>2. ASSUME m = "m_age", IsTerminal(row), row.incoming_payment_url PROVE Final'
      <4>1. \A q \in Owners : pc'[q] \in Creating => pc'[q] # "c_claim" /\ ~Holds(q)'
        BY <1>1, <1>3, <3>2 DEF Custody, ClosureOK, Creating
      <4>2. QED
        BY <3>2, <4>1 DEF Final, IsTerminal
    <3>3. m \in Closing => m = "m_age"
      BY DEF Closing
    <3>4. m \notin {"k_null", "k_alive", "k_complete"}
      OBVIOUS
    <3>5. QED
      BY <1>4, <1>6, <2>3, <3>1, <3>2, <3>3, <3>4 DEF ViewOK, FlagOK, IsTerminal
  <2>4. QED
    BY <2>2, <2>3
<1>12. HolderOK(o)'
  BY <1>1, <1>2, <1>4 DEF HolderOK, Agrees, Finalizing
<1>13. \A p \in Owners : HolderOK(p)'
  BY <1>3, <1>12 DEF HolderOK
<1>14. QED
  BY <1>5, <1>6, <1>7, <1>8, <1>10, <1>11, <1>13 DEF Custody, Careful

(* An operation that is over: it may drop the lease. *)
LEMMA FinishCustody ==
  ASSUME TypeOK, IInv, Custody, NEW o \in Owners, pc[o] # "idle", Finish(o),
         \A p \in Owners : Holds(p)' => Holds(p),
         UNCHANGED <<row, session, token, incoming, refs>>
  PROVE  Careful(o)
<1>1. \A p \in Owners : pc'[p] = IF p = o THEN "idle" ELSE pc[p]
  BY DEF Finish, Goto, TypeOK
<1>2. \A p \in Owners \ {o} : snap'[p] = snap[p] /\ cb'[p] = cb[p] /\ sess'[p] = sess[p]
  BY DEF Finish
<1>3. snap'[o] = NoRow
  BY DEF Finish, TypeOK
<1>4. "idle" \notin Settling \cup Finalizing \cup Creating \cup Closing /\ "idle" \in Doubtful
  BY DEF Settling, Finalizing, Creating, Closing, Doubtful
<1>5. Untouched'
  BY DEF Custody, Untouched, Exists
<1>6. FlagOK(row)' /\ Scheduled(row)' /\ (Reconcilable(row) => token)'
  BY DEF Custody, FlagOK, Scheduled, Reconcilable, IsTerminal
<1>7. OneConsent'
  BY <1>1, <1>4 DEF Custody, OneConsent
<1>8. RefOnce'
  BY <1>1, <1>2 DEF Custody, RefOnce
<1>9. Final => Final'
  BY <1>1, <1>4 DEF Final, IsTerminal
<1>10. ClosureOK'
  BY <1>1, <1>9 DEF Custody, ClosureOK
<1>11. ASSUME NEW p \in Owners PROVE ViewOK(p)'
  <2>1. ViewOK(p)
    BY DEF Custody
  <2>2. CASE p # o
    BY <1>1, <1>2, <1>9, <2>1, <2>2 DEF ViewOK, FlagOK, IsTerminal
  <2>3. CASE p = o
    BY <1>1, <1>3, <1>4, <2>3 DEF ViewOK, FlagOK, NoRow
  <2>4. QED
    BY <2>2, <2>3
<1>12. ASSUME NEW p \in Owners PROVE HolderOK(p)'
  <2>1. HolderOK(p)
    BY DEF Custody
  <2>2. CASE p # o
    BY <1>1, <1>2, <2>1, <2>2 DEF HolderOK, Agrees, IsTerminal
  <2>3. CASE p = o
    BY <1>1, <1>4, <2>3 DEF HolderOK
  <2>4. QED
    BY <2>2, <2>3
<1>13. QED
  BY <1>5, <1>6, <1>7, <1>8, <1>10, <1>11, <1>12 DEF Custody, Careful

(* A callback that arrives. *)
LEMMA BeginCustody ==
  ASSUME TypeOK, IInv, Custody, NEW o \in Owners, Exists, pc[o] = "idle", Goto(o, "h_claim"),
         \A p \in Owners \ {o} : cb'[p] = cb[p],
         UNCHANGED <<row, lease, snap, sess, session, token, incoming, refs>>
  PROVE  Custody'
<1>1. \A p \in Owners : pc'[p] = IF p = o THEN "h_claim" ELSE pc[p]
  BY DEF Goto, TypeOK
<1>2. \A p \in Owners : Holds(p)' <=> Holds(p)
  BY DEF Holds
<1>3. /\ "h_claim" \notin Settling \cup Finalizing \cup Creating \cup Closing
      /\ "h_claim" \in Doubtful
  BY DEF Settling, Finalizing, Creating, Closing, Doubtful
<1>4. Untouched'
  BY DEF Untouched, Exists
<1>5. FlagOK(row)' /\ Scheduled(row)' /\ (Reconcilable(row) => token)'
  BY DEF Custody, FlagOK, Scheduled, Reconcilable, IsTerminal
<1>6. OneConsent'
  BY <1>1, <1>3 DEF Custody, OneConsent
<1>7. RefOnce'
  BY <1>1 DEF Custody, RefOnce
<1>8. Final => Final'
  BY <1>1, <1>2, <1>3 DEF Final, IsTerminal
<1>9. ClosureOK'
  BY <1>1, <1>8 DEF Custody, ClosureOK
<1>10. ASSUME NEW p \in Owners PROVE ViewOK(p)'
  <2>1. ViewOK(p)
    BY DEF Custody
  <2>2. QED
    BY <1>1, <1>3, <1>8, <2>1 DEF ViewOK, FlagOK, IsTerminal
<1>11. ASSUME NEW p \in Owners PROVE HolderOK(p)'
  <2>1. HolderOK(p)
    BY DEF Custody
  <2>2. QED
    BY <1>1, <1>2, <1>3, <2>1 DEF HolderOK, Agrees, IsTerminal
<1>12. QED
  BY <1>4, <1>5, <1>6, <1>7, <1>9, <1>10, <1>11 DEF Custody

(* The row is reserved. *)
LEMMA ReserveCustody ==
  ASSUME TypeOK, IInv, Custody, NEW o \in Owners, Reserve(o)
  PROVE  Custody'
<1>1. /\ row = NoRow
      /\ ~lease.live
      /\ \A p \in Owners : pc[p] = "idle"
      /\ row' = [NoRow EXCEPT !.status = "CREATING", !.next_attempt_at = "later"]
      /\ UNCHANGED <<lease, snap, cb, sess, session, token, incoming, refs>>
  BY DEF Reserve, Insert, Custody, Untouched, Exists, provider, history
<1>2. /\ row'.status = "CREATING"
      /\ row'.next_attempt_at = "later"
      /\ row'.callback_fingerprint = None
      /\ row'.incoming_payment_url = FALSE
      /\ row.callback_fingerprint = None
      /\ row.incoming_payment_url = FALSE
      /\ row.status = "NONE"
  BY <1>1 DEF NoRow
<1>3. \A p \in Owners : pc'[p] = IF p = o THEN "c_claim" ELSE "idle"
  BY <1>1 DEF Reserve, Begin, Goto, TypeOK
<1>4. {"idle", "c_claim"} \cap (Settling \cup Finalizing \cup Closing) = {}
  BY DEF Settling, Finalizing, Closing
<1>5. \A p \in Owners : ~Holds(p)'
  BY <1>1 DEF Holds
<1>6. Untouched'
  BY <1>2 DEF Untouched, Exists
<1>7. FlagOK(row)' /\ Scheduled(row)' /\ (Reconcilable(row) => token)'
  BY <1>2 DEF FlagOK, Scheduled, Reconcilable
<1>8. OneConsent'
  BY <1>3, <1>4 DEF OneConsent
<1>9. refs = 0
  BY <1>2 DEF Custody, RefOnce, TypeOK
<1>10. RefOnce'
  BY <1>1, <1>3, <1>9 DEF RefOnce
<1>11. incoming # "completed"
  BY <1>2 DEF Custody, ClosureOK, Final
<1>12. ClosureOK'
  BY <1>1, <1>2, <1>11 DEF ClosureOK
<1>13. ASSUME NEW p \in Owners PROVE ViewOK(p)'
  <2>1. ViewOK(p)
    BY DEF Custody
  <2>2. pc'[p] \in {"idle", "c_claim"} /\ snap'[p] = snap[p]
    BY <1>1, <1>3
  <2>3. QED
    BY <1>2, <1>4, <2>1, <2>2 DEF ViewOK, FlagOK
<1>14. QED
  BY <1>5, <1>6, <1>7, <1>8, <1>10, <1>12, <1>13 DEF Custody, HolderOK

(* No process moves: a lease may lapse, the row ages or falls due, the     *)
(* provider acts.                                                          *)
LEMMA FrameCustody ==
  ASSUME TypeOK, IInv, Custody,
         Agrees(row', row),
         row'.incoming_payment_url = row.incoming_payment_url,
         row'.reconciliation_required = row.reconciliation_required,
         row'.provider_failed = row.provider_failed,
         row'.next_attempt_at = "null" => row.next_attempt_at = "null",
         ~Exists => UNCHANGED row,
         lease'.live => UNCHANGED lease,
         incoming' = "completed" => incoming = "completed",
         UNCHANGED <<pc, snap, cb, sess, session, token, refs>>
  PROVE  Custody'
<1>1. \A p \in Owners : Holds(p)' => Holds(p)
  BY DEF Holds
<1>2. row'.status = row.status /\ row'.callback_fingerprint = row.callback_fingerprint
      /\ row'.cleanup_state = row.cleanup_state
  BY DEF Agrees
<1>3. Untouched'
  BY <1>2 DEF Custody, Untouched, Exists
<1>4. FlagOK(row)' /\ Scheduled(row)' /\ (Reconcilable(row) => token)'
  BY <1>2 DEF Custody, FlagOK, Scheduled, Reconcilable, IsTerminal
<1>5. OneConsent' /\ RefOnce'
  BY <1>2 DEF Custody, OneConsent, RefOnce
<1>6. Final => Final'
  BY <1>1, <1>2 DEF Final, IsTerminal
<1>7. ClosureOK'
  BY <1>6 DEF Custody, ClosureOK
<1>8. ASSUME NEW p \in Owners PROVE ViewOK(p)'
  <2>1. ViewOK(p)
    BY DEF Custody
  <2>2. QED
    BY <1>6, <2>1 DEF ViewOK, FlagOK, IsTerminal
<1>9. ASSUME NEW p \in Owners PROVE HolderOK(p)'
  <2>1. HolderOK(p)
    BY DEF Custody
  <2>2. QED
    BY <1>1, <1>2, <2>1 DEF HolderOK, Agrees, IsTerminal
<1>10. QED
  BY <1>3, <1>4, <1>5, <1>7, <1>8, <1>9 DEF Custody

-----------------------------------------------------------------------------
(* Every step has one of these shapes. *)

Writers == {"c_record", "c_quote", "c_await", "c_fail", "h_finalize", "h_await", "h_authorize",
            "h_fail", "s_check", "s_submit", "s_wait", "s_unknown", "m_age", "r_outgoing",
            "r_incoming", "m_flag", "m_defer", "k_commit", "k_null", "k_done", "k_again"}

LEMMA FailFlow ==
  ASSUME NEW l, NEW m \in Failing, NEW s
  PROVE  Flow(l, m, s)
  BY DEF Flow, Failing, Doubtful, Creating, Finalizing, Settling, Closing

LEMMA StampedFields ==
  ASSUME NEW STATE new, new \in Rows
  PROVE  /\ Stamped(new).status = new.status
         /\ Stamped(new).callback_fingerprint = new.callback_fingerprint
         /\ Stamped(new).incoming_payment_url = new.incoming_payment_url
         /\ Stamped(new).reconciliation_required = new.reconciliation_required
         /\ Stamped(new).next_attempt_at = new.next_attempt_at
         /\ Stamped(new).cleanup_state = new.cleanup_state
         /\ Stamped(new).provider_failed = new.provider_failed
  BY DEF Stamped, Rows

LEMMA StampedStores ==
  ASSUME NEW o \in Owners, NEW STATE new, new \in Rows, NEW STATE m,
         Stores(o, new), Lands(pc[o], m, new)
  PROVE  Stores(o, Stamped(new)) /\ Lands(pc[o], m, Stamped(new))
<1> DEFINE S == Stamped(new)
<1>1. /\ S.status = new.status
      /\ S.callback_fingerprint = new.callback_fingerprint
      /\ S.incoming_payment_url = new.incoming_payment_url
      /\ S.reconciliation_required = new.reconciliation_required
      /\ S.next_attempt_at = new.next_attempt_at
      /\ S.cleanup_state = new.cleanup_state
      /\ S.provider_failed = new.provider_failed
  BY StampedFields
<1> HIDE DEF S
<1>2. Turn(pc[o], row, S)
  BY <1>1 DEF Stores, Turn
<1>3. FlagOK(S) /\ Scheduled(S) /\ (Reconcilable(S) => token)
  BY <1>1 DEF Stores, FlagOK, Scheduled, Reconcilable, IsTerminal
<1>4. Stores(o, S)
  BY <1>1, <1>2, <1>3 DEF Stores
<1>5. Lands(pc[o], m, S)
  BY <1>1 DEF Lands, IsTerminal
<1>6. QED
  BY <1>4, <1>5 DEF S

LEMMA WriteShape ==
  ASSUME TypeOK, IInv, Custody, NEW o \in Owners, pc[o] \in Writers,
         NEW STATE expected, NEW STATE new, new \in Rows,
         NEW STATE ok, NEW STATE none, NEW STATE err, Write(o, expected, new, ok, none, err),
         Holds(o) /\ row.status \in expected => Stores(o, new) /\ Lands(pc[o], ok, new),
         \/ {none, err} \subseteq Failing
         \/ pc[o] = "k_commit" /\ none = "k_retry" /\ err = "k_retry"
  PROVE  Careful(o)
<1>1. UNCHANGED <<lease, cb, sess, session, token, incoming, refs>>
  BY DEF Write, provider, history
<1>2. CASE CanTransition(o, expected, new) /\ row' = Stamped(new)
  <2>1. /\ Holds(o)
        /\ Stores(o, Stamped(new))
        /\ Lands(pc[o], ok, Stamped(new))
        /\ Stamped(new) \in Rows
    BY <1>2, StampedStores, StampedType DEF CanTransition
  <2>2. \/ Goto(o, ok) /\ snap' = [snap EXCEPT ![o] = row']
        \/ Goto(o, none) /\ UNCHANGED snap
        \/ Goto(o, err) /\ UNCHANGED snap
    BY <1>2 DEF Write
  <2>3. CASE Goto(o, ok) /\ snap' = [snap EXCEPT ![o] = row']
    <3>1. WrittenBy(o, pc[o], ok)
      BY <1>1, <1>2, <2>1, <2>3 DEF WrittenBy
    <3>2. QED
      BY <3>1, WriteCustody
  <2>4. ASSUME NEW STATE m, m \in {none, err}, Goto(o, m), UNCHANGED snap PROVE Careful(o)
    <3>1. WrittenBy(o, pc[o], m)
      BY <1>1, <1>2, <2>1, <2>4 DEF WrittenBy
    <3>2. QED
      BY <3>1, WriteCustody
  <2>5. QED
    BY <2>2, <2>3, <2>4
<1>3. ASSUME NEW STATE m, m \in {none, err}, Goto(o, m), UNCHANGED <<row, snap>> PROVE Careful(o)
  <2>1. Flow(pc[o], m, snap[o])
    <3>1. CASE m \in Failing
      BY <3>1, FailFlow
    <3>2. CASE pc[o] = "k_commit" /\ m = "k_retry"
      <4>1. IsTerminal(snap[o])
        BY <3>2 DEF Custody, ViewOK, Settling
      <4>2. QED
        BY <3>2, <4>1 DEF Flow, Creating, Finalizing, Settling, Closing, Doubtful
    <3>3. QED
      BY <1>3, <3>1, <3>2
  <2>2. m \notin {"h_finalize", "h_await", "h_authorize", "h_continue"}
    BY <1>3 DEF Failing
  <2>3. Passes(o, pc[o], m)
    BY <1>1, <1>3, <2>1, <2>2 DEF Passes, Writers
  <2>4. QED
    BY <2>3, PassCustody
<1>4. QED
  BY <1>2, <1>3 DEF Write

LEMMA UpdateShape ==
  ASSUME TypeOK, IInv, Custody, NEW o \in Owners, pc[o] \in Writers,
         NEW STATE new, new \in Rows, NEW STATE ok, NEW STATE err, Update(o, new, ok, err),
         Holds(o) /\ row.status = snap[o].status => Stores(o, new) /\ Lands(pc[o], ok, new),
         err \in Failing \/ (pc[o] = "k_commit" /\ err = "k_retry")
  PROVE  Careful(o)
<1>1. Write(o, {snap[o].status}, new, ok, err, err)
  BY DEF Update
<1>2. {err, err} \subseteq Failing \/ (pc[o] = "k_commit" /\ err = "k_retry")
  OBVIOUS
<1>3. Holds(o) /\ row.status \in {snap[o].status} => Stores(o, new) /\ Lands(pc[o], ok, new)
  OBVIOUS
<1>4. QED
  BY <1>1, <1>2, <1>3, WriteShape

(* Labels that a step without an effect of its own leads to. *)
LEMMA LocalShape ==
  ASSUME TypeOK, IInv, Custody, NEW o \in Owners, NEW STATE m, Local(o, m),
         pc[o] \notin {"idle", "h_session", "h_continue"},
         m \notin {"h_finalize", "h_await", "h_authorize"},
         Flow(pc[o], m, snap[o])
  PROVE  Careful(o)
<1>1. Passes(o, pc[o], m)
  BY DEF Passes, Local, store, provider, history
<1>2. QED
  BY <1>1, PassCustody

LEMMA AliveShape ==
  ASSUME TypeOK, IInv, Custody, NEW o \in Owners, NEW STATE m, NEW STATE err, CheckAlive(o, m, err),
         pc[o] \notin {"idle", "h_session", "h_continue"},
         {m, err} \cap {"h_finalize", "h_await", "h_authorize"} = {},
         Flow(pc[o], m, snap[o]), Flow(pc[o], err, snap[o])
  PROVE  Careful(o)
  BY LocalShape DEF CheckAlive

LEMMA DeleteShape ==
  ASSUME TypeOK, IInv, Custody, NEW o \in Owners, NEW STATE m, DeleteSession(o, m),
         pc[o] \notin {"idle", "h_session", "h_continue"},
         m \notin {"h_finalize", "h_await", "h_authorize"},
         Flow(pc[o], m, snap[o])
  PROVE  Careful(o)
<1>1. Passes(o, pc[o], m)
  BY DEF Passes, DeleteSession, store, provider, history
<1>2. QED
  BY <1>1, PassCustody

-----------------------------------------------------------------------------
(* create *)

LEMMA CreateCustody ==
  ASSUME TypeOK, IInv, Custody, NEW o \in Owners, Create(o)
  PROVE  Careful(o)
<1> USE DEF Writers, Failing
<1>1. LabelRow(pc[o], row) /\ LabelSnap(pc[o], snap[o]) /\ Scheduled(row) /\ FlagOK(row)
      /\ (Reconcilable(row) => token) /\ row \in Rows
  BY DEF IInv, ProcessOK, Custody, TypeOK
<1>2. CASE CreateClaim(o)
  <2>1. pc[o] = "c_claim" /\ Exists
    BY <1>2 DEF CreateClaim, Custody, Untouched
  <2>2. CASE ~Available
    <3>1. \A p \in Owners : Holds(p)' => Holds(p)
      BY <1>2, <2>2 DEF CreateClaim, Holds
    <3>2. QED
      BY <1>2, <2>1, <2>2, <3>1, FinishCustody DEF CreateClaim, provider, history
  <2>3. CASE Available
    BY <1>2, <2>1, <2>3, TakeCustody DEF CreateClaim, provider, history
  <2>4. QED
    BY <2>2, <2>3
<1>3. CASE CreateIncoming(o)
  <2>1. CASE pc[o] = "c_alive" /\ CheckAlive(o, "c_incoming", "c_fail")
    <3>1. Flow("c_alive", "c_incoming", snap[o]) /\ Flow("c_alive", "c_fail", snap[o])
      BY FailFlow DEF Flow, Creating, Finalizing, Settling, Closing, Doubtful
    <3>2. QED
      BY <2>1, <3>1, AliveShape
  <2>2. CASE pc[o] = "c_incoming"
    <3>1. PICK m \in {"c_record", "c_fail"} : Goto(o, m)
      BY <1>3, <2>2 DEF CreateIncoming
    <3>2. Flow("c_incoming", m, snap[o])
      BY FailFlow DEF Flow, Creating, Finalizing, Settling, Closing, Doubtful
    <3>3. Passes(o, "c_incoming", m)
      BY <1>3, <2>2, <3>1, <3>2 DEF CreateIncoming, Passes, store, history
    <3>4. QED
      BY <3>3, PassCustody
  <2>3. QED
    BY <1>3, <2>1, <2>2 DEF CreateIncoming
<1>4. CASE RecordIncoming(o)
  <2> DEFINE New == [row EXCEPT !.incoming_payment_url = TRUE]
  <2>1. /\ New \in Rows
        /\ New.status = row.status
        /\ New.callback_fingerprint = row.callback_fingerprint
        /\ New.incoming_payment_url = TRUE
        /\ New.reconciliation_required = row.reconciliation_required
        /\ New.next_attempt_at = row.next_attempt_at
        /\ New.cleanup_state = row.cleanup_state
        /\ New.provider_failed = row.provider_failed
    BY <1>1 DEF Rows
  <2>2. pc[o] = "c_record" /\ Update(o, New, "c_quote", "c_fail")
    BY <1>4 DEF RecordIncoming
  <2> HIDE DEF New
  <2>3. Stores(o, New)
    BY <1>1, <2>1, <2>2 DEF Stores, Turn, FlagOK, Scheduled, Reconcilable, IsTerminal
  <2>4. Lands("c_record", "c_quote", New)
    BY DEF Lands, Creating, Finalizing, Settling
  <2>5. QED
    BY <2>1, <2>2, <2>3, <2>4, UpdateShape
<1>5. CASE RecordQuote(o)
  <2> DEFINE New == [row EXCEPT !.quote_url = TRUE]
  <2>1. /\ New \in Rows
        /\ New.status = row.status
        /\ New.callback_fingerprint = row.callback_fingerprint
        /\ New.incoming_payment_url = row.incoming_payment_url
        /\ New.reconciliation_required = row.reconciliation_required
        /\ New.next_attempt_at = row.next_attempt_at
        /\ New.cleanup_state = row.cleanup_state
        /\ New.provider_failed = row.provider_failed
    BY <1>1 DEF Rows
  <2>2. pc[o] = "c_quote" /\ (Update(o, New, "c_grant", "c_fail") \/ Local(o, "c_fail"))
    BY <1>5 DEF RecordQuote
  <2> HIDE DEF New
  <2>3. Stores(o, New)
    BY <1>1, <2>1, <2>2 DEF Stores, Turn, FlagOK, Scheduled, Reconcilable, IsTerminal
  <2>4. Lands("c_quote", "c_grant", New)
    BY DEF Lands, Creating, Finalizing, Settling
  <2>5. Flow("c_quote", "c_fail", snap[o])
    BY FailFlow
  <2>6. QED
    BY <2>1, <2>2, <2>3, <2>4, <2>5, UpdateShape, LocalShape
<1>6. CASE RequestConsent(o)
  <2>1. CASE pc[o] = "c_grant" /\ CheckAlive(o, "c_session", "c_fail")
    <3>1. Flow("c_grant", "c_session", snap[o]) /\ Flow("c_grant", "c_fail", snap[o])
      BY FailFlow DEF Flow, Creating, Finalizing, Settling, Closing, Doubtful
    <3>2. QED
      BY <2>1, <3>1, AliveShape
  <2>2. CASE pc[o] = "c_session"
    <3>1. PICK m \in {"c_await", "c_fail"} : Goto(o, m)
      BY <1>6, <2>2 DEF RequestConsent
    <3>2. Flow("c_session", m, snap[o])
      BY FailFlow DEF Flow, Creating, Finalizing, Settling, Closing, Doubtful
    <3>3. session' \in {session, "fresh"}
      BY <1>6, <2>2 DEF RequestConsent
    <3>4. Passes(o, "c_session", m)
      BY <1>6, <2>2, <3>1, <3>2, <3>3 DEF RequestConsent, Passes, store, provider, history
    <3>5. QED
      BY <3>4, PassCustody
  <2>3. CASE pc[o] = "c_await"
    <3> DEFINE New == [row EXCEPT !.status = "AWAITING_AUTHORIZATION", !.next_attempt_at = "later"]
    <3>1. /\ New \in Rows
          /\ New.status = "AWAITING_AUTHORIZATION"
          /\ New.callback_fingerprint = row.callback_fingerprint
          /\ New.incoming_payment_url = row.incoming_payment_url
          /\ New.next_attempt_at = "later"
      BY <1>1 DEF Rows, Statuses, Preparing
    <3>2. Update(o, New, "release", "c_fail")
      BY <1>6, <2>3 DEF RequestConsent
    <3> HIDE DEF New
    <3>3. row.status \in {"CREATING", "FAILED", "EXPIRED"}
      BY <1>1, <2>3 DEF LabelRow, Creating
    <3>4. Stores(o, New)
      BY <2>3, <3>1, <3>3 DEF Stores, Turn, FlagOK, Scheduled, Reconcilable
    <3>5. Lands("c_await", "release", New)
      BY DEF Lands, Creating, Finalizing, Settling
    <3>6. QED
      BY <2>3, <3>1, <3>2, <3>4, <3>5, UpdateShape
  <2>4. QED
    BY <1>6, <2>1, <2>2, <2>3 DEF RequestConsent
<1>7. CASE CreateFails(o)
  <2>1. CASE pc[o] = "c_fail"
    <3>1. PICK s \in {"EXPIRED", "FAILED"} :
            Write(o, {"CREATING"}, [row EXCEPT !.status = s, !.next_attempt_at = "due"],
                  "c_delete", "c_delete", "release")
      BY <1>7, <2>1 DEF CreateFails
    <3> DEFINE New == [row EXCEPT !.status = s, !.next_attempt_at = "due"]
    <3>2. /\ New \in Rows
          /\ New.status = s
          /\ New.callback_fingerprint = row.callback_fingerprint
          /\ New.incoming_payment_url = row.incoming_payment_url
          /\ New.next_attempt_at = "due"
      BY <1>1 DEF Rows, Statuses, Terminal
    <3>3. Write(o, {"CREATING"}, New, "c_delete", "c_delete", "release")
      BY <3>1
    <3> HIDE DEF New
    <3>4. row.status \in {"CREATING"} => Stores(o, New)
      BY <2>1, <3>2 DEF Stores, Turn, FlagOK, Scheduled, Reconcilable
    <3>5. Lands("c_fail", "c_delete", New)
      BY DEF Lands, Creating, Finalizing, Settling
    <3>6. QED
      BY <2>1, <3>2, <3>3, <3>4, <3>5, WriteShape
  <2>2. CASE pc[o] = "c_delete" /\ DeleteSession(o, "release")
    BY <2>2, FailFlow, DeleteShape
  <2>3. QED
    BY <1>7, <2>1, <2>2 DEF CreateFails
<1>8. QED
  BY <1>2, <1>3, <1>4, <1>5, <1>6, <1>7 DEF Create

-----------------------------------------------------------------------------
(* handleCallback *)

LEMMA CallbackCustody ==
  ASSUME TypeOK, IInv, Custody, NEW o \in Owners, HandleCallback(o)
  PROVE  Careful(o)
<1> USE DEF Writers, Failing
<1>1. LabelSnap(pc[o], snap[o]) /\ row \in Rows
  BY DEF IInv, ProcessOK, TypeOK
<1>2. CASE CallbackClaim(o)
  <2>1. pc[o] = "h_claim" /\ Exists
    BY <1>2 DEF CallbackClaim, Custody, Untouched
  <2>2. CASE ~Available
    <3>1. \A p \in Owners : Holds(p)' => Holds(p)
      BY <1>2, <2>2 DEF CallbackClaim, Holds
    <3>2. QED
      BY <1>2, <2>1, <2>2, <3>1, FinishCustody DEF CallbackClaim, provider, history
  <2>3. CASE Available
    <3>1. PICK m \in {"s_check", "h_session", "release"} :
            Goto(o, m) /\ (m = "h_session" => ~Consumed(o))
      BY <1>2, <2>3 DEF CallbackClaim
    <3>2. m = "h_session" => row.callback_fingerprint \in {None, cb[o]}
      BY <3>1 DEF Consumed
    <3>3. /\ Take(o)
          /\ snap' = [snap EXCEPT ![o] = row]
          /\ UNCHANGED <<row, cb, sess, session, token, incoming, refs>>
      BY <1>2, <2>3 DEF CallbackClaim, provider, history
    <3>4. QED
      BY <2>1, <2>3, <3>1, <3>2, <3>3, TakeCustody
  <2>4. QED
    BY <2>2, <2>3
<1>3. CASE ReadSession(o)
  <2>1. PICK m \in {"h_finalize", "release"} : Goto(o, m) /\ (m = "h_finalize" => SessionVisible)
    BY <1>3 DEF ReadSession
  <2>2. Flow("h_session", m, snap[o])
    BY FailFlow DEF Flow, Creating, Finalizing, Settling, Closing, Doubtful
  <2>3. Passes(o, "h_session", m)
    BY <1>3, <2>1, <2>2 DEF ReadSession, Passes, SessionVisible, store, provider, history
  <2>4. QED
    BY <2>3, PassCustody
<1>4. CASE BindCallback(o)
  <2> DEFINE New == [row EXCEPT !.status = "FINALIZING", !.callback_fingerprint = cb[o],
                                !.next_attempt_at = "later"]
  <2>1. /\ New \in Rows
        /\ New.status = "FINALIZING"
        /\ New.callback_fingerprint = cb[o]
        /\ New.incoming_payment_url = row.incoming_payment_url
        /\ New.next_attempt_at = "later"
    BY <1>1 DEF TypeOK, Rows, Statuses, Preparing
  <2>2. pc[o] = "h_finalize" /\ Update(o, New, "h_alive", "release")
    BY <1>4 DEF BindCallback
  <2> HIDE DEF New
  <2>3. snap[o].status = "AWAITING_AUTHORIZATION"
    BY <1>1, <2>2 DEF LabelSnap
  <2>4. row.status = snap[o].status => Stores(o, New)
    BY <2>1, <2>2, <2>3 DEF Stores, Turn, FlagOK, Scheduled, Reconcilable
  <2>5. Lands("h_finalize", "h_alive", New)
    BY DEF Lands, Creating, Settling
  <2>6. QED
    BY <2>1, <2>2, <2>4, <2>5, UpdateShape
<1>5. CASE Continue(o)
  <2>1. CASE pc[o] = "h_alive" /\ CheckAlive(o, "h_continue", "h_fail")
    <3>1. Flow("h_alive", "h_continue", snap[o]) /\ Flow("h_alive", "h_fail", snap[o])
      BY FailFlow DEF Flow, Creating, Finalizing, Settling, Closing, Doubtful
    <3>2. QED
      BY <2>1, <3>1, AliveShape
  <2>2. CASE pc[o] = "h_continue"
    <3>1. PICK m \in {"h_save", "h_store", "h_fail"} : Goto(o, m)
      BY <1>5, <2>2 DEF Continue
    <3>2. Flow("h_continue", m, snap[o])
      BY FailFlow DEF Flow, Creating, Finalizing, Settling, Closing, Doubtful
    <3>3. Passes(o, "h_continue", m)
      BY <1>5, <2>2, <3>1, <3>2 DEF Continue, Passes, store, provider
    <3>4. QED
      BY <3>3, PassCustody
  <2>3. QED
    BY <1>5, <2>1, <2>2 DEF Continue
<1>6. CASE ConsentPending(o)
  <2>1. CASE pc[o] = "h_save"
    <3>1. PICK m \in {"h_await", "h_fail"} :
            Goto(o, m) /\ (m = "h_await" => session' = "continued")
      BY <1>6, <2>1 DEF ConsentPending, NextSession
    <3>2. Flow("h_save", m, snap[o])
      BY FailFlow DEF Flow, Creating, Finalizing, Settling, Closing, Doubtful
    <3>3. session' \in {session, "continued"}
      BY <1>6, <2>1 DEF ConsentPending, NextSession
    <3>4. Passes(o, "h_save", m)
      BY <1>6, <2>1, <3>1, <3>2, <3>3 DEF ConsentPending, Passes, store, provider, history
    <3>5. QED
      BY <3>4, PassCustody
  <2>2. CASE pc[o] = "h_await"
    <3> DEFINE New == [row EXCEPT !.status = "AWAITING_AUTHORIZATION", !.next_attempt_at = "later"]
    <3>1. /\ New \in Rows
          /\ New.status = "AWAITING_AUTHORIZATION"
          /\ New.callback_fingerprint = row.callback_fingerprint
          /\ New.incoming_payment_url = row.incoming_payment_url
          /\ New.next_attempt_at = "later"
      BY <1>1 DEF Rows, Statuses, Preparing
    <3>2. Update(o, New, "release", "h_fail")
      BY <1>6, <2>2 DEF ConsentPending
    <3> HIDE DEF New
    <3>3. snap[o].status = "FINALIZING"
      BY <1>1, <2>2 DEF LabelSnap
    <3>4. row.status = snap[o].status => Stores(o, New)
      BY <2>2, <3>1, <3>3 DEF Stores, Turn, FlagOK, Scheduled, Reconcilable
    <3>5. Lands("h_await", "release", New)
      BY DEF Lands, Creating, Finalizing, Settling
    <3>6. QED
      BY <2>2, <3>1, <3>2, <3>4, <3>5, UpdateShape
  <2>3. QED
    BY <1>6, <2>1, <2>2 DEF ConsentPending
<1>7. CASE ConsentFinal(o)
  <2>1. CASE pc[o] = "h_store"
    <3>1. PICK m \in {"h_authorize", "h_fail"} : Goto(o, m) /\ (m = "h_authorize" => token')
      BY <1>7, <2>1 DEF ConsentFinal
    <3>2. Flow("h_store", m, snap[o])
      BY FailFlow DEF Flow, Creating, Finalizing, Settling, Closing, Doubtful
    <3>3. token' = token \/ token'
      <4>1. token' = TRUE \/ token' = token \/ token' = (token \/ WithOwner(o))
        BY <1>7, <2>1, Zenon DEF ConsentFinal
      <4>2. token \in BOOLEAN
        BY DEF TypeOK
      <4>3. CASE token' = (token \/ WithOwner(o))
        <5>1. CASE token
          BY <4>3, <5>1
        <5>2. CASE ~token /\ WithOwner(o)
          BY <4>3, <5>2
        <5>3. CASE ~token /\ ~WithOwner(o)
          BY <4>2, <4>3, <5>3
        <5>4. QED
          BY <5>1, <5>2, <5>3
      <4>4. QED
        BY <4>1, <4>3
    <3>4. UNCHANGED <<row, lease, snap, cb, sess, session, incoming, refs>>
      BY <1>7, <2>1 DEF ConsentFinal, store, provider, history
    <3>5. Passes(o, "h_store", m)
      BY <2>1, <3>1, <3>2, <3>3, <3>4 DEF Passes
    <3>6. QED
      BY <3>5, PassCustody
  <2>2. CASE pc[o] = "h_authorize"
    <3> DEFINE New == [row EXCEPT !.status = "AUTHORIZED", !.next_attempt_at = "due"]
    <3>1. /\ New \in Rows
          /\ New.status = "AUTHORIZED"
          /\ New.callback_fingerprint = row.callback_fingerprint
          /\ New.incoming_payment_url = row.incoming_payment_url
          /\ New.next_attempt_at = "due"
      BY <1>1 DEF Rows, Statuses, Preparing
    <3>2. Update(o, New, "s_check", "h_fail")
      BY <1>7, <2>2 DEF ConsentFinal
    <3> HIDE DEF New
    <3>3. snap[o].status = "FINALIZING"
      BY <1>1, <2>2 DEF LabelSnap
    <3>4. Holds(o) => token
      BY <2>2 DEF Custody, HolderOK
    <3>5. Holds(o) /\ row.status = snap[o].status => Stores(o, New)
      BY <2>2, <3>1, <3>3, <3>4 DEF Stores, Turn, FlagOK, Scheduled
    <3>6. Lands("h_authorize", "s_check", New)
      BY DEF Lands, Creating, Finalizing, Settling
    <3>7. QED
      BY <2>2, <3>1, <3>2, <3>5, <3>6, UpdateShape
  <2>3. QED
    BY <1>7, <2>1, <2>2 DEF ConsentFinal
<1>8. CASE CallbackFails(o)
  <2>1. CASE pc[o] = "h_fail"
    <3> DEFINE New == [row EXCEPT !.status = "FAILED", !.next_attempt_at = "due"]
    <3>1. /\ New \in Rows
          /\ New.status = "FAILED"
          /\ New.callback_fingerprint = row.callback_fingerprint
          /\ New.incoming_payment_url = row.incoming_payment_url
          /\ New.next_attempt_at = "due"
      BY <1>1 DEF Rows, Statuses, Terminal
    <3>2. Write(o, {"FINALIZING"}, New, "h_delete", "h_delete", "release")
      BY <1>8, <2>1 DEF CallbackFails
    <3> HIDE DEF New
    <3>3. row.status \in {"FINALIZING"} => Stores(o, New)
      BY <2>1, <3>1 DEF Stores, Turn, FlagOK, Scheduled, Reconcilable
    <3>4. Lands("h_fail", "h_delete", New)
      BY DEF Lands, Creating, Finalizing, Settling
    <3>5. QED
      BY <2>1, <3>1, <3>2, <3>3, <3>4, WriteShape
  <2>2. CASE pc[o] = "h_delete" /\ DeleteSession(o, "release")
    BY <2>2, FailFlow, DeleteShape
  <2>3. QED
    BY <1>8, <2>1, <2>2 DEF CallbackFails
<1>9. QED
  BY <1>2, <1>3, <1>4, <1>5, <1>6, <1>7, <1>8 DEF HandleCallback

-----------------------------------------------------------------------------
(* submit *)

LEMMA WorkLands ==
  ASSUME NEW o \in Owners, NEW STATE l, NEW STATE t
  PROVE  /\ Lands(l, SettleLabel(t), t)
         /\ Lands(l, WorkLabel(o, t), t)
         /\ Lands(l, AfterSubmit(o, t), t)
         /\ l \in {"m_age", "s_delete"} =>
              Flow(l, WorkLabel(o, t), t) /\ Flow(l, AfterSubmit(o, t), t)
         /\ {WorkLabel(o, t), AfterSubmit(o, t)} \cap {"h_finalize", "h_await", "h_authorize"} = {}
         /\ SubmitThrows(o) \in Failing
<1>1. SettleLabel(t) \in {"k_delete", "m_defer"} /\ (SettleLabel(t) = "k_delete" => IsTerminal(t))
  BY DEF SettleLabel
<1>2. /\ WorkLabel(o, t) \in {"s_check", "r_incoming", "r_outgoing", "k_delete", "m_defer"}
      /\ WorkLabel(o, t) = "k_delete" => IsTerminal(t)
  BY <1>1 DEF WorkLabel
<1>3. /\ AfterSubmit(o, t) \in {"h_delete", "release", "s_check", "r_incoming", "r_outgoing",
                                "k_delete", "m_defer"}
      /\ AfterSubmit(o, t) = "k_delete" => IsTerminal(t)
  BY <1>2 DEF AfterSubmit
<1>4. ASSUME NEW STATE m, m = "k_delete" => IsTerminal(t),
             m \in {"h_delete", "release", "s_check", "r_incoming", "r_outgoing", "k_delete", "m_defer"}
      PROVE  /\ Lands(l, m, t)
             /\ l \in {"m_age", "s_delete"} => Flow(l, m, t)
  BY <1>4 DEF Lands, Flow, Creating, Finalizing, Settling, Closing, Doubtful, Failing
<1>5. SubmitThrows(o) \in Failing
  BY DEF SubmitThrows, Failing
<1>6. Lands(l, SettleLabel(t), t)
  BY <1>1, <1>4
<1>7. Lands(l, WorkLabel(o, t), t) /\ (l \in {"m_age", "s_delete"} => Flow(l, WorkLabel(o, t), t))
  BY <1>2, <1>4
<1>8. Lands(l, AfterSubmit(o, t), t) /\ (l \in {"m_age", "s_delete"} => Flow(l, AfterSubmit(o, t), t))
  BY <1>3, <1>4
<1>9. QED
  BY <1>2, <1>3, <1>5, <1>6, <1>7, <1>8

LEMMA InSubmitShape ==
  ASSUME TypeOK, IInv, Custody, NEW o \in Owners, pc[o] \in Writers,
         NEW STATE new, new \in Rows, UpdateInSubmit(o, new),
         Holds(o) /\ row.status = snap[o].status => Stores(o, new)
  PROVE  Careful(o)
  BY WorkLands, UpdateShape DEF UpdateInSubmit

LEMMA RecordOutgoingCustody ==
  ASSUME TypeOK, IInv, Custody, NEW o \in Owners, NEW STATE ok, NEW STATE err,
         RecordOutgoing(o, ok, err),
         \/ /\ pc[o] = "s_wait" /\ snap[o].status = "SUBMITTING"
            /\ ok = "s_delete" /\ err = "s_unknown"
         \/ /\ pc[o] = "r_outgoing" /\ snap[o].status \in {"PENDING", "UNKNOWN"}
            /\ ok = "r_incoming" /\ err = "m_catch"
            /\ token
  PROVE  Careful(o)
<1>1. PICK amount \in 0 .. delivered, failed \in {FALSE, payment = "failed"} :
        Update(o, [row EXCEPT !.outgoing_payment_url = TRUE,
                              !.sent_amount = amount,
                              !.provider_failed = snap[o].provider_failed \/ failed,
                              !.status = "PENDING",
                              !.reconciliation_required = FALSE,
                              !.next_attempt_at = "due"], ok, err)
  BY DEF RecordOutgoing
<1> DEFINE New == [row EXCEPT !.outgoing_payment_url = TRUE,
                              !.sent_amount = amount,
                              !.provider_failed = snap[o].provider_failed \/ failed,
                              !.status = "PENDING",
                              !.reconciliation_required = FALSE,
                              !.next_attempt_at = "due"]
<1>2. amount \in 0 .. FullAmount
  BY DEF TypeOK
<1>3. (snap[o].provider_failed \/ failed) \in BOOLEAN
  BY Zenon
<1>4. /\ New \in Rows
      /\ New.status = "PENDING"
      /\ New.callback_fingerprint = row.callback_fingerprint
      /\ New.incoming_payment_url = row.incoming_payment_url
      /\ New.next_attempt_at = "due"
  <2>1. row \in Rows
    BY DEF TypeOK
  <2> QED BY <1>2, <1>3, <2>1 DEF Rows, Statuses, Instructed
<1>5. Update(o, New, ok, err)
  BY <1>1
<1> HIDE DEF New
<1>6. row.status = snap[o].status => token
  BY DEF Custody, Reconcilable
<1>7. row.status = snap[o].status => Stores(o, New)
  BY <1>4, <1>6 DEF Stores, Turn, FlagOK, Scheduled
<1>8. Lands(pc[o], ok, New) /\ err \in Failing /\ pc[o] \in Writers
  BY <1>4 DEF Lands, Creating, Finalizing, Settling, Failing, Writers
<1>9. QED
  BY <1>4, <1>5, <1>7, <1>8, UpdateShape

LEMMA SubmitCustody ==
  ASSUME TypeOK, IInv, Custody, NEW o \in Owners, Submit(o)
  PROVE  Careful(o)
<1> USE DEF Writers
<1>1. LabelSnap(pc[o], snap[o]) /\ row \in Rows /\ (Reconcilable(row) => token)
  BY DEF IInv, ProcessOK, TypeOK, Custody
<1>2. CASE CheckSubmit(o)
  <2>1. pc[o] = "s_check" /\ snap[o].status = "AUTHORIZED"
    BY <1>1, <1>2 DEF CheckSubmit, LabelSnap
  <2>2. ASSUME NEW s \in {"EXPIRED", "FAILED"},
               UpdateInSubmit(o, [row EXCEPT !.status = s, !.next_attempt_at = "due"])
        PROVE  Careful(o)
    <3> DEFINE New == [row EXCEPT !.status = s, !.next_attempt_at = "due"]
    <3>1. /\ New \in Rows
          /\ New.status = s
          /\ New.callback_fingerprint = row.callback_fingerprint
          /\ New.incoming_payment_url = row.incoming_payment_url
          /\ New.next_attempt_at = "due"
      BY <1>1 DEF Rows, Statuses, Terminal
    <3>2. UpdateInSubmit(o, New)
      BY <2>2
    <3> HIDE DEF New
    <3>3. row.status = snap[o].status => Stores(o, New)
      BY <2>1, <3>1 DEF Stores, Turn, FlagOK, Scheduled, Reconcilable
    <3>4. QED
      BY <2>1, <3>1, <3>2, <3>3, InSubmitShape
  <2>3. SubmitThrows(o) \in Failing /\ Flow("s_check", SubmitThrows(o), snap[o])
    BY WorkLands, FailFlow
  <2>4. SubmitThrows(o) \notin {"h_finalize", "h_await", "h_authorize"}
    BY <2>3 DEF Failing
  <2>5. CASE CheckAlive(o, "s_submit", SubmitThrows(o))
    <3>1. Flow("s_check", "s_submit", snap[o])
      BY DEF Flow, Creating, Finalizing, Settling, Closing, Doubtful, Failing
    <3>2. QED
      BY <2>1, <2>3, <2>4, <2>5, <3>1, AliveShape
  <2>6. CASE Local(o, SubmitThrows(o))
    BY <2>1, <2>3, <2>4, <2>6, LocalShape
  <2>7. QED
    BY <1>2, <2>2, <2>5, <2>6 DEF CheckSubmit
<1>3. CASE MarkSubmitting(o)
  <2> DEFINE New == [row EXCEPT !.status = "SUBMITTING", !.next_attempt_at = "later"]
  <2>1. /\ New \in Rows
        /\ New.status = "SUBMITTING"
        /\ New.callback_fingerprint = row.callback_fingerprint
        /\ New.incoming_payment_url = row.incoming_payment_url
        /\ New.next_attempt_at = "later"
    BY <1>1 DEF Rows, Statuses, Instructed
  <2>2. pc[o] = "s_submit" /\ snap[o].status = "AUTHORIZED"
    BY <1>1, <1>3 DEF MarkSubmitting, LabelSnap
  <2>3. Update(o, New, "s_send", SubmitThrows(o))
    BY <1>3 DEF MarkSubmitting
  <2> HIDE DEF New
  <2>4. row.status = "AUTHORIZED" => token
    BY <1>1 DEF Reconcilable
  <2>5. row.status = snap[o].status => Stores(o, New)
    BY <2>1, <2>2, <2>4 DEF Stores, Turn, FlagOK, Scheduled
  <2>6. Lands("s_submit", "s_send", New)
    BY DEF Lands, Creating, Finalizing, Settling
  <2>7. QED
    BY <2>1, <2>2, <2>3, <2>5, <2>6, WorkLands, UpdateShape
<1>4. CASE Send(o)
  <2>1. PICK m \in {"s_wait", "s_unknown"} : Goto(o, m)
    BY <1>4 DEF Send
  <2>2. Flow("s_send", m, snap[o])
    BY DEF Flow, Creating, Finalizing, Settling, Closing, Doubtful, Failing
  <2>3. Passes(o, "s_send", m)
    BY <1>4, <2>1, <2>2 DEF Send, Passes, store
  <2>4. QED
    BY <2>3, PassCustody
<1>5. CASE Answer(o)
  <2>1. pc[o] = "s_wait" /\ snap[o].status = "SUBMITTING"
    BY <1>1, <1>5 DEF Answer, LabelSnap
  <2>2. ASSUME request = "refused", NEW s \in {"EXPIRED", "FAILED"},
               UpdateInSubmit(o, [row EXCEPT !.status = s, !.reconciliation_required = FALSE,
                                             !.next_attempt_at = "due"])
        PROVE  Careful(o)
    <3> DEFINE New == [row EXCEPT !.status = s, !.reconciliation_required = FALSE,
                                  !.next_attempt_at = "due"]
    <3>1. /\ New \in Rows
          /\ New.status = s
          /\ New.callback_fingerprint = row.callback_fingerprint
          /\ New.incoming_payment_url = row.incoming_payment_url
          /\ New.next_attempt_at = "due"
      BY <1>1 DEF Rows, Statuses, Terminal
    <3>2. UpdateInSubmit(o, New)
      BY <2>2
    <3> HIDE DEF New
    <3>3. row.status = snap[o].status => Stores(o, New)
      BY <2>1, <2>2, <3>1 DEF Stores, Turn, FlagOK, Scheduled, Reconcilable
    <3>4. QED
      BY <2>1, <3>1, <3>2, <3>3, InSubmitShape
  <2>3. CASE RecordOutgoing(o, "s_delete", "s_unknown")
    BY <2>1, <2>3, RecordOutgoingCustody
  <2>4. CASE Local(o, "s_unknown")
    <3>1. Flow("s_wait", "s_unknown", snap[o])
      BY FailFlow DEF Failing
    <3>2. QED
      BY <2>1, <2>4, <3>1, LocalShape
  <2>5. QED
    BY <1>5, <2>2, <2>3, <2>4 DEF Answer
<1>6. CASE OutcomeUnknown(o)
  <2>1. /\ UnknownRow \in Rows
        /\ UnknownRow.status = "UNKNOWN"
        /\ UnknownRow.callback_fingerprint = row.callback_fingerprint
        /\ UnknownRow.incoming_payment_url = row.incoming_payment_url
        /\ UnknownRow.reconciliation_required
        /\ UnknownRow.next_attempt_at = "due"
    BY <1>1 DEF UnknownRow, Rows, Statuses, Instructed
  <2>2. pc[o] = "s_unknown" /\ snap[o].status = "SUBMITTING" /\ UpdateInSubmit(o, UnknownRow)
    BY <1>1, <1>6 DEF OutcomeUnknown, LabelSnap
  <2>3. row.status = "SUBMITTING" => token
    BY <1>1 DEF Reconcilable
  <2>4. row.status = snap[o].status => Stores(o, UnknownRow)
    BY <2>1, <2>2, <2>3 DEF Stores, Turn, FlagOK, Scheduled
  <2>5. QED
    BY <2>1, <2>2, <2>4, InSubmitShape
<1>7. CASE pc[o] = "s_delete" /\ DeleteSession(o, AfterSubmit(o, snap[o]))
  <2>1. /\ Flow("s_delete", AfterSubmit(o, snap[o]), snap[o])
        /\ AfterSubmit(o, snap[o]) \notin {"h_finalize", "h_await", "h_authorize"}
    BY WorkLands
  <2>2. QED
    BY <1>7, <2>1, DeleteShape
<1>8. QED
  BY <1>2, <1>3, <1>4, <1>5, <1>6, <1>7 DEF Submit

-----------------------------------------------------------------------------
(* maintain and cleanup *)

(* The catch of maintain looks at the row again, with or without the lease. *)
LEMMA ReloadCustody ==
  ASSUME TypeOK, IInv, Custody, NEW o \in Owners, pc[o] = "m_catch", Goto(o, "m_flag"),
         snap' = [snap EXCEPT ![o] = row],
         UNCHANGED <<row, lease, cb, sess, session, token, incoming, refs>>
  PROVE  Careful(o)
<1>1. \A p \in Owners : pc'[p] = IF p = o THEN "m_flag" ELSE pc[p]
  BY DEF Goto, TypeOK
<1>2. \A p \in Owners : snap'[p] = IF p = o THEN row ELSE snap[p]
  BY DEF TypeOK
<1>3. \A p \in Owners : Holds(p)' <=> Holds(p)
  BY DEF Holds
<1>4. "m_flag" \notin Settling \cup Finalizing \cup Creating \cup Closing
  BY DEF Settling, Finalizing, Creating, Closing
<1>5. Untouched'
  BY DEF Custody, Untouched, Exists
<1>6. FlagOK(row)' /\ Scheduled(row)' /\ (Reconcilable(row) => token)'
  BY DEF Custody, FlagOK, Scheduled, Reconcilable, IsTerminal
<1>7. OneConsent'
  BY <1>1, <1>4 DEF Custody, OneConsent
<1>8. RefOnce'
  BY <1>1 DEF Custody, RefOnce
<1>9. Final => Final'
  BY <1>1, <1>3, <1>4 DEF Final, IsTerminal
<1>10. ClosureOK'
  BY <1>1, <1>9 DEF Custody, ClosureOK
<1>11. ASSUME NEW p \in Owners PROVE ViewOK(p)'
  <2>1. ViewOK(p)
    BY DEF Custody
  <2>2. CASE p # o
    BY <1>1, <1>2, <1>9, <2>1, <2>2 DEF ViewOK, FlagOK, IsTerminal
  <2>3. CASE p = o
    BY <1>1, <1>2, <1>4, <1>6, <2>3 DEF ViewOK, FlagOK
  <2>4. QED
    BY <2>2, <2>3
<1>12. ASSUME NEW p \in Owners PROVE HolderOK(p)'
  <2>1. HolderOK(p)
    BY DEF Custody
  <2>2. CASE p # o
    BY <1>1, <1>2, <1>3, <2>1, <2>2 DEF HolderOK, Agrees, IsTerminal
  <2>3. CASE p = o
    BY <1>1, <1>2, <1>4, <2>3 DEF HolderOK, Agrees
  <2>4. QED
    BY <2>2, <2>3
<1>13. QED
  BY <1>5, <1>6, <1>7, <1>8, <1>10, <1>11, <1>12 DEF Custody, Careful

(* A write of the holder that leaves the status alone. *)
LEMMA QuietShape ==
  ASSUME TypeOK, IInv, Custody, NEW o \in Owners,
         pc[o] \in {"m_flag", "m_defer", "k_commit", "k_null", "k_done", "k_again"},
         NEW STATE new, new \in Rows, NEW STATE ok, NEW STATE err, Update(o, new, ok, err),
         new.status = row.status,
         new.callback_fingerprint = row.callback_fingerprint,
         new.incoming_payment_url = row.incoming_payment_url,
         new.provider_failed = row.provider_failed,
         row.status = snap[o].status => FlagOK(new),
         Holds(o) => Scheduled(new) /\ Lands(pc[o], ok, new),
         err \in Failing \/ (pc[o] = "k_commit" /\ err = "k_retry")
  PROVE  Careful(o)
<1>1. Reconcilable(new) => token
  BY DEF Custody, Reconcilable
<1>2. Turn(pc[o], row, new)
  BY DEF Turn
<1>3. Holds(o) /\ row.status = snap[o].status => Stores(o, new)
  BY <1>1, <1>2 DEF Stores
<1>4. pc[o] \in Writers
  BY DEF Writers
<1>5. QED
  BY <1>3, <1>4, UpdateShape

LEMMA MaintainCustody ==
  ASSUME TypeOK, IInv, Custody, NEW o \in Owners, Maintain(o)
  PROVE  Careful(o)
<1> USE DEF Writers, Failing
<1>1. /\ LabelSnap(pc[o], snap[o]) /\ row \in Rows
      /\ FlagOK(row) /\ Scheduled(row) /\ (Reconcilable(row) => token)
      /\ ViewOK(o) /\ HolderOK(o)
  BY DEF IInv, ProcessOK, TypeOK, Custody
<1>2. CASE AgeOut(o)
  <2>1. pc[o] = "m_age"
    BY <1>2 DEF AgeOut
  <2>2. CASE Stale(snap[o]) /\ Update(o, Interrupted, WorkLabel(o, Interrupted), "release")
    <3>1. /\ Interrupted \in Rows
          /\ Interrupted.status = IF row.status = "SUBMITTING" THEN "UNKNOWN" ELSE "FAILED"
          /\ Interrupted.callback_fingerprint = row.callback_fingerprint
          /\ Interrupted.incoming_payment_url = row.incoming_payment_url
          /\ Interrupted.reconciliation_required <=> row.status = "SUBMITTING"
          /\ Interrupted.next_attempt_at = row.next_attempt_at
      BY <1>1 DEF Interrupted, Rows, Statuses, Terminal, Instructed
    <3>2. snap[o].status \in {"CREATING", "FINALIZING", "SUBMITTING"}
      BY <2>2 DEF Stale, Interruptible
    <3>3. ASSUME row.status = snap[o].status PROVE Stores(o, Interrupted)
      <4>1. row.next_attempt_at # "null"
        BY <1>1, <3>2, <3>3 DEF Scheduled, IsTerminal, Terminal
      <4>2. row.status = "SUBMITTING" => token
        BY <1>1 DEF Reconcilable
      <4>3. FlagOK(Interrupted) /\ Scheduled(Interrupted) /\ (Reconcilable(Interrupted) => token)
        BY <3>1, <4>1, <4>2 DEF FlagOK, Scheduled, Reconcilable
      <4>4. Turn("m_age", row, Interrupted)
        BY <3>1, <3>2, <3>3 DEF Turn
      <4>5. QED
        BY <2>1, <3>1, <4>3, <4>4 DEF Stores
    <3>4. Lands("m_age", WorkLabel(o, Interrupted), Interrupted)
      BY WorkLands
    <3>5. QED
      BY <2>1, <2>2, <3>1, <3>3, <3>4, UpdateShape
  <2>3. CASE Expirable(snap[o]) /\ Update(o, [row EXCEPT !.status = "EXPIRED"], "k_delete", "release")
    <3> DEFINE New == [row EXCEPT !.status = "EXPIRED"]
    <3>1. /\ New \in Rows
          /\ New.status = "EXPIRED"
          /\ New.callback_fingerprint = row.callback_fingerprint
          /\ New.incoming_payment_url = row.incoming_payment_url
          /\ New.next_attempt_at = row.next_attempt_at
      BY <1>1 DEF Rows, Statuses, Terminal
    <3>2. Update(o, New, "k_delete", "release")
      BY <2>3
    <3> HIDE DEF New
    <3>3. snap[o].status \in {"CREATING", "AWAITING_AUTHORIZATION", "AUTHORIZED"}
      BY <2>3 DEF Expirable
    <3>4. ASSUME row.status = snap[o].status PROVE Stores(o, New)
      <4>1. row.next_attempt_at # "null"
        BY <1>1, <3>3, <3>4 DEF Scheduled, IsTerminal, Terminal
      <4>2. QED
        BY <2>1, <3>1, <3>3, <3>4, <4>1 DEF Stores, Turn, FlagOK, Scheduled, Reconcilable
    <3>5. Lands("m_age", "k_delete", New)
      BY <3>1 DEF Lands, Creating, Finalizing, Settling, IsTerminal, Terminal
    <3>6. QED
      BY <2>1, <3>1, <3>2, <3>4, <3>5, UpdateShape
  <2>4. CASE Local(o, WorkLabel(o, snap[o]))
    <3>1. /\ Flow("m_age", WorkLabel(o, snap[o]), snap[o])
          /\ WorkLabel(o, snap[o]) \notin {"h_finalize", "h_await", "h_authorize"}
      BY WorkLands
    <3>2. QED
      BY <2>1, <2>4, <3>1, LocalShape
  <2>5. QED
    BY <1>2, <2>2, <2>3, <2>4 DEF AgeOut
<1>3. CASE ReadOutgoing(o)
  <2>1. pc[o] = "r_outgoing" /\ snap[o].status \in {"PENDING", "UNKNOWN"}
    BY <1>1, <1>3 DEF ReadOutgoing, LabelSnap
  <2>2. CASE token /\ RecordOutgoing(o, "r_incoming", "m_catch")
    BY <2>1, <2>2, RecordOutgoingCustody
  <2>3. CASE Update(o, [row EXCEPT !.reconciliation_required = TRUE], "m_defer", "m_catch")
    <3> DEFINE New == [row EXCEPT !.reconciliation_required = TRUE]
    <3>1. /\ New \in Rows
          /\ New.status = row.status
          /\ New.callback_fingerprint = row.callback_fingerprint
          /\ New.incoming_payment_url = row.incoming_payment_url
          /\ New.reconciliation_required
          /\ New.next_attempt_at = row.next_attempt_at
          /\ New.cleanup_state = row.cleanup_state
          /\ New.provider_failed = row.provider_failed
      BY <1>1 DEF Rows
    <3>2. Update(o, New, "m_defer", "m_catch")
      BY <2>3
    <3> HIDE DEF New
    <3>3. row.status = snap[o].status => Stores(o, New)
      BY <1>1, <2>1, <3>1 DEF Stores, Turn, FlagOK, Scheduled, Reconcilable, IsTerminal
    <3>4. Lands("r_outgoing", "m_defer", New)
      BY DEF Lands, Creating, Finalizing, Settling
    <3>5. QED
      BY <2>1, <3>1, <3>2, <3>3, <3>4, UpdateShape
  <2>4. CASE Local(o, "m_catch")
    BY <2>1, <2>4, FailFlow, LocalShape
  <2>5. QED
    BY <1>3, <2>2, <2>3, <2>4 DEF ReadOutgoing
<1>4. CASE ReadIncoming(o)
  <2> DEFINE New(closed) ==
               [row EXCEPT !.received_amount = delivered,
                           !.incoming_completed_at = snap[o].incoming_completed_at \/ closed,
                           !.status = ReceiptStatus(o, closed),
                           !.reconciliation_required = FALSE]
  <2>0. CASE Local(o, "m_catch")
    BY <1>4, <2>0, FailFlow, LocalShape DEF ReadIncoming
  <2> SUFFICES ASSUME \E closed \in {FALSE, incoming # "open"} :
                        Update(o, New(closed), SettleLabel(New(closed)), "m_catch")
               PROVE  Careful(o)
    BY <1>4, <2>0 DEF ReadIncoming
  <2>1. PICK closed \in {FALSE, incoming # "open"} :
          Update(o, New(closed), SettleLabel(New(closed)), "m_catch")
    OBVIOUS
  <2>2. (snap[o].incoming_completed_at \/ closed) \in BOOLEAN
    BY Zenon
  <2>3. ReceiptStatus(o, closed) \in {"COMPLETED", "FAILED", "PENDING"}
    BY DEF ReceiptStatus
  <2>4. /\ New(closed) \in Rows
        /\ New(closed).status = ReceiptStatus(o, closed)
        /\ New(closed).callback_fingerprint = row.callback_fingerprint
        /\ New(closed).incoming_payment_url = row.incoming_payment_url
        /\ New(closed).next_attempt_at = row.next_attempt_at
        /\ New(closed).provider_failed = row.provider_failed
    <3>1. row \in Rows /\ delivered \in 0 .. FullAmount
      BY DEF TypeOK
    <3> DEFINE resolved == snap[o].incoming_completed_at \/ closed
               status == ReceiptStatus(o, closed)
    <3>2. resolved \in BOOLEAN /\ status \in Statuses
      BY <2>2, <2>3 DEF Statuses, Terminal, Instructed
    <3>3. New(closed) = [row EXCEPT !.received_amount = delivered, !.incoming_completed_at = resolved,
                                    !.status = status, !.reconciliation_required = FALSE]
      OBVIOUS
    <3> HIDE DEF New, resolved, status
    <3>4. /\ New(closed) \in Rows
          /\ New(closed).status = status
          /\ New(closed).callback_fingerprint = row.callback_fingerprint
          /\ New(closed).incoming_payment_url = row.incoming_payment_url
          /\ New(closed).next_attempt_at = row.next_attempt_at
          /\ New(closed).provider_failed = row.provider_failed
      BY <3>1, <3>2, <3>3 DEF Rows
    <3> QED BY <3>4 DEF status
  <2> HIDE DEF New
  <2>5. pc[o] = "r_incoming" /\ snap[o].status \in {"PENDING", "UNKNOWN"}
    BY <1>1, <1>4 DEF ReadIncoming, LabelSnap
  <2>6. ASSUME row.status = snap[o].status PROVE Stores(o, New(closed))
    <3>1. row.next_attempt_at # "null"
      BY <1>1, <2>5, <2>6 DEF Scheduled, IsTerminal, Terminal
    <3>2. ~row.provider_failed => token
      BY <1>1, <2>5, <2>6 DEF Reconcilable
    <3>3. /\ FlagOK(New(closed)) /\ Scheduled(New(closed))
          /\ Reconcilable(New(closed)) => token
      BY <2>3, <2>4, <3>1, <3>2 DEF FlagOK, Scheduled, Reconcilable
    <3>4. Turn("r_incoming", row, New(closed))
      BY <2>3, <2>4, <2>5, <2>6 DEF Turn
    <3>5. QED
      BY <2>4, <2>5, <3>3, <3>4 DEF Stores
  <2>7. Lands("r_incoming", SettleLabel(New(closed)), New(closed))
    BY WorkLands
  <2>8. QED
    BY <2>1, <2>4, <2>5, <2>6, <2>7, UpdateShape
<1>5. CASE RefreshFails(o)
  <2>1. CASE pc[o] = "m_catch"
    <3>1. CASE snap' = [snap EXCEPT ![o] = row] /\ Goto(o, "m_flag")
      BY <1>5, <2>1, <3>1, ReloadCustody DEF RefreshFails, store, provider, history
    <3>2. CASE Goto(o, "release") /\ UNCHANGED snap
      <4>1. Flow("m_catch", "release", snap[o])
        BY FailFlow
      <4>2. Passes(o, "m_catch", "release")
        BY <1>5, <2>1, <3>2, <4>1 DEF RefreshFails, Passes, store, provider, history
      <4>3. QED
        BY <4>2, PassCustody
    <3>3. QED
      BY <1>5, <2>1, <3>1, <3>2 DEF RefreshFails
  <2>2. CASE pc[o] = "m_flag"
    <3>1. PICK needsHelp \in BOOLEAN : Update(o, Flagged(o, needsHelp), SettleLabel(row), "release")
      BY <1>5, <2>2 DEF RefreshFails
    <3> DEFINE New == Flagged(o, needsHelp)
    <3>2. (snap[o].reconciliation_required \/ needsHelp) \in BOOLEAN
      BY Zenon
    <3>3. /\ New \in Rows
          /\ New.status = row.status
          /\ New.callback_fingerprint = row.callback_fingerprint
          /\ New.incoming_payment_url = row.incoming_payment_url
          /\ New.next_attempt_at = row.next_attempt_at
          /\ New.cleanup_state = row.cleanup_state
          /\ New.provider_failed = row.provider_failed
          /\ New.reconciliation_required = (snap[o].reconciliation_required \/ needsHelp)
      BY <1>1, <3>2 DEF Flagged, Rows
    <3>4. Update(o, New, SettleLabel(row), "release")
      BY <3>1
    <3> HIDE DEF New
    <3>5. row.status = snap[o].status => FlagOK(New)
      BY <1>1, <3>3 DEF ViewOK, FlagOK
    <3>6. Scheduled(New)
      BY <1>1, <3>3 DEF Scheduled, IsTerminal
    <3>7. Lands("m_flag", SettleLabel(row), row)
      BY WorkLands
    <3>8. Lands("m_flag", SettleLabel(row), New)
      BY <3>3, <3>7 DEF Lands, IsTerminal
    <3>9. QED
      BY <2>2, <3>3, <3>4, <3>5, <3>6, <3>8, QuietShape
  <2>3. QED
    BY <1>5, <2>1, <2>2 DEF RefreshFails
<1>6. CASE Defer(o)
  <2> DEFINE New == [row EXCEPT !.next_attempt_at = "later"]
  <2>1. /\ New \in Rows
        /\ New.status = row.status
        /\ New.callback_fingerprint = row.callback_fingerprint
        /\ New.incoming_payment_url = row.incoming_payment_url
        /\ New.next_attempt_at = "later"
        /\ New.reconciliation_required = row.reconciliation_required
        /\ New.provider_failed = row.provider_failed
    BY <1>1 DEF Rows
  <2>2. pc[o] = "m_defer" /\ Update(o, New, "release", "release")
    BY <1>6 DEF Defer
  <2> HIDE DEF New
  <2>3. FlagOK(New) /\ Scheduled(New)
    BY <1>1, <2>1 DEF FlagOK, Scheduled
  <2>4. Lands("m_defer", "release", New)
    BY DEF Lands, Creating, Finalizing, Settling
  <2>5. QED
    BY <2>1, <2>2, <2>3, <2>4, QuietShape
<1>7. QED
  BY <1>2, <1>3, <1>4, <1>5, <1>6 DEF Maintain

LEMMA CleanupCustody ==
  ASSUME TypeOK, IInv, Custody, NEW o \in Owners, Cleanup(o)
  PROVE  Careful(o)
<1>1. /\ row \in Rows /\ FlagOK(row) /\ Scheduled(row)
      /\ ViewOK(o) /\ HolderOK(o)
  BY DEF TypeOK, Custody
<1>2. CASE pc[o] = "k_delete" /\ DeleteSession(o, CleanupLabel(snap[o]))
  <2>1. IsTerminal(snap[o])
    BY <1>1, <1>2 DEF ViewOK, Settling
  <2>2. /\ CleanupLabel(snap[o]) \in {"k_null", "k_tokens", "k_alive"}
        /\ CleanupLabel(snap[o]) = "k_null" => snap[o].cleanup_state = "DONE"
        /\ CleanupLabel(snap[o]) = "k_alive" => snap[o].incoming_payment_url
    BY DEF CleanupLabel, IncomingResolved
  <2>3. Flow("k_delete", CleanupLabel(snap[o]), snap[o])
    BY <2>1, <2>2 DEF Flow, Creating, Finalizing, Settling, Closing, Doubtful, Failing
  <2>4. QED
    BY <1>2, <2>2, <2>3, DeleteShape
<1>3. CASE CompleteIncoming(o)
  <2>1. CASE pc[o] = "k_alive"
    <3>1. IsTerminal(snap[o]) /\ snap[o].incoming_payment_url
      BY <1>1, <2>1 DEF ViewOK, Settling
    <3>2. Flow("k_alive", "k_complete", snap[o]) /\ Flow("k_alive", "k_retry", snap[o])
      BY <3>1 DEF Flow, Creating, Finalizing, Settling, Closing, Doubtful, Failing
    <3>3. QED
      BY <1>3, <2>1, <3>2, AliveShape, LocalShape DEF CompleteIncoming
  <2>2. CASE pc[o] = "k_complete"
    <3>1. PICK m \in {"k_commit", "k_retry"} : Goto(o, m)
      BY <1>3, <2>2 DEF CompleteIncoming
    <3>2. IsTerminal(snap[o])
      BY <1>1, <2>2 DEF ViewOK, Settling
    <3>3. Flow("k_complete", m, snap[o])
      BY <3>2 DEF Flow, Creating, Finalizing, Settling, Closing, Doubtful, Failing
    <3>4. Passes(o, "k_complete", m)
      BY <1>3, <2>2, <3>1, <3>3 DEF CompleteIncoming, Passes, store, history
    <3>5. QED
      BY <3>4, PassCustody
  <2>3. CASE pc[o] = "k_commit"
    <3> DEFINE New == [row EXCEPT !.incoming_completed_at = TRUE]
    <3>1. /\ New \in Rows
          /\ New.status = row.status
          /\ New.callback_fingerprint = row.callback_fingerprint
          /\ New.incoming_payment_url = row.incoming_payment_url
          /\ New.next_attempt_at = row.next_attempt_at
          /\ New.cleanup_state = row.cleanup_state
          /\ New.reconciliation_required = row.reconciliation_required
          /\ New.provider_failed = row.provider_failed
      BY <1>1 DEF Rows
    <3>2. Update(o, New, "k_tokens", "k_retry")
      BY <1>3, <2>3 DEF CompleteIncoming
    <3> HIDE DEF New
    <3>3. Holds(o) => IsTerminal(row)
      BY <1>1, <2>3 DEF HolderOK, Settling
    <3>4. FlagOK(New) /\ Scheduled(New)
      BY <1>1, <3>1 DEF FlagOK, Scheduled, IsTerminal
    <3>5. Holds(o) => Lands("k_commit", "k_tokens", New)
      BY <3>1, <3>3 DEF Lands, Creating, Finalizing, IsTerminal
    <3>6. QED
      BY <2>3, <3>1, <3>2, <3>4, <3>5, QuietShape
  <2>4. QED
    BY <1>3, <2>1, <2>2, <2>3 DEF CompleteIncoming
<1>4. CASE ClearCredentials(o)
  <2>1. PICK m \in {"k_done", "k_again", "release"} :
          Goto(o, m) /\ (m = "k_done" => pc[o] = "k_tokens")
    BY <1>4, Zenon DEF ClearCredentials
  <2>2. pc[o] \in {"k_tokens", "k_retry"} /\ (token' = token \/ Holds(o))
    BY <1>4 DEF ClearCredentials, WithOwner
  <2>3. IsTerminal(snap[o])
    BY <1>1, <2>2 DEF ViewOK, Settling
  <2>4. Flow(pc[o], m, snap[o])
    BY <2>1, <2>2, <2>3 DEF Flow, Creating, Finalizing, Settling, Closing, Doubtful, Failing
  <2>5. UNCHANGED <<row, lease, snap, cb, sess, session, incoming, refs>>
    BY <1>4 DEF ClearCredentials, store, provider, history
  <2>6. Passes(o, pc[o], m)
    BY <2>1, <2>2, <2>4, <2>5 DEF Passes
  <2>7. QED
    BY <2>6, PassCustody
<1>5. CASE CloseCleanup(o)
  <2> DEFINE Null == [row EXCEPT !.next_attempt_at = "null"]
             Done == [row EXCEPT !.cleanup_state = "DONE", !.next_attempt_at = "null"]
             Again == [row EXCEPT !.cleanup_state = "PENDING", !.next_attempt_at = "later"]
             Kept(new) == /\ new \in Rows
                          /\ new.status = row.status
                          /\ new.callback_fingerprint = row.callback_fingerprint
                          /\ new.incoming_payment_url = row.incoming_payment_url
                          /\ new.reconciliation_required = row.reconciliation_required
                          /\ new.provider_failed = row.provider_failed
  <2>a. Kept(Null)
    BY <1>1 DEF Rows
  <2>b. Kept(Done)
    BY <1>1 DEF Rows
  <2>c. Kept(Again)
    BY <1>1 DEF Rows
  <2> HIDE DEF Null, Done, Again
  <2>1. \A new \in {Null, Done, Again} : Kept(new)
    BY <2>a, <2>b, <2>c
  <2>2. /\ Null.cleanup_state = row.cleanup_state
        /\ Done.cleanup_state = "DONE"
        /\ Again.next_attempt_at = "later"
    BY <1>1 DEF Rows, Null, Done, Again
  <2>3. \/ pc[o] = "k_null" /\ Update(o, Null, "release", "release")
        \/ pc[o] = "k_done" /\ Update(o, Done, "release", "release")
        \/ pc[o] = "k_again" /\ Update(o, Again, "release", "release")
    BY <1>5 DEF CloseCleanup, CleanupAgain, Null, Done, Again
  <2>4. "release" \in Failing /\ \A l, t : Lands(l, "release", t)
    BY DEF Lands, Creating, Finalizing, Settling, Failing
  <2>5. \A new \in {Null, Done, Again} : FlagOK(new)
    BY <1>1, <2>1 DEF FlagOK
  <2>6. Holds(o) /\ pc[o] \in {"k_null", "k_done"} => IsTerminal(row)
    BY <1>1 DEF HolderOK, Settling
  <2>7. CASE pc[o] = "k_null" /\ Update(o, Null, "release", "release")
    <3>1. Holds(o) => row.cleanup_state = "DONE"
      BY <1>1, <2>7 DEF HolderOK, ViewOK, Agrees, Doubtful, Failing
    <3>2. Holds(o) => Scheduled(Null)
      BY <2>1, <2>2, <2>6, <2>7, <3>1 DEF Scheduled, IsTerminal
    <3>3. QED
      BY <2>1, <2>4, <2>5, <2>7, <3>2, QuietShape
  <2>8. CASE pc[o] = "k_done" /\ Update(o, Done, "release", "release")
    <3>1. Holds(o) => Scheduled(Done)
      BY <2>1, <2>2, <2>6, <2>8 DEF Scheduled, IsTerminal
    <3>2. QED
      BY <2>1, <2>4, <2>5, <2>8, <3>1, QuietShape
  <2>9. CASE pc[o] = "k_again" /\ Update(o, Again, "release", "release")
    <3>1. Scheduled(Again)
      BY <2>2 DEF Scheduled
    <3>2. QED
      BY <2>1, <2>4, <2>5, <2>9, <3>1, QuietShape
  <2>10. QED
    BY <2>3, <2>7, <2>8, <2>9
<1>6. QED
  BY <1>2, <1>3, <1>4, <1>5 DEF Cleanup

-----------------------------------------------------------------------------
(* Arrivals, faults, time and the provider. *)

LEMMA ArrivalCustody ==
  ASSUME TypeOK, IInv, Custody, NEW o \in Owners, Arrival(o) \/ ClaimDue(o)
  PROVE  Custody'
<1>1. CASE Reserve(o)
  BY <1>1, ReserveCustody
<1>2. CASE Poll(o) \/ ClaimDue(o)
  <2>1. PICK k \in {"poll", "worker"} : ClaimFor(o, k)
    BY <1>2 DEF Poll, ClaimDue
  <2>2. Exists
    BY <1>2 DEF Poll, ClaimDue, Custody, Untouched, NoRow
  <2>3. QED
    BY <2>1, <2>2, TakeCustody DEF Careful, ClaimFor, Begin, provider, history
<1>3. CASE \E c \in Callbacks : Callback(o, c)
  <2>1. PICK c \in Callbacks : Callback(o, c)
    BY <1>3
  <2>2. \A p \in Owners \ {o} : cb'[p] = cb[p]
    BY <2>1 DEF Callback
  <2>3. QED
    BY <2>1, <2>2, BeginCustody DEF Callback, Begin, store, provider, history
<1>4. QED
  BY <1>1, <1>2, <1>3 DEF Arrival

LEMMA EnvironmentCustody ==
  ASSUME TypeOK, IInv, Custody,
         Lapse \/ Provider \/ Clock \/ \E o \in Owners : Release(o) \/ Crash(o) \/ HeartbeatStalls(o)
  PROVE  Custody'
<1>1. Agrees(row, row)
  BY DEF Agrees
<1>2. CASE Lapse \/ \E o \in Owners : HeartbeatStalls(o)
  <2>1. lease' = [lease EXCEPT !.live = FALSE]
        /\ UNCHANGED <<row, pc, snap, cb, sess, session, token, incoming, refs>>
    BY <1>2 DEF Lapse, HeartbeatStalls, local, provider, history
  <2>2. ~lease'.live
    BY <2>1 DEF TypeOK, Leases
  <2>3. QED
    BY <1>1, <2>1, <2>2, FrameCustody
<1>3. CASE Provider
  <2>1. /\ UNCHANGED <<row, lease, pc, snap, cb, sess, session, token, refs>>
        /\ incoming' = "completed" => incoming = "completed"
    BY <1>3 DEF Provider, Accept, Refuse, Deliver, PaymentFails, IncomingExpires, store, local, history
  <2>2. QED
    BY <1>1, <2>1, FrameCustody
<1>4. CASE Clock
  <2>1. UNCHANGED <<lease, pc, snap, cb, sess, session, token, incoming, refs>>
    BY <1>4 DEF Clock, Age, FallDue, Expire, local, provider, history
  <2>2. /\ Agrees(row', row)
        /\ row'.incoming_payment_url = row.incoming_payment_url
        /\ row'.reconciliation_required = row.reconciliation_required
        /\ row'.provider_failed = row.provider_failed
        /\ row'.next_attempt_at = "null" => row.next_attempt_at = "null"
    BY <1>4 DEF Clock, Age, FallDue, Expire, Agrees, TypeOK, Rows
  <2>3. ~Exists => UNCHANGED row
    BY <1>4 DEF Clock, Age, FallDue, Expire, Exists, Custody, Untouched, NoRow, Interruptible
  <2>4. QED
    BY <2>1, <2>2, <2>3, FrameCustody
<1>5. ASSUME NEW o \in Owners, Release(o) \/ Crash(o) PROVE Custody'
  <2>1. /\ pc[o] # "idle"
        /\ Finish(o)
        /\ UNCHANGED <<row, session, token, incoming, refs>>
    BY <1>5 DEF Release, Crash, store, provider, history
  <2>2. UNCHANGED lease \/ lease' = NoLease
    BY <1>5 DEF Release, Drop, Crash, store
  <2>3. \A p \in Owners : Holds(p)' => Holds(p)
    BY <2>2 DEF Holds, NoLease
  <2>4. QED
    BY <2>1, <2>3, FinishCustody DEF Careful
<1>6. QED
  BY <1>2, <1>3, <1>4, <1>5

LEMMA InitCustody == Init => Custody
<1> SUFFICES ASSUME Init PROVE Custody
  OBVIOUS
<1>1. /\ row = NoRow /\ lease = NoLease /\ incoming = "none" /\ refs = 0
      /\ \A p \in Owners : pc[p] = "idle" /\ snap[p] = NoRow
  BY DEF Init, StoreInit
<1>2. /\ NoRow.status = "NONE" /\ NoRow.incoming_payment_url = FALSE
      /\ ~NoLease.live
  BY DEF NoRow, NoLease
<1>3. "idle" \notin Finalizing \cup Settling \cup Closing
  BY DEF Finalizing, Settling, Closing
<1>4. Untouched
  BY <1>1, <1>2 DEF Untouched
<1>5. FlagOK(row) /\ Scheduled(row) /\ (Reconcilable(row) => token)
  BY <1>1, <1>2 DEF FlagOK, Scheduled, Reconcilable
<1>6. OneConsent /\ RefOnce /\ ClosureOK
  BY <1>1, <1>2, <1>3 DEF OneConsent, RefOnce, ClosureOK
<1>7. ASSUME NEW p \in Owners PROVE ViewOK(p) /\ HolderOK(p)
  BY <1>1, <1>2, <1>3 DEF ViewOK, HolderOK, FlagOK, Holds
<1>8. QED
  BY <1>4, <1>5, <1>6, <1>7 DEF Custody

LEMMA StepCustody ==
  ASSUME TypeOK, IInv, Custody, [Next]_vars
  PROVE  Custody'
<1>1. CASE UNCHANGED vars
  <2>1. Agrees(row, row)
    BY DEF Agrees
  <2>2. UNCHANGED <<row, lease, pc, snap, cb, sess, session, token, incoming, refs>>
    BY <1>1 DEF vars, store, local, provider, history
  <2>3. QED
    BY <2>1, <2>2, FrameCustody
<1>2. CASE Next
  BY <1>2, CreateCustody, CallbackCustody, SubmitCustody, MaintainCustody, CleanupCustody,
     ArrivalCustody, EnvironmentCustody
     DEF Careful, Next, Step
<1>3. QED
  BY <1>1, <1>2

-----------------------------------------------------------------------------

(* Whatever lapses, crashes or comes late, a process that lost the lease   *)
(* relies only on what cannot change any more: see Custody.                *)
THEOREM CustodyKept == Spec => []Custody
<1>1. TypeOK /\ IInv /\ Custody /\ [Next]_vars => Custody'
  BY StepCustody
<1>2. QED
  BY <1>1, InitCustody, TypeCorrect, Inductive, PTL DEF Spec

(* An unknown outcome is flagged, whoever wrote the flag last. *)
THEOREM UnknownFlagged == Spec => []UnknownIsFlagged
<1>1. Custody => UnknownIsFlagged
  BY DEF Custody, FlagOK, UnknownIsFlagged
<1>2. QED
  BY <1>1, CustodyKept, PTL

(* next_attempt_at is null only when nothing is left to do. *)
THEOREM UnfinishedScheduled == Spec => []UnfinishedIsScheduled
<1>1. Custody => UnfinishedIsScheduled
  BY DEF Custody, Scheduled, UnfinishedIsScheduled, Exists
<1>2. QED
  BY <1>1, CustodyKept, PTL

(* A transfer whose payment may have to be read keeps its credential. *)
THEOREM ReconcilableReadable == Spec => []ReconcilableKeepsCredential
<1>1. Custody => ReconcilableKeepsCredential
  BY DEF Custody, Reconcilable, ReconcilableKeepsCredential
<1>2. QED
  BY <1>1, CustodyKept, PTL

(* One operation at a time continues the grant, and the interact_ref is    *)
(* sent once.                                                              *)
THEOREM InteractionOnce == Spec => []ContinuesOnce
<1>1. Custody => ContinuesOnce
  BY DEF Custody, OneConsent, RefOnce, Finalizing, ContinuesOnce
<1>2. QED
  BY <1>1, CustodyKept, PTL

(* Cleanup closes the incoming payment only when nothing can reach it. *)
THEOREM ClosedAtRest == Spec => []ClosesOnlyAtRest
<1>1. TypeOK /\ IInv /\ Custody => ClosesOnlyAtRest
  <2> SUFFICES ASSUME TypeOK, IInv, Custody, incoming = "completed"
               PROVE  request # "sent" /\ (payment = "open" => delivered = FullAmount)
    BY DEF ClosesOnlyAtRest
  <2>1. IsTerminal(row)
    BY DEF Custody, ClosureOK, Final
  <2>2. RowOK(row) /\ ProviderOK
    BY DEF IInv
  <2>3. request # "sent"
    BY <2>1, <2>2 DEF RowOK, IsTerminal, Terminal
  <2>4. payment = "open" => delivered = FullAmount
    BY <2>1, <2>2 DEF RowOK, ProviderOK, IsTerminal, Terminal
  <2>5. QED
    BY <2>3, <2>4
<1>2. QED
  BY <1>1, CustodyKept, TypeCorrect, Inductive, PTL

-----------------------------------------------------------------------------
(* What a step may do to the row: leave its status and its callback alone, *)
(* insert it, or write it as the holder of the lease.                      *)
LEMMA RowSteps ==
  ASSUME TypeOK, IInv, Custody, [Next]_vars
  PROVE  \/ row'.status = row.status /\ row'.callback_fingerprint = row.callback_fingerprint
         \/ row = NoRow /\ Insert
         \/ \E o \in Owners : Holds(o) /\ Stores(o, row')
<1>1. CASE row' = row
  BY <1>1
<1>2. ASSUME NEW o \in Owners, Careful(o) PROVE row' = row \/ (Holds(o) /\ Stores(o, row'))
  BY <1>2 DEF Careful
<1>3. ASSUME NEW o \in Owners, Step(o)
      PROVE  row' = row \/ (Holds(o) /\ Stores(o, row'))
  <2>1. CASE Release(o)
    BY <2>1 DEF Release
  <2>2. CASE ~Release(o)
    BY <1>2, <1>3, <2>2, CreateCustody, CallbackCustody, SubmitCustody, MaintainCustody,
       CleanupCustody
       DEF Step
  <2>3. QED
    BY <2>1, <2>2
<1>4. ASSUME NEW o \in Owners, Arrival(o) \/ ClaimDue(o)
      PROVE  row' = row \/ (row = NoRow /\ Insert)
  <2>1. CASE Reserve(o)
    BY <2>1 DEF Reserve, Insert, Custody, Untouched, Exists
  <2>2. CASE Poll(o) \/ ClaimDue(o)
    BY <2>2 DEF Poll, ClaimDue, ClaimFor
  <2>3. CASE \E c \in Callbacks : Callback(o, c)
    BY <2>3 DEF Callback, store
  <2>4. QED
    BY <1>4, <2>1, <2>2, <2>3 DEF Arrival
<1>5. ASSUME NEW o \in Owners, Crash(o) \/ HeartbeatStalls(o) PROVE row' = row
  BY <1>5 DEF Crash, HeartbeatStalls, store
<1>6. CASE Lapse \/ Provider \/ UNCHANGED vars
  BY <1>6 DEF Lapse, Provider, vars, store
<1>7. CASE Clock
  <2>1. row'.status = row.status /\ row'.callback_fingerprint = row.callback_fingerprint
    BY <1>7 DEF Clock, Age, FallDue, Expire, TypeOK, Rows
  <2>2. QED
    BY <2>1
<1>8. QED
  BY <1>3, <1>4, <1>5, <1>6, <1>7 DEF Next

(* No late writer takes a transfer back before its instruction or changes  *)
(* its result, except a creation that nobody has consented to yet.         *)
THEOREM StatusStays == Spec => StatusNeverReturns
<1> DEFINE Stays == /\ row.status \in Instructed => row'.status \in Instructed \cup Terminal
                    /\ row.status = "COMPLETED" => row'.status = "COMPLETED"
                    /\ IsTerminal(row) /\ row.callback_fingerprint # None
                         => row'.status = row.status
<1>1. ASSUME TypeOK, IInv, Custody, [Next]_vars PROVE Stays
  <2>1. CASE row'.status = row.status
    BY <2>1
  <2>2. CASE row = NoRow
    BY <2>2 DEF NoRow, Instructed, IsTerminal, Terminal
  <2>3. ASSUME NEW o \in Owners, Stores(o, row') PROVE Stays
    <3>1. pc[o] = "c_await" => row.callback_fingerprint = None
      BY <1>1 DEF IInv, ProcessOK, LabelRow, Creating
    <3>2. Turn(pc[o], row, row')
      BY <2>3 DEF Stores
    <3>3. row.status \in Instructed => row'.status \in Instructed \cup Terminal
      BY <3>2 DEF Turn, Instructed, Terminal
    <3>4. row.status \in Terminal => row'.status = row.status \/ pc[o] = "c_await"
      BY <3>2 DEF Turn, Terminal
    <3>5. row.status = "COMPLETED" => row'.status = "COMPLETED"
      BY <3>2 DEF Turn
    <3>6. QED
      BY <3>1, <3>3, <3>4, <3>5 DEF IsTerminal
  <2>4. QED
    BY <1>1, <2>1, <2>2, <2>3, RowSteps
<1>2. TypeOK /\ IInv /\ Custody /\ [Next]_vars => [Stays]_row
  BY <1>1
<1>3. QED
  BY <1>2, TypeCorrect, Inductive, CustodyKept, PTL DEF Spec, StatusNeverReturns

(* A bound callback is never replaced by another one. *)
THEOREM CallbackStays == Spec => CallbackBindsOnce
<1> DEFINE Binds == row.callback_fingerprint # None =>
                      row'.callback_fingerprint = row.callback_fingerprint
<1>1. ASSUME TypeOK, IInv, Custody, [Next]_vars PROVE Binds
  <2>1. CASE row = NoRow
    BY <2>1 DEF NoRow
  <2>2. ASSUME NEW o \in Owners, Holds(o), Stores(o, row') PROVE Binds
    <3>1. pc[o] = "h_finalize" => row.callback_fingerprint \in {None, cb[o]}
      BY <1>1, <2>2 DEF Custody, HolderOK
    <3>2. QED
      BY <2>2, <3>1 DEF Stores
  <2>3. QED
    BY <1>1, <2>1, <2>2, RowSteps
<1>2. TypeOK /\ IInv /\ Custody /\ [Next]_vars => [Binds]_row
  BY <1>1
<1>3. QED
  BY <1>2, TypeCorrect, Inductive, CustodyKept, PTL DEF Spec, CallbackBindsOnce

-----------------------------------------------------------------------------
(* Transfer implements TransferContract. *)

(* What the contract shares with Transfer. *)
deal == <<request, payment, delivered>>

(* Only submit sends an instruction; everything else a process does leaves *)
(* the instruction and the money alone.                                    *)
LEMMA StepDeal ==
  ASSUME NEW o \in Owners, Step(o)
  PROVE  UNCHANGED deal \/ Send(o)
<1> USE DEF Update, Write, CheckAlive, Local, DeleteSession, deal, provider
<1>1. CASE Create(o)
  <2>1. CASE CreateClaim(o) \/ RecordIncoming(o) \/ RecordQuote(o)
    BY <2>1 DEF CreateClaim, RecordIncoming, RecordQuote
  <2>2. CASE CreateIncoming(o)
    BY <2>2 DEF CreateIncoming
  <2>3. CASE RequestConsent(o)
    BY <2>3 DEF RequestConsent
  <2>4. CASE CreateFails(o)
    BY <2>4 DEF CreateFails
  <2>5. QED
    BY <1>1, <2>1, <2>2, <2>3, <2>4 DEF Create
<1>2. CASE HandleCallback(o)
  <2>1. CASE CallbackClaim(o) \/ ReadSession(o) \/ BindCallback(o)
    BY <2>1 DEF CallbackClaim, ReadSession, BindCallback
  <2>2. CASE Continue(o)
    BY <2>2 DEF Continue
  <2>3. CASE ConsentPending(o)
    BY <2>3 DEF ConsentPending
  <2>4. CASE ConsentFinal(o)
    BY <2>4 DEF ConsentFinal
  <2>5. CASE CallbackFails(o)
    BY <2>5 DEF CallbackFails
  <2>6. QED
    BY <1>2, <2>1, <2>2, <2>3, <2>4, <2>5 DEF HandleCallback
<1>3. CASE Submit(o)
  <2>1. CASE CheckSubmit(o)
    BY <2>1 DEF CheckSubmit, UpdateInSubmit
  <2>2. CASE MarkSubmitting(o) \/ OutcomeUnknown(o)
    BY <2>2 DEF MarkSubmitting, OutcomeUnknown, UpdateInSubmit
  <2>3. CASE Answer(o)
    BY <2>3 DEF Answer, UpdateInSubmit, RecordOutgoing
  <2>4. CASE DeleteSession(o, AfterSubmit(o, snap[o]))
    BY <2>4
  <2>5. QED
    BY <1>3, <2>1, <2>2, <2>3, <2>4 DEF Submit
<1>4. CASE Maintain(o)
  <2>1. CASE AgeOut(o) \/ Defer(o)
    BY <2>1 DEF AgeOut, Defer
  <2>2. CASE ReadOutgoing(o)
    BY <2>2 DEF ReadOutgoing, RecordOutgoing
  <2>3. CASE ReadIncoming(o)
    BY <2>3 DEF ReadIncoming
  <2>4. CASE RefreshFails(o)
    BY <2>4 DEF RefreshFails
  <2>5. QED
    BY <1>4, <2>1, <2>2, <2>3, <2>4 DEF Maintain
<1>5. CASE Cleanup(o)
  <2>1. CASE CompleteIncoming(o)
    BY <2>1 DEF CompleteIncoming
  <2>2. CASE ClearCredentials(o) \/ DeleteSession(o, CleanupLabel(snap[o]))
    BY <2>2 DEF ClearCredentials
  <2>3. CASE CloseCleanup(o)
    BY <2>3 DEF CloseCleanup
  <2>4. QED
    BY <1>5, <2>1, <2>2, <2>3 DEF Cleanup
<1>6. CASE Release(o)
  BY <1>6 DEF Release
<1>7. QED
  BY <1>1, <1>2, <1>3, <1>4, <1>5, <1>6 DEF Step

(* So does everything else but the provider. *)
LEMMA NextDeal ==
  ASSUME [Next]_vars
  PROVE  UNCHANGED deal \/ Provider \/ \E o \in Owners : Send(o)
<1>1. CASE UNCHANGED vars
  BY <1>1 DEF vars, provider, deal
<1>2. ASSUME NEW o \in Owners, Arrival(o) \/ ClaimDue(o) PROVE UNCHANGED deal
  BY <1>2 DEF Arrival, Reserve, Poll, Callback, ClaimDue, ClaimFor, provider, deal
<1>3. ASSUME NEW o \in Owners, Crash(o) \/ HeartbeatStalls(o) PROVE UNCHANGED deal
  BY <1>3 DEF Crash, HeartbeatStalls, provider, deal
<1>4. CASE Lapse \/ Clock
  BY <1>4 DEF Lapse, Clock, provider, deal
<1>5. QED
  BY <1>1, <1>2, <1>3, <1>4, StepDeal DEF Next

(* The mapping, status by status. *)
Mapping ==
  /\ row.status = "NONE" => Phase = "absent"
  /\ row.status \in Preparing => Phase = "preparing"
  /\ row.status \in Instructed => Phase = "instructed"
  /\ row.status = "COMPLETED" => Phase = "paid"
  /\ row.status \in {"FAILED", "EXPIRED"} =>
       Phase = IF row.callback_fingerprint = None THEN "abandoned" ELSE "closed"

LEMMA PhaseOfRow == Mapping /\ Mapping'
  BY DEF Mapping, Phase, Preparing, Instructed

(* The provider decides on an instruction while the row says it may be out. *)
LEMMA ProviderMaps ==
  ASSUME TypeOK, IInv, Provider
  PROVE  [Contract!ContractNext]_(Contract!contractVars)
<1> USE DEF Contract!contractVars
<1>1. Phase' = Phase
  BY DEF Provider, store, Phase
<1>2. request = "sent" => Phase = "instructed"
  BY PhaseOfRow DEF IInv, RowOK, Mapping, Instructed
<1>3. CASE Accept \/ Refuse
  BY <1>1, <1>2, <1>3 DEF Accept, Refuse, Contract!Decide, Contract!ContractNext
<1>4. CASE Deliver
  BY <1>1, <1>4 DEF Deliver, Contract!Move, Contract!ContractNext
<1>5. CASE PaymentFails
  BY <1>1, <1>5 DEF PaymentFails, Contract!Fail, Contract!ContractNext
<1>6. CASE IncomingExpires
  BY <1>1, <1>6 DEF IncomingExpires
<1>7. QED
  BY <1>3, <1>4, <1>5, <1>6 DEF Provider

(* The instruction leaves while the row says so, and only once. *)
LEMMA SendMaps ==
  ASSUME TypeOK, IInv, NEW o \in Owners, Send(o)
  PROVE  [Contract!ContractNext]_(Contract!contractVars)
<1>1. request = "none" /\ row.status \in {"SUBMITTING", "UNKNOWN"}
  BY DEF Send, IInv, ProcessOK, LabelRow
<1>2. Phase' = Phase /\ UNCHANGED <<payment, delivered>>
  BY DEF Send, store, Phase
<1>3. Phase = "instructed"
  BY <1>1, PhaseOfRow DEF Mapping, Instructed
<1>4. request' = "sent" \/ request' = request
  BY DEF Send
<1>5. QED
  BY <1>1, <1>2, <1>3, <1>4 DEF Contract!Ask, Contract!ContractNext, Contract!contractVars

(* A write of the holder moves the phase as the contract allows, and tells *)
(* the truth about the money when it closes the transfer.                  *)
LEMMA StoreMaps ==
  ASSUME TypeOK, IInv, Custody, TypeOK', IInv', UNCHANGED deal,
         NEW o \in Owners, Holds(o), Stores(o, row')
  PROVE  [Contract!ContractNext]_(Contract!contractVars)
<1> DEFINE l == pc[o]
<1> USE DEF Contract!contractVars, deal
<1>1. Mapping /\ Mapping'
  BY PhaseOfRow
<1>2. Turn(l, row, row') /\ (l # "h_finalize" => row'.callback_fingerprint = row.callback_fingerprint)
  BY DEF Stores
<1>3. LabelRow(l, row) /\ LabelSnap(l, snap[o]) /\ RowOK(row) /\ RowOK(row)' /\ ProviderOK
  BY DEF IInv, ProcessOK
<1>4. CASE row'.status = row.status
  <2>1. l # "h_finalize"
    BY <1>2, <1>4 DEF Turn
  <2>2. Phase' = Phase
    BY <1>2, <1>4, <2>1 DEF Phase
  <2>3. QED
    BY <2>2
<1>5. CASE row.status \in Preparing /\ row'.status \in Preparing
  BY <1>1, <1>5 DEF Mapping
<1>6. CASE row.status \in Instructed /\ row'.status \in Instructed
  BY <1>1, <1>6 DEF Mapping
<1>7. CASE l = "c_await" /\ row.status \in {"FAILED", "EXPIRED"}
  <2>1. row.callback_fingerprint = None
    BY <1>3, <1>7 DEF LabelRow, Creating
  <2>2. Phase = "abandoned" /\ Phase' = "preparing"
    BY <1>1, <1>2, <1>7, <2>1 DEF Turn, Mapping, Preparing
  <2>3. QED
    BY <2>2 DEF Contract!Revive, Contract!ContractNext
<1>8. CASE row.status \in Preparing /\ row'.status \in {"FAILED", "EXPIRED"}
  <2>1. Phase = "preparing" /\ Phase' \in {"abandoned", "closed"}
    BY <1>1, <1>8 DEF Mapping
  <2>2. QED
    BY <2>1 DEF Contract!Abandon, Contract!ContractNext
<1>9. CASE l = "s_submit"
  <2>1. Phase = "preparing" /\ Phase' = "instructed"
    BY <1>1, <1>2, <1>9 DEF Turn, Mapping, Preparing, Instructed
  <2>2. QED
    BY <2>1 DEF Contract!Instruct, Contract!ContractNext
<1>10. CASE row.status \in Instructed /\ row'.status = "COMPLETED"
  <2>1. Phase = "instructed" /\ Phase' = "paid"
    BY <1>1, <1>10 DEF Mapping
  <2>2. delivered = FullAmount
    BY <1>3, <1>10 DEF RowOK
  <2>3. QED
    BY <2>1, <2>2 DEF Contract!Pay, Contract!ContractNext
<1>11. CASE l \in {"s_wait", "r_incoming"} /\ row'.status \in {"FAILED", "EXPIRED"}
  <2>1. row.status \in {"SUBMITTING", "PENDING", "UNKNOWN"}
    BY <1>2, <1>11 DEF Turn
  <2>2. row'.callback_fingerprint = row.callback_fingerprint /\ row.callback_fingerprint # None
    BY <1>2, <1>3, <1>11, <2>1 DEF RowOK, Instructed
  <2>3. Phase = "instructed" /\ Phase' = "closed"
    BY <1>1, <1>11, <2>1, <2>2 DEF Mapping, Instructed
  <2>4. request = "refused" \/ payment = "failed"
    <3>1. CASE l = "s_wait"
      BY <1>2, <1>11, <3>1 DEF Turn
    <3>2. CASE l = "r_incoming"
      <4>1. request = "accepted"
        BY <1>3, <3>2 DEF LabelSnap, ProviderOK
      <4>2. payment' = "failed"
        BY <1>3, <1>11, <4>1 DEF RowOK
      <4>3. QED
        BY <4>2
    <3>3. QED
      BY <1>11, <3>1, <3>2
  <2>5. QED
    BY <2>3, <2>4 DEF Contract!Close, Contract!ContractNext
<1>12. QED
  BY <1>2, <1>4, <1>5, <1>6, <1>7, <1>8, <1>9, <1>10, <1>11 DEF Turn, Preparing, Instructed

(* Transfer keeps its contract: see KeepsContract. *)
THEOREM ContractKept == Spec => KeepsContract
<1>1. Init => Contract!ContractInit
  <2> SUFFICES ASSUME Init PROVE Contract!ContractInit
    OBVIOUS
  <2>1. row.status = "NONE" /\ request = "none" /\ payment = "none" /\ delivered = 0
    BY DEF Init, StoreInit, NoRow
  <2>2. QED
    BY <2>1, PhaseOfRow DEF Mapping, Contract!ContractInit
<1>2. ASSUME TypeOK, IInv, Custody, TypeOK', IInv', [Next]_vars
      PROVE  [Contract!ContractNext]_(Contract!contractVars)
  <2>1. CASE UNCHANGED deal
    <3>1. CASE /\ row'.status = row.status
               /\ row'.callback_fingerprint = row.callback_fingerprint
      <4>1. Phase' = Phase
        BY <3>1 DEF Phase
      <4>2. QED
        BY <2>1, <4>1 DEF Contract!contractVars, deal
    <3>2. CASE row = NoRow /\ Insert
      <4>1. row.status = "NONE" /\ row'.status = "CREATING"
        BY <3>2 DEF Insert, NoRow
      <4>2. Phase = "absent" /\ Phase' = "preparing"
        BY <4>1, PhaseOfRow DEF Mapping, Preparing
      <4>3. QED
        BY <2>1, <4>2 DEF Contract!Open, Contract!ContractNext, deal
    <3>3. CASE \E o \in Owners : Holds(o) /\ Stores(o, row')
      BY <1>2, <2>1, <3>3, StoreMaps
    <3>4. QED
      BY <1>2, <3>1, <3>2, <3>3, RowSteps
  <2>2. CASE Provider \/ \E o \in Owners : Send(o)
    BY <1>2, <2>2, ProviderMaps, SendMaps
  <2>3. QED
    BY <1>2, <2>1, <2>2, NextDeal
<1>3. QED
  BY <1>1, <1>2, TypeCorrect, Inductive, CustodyKept, PTL
     DEF Spec, KeepsContract, Contract!ContractSpec
=============================================================================
