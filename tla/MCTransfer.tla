----------------------------- MODULE MCTransfer -----------------------------
(* Transfer on small instances. Slots and callbacks are interchangeable.   *)
EXTENDS TransferInvariant, TLC

Symmetry == Permutations(Owners) \cup Permutations(Callbacks)

(* What a state still depends on: a local that its operation will not read *)
(* again is forgotten, so that states which differ only in it are one.     *)
KindRead == SubmitLabels \cup {"h_claim", "h_session", "h_finalize", "h_alive", "h_continue",
                               "h_store", "h_authorize", "m_age"}
RowUnread == {"release", "m_catch", "c_fail", "c_delete", "h_fail", "h_delete"}
StatusRead == {"m_defer", "k_alive", "k_complete", "k_tokens", "k_retry", "k_commit",
               "k_null", "k_done", "k_again"}
CallbackRead == {"h_claim", "h_session", "h_finalize"}
SessionRead == {"h_finalize", "h_alive", "h_continue", "h_save"}

LiveRow(o) ==
  CASE pc[o] \in RowUnread -> NoRow
    [] pc[o] \in StatusRead -> [NoRow EXCEPT !.status = snap[o].status]
    [] OTHER -> snap[o]

LiveLocals ==
  [o \in Owners |->
     << LiveRow(o),
        IF pc[o] \in KindRead THEN kind[o] ELSE "none",
        IF pc[o] \in CallbackRead THEN cb[o] ELSE None,
        IF pc[o] \in SessionRead THEN sess[o] ELSE "none" >>]

View == <<store, faults, pc, LiveLocals, session, token, provider, history>>
=============================================================================
