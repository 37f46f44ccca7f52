-------------------------- MODULE OnboardingProofs --------------------------
(***************************************************************************)
(* What linking a wallet keeps, for any number of requests, keys and       *)
(* sessions.                                                               *)
(***************************************************************************)
EXTENDS Onboarding, TLAPS

Rows == [pc : Labels, id : {0} \cup Ids, key : Keys \cup {None}, read : Sessions]

\* Requests that have not looked for a session yet, or have no use for it.
Unbound == {"idle", "s_find", "s_active", "s_reserve"}

\* Requests whose session was not admitted.
Fresh == {"s_save", "s_remove"}

\* Requests that claimed the callback and may still move the session on.
Work == {"h_continue", "h_pending", "h_save", "h_complete"}

\* Requests that may free the active pointer.
Freeing == {"s_free", "free"}
Pointing == Freeing \cup {"s_session"}

\* Requests that look up the reservation of their key.
Keyed == {"s_find", "s_again"}

(* What a request relies on at its next call. *)
ReliesOn(r) ==
  /\ r.id <= used
  /\ r.pc \notin Unbound => r.id # 0
  /\ r.pc \in Fresh => sessions[r.id].status = "NONE" /\ r.id \notin attested /\ active # r.id
  /\ r.pc \in Work => sessions[r.id].status \in {"FINALIZING", "FAILED", "NONE"}
  /\ r.pc \in Work \ {"h_complete"} => r.id \notin attested
  /\ r.pc = "h_complete" => r.id \in attested
  /\ r.pc \in Freeing => ~Open(sessions[r.id])
  /\ r.pc = "q_age" => r.read.status \in {"FINALIZING", "CONSENT_REQUESTING"}
  /\ r.pc \in Keyed => r.key \in Keys

(* Two requests are never both in the continuation of one session, and the *)
(* one that admits a session is alone with it.                             *)
Apart(r, s) ==
  r.id = s.id =>
    /\ ~(r.pc \in Work /\ s.pc \in Work)
    /\ ~(r.pc \in Fresh /\ s.pc \in Fresh \cup Work \cup Pointing)
    /\ ~(s.pc \in Fresh /\ r.pc \in Work \cup Pointing)

RequestsInv ==
  /\ \A p \in Procs : ReliesOn(op[p])
  /\ \A p, q \in Procs : p # q => Apart(op[p], op[q])

(* Ids are handed out in turn. *)
IdsInv ==
  /\ active <= used
  /\ \A k \in Keys : requests[k] <= used
  /\ \A i \in Ids : i > used => sessions[i].status = "NONE" /\ i \notin attested

SessionsInv == OpenIsActive /\ CompletedIsLinked /\ LinkedStaysClosed

IInv == TypeOK /\ IdsInv /\ RequestsInv /\ SessionsInv

-----------------------------------------------------------------------------
(* Lemmas about single requests. *)

LEMMA IdleRow == Idle \in Rows /\ Idle.pc = "idle" /\ Idle.id = 0
  BY DEF Idle, Rows, Labels, NoSession, Sessions, Statuses

(* A request at another call, with the rest as it was. *)
LEMMA MovedRow ==
  ASSUME NEW r \in Rows, NEW label \in Labels
  PROVE  LET m == [r EXCEPT !.pc = label]
         IN  m \in Rows /\ m.pc = label /\ m.id = r.id /\ m.key = r.key /\ m.read = r.read
  BY DEF Rows

LEMMA GotoRow ==
  ASSUME NEW p \in Procs, op[p] \in Rows, NEW label \in Labels \ {"idle"}, Goto(p, label)
  PROVE  \E r \in Rows : /\ r.pc = label /\ r.id = op[p].id /\ r.key = op[p].key /\ r.read = op[p].read
                        /\ op' = [op EXCEPT ![p] = r]
  <1> DEFINE m == [op[p] EXCEPT !.pc = label]
  <1>1. m \in Rows /\ m.pc = label /\ m.id = op[p].id /\ m.key = op[p].key /\ m.read = op[p].read
    BY MovedRow
  <1>2. op' = [op EXCEPT ![p] = m]
    BY DEF Goto
  <1> QED
    BY <1>1, <1>2

(* Most requests rely on nothing but the id they are about. *)
LEMMA QuietRelies ==
  ASSUME NEW r \in Rows, r.id <= used, r.pc \in Unbound \/ r.id # 0,
         r.pc \notin Fresh \cup Work \cup Freeing \cup {"q_age"}, r.pc \in Keyed => r.key \in Keys
  PROVE  ReliesOn(r)
  BY DEF ReliesOn, Work

LEMMA QuietApart ==
  ASSUME NEW r, NEW s, r.pc \notin Fresh \cup Work \cup Pointing
  PROVE  Apart(r, s) /\ Apart(s, r)
  BY DEF Apart

LEMMA ApartSymmetric ==
  ASSUME NEW r, NEW s, Apart(r, s)
  PROVE  Apart(s, r)
  BY DEF Apart

(* The request of p changes, and all that requests rely on is there.       *)
LEMMA RequestsKeep ==
  ASSUME TypeOK, RequestsInv, NEW p \in Procs, NEW r \in Rows,
         op' = [op EXCEPT ![p] = r],
         ReliesOn(r)',
         \A q \in Procs : q # p => ReliesOn(op[q])',
         \A q \in Procs : q # p => Apart(r, op[q])
  PROVE  RequestsInv'
  <1>1. \A q \in Procs : op'[q] = IF q = p THEN r ELSE op[q]
    BY DEF TypeOK
  <1>2. \A q \in Procs : ReliesOn(op[q])'
    <2> SUFFICES ASSUME NEW q \in Procs PROVE ReliesOn(op[q])'
      OBVIOUS
    <2>1. CASE q = p
      <3>1. op'[q] = r
        BY <1>1, <2>1
      <3> QED
        BY <3>1 DEF ReliesOn
    <2>2. CASE q # p
      BY <2>2
    <2> QED
      BY <2>1, <2>2
  <1>3. \A q, s \in Procs : q # s => Apart(op'[q], op'[s])
    <2> SUFFICES ASSUME NEW q \in Procs, NEW s \in Procs, q # s PROVE Apart(op'[q], op'[s])
      OBVIOUS
    <2>1. CASE q = p
      BY <1>1, <2>1
    <2>2. CASE s = p
      BY <1>1, <2>2, ApartSymmetric
    <2>3. CASE q # p /\ s # p
      BY <1>1, <2>3 DEF RequestsInv
    <2> QED
      BY <2>1, <2>2, <2>3
  <1> QED
    BY <1>2, <1>3 DEF RequestsInv, Apart

(* A step that changes nothing stored. *)
LEMMA MoveKeeps ==
  ASSUME IInv, NEW p \in Procs, NEW r \in Rows,
         op' = [op EXCEPT ![p] = r], UNCHANGED <<store, used>>,
         ReliesOn(r),
         \A q \in Procs : q # p => Apart(r, op[q])
  PROVE  IInv'
  <1>1. TypeOK'
    BY DEF IInv, TypeOK, store, Rows
  <1>2. ReliesOn(r)'
    BY DEF ReliesOn, store
  <1>3. \A q \in Procs : q # p => op'[q] = op[q]
    BY DEF IInv, TypeOK
  <1>4. \A q \in Procs : q # p => ReliesOn(op[q])'
    BY <1>3 DEF IInv, RequestsInv, ReliesOn, store
  <1>5. RequestsInv'
    BY <1>2, <1>4, RequestsKeep DEF IInv
  <1>6. IdsInv' /\ SessionsInv'
    BY DEF IInv, IdsInv, SessionsInv, OpenIsActive, CompletedIsLinked, LinkedStaysClosed, store
  <1> QED
    BY <1>1, <1>5, <1>6 DEF IInv

(* ... by a request that relies on nothing afterwards. *)
LEMMA QuietKeeps ==
  ASSUME IInv, NEW p \in Procs, NEW r \in Rows,
         op' = [op EXCEPT ![p] = r], UNCHANGED <<store, used>>,
         r.id <= used, r.pc \in Unbound \/ r.id # 0,
         r.pc \notin Fresh \cup Work \cup Pointing \cup {"q_age"}, r.pc \in Keyed => r.key \in Keys
  PROVE  IInv'
  <1>1. ReliesOn(r)
    BY QuietRelies DEF Pointing
  <1> QED
    BY <1>1, MoveKeeps, QuietApart

-----------------------------------------------------------------------------
(* The session of a request moves on. *)

(* What holds of a session that is over, or in no request's hands.         *)
LEMMA SessionKeeps ==
  ASSUME IInv, NEW p \in Procs, NEW r \in Rows, NEW s \in Sessions,
         LET i == op[p].id
         IN  /\ i \in Ids
             /\ Open(sessions[i])
             /\ sessions' = [sessions EXCEPT ![i] = s]
             /\ s.status # "NONE"
             /\ s.status = "COMPLETED" => i \in attested
             /\ i \in attested => s.status \in {"FINALIZING", "COMPLETED", "FAILED"}
             /\ \A q \in Procs : q # p /\ op[q].id = i /\ op[q].pc \in Work => s.status = "FAILED",
         op' = [op EXCEPT ![p] = r], UNCHANGED <<active, requests, attested, used>>,
         ReliesOn(r)',
         \A q \in Procs : q # p => Apart(r, op[q])
  PROVE  IInv'
  <1> DEFINE i == op[p].id
  <1>0. /\ i \in Ids /\ i <= used
        /\ Open(sessions[i])
        /\ sessions' = [sessions EXCEPT ![i] = s]
        /\ s.status # "NONE"
        /\ s.status = "COMPLETED" => i \in attested
        /\ i \in attested => s.status \in {"FINALIZING", "COMPLETED", "FAILED"}
        /\ \A q \in Procs : q # p /\ op[q].id = i /\ op[q].pc \in Work => s.status = "FAILED"
    BY DEF IInv, RequestsInv, ReliesOn
  <1> HIDE DEF i
  <1>1. TypeOK'
    BY <1>0 DEF IInv, TypeOK, Rows
  <1>2. \A j \in Ids : sessions'[j] = IF j = i THEN s ELSE sessions[j]
    BY <1>0 DEF IInv, TypeOK
  <1>3. \A q \in Procs : q # p => op'[q] = op[q]
    BY DEF IInv, TypeOK
  <1>4. \A q \in Procs : q # p => ReliesOn(op[q])'
    <2> SUFFICES ASSUME NEW q \in Procs, q # p PROVE ReliesOn(op[q])'
      OBVIOUS
    <2>1. ReliesOn(op[q]) /\ op'[q] = op[q] /\ op[q] \in Rows
      BY <1>3 DEF IInv, RequestsInv, TypeOK, Rows
    <2>2. CASE op[q].id # i
      <3>1. op[q].pc \notin Unbound => op[q].id \in Ids /\ sessions'[op[q].id] = sessions[op[q].id]
        BY <2>1, <2>2, <1>2 DEF ReliesOn, Rows
      <3> QED
        BY <2>1, <3>1 DEF ReliesOn, Unbound, Fresh, Work, Freeing, Keyed
    <2>3. CASE op[q].id = i
      <3>1. op[q].pc \notin Fresh /\ op[q].pc \notin Freeing
        BY <2>1, <2>3, <1>0 DEF ReliesOn, Open
      <3>2. op[q].pc \in Work => s.status = "FAILED"
        BY <2>3, <1>0
      <3> QED
        BY <2>1, <2>3, <1>0, <1>2, <3>1, <3>2 DEF ReliesOn
    <2> QED
      BY <2>2, <2>3
  <1>5. RequestsInv'
    BY <1>4, RequestsKeep DEF IInv
  <1>6. IdsInv'
    <2>1. \A k \in Keys : requests'[k] <= used'
      BY DEF IInv, IdsInv
    <2>2. \A j \in Ids : j > used' => sessions'[j].status = "NONE" /\ j \notin attested'
      BY <1>0, <1>2 DEF IInv, IdsInv, Ids, TypeOK
    <2> QED
      BY <2>1, <2>2 DEF IInv, IdsInv
  <1>7. SessionsInv'
    BY <1>0, <1>2 DEF IInv, SessionsInv, OpenIsActive, CompletedIsLinked, LinkedStaysClosed
  <1> QED
    BY <1>1, <1>5, <1>6, <1>7 DEF IInv

(* A request that is bound to a session has its id in Ids. *)
LEMMA BoundId ==
  ASSUME IInv, NEW p \in Procs, op[p].pc \notin Unbound
  PROVE  op[p].id \in Ids /\ op[p].id <= used /\ op[p] \in Rows /\ sessions[op[p].id] \in Sessions
  BY DEF IInv, RequestsInv, ReliesOn, TypeOK, Rows

LEMMA IdleKeeps ==
  ASSUME IInv, NEW p \in Procs, Only(p, "idle")
  PROVE  IInv'
  <1>1. op' = [op EXCEPT ![p] = Idle] /\ UNCHANGED <<store, used>>
    BY DEF Only, Goto
  <1>2. Idle.id <= used
    BY IdleRow DEF IInv, TypeOK
  <1> QED
    BY <1>1, <1>2, IdleRow, QuietKeeps DEF Unbound, Fresh, Work, Pointing, Freeing, Keyed

(* A request goes on to a call where it relies on nothing. *)
LEMMA OnlyKeeps ==
  ASSUME IInv, NEW p \in Procs, NEW label \in Labels, Only(p, label),
         label = "idle" \/ (op[p].pc \notin Unbound
                           /\ label \notin Unbound \cup Fresh \cup Work \cup Pointing \cup Keyed \cup {"q_age"})
  PROVE  IInv'
  <1>1. CASE label = "idle"
    BY <1>1, IdleKeeps
  <1>2. CASE label # "idle"
    <2> DEFINE r == [op[p] EXCEPT !.pc = label]
    <2>1. op' = [op EXCEPT ![p] = r] /\ UNCHANGED <<store, used>>
      BY <1>2 DEF Only, Goto
    <2>2. op[p] \in Rows /\ op[p].id # 0 /\ op[p].id <= used
      BY <1>2, BoundId DEF Ids
    <2>3. r \in Rows /\ r.pc = label /\ r.id = op[p].id
      BY <2>2, MovedRow
    <2> QED
      BY <2>1, <2>2, <2>3, <1>2, QuietKeeps
  <1> QED
    BY <1>1, <1>2

Quiet == {"idle"} \cup (Labels \ (Unbound \cup Fresh \cup Work \cup Pointing \cup Keyed \cup {"q_age"}))

(* transition, for the calls that the code makes of it.                    *)
LEMMA TransitionKeeps ==
  ASSUME IInv, NEW p \in Procs, NEW expected \in Statuses \ Terminal, NEW new \in Sessions,
         NEW ok, NEW err \in Quiet,
         op[p].pc \notin Unbound \cup Fresh,
         Session(p).status = expected =>
           /\ new.status # "NONE"
           /\ new.status = "COMPLETED" => op[p].id \in attested
           /\ op[p].id \in attested => new.status \in {"FINALIZING", "COMPLETED", "FAILED"}
           /\ \A q \in Procs : q # p /\ op[q].id = op[p].id /\ op[q].pc \in Work => new.status = "FAILED",
         \/ ok \subseteq Quiet
         \/ ok = {"free"} /\ new.status \in Terminal
         \/ ok = {"h_continue"} /\ expected = "CONSENT_PENDING" /\ new.status = "FINALIZING",
         Transition(p, expected, new, ok, err)
  PROVE  IInv'
  <1> DEFINE s == [new EXCEPT !.updatedAt = "recent"]
             i == op[p].id
  <1>0. i \in Ids /\ i # 0 /\ i <= used /\ op[p] \in Rows /\ used \in Nat
    BY BoundId DEF IInv, TypeOK, Ids
  <1>1. s \in Sessions /\ s.status = new.status
    BY DEF Sessions
  <1>2. UNCHANGED <<active, requests, attested, used>>
    BY DEF Transition
  <1>3. ASSUME UNCHANGED sessions, Goto(p, err) PROVE IInv'
    <2>1. Only(p, err)
      BY <1>2, <1>3 DEF Only, store
    <2>2. err \in Labels
      BY DEF Quiet, Labels
    <2> QED
      BY <2>1, <2>2, OnlyKeeps DEF Quiet
  <1>4. ASSUME Session(p).status = expected, NEW label \in ok \cup {err},
               sessions' = [sessions EXCEPT ![i] = s], Goto(p, label)
        PROVE  IInv'
    <2> DEFINE next == IF label = "idle" THEN Idle ELSE [op[p] EXCEPT !.pc = label]
    <2>2. label \in Labels
      BY DEF Quiet, Labels
    <2>0. next \in Rows /\ next.pc = label /\ (label = "idle" \/ next.id = i) /\ (label = "idle" => next.id = 0)
      BY <1>0, <2>2, IdleRow, MovedRow
    <2>1. op' = [op EXCEPT ![p] = next]
      BY <1>4 DEF Goto
    <2> HIDE DEF next
    <2>3. PICK r \in Rows : /\ op' = [op EXCEPT ![p] = r] /\ r.pc = label
                            /\ label = "idle" \/ r.id = i
                            /\ label = "idle" => r.id = 0
      BY <2>0, <2>1
    <2>4. sessions[i].status = expected /\ Open(sessions[i])
      BY <1>4 DEF Session, Open, Statuses
    <2>5. sessions'[i] = s
      BY <1>0, <1>4 DEF IInv, TypeOK
    <2>6. ReliesOn(r)' /\ \A q \in Procs : q # p => Apart(r, op[q])
      <3>1. CASE label \in Quiet
        <4>1. r.pc \notin Fresh \cup Work \cup Pointing \cup Keyed \cup {"q_age"}
          BY <3>1, <2>3 DEF Quiet, Fresh, Work, Pointing, Freeing, Keyed
        <4>2. r.id <= used /\ (r.pc \in Unbound \/ r.id # 0)
          BY <2>3, <1>0 DEF Unbound
        <4>3. ReliesOn(r)'
          BY <4>1, <4>2, <1>2 DEF ReliesOn, Pointing, Work
        <4> QED
          BY <4>1, <4>3, QuietApart
      <3>2. CASE label = "free" /\ new.status \in Terminal
        <4>1. \A q \in Procs : op[q].id = i => op[q].pc \notin Fresh
          BY <2>4 DEF IInv, RequestsInv, ReliesOn, Open
        <4>2. r.pc = "free" /\ r.id = i
          BY <2>3, <3>2
        <4>3. ReliesOn(r)'
          BY <4>2, <1>0, <1>1, <1>2, <2>5, <3>2 DEF ReliesOn, Fresh, Work, Freeing, Open, Unbound, Keyed
        <4> QED
          BY <4>1, <4>2, <4>3 DEF Apart, Work, Fresh
      <3>3. CASE label = "h_continue" /\ expected = "CONSENT_PENDING" /\ new.status = "FINALIZING"
        <4>1. \A q \in Procs : op[q].id = i => op[q].pc \notin Fresh \cup Work
          BY <2>4, <3>3 DEF IInv, RequestsInv, ReliesOn
        <4>2. r.pc = "h_continue" /\ r.id = i
          BY <2>3, <3>3
        <4>3. i \notin attested
          BY <1>0, <2>4, <3>3 DEF IInv, SessionsInv, LinkedStaysClosed
        <4>4. ReliesOn(r)'
          BY <4>2, <4>3, <1>0, <1>1, <1>2, <2>5, <3>3 DEF ReliesOn, Fresh, Work, Freeing, Unbound, Keyed
        <4> QED
          BY <4>1, <4>2, <4>4 DEF Apart, Fresh
      <3> QED
        BY <3>1, <3>2, <3>3
    <2> QED
      BY <1>0, <1>1, <1>2, <1>4, <2>3, <2>4, <2>6, SessionKeeps
  <1> QED
    BY <1>3, <1>4 DEF Transition, InStatus

(* A step that writes other tables or the pointer, by a request that       *)
(* relies on nothing afterwards.                                           *)
LEMMA FreeKeeps ==
  ASSUME IInv, NEW p \in Procs, NEW label \in {"idle", "s_reserve"},
         op[p].pc \in Freeing, Free(p, label)
  PROVE  IInv'
  <1> DEFINE next == IF label = "idle" THEN Idle ELSE [op[p] EXCEPT !.pc = label]
  <1>0. op[p].id \in Ids /\ op[p].id <= used /\ op[p] \in Rows /\ ~Open(sessions[op[p].id])
    BY BoundId DEF Freeing, Unbound, IInv, RequestsInv, ReliesOn
  <1>a. next \in Rows /\ next.pc = label /\ next.id <= used
    <2>1. 0 <= used
      BY DEF IInv, TypeOK
    <2>2. label \in Labels
      BY DEF Labels
    <2> QED
      BY <1>0, <2>1, <2>2, IdleRow, MovedRow
  <1>b. /\ op' = [op EXCEPT ![p] = next]
        /\ active' = IF active = op[p].id THEN 0 ELSE active
        /\ UNCHANGED <<sessions, requests, attested, used>>
    BY DEF Free, PointsTo, Goto
  <1> HIDE DEF next
  <1>2. PICK r \in Rows : r = next
    BY <1>a
  <1>1. /\ op' = [op EXCEPT ![p] = r] /\ r.pc = label /\ r.id <= used
        /\ active' = IF active = op[p].id THEN 0 ELSE active
        /\ UNCHANGED <<sessions, requests, attested, used>>
    BY <1>a, <1>b, <1>2
  <1>3. TypeOK'
    BY <1>1, <1>2 DEF IInv, TypeOK, Rows
  <1>4. \A q \in Procs : q # p => ReliesOn(op[q])'
    <2> SUFFICES ASSUME NEW q \in Procs, q # p PROVE ReliesOn(op[q])'
      OBVIOUS
    <2>1. ReliesOn(op[q]) /\ op'[q] = op[q]
      BY <1>1 DEF IInv, RequestsInv, TypeOK
    <2>2. op[q].pc \in Fresh => op[q].id # 0
      BY <2>1 DEF ReliesOn, Fresh, Unbound
    <2> QED
      BY <1>1, <2>1, <2>2 DEF ReliesOn
  <1>5. ReliesOn(r)'
    BY <1>1, <1>2 DEF ReliesOn, Unbound, Fresh, Work, Freeing, Keyed
  <1>6. RequestsInv'
    BY <1>1, <1>2, <1>4, <1>5, RequestsKeep, QuietApart DEF IInv, Fresh, Work, Pointing, Freeing
  <1>7. IdsInv' /\ SessionsInv'
    BY <1>0, <1>1 DEF IInv, TypeOK, IdsInv, SessionsInv, OpenIsActive, CompletedIsLinked, LinkedStaysClosed
  <1> QED
    BY <1>3, <1>6, <1>7 DEF IInv

-----------------------------------------------------------------------------
(* The steps of start. *)

LEMMA BeginKeeps ==
  ASSUME IInv, NEW p \in Procs, NEW label \in Quiet \cup {"s_active", "s_find"}, NEW id \in {0} \cup Ids,
         NEW key \in Keys \cup {None}, id <= used, label \in Unbound \/ id # 0,
         label = "s_find" => key \in Keys, Begin(p, label, id, key)
  PROVE  IInv'
  <1>1. label \in Labels
    BY DEF Quiet, Labels
  <1>2. PICK r \in Rows : r.pc = label /\ r.id = id /\ r.key = key /\ op' = [op EXCEPT ![p] = r]
    <2> DEFINE m == [Idle EXCEPT !.pc = label, !.id = id, !.key = key]
    <2>1. m \in Rows /\ m.pc = label /\ m.id = id /\ m.key = key
      BY <1>1, IdleRow DEF Rows
    <2> QED
      BY <2>1 DEF Begin
  <1>3. r.pc \notin Fresh \cup Work \cup Pointing \cup {"q_age"} /\ (r.pc \in Keyed => r.key \in Keys)
    BY <1>2 DEF Quiet, Fresh, Work, Pointing, Freeing, Keyed
  <1> QED
    BY <1>2, <1>3, QuietKeeps DEF Begin

LEMMA ArrivalKeeps ==
  ASSUME IInv, NEW p \in Procs, Arrival(p)
  PROVE  IInv'
  <1>0. used \in Nat /\ used <= MaxSessions /\ MaxSessions \in Nat
    BY SessionsAssumption DEF IInv, TypeOK
  <1>1. ASSUME Start(p) PROVE IInv'
    <2>1. PICK key \in Keys \cup {None} : Begin(p, IF key = None THEN "s_active" ELSE "s_find", 0, key)
      BY <1>1 DEF Start
    <2>2. CASE key = None
      BY <2>1, <2>2, <1>0, BeginKeeps DEF Unbound
    <2>3. CASE key # None
      BY <2>1, <2>3, <1>0, BeginKeeps DEF Unbound
    <2> QED
      BY <2>2, <2>3
  <1>2. ASSUME NEW label \in {"c_read", "h_durable", "q_durable"}, NEW id \in 1 .. used,
               Begin(p, label, id, None)
        PROVE  IInv'
    <2>1. id \in Ids /\ id <= used /\ id # 0
      BY <1>0 DEF Ids
    <2>2. label \in Quiet /\ label # "s_find"
      BY DEF Quiet, Labels, Unbound, Fresh, Work, Pointing, Freeing, Keyed
    <2> QED
      BY <1>2, <2>1, <2>2, BeginKeeps
  <1> QED
    BY <1>1, <1>2 DEF Arrival, Consent, Callback, Status

LEMMA ReplayKeeps ==
  ASSUME IInv, NEW p \in Procs, NEW otherwise \in {"idle", "s_active"}, op[p].key \in Keys,
         Replay(p, otherwise)
  PROVE  IInv'
  <1> DEFINE id == requests[op[p].key]
  <1>0. id \in {0} \cup Ids /\ id <= used /\ op[p] \in Rows /\ op[p].id <= used
    BY DEF IInv, IdsInv, TypeOK, RequestsInv, ReliesOn, Rows
  <1>1. PICK r \in Rows :
          /\ op' = [op EXCEPT ![p] = r] /\ UNCHANGED <<store, used>>
          /\ r.id <= used
          /\ r.pc \in Unbound \/ r.id # 0
          /\ r.pc \in {"q_durable", "idle", "s_active"}
    <2>1. CASE id # 0
      <3> DEFINE m == [Idle EXCEPT !.pc = "q_durable", !.id = id]
      <3>1. m \in Rows /\ m.pc = "q_durable" /\ m.id = id
        BY <1>0, IdleRow DEF Rows, Labels
      <3>2. op' = [op EXCEPT ![p] = m] /\ UNCHANGED <<store, used>>
        BY <2>1 DEF Replay
      <3> QED
        BY <1>0, <2>1, <3>1, <3>2
    <2>2. CASE id = 0 /\ otherwise = "idle"
      <3>1. op' = [op EXCEPT ![p] = Idle] /\ UNCHANGED <<store, used>>
        BY <2>2 DEF Replay
      <3>2. 0 <= used
        BY DEF IInv, TypeOK
      <3> QED
        BY <3>1, <3>2, IdleRow DEF Unbound
    <2>3. CASE id = 0 /\ otherwise # "idle"
      <3> DEFINE m == [op[p] EXCEPT !.pc = "s_active"]
      <3>1. op' = [op EXCEPT ![p] = m] /\ UNCHANGED <<store, used>>
        BY <2>3 DEF Replay
      <3>2. "s_active" \in Labels
        BY DEF Labels
      <3>3. m \in Rows /\ m.pc = "s_active" /\ m.id = op[p].id
        BY <1>0, <3>2, MovedRow
      <3> QED
        BY <1>0, <3>1, <3>3 DEF Unbound
    <2> QED
      BY <2>1, <2>2, <2>3
  <1>2. r.pc \notin Fresh \cup Work \cup Pointing \cup Keyed \cup {"q_age"}
    BY <1>1 DEF Fresh, Work, Pointing, Freeing, Keyed
  <1> QED
    BY <1>1, <1>2, QuietKeeps

LEMMA FindActiveKeeps ==
  ASSUME IInv, NEW p \in Procs, FindActive(p)
  PROVE  IInv'
  <1>0. op[p] \in Rows /\ ReliesOn(op[p])
    BY DEF IInv, TypeOK, RequestsInv, Rows
  <1>1. ASSUME op[p].pc \in Keyed, NEW otherwise \in {"idle", "s_active"}, Replay(p, otherwise) PROVE IInv'
    BY <1>0, <1>1, ReplayKeeps DEF ReliesOn
  <1>2. ASSUME op[p].pc = "s_active",
               op' = [op EXCEPT ![p] = [@ EXCEPT !.pc = IF active = 0 THEN "s_reserve" ELSE "s_session",
                                                 !.id = active]],
               UNCHANGED <<store, used>>
        PROVE  IInv'
    <2>1. PICK r \in Rows : /\ r.pc = IF active = 0 THEN "s_reserve" ELSE "s_session"
                            /\ r.id = active
                            /\ op' = [op EXCEPT ![p] = r]
      <3> DEFINE m == [op[p] EXCEPT !.pc = IF active = 0 THEN "s_reserve" ELSE "s_session", !.id = active]
      <3>1. m \in Rows /\ m.pc = (IF active = 0 THEN "s_reserve" ELSE "s_session") /\ m.id = active
        BY <1>0 DEF Rows, Labels, IInv, TypeOK
      <3> QED
        BY <1>2, <3>1 DEF IInv, TypeOK
    <2>2. ReliesOn(r)
      BY <2>1 DEF ReliesOn, IInv, IdsInv, Unbound, Fresh, Work, Freeing, Keyed
    <2>3. \A q \in Procs : q # p => Apart(r, op[q])
      BY <2>1 DEF Apart, IInv, RequestsInv, ReliesOn, Fresh, Work, Pointing, Freeing
    <2> QED
      BY <1>2, <2>1, <2>2, <2>3, MoveKeeps
  <1>3. ASSUME op[p].pc = "s_session", Session(p).status \in Terminal \cup {"NONE"}, Only(p, "s_free") PROVE IInv'
    <2>0. "s_free" \in Labels \ {"idle"} /\ Goto(p, "s_free")
      BY <1>3 DEF Labels, Only
    <2>1. PICK r \in Rows : r.pc = "s_free" /\ r.id = op[p].id /\ op' = [op EXCEPT ![p] = r]
      BY <1>0, <2>0, GotoRow
    <2>2. ReliesOn(r)
      BY <1>0, <1>3, <2>1 DEF ReliesOn, Unbound, Fresh, Work, Freeing, Keyed, Session, Open
    <2>3. \A q \in Procs : q # p => Apart(op[p], op[q])
      BY DEF IInv, RequestsInv
    <2>4. \A q \in Procs : q # p => Apart(r, op[q])
      BY <1>3, <2>1, <2>3 DEF Apart, Fresh, Work, Pointing, Freeing
    <2> QED
      BY <1>3, <2>1, <2>2, <2>4, MoveKeeps DEF Only
  <1>4. ASSUME op[p].pc = "s_session", op[p].key # None, Only(p, "s_again") PROVE IInv'
    <2>0. "s_again" \in Labels \ {"idle"} /\ Goto(p, "s_again")
      BY <1>4 DEF Labels, Only
    <2>1. PICK r \in Rows : /\ r.pc = "s_again" /\ r.id = op[p].id /\ r.key = op[p].key
                            /\ op' = [op EXCEPT ![p] = r]
      BY <1>0, <2>0, GotoRow
    <2>2. r.key \in Keys /\ r.id <= used /\ r.id # 0
      BY <1>0, <1>4, <2>1 DEF Rows, ReliesOn, Unbound
    <2>3. r.pc \notin Fresh \cup Work \cup Pointing \cup {"q_age"}
      BY <2>1 DEF Fresh, Work, Pointing, Freeing
    <2> QED
      BY <1>4, <2>1, <2>2, <2>3, QuietKeeps DEF Only
  <1>5. ASSUME op[p].pc = "s_free", Free(p, "s_reserve") PROVE IInv'
    BY <1>5, FreeKeeps DEF Freeing
  <1> QED
    BY <1>1, <1>2, <1>3, <1>4, <1>5, IdleKeeps DEF FindActive, Keyed

(* A new id is free: nothing stored or remembered is about it yet.         *)
LEMMA ReserveKeeps ==
  ASSUME IInv, NEW p \in Procs, Reserve(p)
  PROVE  IInv'
  <1>0. op[p] \in Rows /\ op[p].pc = "s_reserve" /\ used \in Nat /\ MaxSessions \in Nat /\ used <= MaxSessions
    BY SessionsAssumption DEF IInv, TypeOK, Rows, Reserve
  <1>1. ASSUME op[p].key # None, Replay(p, "idle") PROVE IInv'
    BY <1>0, <1>1, ReplayKeeps DEF Rows
  <1>2. ASSUME used < MaxSessions, used' = used + 1,
               \A k \in Keys : requests'[k] \in {requests[k], used + 1},
               requests' \in [Keys -> {0} \cup Ids],
               op' = [op EXCEPT ![p] = [@ EXCEPT !.pc = "s_save", !.id = used + 1]],
               UNCHANGED <<sessions, active, attested>>
        PROVE  IInv'
    <2>0. used + 1 \in Ids
      BY <1>0, <1>2 DEF Ids
    <2>1. PICK r \in Rows : r.pc = "s_save" /\ r.id = used + 1 /\ op' = [op EXCEPT ![p] = r]
      <3> DEFINE m == [op[p] EXCEPT !.pc = "s_save", !.id = used + 1]
      <3>1. m \in Rows /\ m.pc = "s_save" /\ m.id = used + 1
        BY <1>0, <2>0 DEF Rows, Labels
      <3>2. op' = [op EXCEPT ![p] = m]
        BY <1>0, <1>2 DEF IInv, TypeOK
      <3> QED
        BY <3>1, <3>2
    <2>2. TypeOK'
      BY <1>0, <1>2, <2>1 DEF IInv, TypeOK, Rows
    <2>3. IdsInv'
      BY <1>0, <1>2 DEF IInv, IdsInv, TypeOK, Ids
    <2>4. ReliesOn(r)'
      BY <1>0, <1>2, <2>0, <2>1 DEF IInv, IdsInv, TypeOK, Ids, ReliesOn, Fresh, Work, Freeing, Keyed
    <2>5. \A q \in Procs : ReliesOn(op[q]) /\ op[q].id # used + 1 /\ op[q].id <= used + 1
      BY <1>0 DEF IInv, RequestsInv, ReliesOn, TypeOK, Ids
    <2>6. \A q \in Procs : q # p => op'[q] = op[q]
      BY <2>1 DEF IInv, TypeOK
    <2>7. \A q \in Procs : q # p => ReliesOn(op[q])'
      BY <1>2, <2>5, <2>6 DEF ReliesOn
    <2>8. RequestsInv'
      <3>1. \A q \in Procs : Apart(r, op[q])
        BY <2>1, <2>5 DEF Apart
      <3> QED
        BY <2>1, <2>4, <2>7, <3>1, RequestsKeep DEF IInv
    <2>9. SessionsInv'
      BY <1>2 DEF IInv, SessionsInv, OpenIsActive, CompletedIsLinked, LinkedStaysClosed
    <2> QED
      BY <2>2, <2>3, <2>8, <2>9 DEF IInv
  <1>3. ASSUME used < MaxSessions, used' = used + 1,
               \/ op[p].key = None /\ UNCHANGED requests
               \/ /\ op[p].key # None
                  /\ requests' = [requests EXCEPT ![op[p].key] = used + 1],
               op' = [op EXCEPT ![p] = [@ EXCEPT !.pc = "s_save", !.id = used + 1]],
               UNCHANGED <<sessions, active, attested>>
        PROVE  IInv'
    <2>1. requests \in [Keys -> {0} \cup Ids] /\ used + 1 \in Ids
      BY <1>0, <1>3 DEF IInv, TypeOK, Ids
    <2>2. /\ requests' \in [Keys -> {0} \cup Ids]
          /\ \A k \in Keys : requests'[k] \in {requests[k], used + 1}
      BY <1>3, <2>1
    <2> QED
      BY <1>2, <1>3, <2>2
  <1> QED
    BY <1>1, <1>3 DEF Reserve

LEMMA SaveKeeps ==
  ASSUME IInv, NEW p \in Procs, Save(p)
  PROVE  IInv'
  <1> DEFINE i == op[p].id
  <1>0. /\ op[p] \in Rows /\ op[p].pc = "s_save" /\ ReliesOn(op[p])
        /\ i \in Ids /\ i # 0 /\ i <= used
        /\ UNCHANGED <<requests, attested, used>>
    BY BoundId DEF Save, Unbound, IInv, RequestsInv, Ids
  <1>1. ASSUME UNCHANGED <<active, sessions>>, Goto(p, "s_remove") PROVE IInv'
    <2>0. "s_remove" \in Labels \ {"idle"}
      BY DEF Labels
    <2>1. PICK r \in Rows : r.pc = "s_remove" /\ r.id = i /\ op' = [op EXCEPT ![p] = r]
      BY <1>0, <1>1, <2>0, GotoRow
    <2>2. ReliesOn(r)
      BY <1>0, <2>1 DEF ReliesOn, Unbound, Fresh, Work, Freeing, Keyed
    <2>3. \A q \in Procs : q # p => Apart(op[p], op[q])
      BY DEF IInv, RequestsInv
    <2>4. \A q \in Procs : q # p => Apart(r, op[q])
      BY <1>0, <2>1, <2>3 DEF Apart, Fresh, Work, Pointing, Freeing
    <2> QED
      BY <1>0, <1>1, <2>1, <2>2, <2>4, MoveKeeps DEF store
  <1>2. ASSUME UNCHANGED <<active, sessions>>, Goto(p, "idle") PROVE IInv'
    BY <1>0, <1>2, IdleKeeps DEF Only, store
  <1>3. ASSUME active = 0, active' = i, sessions' = [sessions EXCEPT ![i] = [NoSession EXCEPT !.status = "PENDING"]],
               NEW label \in {"idle", "s_resolved", "s_fail", "s_resent"}, Goto(p, label)
        PROVE  IInv'
    <2>0. label \in Labels /\ label \notin Fresh \cup Work \cup Pointing \cup Keyed \cup {"q_age"}
      BY DEF Labels, Fresh, Work, Pointing, Freeing, Keyed
    <2>1. PICK r \in Rows : /\ r.pc = label /\ r.id <= used /\ (label \in Unbound \/ r.id # 0)
                            /\ op' = [op EXCEPT ![p] = r]
      <3>1. CASE label = "idle"
        <4>1. op' = [op EXCEPT ![p] = Idle] /\ 0 <= used
          BY <1>3, <3>1 DEF Goto, IInv, TypeOK
        <4> QED
          BY <3>1, <4>1, IdleRow DEF Unbound
      <3>2. CASE label # "idle"
        BY <1>0, <1>3, <2>0, <3>2, GotoRow
      <3> QED
        BY <3>1, <3>2
    <2>2. PICK s \in Sessions : s.status = "PENDING" /\ sessions' = [sessions EXCEPT ![i] = s]
      <3> DEFINE m == [NoSession EXCEPT !.status = "PENDING"]
      <3>1. m \in Sessions /\ m.status = "PENDING"
        BY DEF NoSession, Sessions, Statuses
      <3> QED
        BY <1>3, <3>1
    <2>3. \A j \in Ids : sessions'[j] = IF j = i THEN s ELSE sessions[j]
      BY <1>0, <2>2 DEF IInv, TypeOK
    <2>4. TypeOK'
      BY <1>0, <1>3, <2>1, <2>2 DEF IInv, TypeOK, Rows
    <2>5. ReliesOn(r)'
      BY <1>0, <2>0, <2>1 DEF ReliesOn, Pointing, Work
    <2>6. \A q \in Procs : q # p => ReliesOn(op[q])'
      <3> SUFFICES ASSUME NEW q \in Procs, q # p PROVE ReliesOn(op[q])'
        OBVIOUS
      <3>1. ReliesOn(op[q]) /\ op'[q] = op[q] /\ op[q] \in Rows /\ Apart(op[p], op[q])
        BY <2>1 DEF IInv, RequestsInv, TypeOK, Rows
      <3>2. CASE op[q].id # i
        <4>1. op[q].pc \notin Unbound => op[q].id \in Ids /\ sessions'[op[q].id] = sessions[op[q].id]
          BY <3>1, <3>2, <2>3 DEF ReliesOn, Rows
        <4> QED
          BY <1>0, <1>3, <3>1, <3>2, <4>1 DEF ReliesOn, Unbound, Fresh, Work, Freeing
      <3>3. CASE op[q].id = i
        <4>1. op[q].pc \notin Fresh \cup Work \cup Pointing
          BY <1>0, <3>1, <3>3 DEF Apart, Fresh
        <4> QED
          BY <1>0, <3>1, <4>1 DEF ReliesOn, Pointing, Work
      <3> QED
        BY <3>2, <3>3
    <2>7. RequestsInv'
      <3>1. \A q \in Procs : Apart(r, op[q])
        BY <2>0, <2>1, QuietApart
      <3> QED
        BY <2>1, <2>5, <2>6, <3>1, RequestsKeep DEF IInv
    <2>8. IdsInv'
      BY <1>0, <1>3, <2>3 DEF IInv, IdsInv, TypeOK, Ids
    <2>9. SessionsInv'
      <3>1. i \notin attested
        BY <1>0 DEF ReliesOn, Fresh
      <3>2. OpenIsActive'
        BY <1>0, <1>3, <2>3 DEF IInv, SessionsInv, OpenIsActive, Ids
      <3> QED
        BY <1>0, <2>2, <2>3, <3>1, <3>2 DEF IInv, SessionsInv, CompletedIsLinked, LinkedStaysClosed, TypeOK
    <2> QED
      BY <2>4, <2>7, <2>8, <2>9 DEF IInv
  <1> QED
    BY <1>1, <1>2, <1>3 DEF Save, Unadmitted

LEMMA RemoveKeeps ==
  ASSUME IInv, NEW p \in Procs, Remove(p)
  PROVE  IInv'
  <1>0. /\ op' = [op EXCEPT ![p] = Idle] /\ UNCHANGED <<sessions, active, attested, used>>
        /\ requests' \in [Keys -> {0} \cup Ids] /\ \A k \in Keys : requests'[k] \in {requests[k], 0}
    BY DEF Remove, Goto, IInv, TypeOK
  <1>1. TypeOK'
    BY <1>0, IdleRow DEF IInv, TypeOK, Rows
  <1>2. 0 <= used
    BY DEF IInv, TypeOK
  <1>3. ReliesOn(Idle)'
    BY <1>0, <1>2, IdleRow DEF ReliesOn, Unbound, Fresh, Work, Freeing, Keyed, Idle
  <1>4. \A q \in Procs : q # p => ReliesOn(op[q])'
    <2>1. \A q \in Procs : ReliesOn(op[q]) /\ (q # p => op'[q] = op[q])
      BY <1>0 DEF IInv, RequestsInv, TypeOK
    <2> QED
      BY <1>0, <2>1 DEF ReliesOn
  <1>5. RequestsInv'
    <2>1. \A q \in Procs : Apart(Idle, op[q])
      BY IdleRow, QuietApart DEF Fresh, Work, Pointing, Freeing
    <2> QED
      BY <1>0, <1>3, <1>4, <2>1, IdleRow, RequestsKeep DEF IInv
  <1>6. IdsInv'
    BY <1>0, <1>2 DEF IInv, IdsInv
  <1>7. SessionsInv'
    BY <1>0 DEF IInv, SessionsInv, OpenIsActive, CompletedIsLinked, LinkedStaysClosed
  <1> QED
    BY <1>1, <1>5, <1>6, <1>7 DEF IInv

-----------------------------------------------------------------------------
(* The steps that move a session on. *)

(* What In makes of a session: the status, and nothing that is kept here.  *)
LEMMA InRow ==
  ASSUME IInv, NEW p \in Procs, op[p].pc \notin Unbound, NEW status \in Statuses
  PROVE  In(p, status) \in Sessions /\ In(p, status).status = status
  BY BoundId DEF In, Session, Sessions

(* Nobody but the request itself works on a session that is not FINALIZING. *)
LEMMA NobodyWorks ==
  ASSUME IInv, NEW p \in Procs,
         \/ op[p].pc \in Work
         \/ Session(p).status \notin {"FINALIZING", "FAILED", "NONE"}
  PROVE  \A q \in Procs : q # p /\ op[q].id = op[p].id => op[q].pc \notin Work
  BY DEF IInv, RequestsInv, ReliesOn, Apart, Session

LEMMA ResolveWalletKeeps ==
  ASSUME IInv, NEW p \in Procs, ResolveWallet(p)
  PROVE  IInv'
  <1>0. op[p].pc \notin Unbound \cup Fresh
    BY DEF ResolveWallet, Unbound, Fresh
  <1>1. Session(p).status = "PENDING" =>
          op[p].id \notin attested /\ \A q \in Procs : q # p /\ op[q].id = op[p].id => op[q].pc \notin Work
    BY <1>0, BoundId, NobodyWorks DEF Session, IInv, SessionsInv, LinkedStaysClosed
  <1>2. In(p, "WALLET_RESOLVED") \in Sessions /\ In(p, "WALLET_RESOLVED").status = "WALLET_RESOLVED"
        /\ In(p, "FAILED") \in Sessions /\ In(p, "FAILED").status = "FAILED"
    BY <1>0, InRow DEF Statuses
  <1>3. "s_fail" \in Quiet /\ "idle" \in Quiet /\ "PENDING" \in Statuses \ Terminal
    BY DEF Quiet, Labels, Unbound, Fresh, Work, Pointing, Freeing, Keyed, Statuses, Terminal
  <1>4. ASSUME Transition(p, "PENDING", In(p, "WALLET_RESOLVED"), {"idle"}, "s_fail") PROVE IInv'
    <2>1. {"idle"} \subseteq Quiet
      BY <1>3
    <2> QED
      BY <1>0, <1>1, <1>2, <1>3, <1>4, <2>1, TransitionKeeps
  <1>5. ASSUME Transition(p, "PENDING", In(p, "FAILED"), {"free"}, "idle") PROVE IInv'
    <2>1. In(p, "FAILED").status \in Terminal
      BY <1>2 DEF Terminal
    <2> QED
      BY <1>0, <1>1, <1>2, <1>3, <1>5, <2>1, TransitionKeeps
  <1> QED
    BY <1>4, <1>5 DEF ResolveWallet

LEMMA RequestConsentKeeps ==
  ASSUME IInv, NEW p \in Procs, RequestConsent(p)
  PROVE  IInv'
  <1>0. op[p].pc \notin Unbound \cup Fresh
    BY DEF RequestConsent, Unbound, Fresh
  <1>1. \A status \in {"WALLET_RESOLVED", "CONSENT_REQUESTING"} : Session(p).status = status =>
          op[p].id \notin attested /\ \A q \in Procs : q # p /\ op[q].id = op[p].id => op[q].pc \notin Work
    BY <1>0, BoundId, NobodyWorks DEF Session, IInv, SessionsInv, LinkedStaysClosed
  <1>2. \A status \in {"CONSENT_REQUESTING", "CONSENT_PENDING", "FAILED"} :
          In(p, status) \in Sessions /\ In(p, status).status = status
    BY <1>0, InRow DEF Statuses
  <1>3. /\ "c_pending" \in Quiet /\ "c_fail" \in Quiet /\ "c_claim" \in Quiet /\ "idle" \in Quiet
        /\ "WALLET_RESOLVED" \in Statuses \ Terminal /\ "CONSENT_REQUESTING" \in Statuses \ Terminal
    BY DEF Quiet, Labels, Unbound, Fresh, Work, Pointing, Freeing, Keyed, Statuses, Terminal
  <1>4. ASSUME NEW label \in {"c_claim", "idle"}, Only(p, label) PROVE IInv'
    <2>1. label \in Labels
      BY DEF Labels
    <2> QED
      BY <1>0, <1>3, <1>4, <2>1, OnlyKeeps DEF Quiet
  <1>5. ASSUME Transition(p, "WALLET_RESOLVED", In(p, "CONSENT_REQUESTING"), {"c_pending", "c_fail"}, "idle")
        PROVE  IInv'
    <2>1. {"c_pending", "c_fail"} \subseteq Quiet
      BY <1>3
    <2> QED
      BY <1>0, <1>1, <1>2, <1>3, <1>5, <2>1, TransitionKeeps
  <1>6. ASSUME Transition(p, "CONSENT_REQUESTING", In(p, "CONSENT_PENDING"), {"idle"}, "c_fail")
        PROVE  IInv'
    <2>1. {"idle"} \subseteq Quiet
      BY <1>3
    <2> QED
      BY <1>0, <1>1, <1>2, <1>3, <1>6, <2>1, TransitionKeeps
  <1>7. ASSUME Transition(p, "CONSENT_REQUESTING", In(p, "FAILED"), {"free"}, "idle") PROVE IInv'
    <2>1. In(p, "FAILED").status \in Terminal
      BY <1>2 DEF Terminal
    <2> QED
      BY <1>0, <1>1, <1>2, <1>3, <1>7, <2>1, TransitionKeeps
  <1> QED
    BY <1>4, <1>5, <1>6, <1>7 DEF RequestConsent

(* A request that goes on to where it relies on nothing, or ends.          *)
LEMMA QuietOnlyKeeps ==
  ASSUME IInv, NEW p \in Procs, op[p].pc \notin Unbound, NEW label \in Quiet, Only(p, label)
  PROVE  IInv'
  <1>1. label \in Labels
    BY DEF Quiet, Labels
  <1> QED
    BY <1>1, OnlyKeeps DEF Quiet

(* Read: the request remembers its session as it is now.                   *)
LEMMA ReadKeeps ==
  ASSUME IInv, NEW p \in Procs, NEW label \in {"h_claim", "q_age"}, op[p].pc \notin Unbound,
         label = "q_age" => Session(p).status \in {"FINALIZING", "CONSENT_REQUESTING"},
         Read(p, label)
  PROVE  IInv'
  <1>0. op[p] \in Rows /\ op[p].id <= used /\ op[p].id # 0 /\ Session(p) \in Sessions
    BY BoundId DEF Session, Ids
  <1>1. PICK r \in Rows : /\ r.pc = label /\ r.id = op[p].id /\ r.read = Session(p)
                          /\ op' = [op EXCEPT ![p] = r]
    <2> DEFINE m == [op[p] EXCEPT !.pc = label, !.read = Session(p)]
    <2>1. m \in Rows /\ m.pc = label /\ m.id = op[p].id /\ m.read = Session(p)
      BY <1>0 DEF Rows, Labels
    <2>2. op' = [op EXCEPT ![p] = m]
      BY DEF Read, IInv, TypeOK
    <2> QED
      BY <2>1, <2>2
  <1>2. ReliesOn(r)
    BY <1>0, <1>1 DEF ReliesOn, Unbound, Fresh, Work, Freeing, Keyed
  <1>3. \A q \in Procs : Apart(r, op[q])
    BY <1>1, QuietApart DEF Fresh, Work, Pointing, Freeing
  <1> QED
    BY <1>1, <1>2, <1>3, MoveKeeps DEF Read

LEMMA CallbackReadKeeps ==
  ASSUME IInv, NEW p \in Procs, ReadCallback(p)
  PROVE  IInv'
  <1>0. op[p].pc \notin Unbound
    BY DEF ReadCallback, Unbound
  <1>1. "h_read" \in Quiet /\ "idle" \in Quiet
    BY DEF Quiet, Labels, Unbound, Fresh, Work, Pointing, Freeing, Keyed
  <1> QED
    BY <1>0, <1>1, QuietOnlyKeeps, ReadKeeps DEF ReadCallback

LEMMA ClaimCallbackKeeps ==
  ASSUME IInv, NEW p \in Procs, ClaimCallback(p)
  PROVE  IInv'
  <1>0. op[p].pc \notin Unbound \cup Fresh
    BY DEF ClaimCallback, Unbound, Fresh
  <1>1. Session(p).status = "CONSENT_PENDING" =>
          op[p].id \notin attested /\ \A q \in Procs : q # p /\ op[q].id = op[p].id => op[q].pc \notin Work
    BY <1>0, BoundId, NobodyWorks DEF Session, IInv, SessionsInv, LinkedStaysClosed
  <1>2. In(p, "FINALIZING") \in Sessions /\ In(p, "FINALIZING").status = "FINALIZING"
    BY <1>0, InRow DEF Statuses
  <1>3. "idle" \in Quiet /\ "CONSENT_PENDING" \in Statuses \ Terminal
    BY DEF Quiet, Statuses, Terminal
  <1>4. Transition(p, "CONSENT_PENDING", In(p, "FINALIZING"), {"h_continue"}, "idle")
    BY DEF ClaimCallback
  <1> QED
    BY <1>0, <1>1, <1>2, <1>3, <1>4, TransitionKeeps

(* The request stays the one that works on the session. *)
LEMMA ContinueKeeps ==
  ASSUME IInv, NEW p \in Procs, Continue(p)
  PROVE  IInv'
  <1>0. /\ op[p].pc = "h_continue" /\ op[p].pc \notin Unbound /\ op[p] \in Rows
        /\ ReliesOn(op[p]) /\ \A q \in Procs : q # p => Apart(op[p], op[q])
    BY DEF Continue, Unbound, IInv, RequestsInv, TypeOK, Rows
  <1>1. ASSUME NEW label \in {"h_pending", "h_save"}, Only(p, label) PROVE IInv'
    <2>0. label \in Labels \ {"idle"}
      BY DEF Labels
    <2>1. PICK r \in Rows : r.pc = label /\ r.id = op[p].id /\ op' = [op EXCEPT ![p] = r]
      BY <1>0, <1>1, <2>0, GotoRow DEF Only
    <2>2. ReliesOn(r)
      BY <1>0, <2>1 DEF ReliesOn, Unbound, Fresh, Work, Freeing, Keyed
    <2>3. \A q \in Procs : q # p => Apart(r, op[q])
      BY <1>0, <2>1 DEF Apart, Fresh, Work, Pointing, Freeing
    <2> QED
      BY <1>1, <2>1, <2>2, <2>3, MoveKeeps DEF Only
  <1>2. "h_check" \in Quiet
    BY DEF Quiet, Labels, Unbound, Fresh, Work, Pointing, Freeing, Keyed
  <1>3. PICK label \in {"h_pending", AfterGrant, "h_check"} : Only(p, label)
    BY DEF Continue
  <1> QED
    BY <1>0, <1>1, <1>2, <1>3, QuietOnlyKeeps DEF AfterGrant

LEMMA StillPendingKeeps ==
  ASSUME IInv, NEW p \in Procs, StillPending(p)
  PROVE  IInv'
  <1> DEFINE new == [In(p, "CONSENT_PENDING") EXCEPT !.interactionSent = TRUE]
  <1>0. op[p].pc = "h_pending" /\ op[p].pc \notin Unbound \cup Fresh /\ op[p].pc \in Work
    BY DEF StillPending, Unbound, Fresh, Work
  <1>1. op[p].id \notin attested /\ \A q \in Procs : q # p /\ op[q].id = op[p].id => op[q].pc \notin Work
    BY <1>0, NobodyWorks DEF IInv, RequestsInv, ReliesOn
  <1>2. new \in Sessions /\ new.status = "CONSENT_PENDING"
    <2>1. In(p, "CONSENT_PENDING") \in Sessions /\ In(p, "CONSENT_PENDING").status = "CONSENT_PENDING"
      BY <1>0, InRow DEF Statuses
    <2> QED
      BY <2>1 DEF Sessions
  <1>3. "h_check" \in Quiet /\ {"idle"} \subseteq Quiet /\ "FINALIZING" \in Statuses \ Terminal
    BY DEF Quiet, Labels, Unbound, Fresh, Work, Pointing, Freeing, Keyed, Statuses, Terminal
  <1>4. Transition(p, "FINALIZING", new, {"idle"}, "h_check")
    BY DEF StillPending
  <1> HIDE DEF new
  <1> QED
    BY <1>0, <1>1, <1>2, <1>3, <1>4, TransitionKeeps

(* The attestation is the work of the only request that works on it.       *)
LEMMA SaveOwnershipKeeps ==
  ASSUME IInv, NEW p \in Procs, SaveOwnership(p)
  PROVE  IInv'
  <1> DEFINE i == op[p].id
  <1>0. /\ op[p].pc = "h_save" /\ op[p].pc \notin Unbound /\ op[p] \in Rows
        /\ ReliesOn(op[p]) /\ i \in Ids /\ i # 0 /\ i <= used
        /\ \A q \in Procs : q # p => Apart(op[p], op[q])
        /\ UNCHANGED <<sessions, active, requests, used>>
    BY BoundId DEF SaveOwnership, Unbound, IInv, RequestsInv, TypeOK, Rows, Ids
  <1>1. ASSUME UNCHANGED attested, Goto(p, "h_check") PROVE IInv'
    <2>1. "h_check" \in Quiet
      BY DEF Quiet, Labels, Unbound, Fresh, Work, Pointing, Freeing, Keyed
    <2> QED
      BY <1>0, <1>1, <2>1, QuietOnlyKeeps DEF Only, store
  <1>2. ASSUME attested' = attested \cup {i}, NEW label \in {"h_complete", "h_check"}, Goto(p, label) PROVE IInv'
    <2>0. label \in Labels \ {"idle"}
      BY DEF Labels
    <2>1. PICK r \in Rows : r.pc = label /\ r.id = i /\ op' = [op EXCEPT ![p] = r]
      BY <1>0, <1>2, <2>0, GotoRow
    <2>2. TypeOK'
      BY <1>0, <1>2, <2>1 DEF IInv, TypeOK, Rows
    <2>3. ReliesOn(r)'
      BY <1>0, <1>2, <2>1 DEF ReliesOn, Unbound, Fresh, Work, Freeing, Keyed
    <2>4. \A q \in Procs : q # p => Apart(r, op[q])
      BY <1>0, <2>1 DEF Apart, Fresh, Work, Pointing, Freeing
    <2>5. \A q \in Procs : q # p => ReliesOn(op[q])'
      <3> SUFFICES ASSUME NEW q \in Procs, q # p PROVE ReliesOn(op[q])'
        OBVIOUS
      <3>1. ReliesOn(op[q]) /\ op'[q] = op[q] /\ Apart(op[p], op[q])
        BY <1>0, <2>1 DEF IInv, RequestsInv, TypeOK
      <3>2. op[q].id = i => op[q].pc \notin Fresh \cup Work
        BY <1>0, <3>1 DEF Apart, Work
      <3> QED
        BY <1>0, <1>2, <3>1, <3>2 DEF ReliesOn
    <2>6. RequestsInv'
      BY <2>1, <2>3, <2>4, <2>5, RequestsKeep DEF IInv
    <2>7. IdsInv'
      BY <1>0, <1>2 DEF IInv, IdsInv, Ids, TypeOK
    <2>8. SessionsInv'
      <3>1. sessions[i].status \in {"FINALIZING", "FAILED", "NONE"}
        BY <1>0 DEF ReliesOn, Work
      <3> QED
        BY <1>0, <1>2, <3>1 DEF IInv, SessionsInv, OpenIsActive, CompletedIsLinked, LinkedStaysClosed
    <2> QED
      BY <2>2, <2>6, <2>7, <2>8 DEF IInv
  <1> QED
    BY <1>1, <1>2 DEF SaveOwnership

LEMMA CompleteKeeps ==
  ASSUME IInv, NEW p \in Procs, Complete(p)
  PROVE  IInv'
  <1>0. op[p].pc = "h_complete" /\ op[p].pc \notin Unbound \cup Fresh /\ op[p].pc \in Work
    BY DEF Complete, Unbound, Fresh, Work
  <1>1. op[p].id \in attested /\ \A q \in Procs : q # p /\ op[q].id = op[p].id => op[q].pc \notin Work
    BY <1>0, NobodyWorks DEF IInv, RequestsInv, ReliesOn
  <1>2. In(p, "COMPLETED") \in Sessions /\ In(p, "COMPLETED").status = "COMPLETED"
    BY <1>0, InRow DEF Statuses
  <1>3. "idle" \in Quiet /\ "FINALIZING" \in Statuses \ Terminal /\ "COMPLETED" \in Terminal
    BY DEF Quiet, Statuses, Terminal
  <1>4. Transition(p, "FINALIZING", In(p, "COMPLETED"), {"free"}, "idle")
    BY DEF Complete
  <1> QED
    BY <1>0, <1>1, <1>2, <1>3, <1>4, TransitionKeeps

(* A failure may overtake a request that works. *)
LEMMA FailKeeps ==
  ASSUME IInv, NEW p \in Procs, op[p].pc \notin Unbound \cup Fresh,
         NEW expected \in {"FINALIZING", "CONSENT_REQUESTING"},
         Transition(p, expected, In(p, "FAILED"), {"free"}, "idle")
  PROVE  IInv'
  <1>1. In(p, "FAILED") \in Sessions /\ In(p, "FAILED").status = "FAILED"
    BY InRow DEF Statuses
  <1>2. "idle" \in Quiet /\ expected \in Statuses \ Terminal /\ "FAILED" \in Terminal
    BY DEF Quiet, Statuses, Terminal
  <1> QED
    BY <1>1, <1>2, TransitionKeeps

LEMMA CallbackFailsKeeps ==
  ASSUME IInv, NEW p \in Procs, CallbackFails(p)
  PROVE  IInv'
  <1>0. op[p].pc \notin Unbound \cup Fresh
    BY DEF CallbackFails, Unbound, Fresh
  <1>1. "h_fail" \in Quiet /\ "idle" \in Quiet
    BY DEF Quiet, Labels, Unbound, Fresh, Work, Pointing, Freeing, Keyed
  <1> QED
    BY <1>0, <1>1, QuietOnlyKeeps, FailKeeps DEF CallbackFails

LEMMA GetStatusKeeps ==
  ASSUME IInv, NEW p \in Procs, GetStatus(p)
  PROVE  IInv'
  <1>0. op[p].pc \notin Unbound \cup Fresh
    BY DEF GetStatus, Unbound, Fresh
  <1>1. "q_read" \in Quiet /\ "idle" \in Quiet
    BY DEF Quiet, Labels, Unbound, Fresh, Work, Pointing, Freeing, Keyed
  <1>2. ASSUME op[p].pc = "q_read",
               IF Interrupted(Session(p)) THEN Read(p, "q_age") ELSE Only(p, "idle")
        PROVE  IInv'
    BY <1>0, <1>1, <1>2, QuietOnlyKeeps, ReadKeeps DEF Interrupted
  <1>3. ASSUME op[p].pc = "q_age", Transition(p, op[p].read.status, In(p, "FAILED"), {"free"}, "idle")
        PROVE  IInv'
    <2>1. op[p].read.status \in {"FINALIZING", "CONSENT_REQUESTING"}
      BY <1>3 DEF IInv, RequestsInv, ReliesOn
    <2> QED
      BY <1>0, <1>3, <2>1, FailKeeps
  <1> QED
    BY <1>0, <1>1, <1>2, <1>3, QuietOnlyKeeps DEF GetStatus

LEMMA StepKeeps ==
  ASSUME IInv, NEW p \in Procs, Step(p)
  PROVE  IInv'
  <1>1. Finish(p) => IInv'
    <2>1. op[p].pc = "free" => op[p].pc \in Freeing
      BY DEF Freeing
    <2> QED
      BY <2>1, FreeKeeps DEF Finish
  <1>2. FindActive(p) \/ Reserve(p) \/ Save(p) \/ Remove(p) \/ ResolveWallet(p) => IInv'
    BY FindActiveKeeps, ReserveKeeps, SaveKeeps, RemoveKeeps, ResolveWalletKeeps
  <1>3. RequestConsent(p) \/ ReadCallback(p) \/ ClaimCallback(p) \/ Continue(p) \/ StillPending(p) => IInv'
    BY RequestConsentKeeps, CallbackReadKeeps, ClaimCallbackKeeps, ContinueKeeps, StillPendingKeeps
  <1>4. SaveOwnership(p) \/ Complete(p) \/ CallbackFails(p) \/ GetStatus(p) => IInv'
    BY SaveOwnershipKeeps, CompleteKeeps, CallbackFailsKeeps, GetStatusKeeps
  <1> QED
    BY <1>1, <1>2, <1>3, <1>4 DEF Step

-----------------------------------------------------------------------------
(* Time passes. *)

LEMMA TimeKeeps ==
  ASSUME IInv, NEW id \in Ids, Age(id) \/ Expire(id)
  PROVE  IInv'
  <1>0. UNCHANGED <<requests, attested, op, used>> /\ used \in Nat /\ active \in Nat /\ sessions \in [Ids -> Sessions]
    BY DEF Age, Expire, IInv, TypeOK, Ids
  <1>1. sessions' \in [Ids -> Sessions] /\ active' \in {active, 0}
    <2>1. CASE Age(id)
      <3> DEFINE s == [sessions[id] EXCEPT !.updatedAt = "old"]
      <3>1. s \in Sessions
        BY <1>0 DEF Sessions
      <3>2. sessions' = [sessions EXCEPT ![id] = s] /\ active' = active
        BY <2>1 DEF Age
      <3> QED
        BY <1>0, <3>1, <3>2
    <2>2. CASE Expire(id)
      <3>1. NoSession \in Sessions
        BY DEF NoSession, Sessions
      <3> QED
        BY <1>0, <2>2, <3>1 DEF Expire
    <2> QED
      BY <2>1, <2>2
  <1>2. \A i \in Ids : sessions'[i].status \in {sessions[i].status, "NONE"}
    <2>1. ASSUME NEW i \in Ids, Age(id) PROVE sessions'[i].status = sessions[i].status
      BY <1>0, <2>1 DEF Age, Sessions
    <2>2. ASSUME NEW i \in Ids, Expire(id) PROVE sessions'[i].status \in {sessions[i].status, "NONE"}
      BY <1>0, <2>2 DEF Expire, NoSession
    <2> QED
      BY <2>1, <2>2
  <1>3. \A i \in Ids : active = i /\ active' # i => sessions'[i].status = "NONE"
    BY <1>0 DEF Age, Expire, NoSession
  <1>4. TypeOK'
    BY <1>0, <1>1 DEF IInv, TypeOK
  <1>5. \A q \in Procs : ReliesOn(op[q])'
    <2> SUFFICES ASSUME NEW q \in Procs PROVE ReliesOn(op[q])'
      OBVIOUS
    <2>1. ReliesOn(op[q]) /\ op'[q] = op[q] /\ op[q] \in Rows
      BY <1>0 DEF IInv, RequestsInv, TypeOK, Rows
    <2>2. op[q].pc \notin Unbound => op[q].id \in Ids /\ op[q].id # 0
      BY <2>1 DEF ReliesOn, Rows, Ids
    <2>3. op[q].pc \in Fresh \cup Work \cup Freeing => op[q].pc \notin Unbound
      BY DEF Fresh, Work, Freeing, Unbound
    <2> QED
      BY <1>0, <1>1, <1>2, <2>1, <2>2, <2>3 DEF ReliesOn, Open
  <1>6. RequestsInv'
    BY <1>0, <1>5 DEF IInv, RequestsInv, Apart
  <1>7. IdsInv'
    BY <1>0, <1>1, <1>2 DEF IInv, IdsInv
  <1>8. SessionsInv'
    <2>1. OpenIsActive'
      BY <1>1, <1>2, <1>3 DEF IInv, SessionsInv, OpenIsActive, Open
    <2>2. CompletedIsLinked'
      BY <1>0, <1>2 DEF IInv, SessionsInv, CompletedIsLinked
    <2>3. LinkedStaysClosed'
      BY <1>0, <1>2 DEF IInv, SessionsInv, LinkedStaysClosed, TypeOK
    <2> QED
      BY <2>1, <2>2, <2>3 DEF SessionsInv
  <1> QED
    BY <1>4, <1>6, <1>7, <1>8 DEF IInv

-----------------------------------------------------------------------------
(* The inductive invariant. *)

LEMMA InitHolds == Init => IInv
  <1> SUFFICES ASSUME Init PROVE IInv
    OBVIOUS
  <1>0. NoSession \in Sessions /\ NoSession.status = "NONE" /\ MaxSessions \in Nat
    BY SessionsAssumption DEF NoSession, Sessions, Statuses
  <1>1. TypeOK
    BY <1>0, IdleRow DEF Init, TypeOK, Rows
  <1>2. RequestsInv
    <2>1. \A p \in Procs : op[p] = Idle
      BY DEF Init
    <2>2. Idle.pc \notin Fresh \cup Work \cup Pointing \cup Keyed \cup {"q_age"} /\ Idle.pc \in Unbound
      BY IdleRow DEF Unbound, Fresh, Work, Freeing, Keyed, Pointing
    <2>3. Idle \in Rows /\ Idle.id <= used
      BY IdleRow DEF Init
    <2>4. ReliesOn(Idle) /\ Apart(Idle, Idle)
      BY <2>2, <2>3, QuietRelies, QuietApart DEF Pointing
    <2> QED
      BY <2>1, <2>4 DEF RequestsInv
  <1>3. IdsInv /\ SessionsInv
    BY <1>0 DEF Init, IdsInv, SessionsInv, OpenIsActive, CompletedIsLinked, LinkedStaysClosed, Open
  <1> QED
    BY <1>1, <1>2, <1>3 DEF IInv

LEMMA NextKeeps == IInv /\ [Next]_vars => IInv'
  <1> SUFFICES ASSUME IInv, [Next]_vars PROVE IInv'
    OBVIOUS
  <1>1. ASSUME NEW p \in Procs, Arrival(p) \/ Step(p) \/ Crash(p) PROVE IInv'
    BY <1>1, ArrivalKeeps, StepKeeps, IdleKeeps DEF Crash
  <1>2. ASSUME NEW id \in Ids, Age(id) \/ Expire(id) PROVE IInv'
    BY <1>2, TimeKeeps
  <1>3. CASE UNCHANGED vars
    BY <1>3 DEF vars, store, IInv, TypeOK, IdsInv, RequestsInv, ReliesOn, SessionsInv,
                OpenIsActive, CompletedIsLinked, LinkedStaysClosed
  <1> QED
    BY <1>1, <1>2, <1>3 DEF Next

(* Every reachable state of linking a wallet satisfies the strengthened    *)
(* invariant: what each request still relies on at its next call, and that *)
(* no two requests are in each other's way (service 40-180).               *)
THEOREM OnboardingInductive == Spec => []IInv
  BY InitHolds, NextKeeps, PTL DEF Spec

(* The stored sessions, pointer and reservations, and what each request    *)
(* remembers, stay within their types (repository 10-60).                  *)
THEOREM OnboardingTyped == Spec => []TypeOK
  BY OnboardingInductive, PTL DEF IInv

(* A user's open session is always the one the active pointer leads to,    *)
(* so there is never a second one (repository 16-26, 31-38, 53-57).        *)
THEOREM OpenSessionIsActive == Spec => []OpenIsActive
  BY OnboardingInductive, PTL DEF IInv, SessionsInv

(* A session is COMPLETED only when the ownership is on record (151-155).  *)
THEOREM CompletionIsLinked == Spec => []CompletedIsLinked
  BY OnboardingInductive, PTL DEF IInv, SessionsInv

(* A linked session never awaits consent again (146-154).                  *)
THEOREM LinkedSessionStaysClosed == Spec => []LinkedStaysClosed
  BY OnboardingInductive, PTL DEF IInv, SessionsInv

(* A grant is continued by one request at a time (138-142, 165-175).       *)
THEOREM ContinuesAlone == Spec => []OneContinuation
  <1>1. IInv => OneContinuation
    BY DEF IInv, RequestsInv, Apart, Work, OneContinuation
  <1> QED
    BY <1>1, OnboardingInductive, PTL

-----------------------------------------------------------------------------
(* What a step may never do. *)

(* Only the admission of a session changes the reservations. *)
LEMMA ReservationsStay ==
  ASSUME NEW p \in Procs, Arrival(p) \/ Step(p) \/ Crash(p), ~Reserve(p), ~Remove(p)
  PROVE  UNCHANGED requests
  <1>1. ASSUME Arrival(p) \/ Crash(p) PROVE UNCHANGED requests
    BY <1>1 DEF Arrival, Start, Consent, Callback, Status, Crash, Begin, Only, store
  <1>2. ASSUME FindActive(p) \/ Save(p) \/ ResolveWallet(p) PROVE UNCHANGED requests
    BY <1>2 DEF FindActive, Replay, Save, ResolveWallet, Only, Free, Transition, store
  <1>3. ASSUME RequestConsent(p) \/ ReadCallback(p) \/ ClaimCallback(p) \/ Continue(p) \/ StillPending(p)
        PROVE  UNCHANGED requests
    BY <1>3 DEF RequestConsent, ReadCallback, ClaimCallback, Continue, StillPending, Only, Read, Transition, store
  <1>4. ASSUME SaveOwnership(p) \/ Complete(p) \/ CallbackFails(p) \/ GetStatus(p) \/ Finish(p)
        PROVE  UNCHANGED requests
    BY <1>4 DEF SaveOwnership, Complete, CallbackFails, GetStatus, Finish, Only, Read, Free, Transition, store
  <1> QED
    BY <1>1, <1>2, <1>3, <1>4 DEF Step

(* Requests that may still decide what becomes of the session they admit.  *)
Starting == {"s_save", "s_resolved", "s_fail", "s_resent"}

(* A session that was admitted twice is its request's alone, and stays     *)
(* PENDING.                                                                *)
StartsInv ==
  /\ \A p \in Procs : op[p].pc = "s_resent" => sessions[op[p].id].status \in {"NONE", "PENDING"}
  /\ \A p, q \in Procs : op[p].pc \in Starting /\ op[q].pc \in Starting /\ op[p].id = op[q].id => p = q

(* A step of p concerns no other request, and begins a session only by     *)
(* reserving its id.                                                       *)
LEMMA GotoStarts ==
  ASSUME TypeOK, NEW p \in Procs, NEW label, Goto(p, label),
         label \in Starting => op[p].pc \in Starting
  PROVE  /\ \A q \in Procs : q # p => op'[q] = op[q]
         /\ op'[p].pc \in Starting => op[p].pc \in Starting /\ op'[p].id = op[p].id
  <1>1. Idle.pc \notin Starting
    BY IdleRow DEF Starting
  <1>2. CASE label = "idle"
    BY <1>1, <1>2 DEF Goto, TypeOK
  <1>3. CASE label # "idle"
    <2> DEFINE m == [op[p] EXCEPT !.pc = label]
    <2>1. op[p] \in Rows
      BY DEF TypeOK, Rows
    <2>2. m.pc = label /\ m.id = op[p].id
      BY <2>1 DEF Rows
    <2>3. op' = [op EXCEPT ![p] = m]
      BY <1>3 DEF Goto, TypeOK
    <2> HIDE DEF m
    <2> QED
      BY <2>2, <2>3 DEF TypeOK
  <1> QED
    BY <1>2, <1>3

(* A replay reads the status of the reserved session or goes on elsewhere. *)
LEMMA ReplayGoes ==
  ASSUME TypeOK, NEW p \in Procs, NEW otherwise, Replay(p, otherwise)
  PROVE  op'[p].pc \in {"q_durable", "idle", otherwise}
  <1>0. op[p] \in Rows /\ Idle.pc = "idle"
    BY IdleRow DEF TypeOK, Rows
  <1> DEFINE status == [Idle EXCEPT !.pc = "q_durable", !.id = requests[op[p].key]]
             onward == [op[p] EXCEPT !.pc = otherwise]
  <1>1. status.pc = "q_durable" /\ onward.pc = otherwise
    BY <1>0 DEF Idle, Rows
  <1>2. PICK m \in {status, Idle, onward} : op' = [op EXCEPT ![p] = m]
    BY DEF Replay, TypeOK
  <1>3. m.pc \in {"q_durable", "idle", otherwise}
    BY <1>0, <1>1
  <1> HIDE DEF status, onward
  <1> QED
    BY <1>2, <1>3 DEF TypeOK

LEMMA BeginStarts ==
  ASSUME TypeOK, NEW p \in Procs, Arrival(p) \/ FindActive(p) \/ ReadCallback(p) \/ GetStatus(p) \/ Crash(p)
  PROVE  /\ \A q \in Procs : q # p => op'[q] = op[q]
         /\ op'[p].pc \notin Starting
  <1>0. op[p] \in Rows /\ Idle.pc = "idle" /\ Idle \in Rows
    BY IdleRow DEF TypeOK, Rows
  <1>1. \A q \in Procs : q # p => op'[q] = op[q]
    BY DEF Arrival, Start, Consent, Callback, Status, Begin, FindActive, Replay, Only, Free, Goto, ReadCallback,
           GetStatus, Read, Transition, Crash, TypeOK
  <1> SUFFICES op'[p].pc \notin Starting
    BY <1>1
  <1>2. ASSUME NEW label, NEW id, NEW key, Begin(p, label, id, key) PROVE op'[p].pc = label
    <2> DEFINE m == [Idle EXCEPT !.pc = label, !.id = id, !.key = key]
    <2>1. op' = [op EXCEPT ![p] = m] /\ m.pc = label
      BY <1>2 DEF Begin, Idle
    <2> HIDE DEF m
    <2> QED
      BY <2>1 DEF TypeOK
  <1>3. ASSUME NEW label, Goto(p, label), label \notin Starting PROVE op'[p].pc \notin Starting
    <2>1. CASE label = "idle"
      BY <1>0, <1>3, <2>1 DEF Goto, TypeOK
    <2>2. CASE label # "idle"
      <3> DEFINE m == [op[p] EXCEPT !.pc = label]
      <3>1. op' = [op EXCEPT ![p] = m] /\ m.pc = label
        BY <1>0, <1>3, <2>2 DEF Goto, TypeOK, Rows
      <3> HIDE DEF m
      <3> QED
        BY <1>3, <3>1 DEF TypeOK
    <2> QED
      BY <2>1, <2>2
  <1>4. ASSUME NEW label, Read(p, label) PROVE op'[p].pc = label
    <2> DEFINE m == [op[p] EXCEPT !.pc = label, !.read = Session(p)]
    <2>1. op' = [op EXCEPT ![p] = m] /\ m.pc = label
      BY <1>0, <1>4 DEF Read, Rows
    <2> HIDE DEF m
    <2> QED
      BY <2>1 DEF TypeOK
  <1>5. ASSUME NEW otherwise, Replay(p, otherwise) PROVE op'[p].pc \in {"q_durable", "idle", otherwise}
    BY <1>5, ReplayGoes
  <1>6. CASE Arrival(p) \/ Crash(p)
    <2>1. CASE Crash(p)
      BY <1>3, <2>1 DEF Crash, Only, Starting
    <2>2. CASE Arrival(p)
      <3>1. PICK label \in {"s_active", "s_find", "c_read", "h_durable", "q_durable"}, id \in Nat, key \in Keys \cup {None} :
              Begin(p, label, id, key)
        BY <2>2 DEF Arrival, Start, Consent, Callback, Status
      <3> QED
        BY <1>2, <3>1 DEF Starting
    <2> QED
      BY <1>6, <2>1, <2>2
  <1>7. CASE FindActive(p)
    <2>1. CASE Replay(p, "s_active") \/ Replay(p, "idle")
      BY <1>5, <2>1 DEF Starting
    <2>2. CASE op' = [op EXCEPT ![p] = [@ EXCEPT !.pc = IF active = 0 THEN "s_reserve" ELSE "s_session", !.id = active]]
      <3> DEFINE m == [op[p] EXCEPT !.pc = IF active = 0 THEN "s_reserve" ELSE "s_session", !.id = active]
      <3>1. op' = [op EXCEPT ![p] = m] /\ m.pc \in {"s_reserve", "s_session"}
        BY <1>0, <2>2 DEF Rows
      <3> HIDE DEF m
      <3> QED
        BY <3>1 DEF TypeOK, Starting
    <2>3. CASE \E label \in {"s_free", "idle", "s_again", "s_reserve"} : Goto(p, label)
      BY <1>3, <2>3 DEF Starting
    <2> QED
      BY <1>7, <2>1, <2>2, <2>3 DEF FindActive, Only, Free
  <1>8. CASE ReadCallback(p) \/ GetStatus(p)
    <2>1. CASE Read(p, "h_claim") \/ Read(p, "q_age")
      BY <1>4, <2>1 DEF Starting
    <2>2. CASE \E label \in {"idle", "h_read", "q_read", "free"} : Goto(p, label)
      BY <1>3, <2>2 DEF Starting
    <2> QED
      BY <1>8, <2>1, <2>2 DEF ReadCallback, GetStatus, Only, Transition
  <1> QED
    BY <1>6, <1>7, <1>8

LEMMA StepStarts ==
  ASSUME TypeOK, NEW p \in Procs,
         \/ Save(p) \/ Remove(p) \/ ResolveWallet(p) \/ RequestConsent(p)
         \/ ClaimCallback(p) \/ Continue(p) \/ StillPending(p)
         \/ SaveOwnership(p) \/ Complete(p) \/ CallbackFails(p) \/ Finish(p)
  PROVE  /\ \A q \in Procs : q # p => op'[q] = op[q]
         /\ op'[p].pc \in Starting => op[p].pc \in Starting /\ op'[p].id = op[p].id
  <1>1. PICK label : Goto(p, label) /\ (label \in Starting => op[p].pc \in {"s_save", "s_resolved"})
    <2>1. CASE Save(p) \/ Remove(p) \/ ResolveWallet(p)
      BY <2>1 DEF Save, Unadmitted, Remove, ResolveWallet, Transition, Starting
    <2>2. CASE RequestConsent(p) \/ ClaimCallback(p) \/ Continue(p) \/ StillPending(p)
      BY <2>2 DEF RequestConsent, ClaimCallback, Continue, StillPending, AfterGrant, Transition, Only, Starting
    <2>3. CASE SaveOwnership(p) \/ Complete(p) \/ CallbackFails(p) \/ Finish(p)
      BY <2>3 DEF SaveOwnership, Complete, CallbackFails, Finish, Transition, Only, Free, Starting
    <2> QED
      BY <2>1, <2>2, <2>3
  <1>2. label \in Starting => op[p].pc \in Starting
    BY <1>1 DEF Starting
  <1> QED
    BY <1>1, <1>2, GotoStarts

(* Only a save whose command was sent twice leads to the removal after it. *)
LEMMA ResentBySave ==
  ASSUME TypeOK, NEW p \in Procs, Arrival(p) \/ Step(p) \/ Crash(p), op'[p].pc = "s_resent"
  PROVE  /\ op[p].pc = "s_save" /\ Save(p)
         /\ sessions' = [sessions EXCEPT ![op[p].id] = [NoSession EXCEPT !.status = "PENDING"]]
  <1>0. op[p] \in Rows /\ Idle.pc = "idle"
    BY IdleRow DEF TypeOK, Rows
  <1>1. ASSUME NEW label, Goto(p, label) PROVE label = "s_resent"
    BY <1>0, <1>1 DEF Goto, TypeOK, Rows
  <1>2. ~(Arrival(p) \/ FindActive(p) \/ ReadCallback(p) \/ GetStatus(p) \/ Crash(p))
    BY BeginStarts DEF Starting
  <1>3. ~Reserve(p)
    <2>1. ~Replay(p, "idle")
      BY ReplayGoes
    <2>2. op' # [op EXCEPT ![p] = [@ EXCEPT !.pc = "s_save", !.id = used + 1]]
      <3> DEFINE m == [op[p] EXCEPT !.pc = "s_save", !.id = used + 1]
      <3>1. m.pc = "s_save"
        BY <1>0 DEF Rows
      <3> HIDE DEF m
      <3>2. op' # [op EXCEPT ![p] = m]
        BY <3>1 DEF TypeOK
      <3> QED
        BY <3>2 DEF m
    <2> QED
      BY <2>1, <2>2 DEF Reserve
  <1>4. ~(Remove(p) \/ ResolveWallet(p) \/ RequestConsent(p) \/ ClaimCallback(p) \/ StillPending(p))
    BY <1>1 DEF Remove, ResolveWallet, RequestConsent, ClaimCallback, StillPending, Transition, Only
  <1>5. ~(Continue(p) \/ SaveOwnership(p) \/ Complete(p) \/ CallbackFails(p) \/ Finish(p))
    BY <1>1 DEF Continue, AfterGrant, SaveOwnership, Complete, CallbackFails, Finish, Transition, Only, Free
  <1>6. Save(p)
    BY <1>2, <1>3, <1>4, <1>5 DEF Step
  <1> QED
    BY <1>1, <1>6 DEF Save, Unadmitted

(* Nobody but the request that admits a session moves it from where it is  *)
(* before its wallet was resolved.                                         *)
LEMMA OthersLeavePending ==
  ASSUME IInv, NEW p \in Procs, Arrival(p) \/ Step(p) \/ Crash(p), NEW i \in Ids,
         sessions[i].status \in {"NONE", "PENDING"},
         ~(op[p].pc \in Starting /\ op[p].id = i)
  PROVE  sessions'[i].status \in {"NONE", "PENDING"}
  <1>0. TypeOK /\ ReliesOn(op[p])
    BY DEF IInv, RequestsInv
  <1>1. CASE UNCHANGED sessions
    BY <1>1
  <1>2. CASE op[p].id # i
    BY <1>0, <1>2 DEF Arrival, Start, Consent, Callback, Status, Begin, Step, FindActive, Replay, Reserve, Save, Remove,
       ResolveWallet, RequestConsent, ReadCallback, ClaimCallback, Continue, StillPending, SaveOwnership, Complete,
       CallbackFails, GetStatus, Finish, Crash, Only, Read, Free, Transition, store, TypeOK
  <1>3. CASE op[p].pc \notin Starting /\ op[p].id = i
    <2>1. ASSUME NEW expected, NEW new, NEW ok, NEW err, Transition(p, expected, new, ok, err),
                 expected \notin {"NONE", "PENDING"}
          PROVE  UNCHANGED sessions
      BY <1>3, <2>1 DEF Transition, InStatus, Session
    <2>2. op[p].pc = "q_age" => op[p].read.status \notin {"NONE", "PENDING"}
      BY <1>0 DEF ReliesOn
    <2>3. UNCHANGED sessions
      <3>1. CASE Arrival(p) \/ Crash(p)
        BY <3>1 DEF Arrival, Start, Consent, Callback, Status, Begin, Crash, Only, store
      <3>2. CASE FindActive(p) \/ Reserve(p) \/ Save(p) \/ Remove(p) \/ ResolveWallet(p)
        BY <1>3, <3>2 DEF FindActive, Replay, Reserve, Save, Remove, ResolveWallet, Only, Free, store, Starting
      <3>3. CASE RequestConsent(p)
        BY <2>1, <3>3 DEF RequestConsent, Only, store
      <3>4. CASE ReadCallback(p) \/ ClaimCallback(p) \/ Continue(p) \/ StillPending(p)
        BY <2>1, <3>4 DEF ReadCallback, ClaimCallback, Continue, StillPending, Only, Read, store
      <3>5. CASE SaveOwnership(p) \/ Complete(p) \/ CallbackFails(p) \/ Finish(p)
        BY <2>1, <3>5 DEF SaveOwnership, Complete, CallbackFails, Finish, Only, Free, store
      <3>6. CASE GetStatus(p)
        BY <2>1, <2>2, <3>6 DEF GetStatus, Only, Read, store
      <3> QED
        BY <3>1, <3>2, <3>3, <3>4, <3>5, <3>6 DEF Step
    <2> QED
      BY <2>3
  <1> QED
    BY <1>2, <1>3

LEMMA StartsNext == IInv /\ StartsInv /\ [Next]_vars => StartsInv'
  <1> SUFFICES ASSUME IInv, StartsInv, [Next]_vars PROVE StartsInv'
    OBVIOUS
  <1>0. TypeOK /\ \A q \in Procs : ReliesOn(op[q]) /\ op[q] \in Rows
    BY DEF IInv, RequestsInv, TypeOK, Rows
  <1>1. ASSUME NEW p \in Procs, Arrival(p) \/ Step(p) \/ Crash(p) PROVE StartsInv'
    <2>1. /\ \A q \in Procs : q # p => op'[q] = op[q]
          /\ \/ op'[p].pc \in Starting => op[p].pc \in Starting /\ op'[p].id = op[p].id
             \/ op'[p].pc = "s_save" /\ op'[p].id = used + 1
      <3>1. CASE Reserve(p)
        <4>1. CASE Replay(p, "idle")
          BY <1>0, <4>1, IdleRow DEF Replay, TypeOK, Rows, Starting
        <4>2. CASE op' = [op EXCEPT ![p] = [@ EXCEPT !.pc = "s_save", !.id = used + 1]]
          BY <1>0, <4>2 DEF TypeOK, Rows
        <4> QED
          BY <3>1, <4>1, <4>2 DEF Reserve
      <3> QED
        BY <1>0, <1>1, <3>1, BeginStarts, StepStarts DEF Step
    <2>2. \A q \in Procs : op[q].id <= used /\ op[q].id \in Nat
      BY <1>0 DEF ReliesOn, Rows, Ids
    <2>3. \A q, r \in Procs : op'[q].pc \in Starting /\ op'[r].pc \in Starting /\ op'[q].id = op'[r].id => q = r
      <3>1. used \in Nat
        BY <1>0, SessionsAssumption DEF TypeOK
      <3>2. \A q \in Procs : op[q].id # used + 1
        BY <2>2, <3>1
      <3> QED
        BY <2>1, <3>2 DEF StartsInv
    <2>4. ASSUME NEW q \in Procs, op'[q].pc = "s_resent"
          PROVE  sessions'[op'[q].id].status \in {"NONE", "PENDING"}
      <3>1. CASE q # p
        <4>1. op'[q] = op[q] /\ op[q].pc = "s_resent" /\ op[q].id \in Ids
          BY <1>0, <2>1, <2>4, <3>1 DEF ReliesOn, Unbound, Rows
        <4>2. ~(op[p].pc \in Starting /\ op[p].id = op[q].id)
          BY <3>1, <4>1 DEF StartsInv, Starting
        <4> QED
          BY <1>1, <4>1, <4>2, OthersLeavePending DEF StartsInv
      <3>2. CASE q = p
        <4>0. TypeOK /\ op'[p].pc = "s_resent" /\ ReliesOn(op[p]) /\ op[p] \in Rows
          BY <1>0, <2>4, <3>2
        <4>a. op[p].pc = "s_save" /\ Save(p)
          BY <1>1, <4>0, ResentBySave
        <4>1. op[p].id \in Ids /\ op'[p].id = op[p].id
          BY <2>1, <4>0, <4>a DEF Starting, ReliesOn, Unbound, Rows
        <4>2. sessions' = [sessions EXCEPT ![op[p].id] = [NoSession EXCEPT !.status = "PENDING"]]
          BY <1>1, <4>0, ResentBySave
        <4> QED
          BY <1>0, <3>2, <4>1, <4>2 DEF TypeOK, NoSession
      <3> QED
        BY <3>1, <3>2
    <2> QED
      BY <2>3, <2>4 DEF StartsInv
  <1>2. ASSUME NEW i \in Ids, Age(i) \/ Expire(i) PROVE StartsInv'
    <2>1. op' = op /\ \A j \in Ids : sessions'[j].status \in {sessions[j].status, "NONE"}
      BY <1>0, <1>2 DEF Age, Expire, TypeOK, Sessions, NoSession
    <2>2. \A q \in Procs : op[q].pc = "s_resent" => op[q].id \in Ids
      BY <1>0 DEF ReliesOn, Unbound, Rows
    <2> QED
      BY <2>1, <2>2 DEF StartsInv
  <1>3. CASE UNCHANGED vars
    BY <1>3 DEF vars, store, StartsInv
  <1> QED
    BY <1>1, <1>2, <1>3 DEF Next

(* An Idempotency-Key whose session was admitted stays bound to it, lost   *)
(* acknowledgement or not; if the admission was sent twice, at least until *)
(* its wallet is resolved (48-56).                                         *)
THEOREM AdmittedKeyKeepsItsSession == Spec => KeyKeepsItsSession
  <1> DEFINE Kept == \A k \in Keys, i \in Ids :
                       requests[k] = i /\ sessions[i].status # "NONE" =>
                         requests'[k] = i \/ (SentTwice(i) /\ sessions[i].status = "PENDING")
  <1>1. ASSUME IInv, NEW p \in Procs, Reserve(p) PROVE Kept
    <2>1. UNCHANGED requests \/ \E key \in Keys : requests[key] = 0 /\ requests' = [requests EXCEPT ![key] = used + 1]
      BY <1>1 DEF Reserve, Replay, store, IInv, TypeOK
    <2> QED
      BY <1>1, <2>1 DEF IInv, TypeOK, Ids
  <1>2. ASSUME IInv, StartsInv, NEW p \in Procs, Remove(p) PROVE Kept
    <2>1. requests' \in {requests, [requests EXCEPT ![op[p].key] = IF @ = op[p].id THEN 0 ELSE @]}
      BY <1>2 DEF Remove
    <2>2. CASE op[p].pc = "s_remove"
      <3>1. sessions[op[p].id].status = "NONE"
        BY <1>2, <2>2 DEF IInv, RequestsInv, ReliesOn, Fresh
      <3> QED
        BY <1>2, <2>1, <3>1 DEF IInv, TypeOK
    <2>3. CASE op[p].pc = "s_resent"
      <3>1. SentTwice(op[p].id) /\ sessions[op[p].id].status \in {"NONE", "PENDING"}
        BY <1>2, <2>3 DEF StartsInv, SentTwice
      <3> QED
        BY <1>2, <2>1, <3>1 DEF IInv, TypeOK
    <2> QED
      BY <1>2, <2>2, <2>3 DEF Remove
  <1>3. ASSUME NEW id \in Ids, Age(id) \/ Expire(id) PROVE Kept
    BY <1>3 DEF Age, Expire
  <1>4. IInv /\ StartsInv /\ [Next]_vars => Kept
    BY <1>1, <1>2, <1>3, ReservationsStay DEF Next, vars, store
  <1>5. Init => StartsInv
    <2>1. Init => \A p \in Procs : op[p].pc = "idle"
      BY IdleRow DEF Init
    <2> QED
      BY <2>1 DEF StartsInv, Starting
  <1>6. Spec => []StartsInv
    BY <1>5, StartsNext, OnboardingInductive, PTL DEF Spec
  <1> QED
    BY <1>4, <1>6, OnboardingInductive, PTL DEF Spec, KeyKeepsItsSession

(* Follows(i): the session i takes no way the state machine does not have. *)
Follows(i) ==
  sessions'[i].status \in {sessions[i].status, "NONE"} \cup ValidTransitions[sessions[i].status]

(* A transition that is one of the state machine's keeps to it. *)
LEMMA TransitionFollows ==
  ASSUME IInv, NEW p \in Procs, op[p].pc \notin Unbound,
         NEW expected \in Statuses, NEW next \in ValidTransitions[expected],
         NEW new \in Sessions, new.status = next,
         NEW ok, NEW err, Transition(p, expected, new, ok, err)
  PROVE  \A i \in Ids : Follows(i)
  <1>1. op[p].id \in Ids /\ sessions \in [Ids -> Sessions]
    BY BoundId DEF IInv, TypeOK
  <1>2. CASE UNCHANGED sessions
    BY <1>2 DEF Follows
  <1>3. CASE /\ sessions[op[p].id].status = expected
             /\ sessions' = [sessions EXCEPT ![op[p].id] = [new EXCEPT !.updatedAt = "recent"]]
    <2> DEFINE s == [new EXCEPT !.updatedAt = "recent"]
    <2>1. s.status = next
      BY DEF Sessions
    <2>2. sessions' = [sessions EXCEPT ![op[p].id] = s]
      BY <1>3
    <2> HIDE DEF s
    <2>3. \A i \in Ids : sessions'[i] = IF i = op[p].id THEN s ELSE sessions[i]
      BY <1>1, <2>2
    <2> QED
      BY <1>1, <1>3, <2>1, <2>3 DEF Follows
  <1> QED
    BY <1>2, <1>3 DEF Transition, InStatus, Session

(* The ways the requests take, all of them in the state machine. *)
LEMMA Ways ==
  /\ "WALLET_RESOLVED" \in ValidTransitions["PENDING"] /\ "FAILED" \in ValidTransitions["PENDING"]
  /\ "CONSENT_REQUESTING" \in ValidTransitions["WALLET_RESOLVED"]
  /\ "CONSENT_PENDING" \in ValidTransitions["CONSENT_REQUESTING"]
  /\ "FAILED" \in ValidTransitions["CONSENT_REQUESTING"]
  /\ "FINALIZING" \in ValidTransitions["CONSENT_PENDING"]
  /\ {"CONSENT_PENDING", "COMPLETED", "FAILED"} \subseteq ValidTransitions["FINALIZING"]
  /\ "PENDING" \in ValidTransitions["NONE"]
  BY DEF ValidTransitions

(* Most requests only set the status. *)
LEMMA InFollows ==
  ASSUME IInv, NEW p \in Procs, op[p].pc \notin Unbound,
         NEW expected \in Statuses, NEW next \in Statuses, next \in ValidTransitions[expected],
         NEW ok, NEW err, Transition(p, expected, In(p, next), ok, err)
  PROVE  \A i \in Ids : Follows(i)
  <1>1. In(p, next) \in Sessions /\ In(p, next).status = next
    BY InRow
  <1> QED
    BY <1>1, TransitionFollows

LEMMA StartFollows ==
  ASSUME IInv, NEW p \in Procs, FindActive(p) \/ Reserve(p) \/ Save(p) \/ Remove(p) \/ ResolveWallet(p)
  PROVE  \A i \in Ids : Follows(i)
  <1>1. ASSUME UNCHANGED sessions PROVE \A i \in Ids : Follows(i)
    BY <1>1 DEF Follows
  <1>2. ASSUME FindActive(p) \/ Reserve(p) \/ Remove(p) PROVE UNCHANGED sessions
    BY <1>2 DEF FindActive, Replay, Reserve, Remove, Only, Free, store
  <1>3. ASSUME Save(p), ~UNCHANGED sessions PROVE \A i \in Ids : Follows(i)
    <2> DEFINE s == [NoSession EXCEPT !.status = "PENDING"]
    <2>1. sessions' = [sessions EXCEPT ![op[p].id] = s] /\ op[p].pc = "s_save"
      BY <1>3 DEF Save
    <2>2. s.status = "PENDING"
      BY DEF NoSession
    <2>3. sessions \in [Ids -> Sessions] /\ sessions[op[p].id].status = "NONE"
      BY <2>1 DEF IInv, TypeOK, RequestsInv, ReliesOn, Fresh
    <2> HIDE DEF s
    <2>4. \A i \in Ids : sessions'[i] = IF i = op[p].id THEN s ELSE sessions[i]
      BY <2>1, <2>3
    <2> QED
      BY <2>2, <2>3, <2>4, Ways DEF Follows
  <1>4. ASSUME ResolveWallet(p) PROVE \A i \in Ids : Follows(i)
    <2>1. op[p].pc \notin Unbound
      BY <1>4 DEF ResolveWallet, Unbound
    <2> QED
      BY <1>4, <2>1, Ways, InFollows DEF ResolveWallet, Statuses
  <1> QED
    BY <1>1, <1>2, <1>3, <1>4

LEMMA ConsentFollows ==
  ASSUME IInv, NEW p \in Procs, RequestConsent(p)
  PROVE  \A i \in Ids : Follows(i)
  <1>1. op[p].pc \notin Unbound
    BY DEF RequestConsent, Unbound
  <1>2. ASSUME op[p].pc = "c_read" PROVE \A i \in Ids : Follows(i)
    BY <1>2 DEF RequestConsent, Only, store, Follows
  <1> QED
    BY <1>1, <1>2, Ways, InFollows DEF RequestConsent, Statuses

LEMMA CallbackFollows ==
  ASSUME IInv, NEW p \in Procs,
         \/ ReadCallback(p) \/ ClaimCallback(p) \/ Continue(p) \/ StillPending(p)
         \/ SaveOwnership(p) \/ Complete(p) \/ CallbackFails(p)
  PROVE  \A i \in Ids : Follows(i)
  <1>1. ASSUME UNCHANGED sessions PROVE \A i \in Ids : Follows(i)
    BY <1>1 DEF Follows
  <1>2. ASSUME ReadCallback(p) \/ Continue(p) \/ SaveOwnership(p) PROVE UNCHANGED sessions
    BY <1>2 DEF ReadCallback, Continue, SaveOwnership, Only, Read, store
  <1>3. ASSUME StillPending(p) PROVE \A i \in Ids : Follows(i)
    <2> DEFINE new == [In(p, "CONSENT_PENDING") EXCEPT !.interactionSent = TRUE]
    <2>1. op[p].pc \notin Unbound /\ Transition(p, "FINALIZING", new, {"idle"}, "h_check")
      BY <1>3 DEF StillPending, Unbound
    <2>2. In(p, "CONSENT_PENDING") \in Sessions /\ In(p, "CONSENT_PENDING").status = "CONSENT_PENDING"
      BY <2>1, InRow DEF Statuses
    <2>3. new \in Sessions /\ new.status = "CONSENT_PENDING"
      BY <2>2 DEF Sessions
    <2>4. "FINALIZING" \in Statuses
      BY DEF Statuses
    <2> HIDE DEF new
    <2> QED
      BY <2>1, <2>3, <2>4, Ways, TransitionFollows
  <1>4. ASSUME ClaimCallback(p) \/ Complete(p) PROVE \A i \in Ids : Follows(i)
    <2>1. op[p].pc \notin Unbound
      BY <1>4 DEF ClaimCallback, Complete, Unbound
    <2> QED
      BY <1>4, <2>1, Ways, InFollows DEF ClaimCallback, Complete, Statuses
  <1>5. ASSUME CallbackFails(p) PROVE \A i \in Ids : Follows(i)
    <2>1. op[p].pc \notin Unbound
      BY <1>5 DEF CallbackFails, Unbound
    <2>2. ASSUME op[p].pc = "h_check" PROVE UNCHANGED sessions
      BY <1>5, <2>2 DEF CallbackFails, Only, store
    <2> QED
      BY <1>1, <1>5, <2>1, <2>2, Ways, InFollows DEF CallbackFails, Statuses
  <1> QED
    BY <1>1, <1>2, <1>3, <1>4, <1>5

LEMMA StatusFollows ==
  ASSUME IInv, NEW p \in Procs, GetStatus(p)
  PROVE  \A i \in Ids : Follows(i)
  <1>1. op[p].pc \notin Unbound
    BY DEF GetStatus, Unbound
  <1>2. ASSUME op[p].pc # "q_age" PROVE \A i \in Ids : Follows(i)
    BY <1>2 DEF GetStatus, Only, Read, store, Follows
  <1>3. ASSUME op[p].pc = "q_age" PROVE \A i \in Ids : Follows(i)
    <2>1. Transition(p, op[p].read.status, In(p, "FAILED"), {"free"}, "idle")
      BY <1>3 DEF GetStatus
    <2>2. PICK expected \in {"FINALIZING", "CONSENT_REQUESTING"} : op[p].read.status = expected
      BY <1>3 DEF IInv, RequestsInv, ReliesOn
    <2>3. expected \in Statuses /\ "FAILED" \in Statuses /\ "FAILED" \in ValidTransitions[expected]
      BY Ways DEF Statuses
    <2> QED
      BY <1>1, <2>1, <2>2, <2>3, InFollows
  <1> QED
    BY <1>2, <1>3

(* A request that was overtaken never moves a session outside the state    *)
(* machine, whatever it read before (service 40-55, 130-180).              *)
THEOREM RequestsFollowMachine == Spec => StatusFollowsMachine
  <1> DEFINE All == \A i \in Ids : sessions'[i].status \in {sessions[i].status, "NONE"} \cup ValidTransitions[sessions[i].status]
  <1>1. ASSUME UNCHANGED sessions PROVE All
    BY <1>1
  <1>2. ASSUME IInv, NEW p \in Procs, Arrival(p) \/ Crash(p) \/ Finish(p) PROVE UNCHANGED sessions
    BY <1>2 DEF Arrival, Start, Consent, Callback, Status, Crash, Finish, Free, Begin, Only, store
  <1>3. ASSUME IInv, NEW p \in Procs, Step(p), ~Finish(p) PROVE All
    BY <1>3, StartFollows, ConsentFollows, CallbackFollows, StatusFollows DEF Step, Follows
  <1>4. ASSUME IInv, NEW id \in Ids, Age(id) PROVE All
    <2>1. sessions \in [Ids -> Sessions]
      BY <1>4 DEF IInv, TypeOK
    <2> QED
      BY <1>4, <2>1 DEF Age, Sessions
  <1>5. ASSUME IInv, NEW id \in Ids, Expire(id) PROVE All
    <2>1. sessions \in [Ids -> Sessions]
      BY <1>5 DEF IInv, TypeOK
    <2>2. NoSession.status = "NONE"
      BY DEF NoSession
    <2>3. \A i \in Ids : sessions'[i] = IF i = id THEN NoSession ELSE sessions[i]
      BY <1>5, <2>1 DEF Expire
    <2> QED
      BY <2>2, <2>3
  <1>6. IInv /\ [Next]_vars => All
    BY <1>1, <1>2, <1>3, <1>4, <1>5 DEF Next, vars, store
  <1>7. IInv /\ [Next]_vars => [All]_sessions
    BY <1>6
  <1> QED
    BY <1>7, OnboardingInductive, PTL DEF Spec, StatusFollowsMachine

=============================================================================
