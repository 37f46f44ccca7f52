----------------------------- MODULE Onboarding -----------------------------
(***************************************************************************)
(* Linking a wallet of ONE user: OnboardingService                         *)
(* (src/src/services/onboarding.service.ts) over the sessions and the      *)
(* active-session pointer in Redis, the Idempotency-Key reservations and   *)
(* the ownership attestations in PostgreSQL.                               *)
(*                                                                         *)
(* A process p \in Procs runs one request at a time; op[p].pc is its next  *)
(* awaited call, and op[p].read the session as it last read it.  There are *)
(* no leases: a process that stalls goes on later with what it read.       *)
(* transition() compares the whole stored value before it writes, so it is *)
(* one step at the moment of that comparison.  The only callback whose     *)
(* hash verifies is the one the grant's interact_ref comes with.           *)
(***************************************************************************)
EXTENDS Naturals

CONSTANTS
  Procs,         \* slots for requests
  Keys,          \* Idempotency-Keys of the user
  MaxSessions,   \* bound on the sessions started
  None

ASSUME KeysAssumption == None \notin Keys
ASSUME SessionsAssumption == MaxSessions \in Nat \ {0}

VARIABLES
  sessions,   \* Redis: the session of each id, NoSession before or after its TTL
  active,     \* Redis: the id the user's active pointer holds, or 0
  requests,   \* PostgreSQL: the session id reserved for a key, or 0
  attested,   \* PostgreSQL: ids with an ownership attestation
  op,         \* per process
  used        \* session ids handed out so far

store == <<sessions, active, requests, attested>>
vars == <<store, op, used>>

Ids == 1 .. MaxSessions
Statuses == {"PENDING", "WALLET_RESOLVED", "CONSENT_REQUESTING", "CONSENT_PENDING",
             "FINALIZING", "COMPLETED", "FAILED"}
Terminal == {"COMPLETED", "FAILED"}

Sessions == [status : Statuses \cup {"NONE"},
             updatedAt : {"recent", "old"},
             interactionSent : BOOLEAN]

NoSession == [status |-> "NONE", updatedAt |-> "recent", interactionSent |-> FALSE]

Labels == {"idle", "s_find", "s_active", "s_session", "s_free", "s_again", "s_reserve", "s_save",
           "s_remove", "s_resent", "s_resolved", "s_fail",
           "c_read", "c_claim", "c_pending", "c_fail",
           "h_durable", "h_read", "h_claim", "h_continue", "h_pending", "h_save", "h_complete",
           "h_check", "h_fail", "q_durable", "q_read", "q_age", "free"}

Idle == [pc |-> "idle", id |-> 0, key |-> None, read |-> NoSession]

TypeOK ==
  /\ sessions \in [Ids -> Sessions]
  /\ active \in {0} \cup Ids
  /\ requests \in [Keys -> {0} \cup Ids]
  /\ attested \in SUBSET Ids
  /\ op \in [Procs -> [pc : Labels, id : {0} \cup Ids, key : Keys \cup {None}, read : Sessions]]
  /\ used \in 0 .. MaxSessions

Init ==
  /\ sessions = [i \in Ids |-> NoSession]
  /\ active = 0
  /\ requests = [k \in Keys |-> 0]
  /\ attested = {}
  /\ op = [p \in Procs |-> Idle]
  /\ used = 0

-----------------------------------------------------------------------------
(* Steps shared by the requests. *)

Session(p) == sessions[op[p].id]

(* A request that returns or throws forgets its locals. *)
Goto(p, label) ==
  op' = [op EXCEPT ![p] = IF label = "idle" THEN Idle ELSE [@ EXCEPT !.pc = label]]

Begin(p, label, id, key) ==
  /\ op[p].pc = "idle"
  /\ op' = [op EXCEPT ![p] = [Idle EXCEPT !.pc = label, !.id = id, !.key = key]]
  /\ UNCHANGED <<store, used>>

(* A step that changes nothing but where the process is. *)
Only(p, label) == Goto(p, label) /\ UNCHANGED <<store, used>>

Read(p, label) ==
  /\ op' = [op EXCEPT ![p] = [@ EXCEPT !.pc = label, !.read = Session(p)]]
  /\ UNCHANGED <<store, used>>

(* releaseActive: the pointer goes, if it is still this session's. *)
PointsAnywhere(id) == active # 0    \* mutant: whatever it points to
PointsTo(id) == active = id

Free(p, label) ==
  /\ active' = IF PointsTo(op[p].id) THEN 0 ELSE active
  /\ Goto(p, label)
  /\ UNCHANGED <<sessions, requests, attested, used>>

InAnyStatus(p, expected) == Session(p).status # "NONE"    \* mutant: the status is not compared
InStatus(p, expected) == Session(p).status = expected

(* transition: a session in the expected status gets its next one, and the *)
(* request goes on at one of ok; a terminal one has to free the active     *)
(* pointer first.  The call may fail, before or after the write.           *)
Transition(p, expected, new, ok, err) ==
  /\ \/ /\ InStatus(p, expected)
        /\ sessions' = [sessions EXCEPT ![op[p].id] = [new EXCEPT !.updatedAt = "recent"]]
        /\ \E label \in ok \cup {err} : Goto(p, label)
     \/ UNCHANGED sessions /\ Goto(p, err)
  /\ UNCHANGED <<active, requests, attested, used>>

(* What a session in a new status is, besides: { ...current, ...changes }. *)
In(p, status) == [Session(p) EXCEPT !.status = status]

-----------------------------------------------------------------------------
(* start. *)

Start(p) == \E key \in Keys \cup {None} :
  Begin(p, IF key = None THEN "s_active" ELSE "s_find", 0, key)

(* A key that is reserved replays: the status of its session is read.      *)
Replay(p, otherwise) ==
  LET id == requests[op[p].key]
  IN  /\ op' = [op EXCEPT ![p] = IF id # 0 THEN [Idle EXCEPT !.pc = "q_durable", !.id = id]
                                 ELSE IF otherwise = "idle" THEN Idle
                                 ELSE [@ EXCEPT !.pc = otherwise]]
      /\ UNCHANGED <<store, used>>

(* findActiveByUserId: a pointer to a session that is gone or over is      *)
(* freed; a session that is still active is returned or refused.           *)
FindActive(p) ==
  \/ op[p].pc = "s_find" /\ Replay(p, "s_active")
  \/ /\ op[p].pc = "s_active"
     /\ op' = [op EXCEPT ![p] = [@ EXCEPT !.pc = IF active = 0 THEN "s_reserve" ELSE "s_session",
                                          !.id = active]]
     /\ UNCHANGED <<store, used>>
  \/ /\ op[p].pc = "s_session"
     /\ IF Session(p).status \in Terminal \cup {"NONE"} THEN Only(p, "s_free")
        ELSE Only(p, IF op[p].key = None THEN "idle" ELSE "s_again")
  \/ op[p].pc = "s_free" /\ (Free(p, "s_reserve") \/ Only(p, "idle"))
  \/ op[p].pc = "s_again" /\ Replay(p, "idle")

(* A new session id; with a key it is reserved, unless the key is by now.  *)
Reserve(p) ==
  /\ op[p].pc = "s_reserve"
  /\ \/ /\ op[p].key # None
        /\ requests[op[p].key] # 0
        /\ Replay(p, "idle")
     \/ /\ used < MaxSessions
        /\ used' = used + 1
        /\ \/ op[p].key = None /\ UNCHANGED requests
           \/ /\ op[p].key # None
              /\ requests[op[p].key] = 0
              /\ requests' = [requests EXCEPT ![op[p].key] = used + 1]
        /\ op' = [op EXCEPT ![p] = [@ EXCEPT !.pc = "s_save", !.id = used + 1]]
        /\ UNCHANGED <<sessions, active, attested>>

(* What start does when the save fails, and how. *)
UnadmittedAny(p, conflict) == "s_remove"    \* mutant: an uncertain failure counts as a refusal
Unadmitted(p, conflict) == IF conflict /\ op[p].key # None THEN "s_remove" ELSE "idle"

(* save: the session and the pointer together, if there is no pointer.     *)
(* The lookup of the wallet that follows, which may fail, is part of it.   *)
(* When its answer is lost, the Redis client sends the command again       *)
(* (config/redis.ts:18-19): the second one finds the first one's pointer,  *)
(* and start takes its own session for a conflicting one.                  *)
Save(p) ==
  LET saved ==
        /\ active = 0
        /\ active' = op[p].id
        /\ sessions' = [sessions EXCEPT ![op[p].id] = [NoSession EXCEPT !.status = "PENDING"]]
  IN  /\ op[p].pc = "s_save"
      /\ \/ saved /\ \E label \in {"s_resolved", "s_fail"} : Goto(p, label)
         \/ saved /\ Goto(p, Unadmitted(p, FALSE))
         \/ saved /\ op[p].key # None /\ Goto(p, "s_resent")
         \/ active # 0 /\ Goto(p, Unadmitted(p, TRUE)) /\ UNCHANGED <<active, sessions>>
         \/ Goto(p, Unadmitted(p, FALSE)) /\ UNCHANGED <<active, sessions>>
      /\ UNCHANGED <<requests, attested, used>>

Remove(p) ==
  /\ op[p].pc \in {"s_remove", "s_resent"}
  /\ requests' \in {requests,
                    [requests EXCEPT ![op[p].key] = IF @ = op[p].id THEN 0 ELSE @]}
  /\ Goto(p, "idle")
  /\ UNCHANGED <<sessions, active, attested, used>>

ResolveWallet(p) ==
  \/ /\ op[p].pc = "s_resolved"
     /\ Transition(p, "PENDING", In(p, "WALLET_RESOLVED"), {"idle"}, "s_fail")
  \/ op[p].pc = "s_fail" /\ Transition(p, "PENDING", In(p, "FAILED"), {"free"}, "idle")

-----------------------------------------------------------------------------
(* requestConsent; the outcome of the grant request is part of the claim.  *)

Consent(p) == \E id \in 1 .. used : Begin(p, "c_read", id, None)

RequestConsent(p) ==
  \/ /\ op[p].pc = "c_read"
     /\ Only(p, IF Session(p).status = "WALLET_RESOLVED" THEN "c_claim" ELSE "idle")
  \/ /\ op[p].pc = "c_claim"
     /\ Transition(p, "WALLET_RESOLVED", In(p, "CONSENT_REQUESTING"),
                   {"c_pending", "c_fail"}, "idle")
  \/ /\ op[p].pc = "c_pending"
     /\ Transition(p, "CONSENT_REQUESTING", In(p, "CONSENT_PENDING"), {"idle"}, "c_fail")
  \/ /\ op[p].pc = "c_fail"
     /\ Transition(p, "CONSENT_REQUESTING", In(p, "FAILED"), {"free"}, "idle")

-----------------------------------------------------------------------------
(* handleCallback. *)

Callback(p) == \E id \in 1 .. used :
  sessions[id].status \in {"CONSENT_PENDING", "FINALIZING"} /\ Begin(p, "h_durable", id, None)

ReadCallback(p) ==
  \/ op[p].pc = "h_durable" /\ Only(p, IF op[p].id \in attested THEN "idle" ELSE "h_read")
  \/ /\ op[p].pc = "h_read"
     /\ \/ Session(p).status = "CONSENT_PENDING" /\ Read(p, "h_claim")
        \/ Only(p, "idle")    \* consumed, not ready, or before continueAfter

ClaimCallback(p) ==
  /\ op[p].pc = "h_claim"
  /\ Transition(p, "CONSENT_PENDING", In(p, "FINALIZING"), {"h_continue"}, "idle")

AfterGrantUnsaved == "h_complete"    \* mutant: completed without the attestation
AfterGrant == "h_save"

(* grant.continue, with the session as it was read before the claim: the   *)
(* interact_ref goes along unless that read had interactionSent.           *)
Continue(p) ==
  /\ op[p].pc = "h_continue"
  /\ \E label \in {"h_pending", AfterGrant, "h_check"} : Only(p, label)

StillPending(p) ==
  /\ op[p].pc = "h_pending"
  /\ Transition(p, "FINALIZING",
                [In(p, "CONSENT_PENDING") EXCEPT !.interactionSent = TRUE], {"idle"}, "h_check")

(* saveOwnership: one transaction, which another user's link may refuse.   *)
SaveOwnership(p) ==
  /\ op[p].pc = "h_save"
  /\ \/ attested' = attested \cup {op[p].id}
        /\ \E label \in {"h_complete", "h_check"} : Goto(p, label)
     \/ UNCHANGED attested /\ Goto(p, "h_check")
  /\ UNCHANGED <<sessions, active, requests, used>>

Complete(p) ==
  /\ op[p].pc = "h_complete"
  /\ Transition(p, "FINALIZING", In(p, "COMPLETED"), {"free"}, "idle")

(* The catch: a committed attestation wins over the error. *)
CallbackFails(p) ==
  \/ op[p].pc = "h_check" /\ (Only(p, IF op[p].id \in attested THEN "idle" ELSE "h_fail")
                              \/ Only(p, "idle"))
  \/ op[p].pc = "h_fail" /\ Transition(p, "FINALIZING", In(p, "FAILED"), {"free"}, "idle")

-----------------------------------------------------------------------------
(* getStatus: interrupted work is failed after 60 s. *)

Status(p) == \E id \in 1 .. used : Begin(p, "q_durable", id, None)

Interrupted(s) == s.status \in {"FINALIZING", "CONSENT_REQUESTING"} /\ s.updatedAt = "old"

GetStatus(p) ==
  \/ op[p].pc = "q_durable" /\ Only(p, IF op[p].id \in attested THEN "idle" ELSE "q_read")
  \/ /\ op[p].pc = "q_read"
     /\ IF Interrupted(Session(p)) THEN Read(p, "q_age") ELSE Only(p, "idle")
  \/ /\ op[p].pc = "q_age"
     /\ Transition(p, op[p].read.status, In(p, "FAILED"), {"free"}, "idle")

(* The end of a transition to a terminal status. *)
Finish(p) == op[p].pc = "free" /\ Free(p, "idle")

-----------------------------------------------------------------------------
(* Processes die; time passes. *)

Crash(p) == op[p].pc # "idle" /\ Only(p, "idle")

(* 60 s pass since updatedAt. *)
Age(id) ==
  /\ sessions[id].status \in {"FINALIZING", "CONSENT_REQUESTING"}
  /\ sessions[id].updatedAt = "recent"
  /\ sessions' = [sessions EXCEPT ![id].updatedAt = "old"]
  /\ UNCHANGED <<active, requests, attested, op, used>>

(* The TTL, the same for the session and the pointer. *)
Expire(id) ==
  /\ sessions[id].status # "NONE"
  /\ sessions' = [sessions EXCEPT ![id] = NoSession]
  /\ active' = IF active = id THEN 0 ELSE active
  /\ UNCHANGED <<requests, attested, op, used>>

Arrival(p) == Start(p) \/ Consent(p) \/ Callback(p) \/ Status(p)

Step(p) ==
  \/ FindActive(p) \/ Reserve(p) \/ Save(p) \/ Remove(p) \/ ResolveWallet(p)
  \/ RequestConsent(p)
  \/ ReadCallback(p) \/ ClaimCallback(p) \/ Continue(p) \/ StillPending(p)
  \/ SaveOwnership(p) \/ Complete(p) \/ CallbackFails(p)
  \/ GetStatus(p) \/ Finish(p)

Next ==
  \/ \E p \in Procs : Arrival(p) \/ Step(p) \/ Crash(p)
  \/ \E id \in Ids : Age(id) \/ Expire(id)

Spec == Init /\ [][Next]_vars

-----------------------------------------------------------------------------
(* An open session is the one that the user's pointer leads to, so there   *)
(* is never a second one, whatever stalled request frees the pointer last  *)
(* (repository 16-26, 31-38, 53-57).                                       *)
Open(s) == s.status \notin Terminal \cup {"NONE"}
OpenIsActive == \A i \in Ids : Open(sessions[i]) => active = i

(* A session is COMPLETED only when its ownership is on record (151-155).  *)
CompletedIsLinked == \A i \in Ids : sessions[i].status = "COMPLETED" => i \in attested

(* No two requests are in the grant's continuation at once, although a     *)
(* status read may fail the session under the first (138-142, 165-175).    *)
OneContinuation ==
  \A p, q \in Procs :
    op[p].pc = "h_continue" /\ op[q].pc = "h_continue" /\ op[p].id = op[q].id => p = q

(* A linked session is never put back to await consent by a request that   *)
(* was overtaken (146-154).                                                *)
LinkedStaysClosed ==
  \A i \in attested : sessions[i].status \in {"NONE", "FINALIZING", "COMPLETED", "FAILED"}

SentTwice(i) == \E p \in Procs : op[p].pc = "s_resent" /\ op[p].id = i

(* An Idempotency-Key whose session was admitted stays bound to it, also   *)
(* when the admission's acknowledgement was lost (48-56), except that the  *)
(* request whose admission was sent twice may take it away; nobody has     *)
(* resolved the wallet of that session then, and nobody will.              *)
KeyKeepsItsSession ==
  [][ \A k \in Keys, i \in Ids :
        requests[k] = i /\ sessions[i].status # "NONE" =>
          requests'[k] = i \/ (SentTwice(i) /\ sessions[i].status = "PENDING") ]_vars

(* The part of constants/onboarding.ts:35-47 that the service takes.       *)
ValidTransitions ==
  [ NONE |-> {"PENDING"},
    PENDING |-> {"WALLET_RESOLVED", "FAILED"},
    WALLET_RESOLVED |-> {"CONSENT_REQUESTING"},
    CONSENT_REQUESTING |-> {"CONSENT_PENDING", "FAILED"},
    CONSENT_PENDING |-> {"FINALIZING"},
    FINALIZING |-> {"CONSENT_PENDING", "COMPLETED", "FAILED"},
    COMPLETED |-> {},
    FAILED |-> {} ]

(* A request that was overtaken never moves a session outside the state    *)
(* machine: above all, a failed one is not taken up again (40-55).         *)
StatusFollowsMachine ==
  [][ \A i \in Ids :
        sessions'[i].status \in {sessions[i].status, "NONE"} \cup ValidTransitions[sessions[i].status]
    ]_sessions

-----------------------------------------------------------------------------
(* What the guide says and the code does not keep.                         *)

(* "Concurrent callbacks cannot continue the same grant twice"             *)
(* (DEVELOPER_GUIDE.md:363): a callback that read the session before       *)
(* another one left it pending sends the interact_ref again (130-142).     *)
GrantContinuedOnce ==
  \A p \in Procs :
    op[p].pc = "h_continue" /\ Session(p).interactionSent => op[p].read.interactionSent
=============================================================================
