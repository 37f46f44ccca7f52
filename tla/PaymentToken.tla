---------------------------- MODULE PaymentToken ----------------------------
(***************************************************************************)
(* The life of ONE payment credential (a transfer and a purpose): its row  *)
(* in transfer_credentials, the operations of PaymentTokenService          *)
(* (src/src/services/payment-token.service.ts) under the transfer's lease, *)
(* the re-encryption tool (src/src/rekey.ts), which takes no lease, and    *)
(* the provider that issues, replaces and revokes tokens.                  *)
(*                                                                         *)
(* A token is a number: the provider issues 1, 2, ...  op[o].seen is the   *)
(* row as operation o last read it, and what its writes are built from.    *)
(* expires_at and rotate_after are set together, from expires_in; both are *)
(* abstracted to timed, and the passing of expires_at to the set past.     *)
(***************************************************************************)
EXTENDS Naturals

CONSTANTS
  Owners,      \* slots for leased operations on the transfer
  MaxTokens    \* bound on the tokens the provider issues

ASSUME TokensAssumption == MaxTokens \in Nat \ {0}

VARIABLES
  cred,        \* the row of transfer_credentials, or NoCred
  lease,       \* the operations that hold the transfer's lease: at most one
  op,          \* per operation: pc (next call), seen (row read), got (token in hand)
  issued, live, past,      \* provider: tokens issued, in force, past their expires_at
  asked, next,             \* provider: tokens offered for rotation, and their replacements
  rekey,                   \* re-encryption: the row it read, or NoCred
  retired                  \* --check-retirement found no reference to the old key

credential == <<cred, lease>>
tokens == <<issued, live, past, asked, next>>
tool == <<rekey, retired>>
vars == <<credential, op, tokens, tool>>

Tokens == 1 .. MaxTokens

Creds == [state : {"NONE", "READY", "ROTATING", "UNAVAILABLE", "REJECTED"},
          generation : 0 .. MaxTokens,
          token : 0 .. MaxTokens,
          timed : BOOLEAN,
          key : {"old", "active"}]

NoCred == [state |-> "NONE", generation |-> 0, token |-> 0, timed |-> FALSE, key |-> "active"]

(* encode: every process already encrypts with the active key. *)
Encoded(token, generation, timed, state) ==
  [state |-> state, generation |-> generation, token |-> token, timed |-> timed, key |-> "active"]

Labels == {"idle", "held", "t_save", "t_reject", "g_mark", "g_rotate", "g_wait", "g_save",
           "g_reject", "g_catch", "g_abort", "g_restore", "unresolved", "use",
           "k_read", "k_revoke", "k_clear", "u_read", "u_save"}

TypeOK ==
  /\ cred \in Creds
  /\ lease \in SUBSET Owners
  /\ \A o, p \in lease : o = p
  /\ op \in [Owners -> [pc : Labels, seen : Creds, got : 0 .. MaxTokens]]
  /\ issued \in 0 .. MaxTokens
  /\ live \in SUBSET Tokens
  /\ past \in SUBSET Tokens
  /\ asked \in SUBSET Tokens
  /\ next \in [Tokens -> 0 .. MaxTokens]
  /\ rekey \in Creds
  /\ retired \in BOOLEAN

(* An operation at a label where it remembers nothing. *)
At(label) == [pc |-> label, seen |-> NoCred, got |-> 0]

(* Nothing stored yet, or a credential stored before the key was replaced. *)
Init ==
  /\ \/ cred = NoCred /\ issued = 0 /\ live = {}
     \/ /\ \E timed \in BOOLEAN : cred = [Encoded(1, 1, timed, "READY") EXCEPT !.key = "old"]
        /\ issued = 1
        /\ live = {1}
  /\ lease = {}
  /\ op = [o \in Owners |-> At("idle")]
  /\ past = {}
  /\ asked = {}
  /\ next = [t \in Tokens |-> 0]
  /\ rekey = NoCred
  /\ retired = FALSE

-----------------------------------------------------------------------------
(* Steps shared by the operations. *)

(* An operation that returns or throws forgets what it read. *)
Goto(o, label) ==
  op' = [op EXCEPT ![o] = IF label = "held" THEN At(label) ELSE [@ EXCEPT !.pc = label]]

Expired(c) == c.timed /\ c.token \in past

(* The operation reads the row, and goes on at the label. *)
See(o, label) == op' = [op EXCEPT ![o] = [@ EXCEPT !.pc = label, !.seen = cred]]

(* It has the token in hand. *)
Have(o, label, token) == op' = [op EXCEPT ![o] = [@ EXCEPT !.pc = label, !.got = token]]

(* saveCredential: under the live lease, insert a first row or replace the *)
(* row of the expected generation.  Its acknowledgement may be lost.       *)
CanSave(o, expected) == o \in lease /\ cred.generation = expected

Save(o, expected, new, ok, err) ==
  /\ \/ CanSave(o, expected) /\ cred' = new /\ Goto(o, ok)
     \/ CanSave(o, expected) /\ cred' = new /\ Goto(o, err)
     \/ UNCHANGED cred /\ Goto(o, err)
  /\ UNCHANGED <<lease, tokens, tool>>

(* The row of an operation that read, or began, a rotation whose outcome   *)
(* is unknown: the replacement may outlive the token, so the expiry goes.  *)
UnresolvedTimed(c) == [c EXCEPT !.state = "UNAVAILABLE"]    \* mutant: the expiry is kept
UnresolvedExpired(c) == [c EXCEPT !.state = "EXPIRED"]    \* mutant: not a state of the table
Unresolved(c) == [c EXCEPT !.state = "UNAVAILABLE", !.timed = FALSE]

SaveUnresolved(o) ==
  /\ op[o].pc = "unresolved"
  /\ Save(o, op[o].seen.generation, Unresolved(op[o].seen), "held", "held")

-----------------------------------------------------------------------------
(* The lease of the transfer, which may lapse under a stalled holder. *)

Claim(o) ==
  /\ op[o].pc = "idle"
  /\ lease = {}
  /\ lease' = {o}
  /\ Goto(o, "held")
  /\ UNCHANGED <<cred, tokens, tool>>

(* The operation ends, or its process dies. *)
Finish(o) ==
  /\ op[o].pc # "idle"
  /\ op' = [op EXCEPT ![o] = At("idle")]
  /\ \/ op[o].pc = "held" /\ lease' = lease \ {o}
     \/ UNCHANGED lease
  /\ UNCHANGED <<cred, tokens, tool>>

Lapse ==
  /\ lease # {}
  /\ lease' = {}
  /\ UNCHANGED <<cred, op, tokens, tool>>

-----------------------------------------------------------------------------
(* store: a grant brings a token, whose rights are validated.  A rejected  *)
(* one is recorded for revocation only.                                    *)

Store(o) ==
  \/ /\ op[o].pc = "held"
     /\ issued < MaxTokens
     /\ issued' = issued + 1
     /\ live' = live \cup {issued + 1}
     /\ \E label \in {"t_save", "t_reject"} : Have(o, label, issued + 1)
     /\ UNCHANGED <<credential, past, asked, next, tool>>
  \/ /\ op[o].pc = "t_save"
     /\ \E timed \in BOOLEAN : Save(o, 0, Encoded(op[o].got, 1, timed, "READY"), "held", "held")
  \/ /\ op[o].pc = "t_reject"
     /\ \E timed \in BOOLEAN : Save(o, 0, Encoded(op[o].got, 1, timed, "REJECTED"), "k_read", "held")

-----------------------------------------------------------------------------
(* get: the stored token, replaced first when its rotate_after has passed. *)

(* What the row read allows: nothing, to use it, or to rotate it first.    *)
Usable(c) == c.state = "READY" /\ ~Expired(c)

Get(o) ==
  /\ op[o].pc = "held"
  /\ \/ cred.state = "ROTATING" /\ See(o, "unresolved")
     \/ Usable(cred) /\ Have(o, "use", cred.token)
     \/ Usable(cred) /\ cred.timed /\ See(o, "g_mark")
  /\ UNCHANGED <<credential, tokens, tool>>

(* The row says ROTATING before the provider is asked. *)
MarkRotating(o) ==
  /\ op[o].pc = "g_mark"
  /\ Save(o, op[o].seen.generation, [op[o].seen EXCEPT !.state = "ROTATING"], "g_rotate", "held")

(* The token is offered for rotation, unless there is no client or the     *)
(* token has expired by now.                                               *)
AskRotation(o) ==
  /\ op[o].pc = "g_rotate"
  /\ \/ /\ ~Expired(op[o].seen)
        /\ asked' = asked \cup {op[o].seen.token}
        /\ Goto(o, "g_wait")
     \/ Goto(o, "g_abort") /\ UNCHANGED asked
  /\ UNCHANGED <<credential, issued, live, past, next, tool>>

(* The answer brings the replacement, acceptable or not; or is lost. *)
RotationAnswer(o) ==
  /\ op[o].pc = "g_wait"
  /\ \/ /\ next[op[o].seen.token] # 0
        /\ \E label \in {"g_save", "g_reject"} : Have(o, label, next[op[o].seen.token])
     \/ Goto(o, "g_catch")
  /\ UNCHANGED <<credential, tokens, tool>>

(* A rejected replacement is cleaned up; the catch of get then finds       *)
(* nothing that it could use or restore.                                   *)
PersistReplacement(o) ==
  \E timed \in BOOLEAN :
    \/ /\ op[o].pc = "g_save"
       /\ Save(o, op[o].seen.generation, Encoded(op[o].got, op[o].seen.generation + 1, timed, "READY"),
               "use", "g_catch")
    \/ /\ op[o].pc = "g_reject"
       /\ Save(o, op[o].seen.generation, Encoded(op[o].got, op[o].seen.generation + 1, timed, "REJECTED"),
               "k_read", "g_catch")

(* A replacement that was committed after all is recovered, if it is READY. *)
RecoveredAnyState(o) == cred.generation = op[o].seen.generation + 1    \* mutant
Recovered(o) == cred.generation = op[o].seen.generation + 1 /\ cred.state = "READY"

(* The catch of get reads the row again. *)
RotationFails(o) ==
  /\ \/ /\ op[o].pc \in {"g_catch", "g_abort"}
        /\ Recovered(o)
        /\ Have(o, "use", cred.token)
     \/ /\ ~Recovered(o)
        /\ cred.generation = op[o].seen.generation
        /\ \/ op[o].pc = "g_catch" /\ See(o, "unresolved")
           \/ op[o].pc = "g_abort" /\ See(o, "g_restore")
     \/ /\ op[o].pc \in {"g_catch", "g_abort"}    \* or the read itself fails
        /\ Goto(o, "held")
  /\ UNCHANGED <<credential, tokens, tool>>

(* Nothing was asked: the token is as good as it was. *)
Restore(o) ==
  /\ op[o].pc = "g_restore"
  /\ Save(o, op[o].seen.generation, [op[o].seen EXCEPT !.state = "READY"], "held", "held")

(* assertUsable, and the provider is called with the token in hand; when   *)
(* it answers 401 or 403 the credential is marked.                         *)
Use(o) ==
  /\ op[o].pc = "use"
  /\ Goto(o, "held") \/ (Usable(cred) /\ Goto(o, "u_read"))
  /\ UNCHANGED <<credential, tokens, tool>>

MarkUnavailable(o) ==
  \/ /\ op[o].pc = "u_read"
     /\ \/ cred.state # "NONE" /\ See(o, "u_save")
        \/ Goto(o, "held")
     /\ UNCHANGED <<credential, tokens, tool>>
  \/ /\ op[o].pc = "u_save"
     /\ Save(o, op[o].seen.generation, [op[o].seen EXCEPT !.state = "UNAVAILABLE"], "held", "held")

-----------------------------------------------------------------------------
(* cleanup: revoke the token, then delete the row. *)

RevocableAny(c) == c.state # "NONE"    \* mutant: an unresolved one as well
Revocable(c) == c.state \in {"READY", "REJECTED"}

ReadForCleanup(o) ==
  /\ op[o].pc \in {"held", "k_read"}
  /\ \/ cred.state = "ROTATING" /\ See(o, "unresolved")
     \/ cred.state # "ROTATING" /\ Expired(cred) /\ See(o, "k_clear")
     \/ cred.state # "ROTATING" /\ ~Expired(cred) /\ Revocable(cred) /\ See(o, "k_revoke")
     \/ op[o].pc = "k_read" /\ Goto(o, "held")
  /\ UNCHANGED <<credential, tokens, tool>>

(* The revocation, whose answer may be lost. *)
Revoke(o) ==
  /\ op[o].pc = "k_revoke"
  /\ \/ live' = live \ {op[o].seen.token} /\ \E label \in {"k_clear", "held"} : Goto(o, label)
     \/ UNCHANGED live /\ Goto(o, "held")
     \/ Expired(op[o].seen) /\ UNCHANGED live /\ Goto(o, "k_clear")
  /\ UNCHANGED <<credential, issued, past, asked, next, tool>>

(* clearCredential: under the live lease, whatever the row is by now. *)
ClearAnyOwner(o) == TRUE    \* mutant: the lease is not checked
MayClear(o) == o \in lease

Clear(o) ==
  /\ op[o].pc = "k_clear"
  /\ Goto(o, "held")
  /\ \/ MayClear(o) /\ cred' = NoCred
     \/ UNCHANGED cred
  /\ UNCHANGED <<lease, tokens, tool>>

Operation(o) ==
  \/ Store(o) \/ Get(o) \/ MarkRotating(o) \/ AskRotation(o) \/ RotationAnswer(o)
  \/ PersistReplacement(o) \/ RotationFails(o) \/ Restore(o) \/ SaveUnresolved(o)
  \/ Use(o) \/ MarkUnavailable(o) \/ ReadForCleanup(o) \/ Revoke(o) \/ Clear(o)

-----------------------------------------------------------------------------
(* rekey.ts: rows of an older key are re-encrypted one by one, without the *)
(* lease; a row that changed since it was read is left alone.              *)

RekeyPage ==
  /\ rekey = NoCred
  /\ cred.state \notin {"NONE", "ROTATING"}
  /\ cred.key = "old"
  /\ rekey' = cred
  /\ UNCHANGED <<credential, op, tokens, retired>>

UnchangedSinceUnchecked == cred.state # "NONE"    \* mutant: only the row's identity
UnchangedSince ==
  /\ cred.token = rekey.token /\ cred.key = rekey.key    \* token_enc
  /\ cred.generation = rekey.generation
  /\ cred.state = rekey.state

RekeyUpdate ==
  /\ rekey # NoCred
  /\ \/ UnchangedSince /\ cred' = [cred EXCEPT !.token = rekey.token, !.key = "active"]
     \/ UNCHANGED cred
  /\ rekey' = NoCred
  /\ UNCHANGED <<lease, op, tokens, retired>>

CheckRetirement ==
  /\ cred.key # "old"
  /\ retired' = TRUE
  /\ UNCHANGED <<credential, op, tokens, rekey>>

-----------------------------------------------------------------------------
(* The provider (external). *)

Replace(t) ==
  /\ t \in asked \cap live
  /\ issued < MaxTokens
  /\ issued' = issued + 1
  /\ next' = [next EXCEPT ![t] = issued + 1]
  /\ live' = (live \ {t}) \cup {issued + 1}
  /\ UNCHANGED <<credential, op, past, asked, tool>>

Pass(t) ==
  /\ t \in (1 .. issued) \ past
  /\ past' = past \cup {t}
  /\ live' = live \ {t}
  /\ UNCHANGED <<credential, op, issued, asked, next, tool>>

Next ==
  \/ \E o \in Owners : Claim(o) \/ Operation(o) \/ Finish(o)
  \/ Lapse \/ RekeyPage \/ RekeyUpdate \/ CheckRetirement
  \/ \E t \in Tokens : Replace(t) \/ Pass(t)

Spec == Init /\ [][Next]_vars

-----------------------------------------------------------------------------
(* A READY credential holds a token that was never offered for rotation,   *)
(* whatever the operations that lost their lease and the re-encryption     *)
(* write (44-56, 64-76): a lost rotation is never mistaken for a good      *)
(* token.                                                                  *)
ReadyWasNotOffered == cred.state = "READY" => cred.token \notin asked

(* The operation that holds the lease calls the provider with the token of *)
(* the row, and that row is READY: neither a rejected nor a superseded     *)
(* token is used, even after an uncertain acknowledgement (66-68, 90-96).  *)
HolderUsesCurrent ==
  \A o \in lease : op[o].pc = "use" => cred.state = "READY" /\ op[o].got = cred.token

(* The row is deleted only when neither its token nor a replacement of it  *)
(* is in force: authority that is out is never forgotten (46, 97-118).     *)
ForgetsOnlyDeadTokens ==
  [][ cred.state # "NONE" /\ cred'.state = "NONE" =>
        cred.token \notin live /\ next[cred.token] \notin live ]_vars

(* The guide's "Credentials from unresolved rotations remain unavailable   *)
(* and retained" (DEVELOPER_GUIDE.md:396-397), by every writer (100-109).  *)
UnresolvedIsRetained ==
  [][ cred.state = "UNAVAILABLE" /\ cred.token \in asked =>
        cred'.state = "UNAVAILABLE" /\ cred'.token = cred.token ]_vars

-----------------------------------------------------------------------------
(* What the guide says and the code does not keep (rekey.ts:14-21,         *)
(* DEVELOPER_GUIDE.md:127-130): after a check that finds no reference to   *)
(* the old key, an operation that read the row before its re-encryption    *)
(* writes the old ciphertext and key_id back with its ROTATING.            *)
RetiredKeyIsGone == retired => cred.key # "old"
=============================================================================
