----------------------------- MODULE KeyRotation -----------------------------
(***************************************************************************)
(* Replacing an encryption key while the service runs: keyrings that the   *)
(* processes read when they start (utils/grant-encryption.ts, server.ts,   *)
(* worker.ts), the stored credentials encrypted under them, the operations *)
(* of payment-token.service.ts on these, re-encryption and the retirement  *)
(* check (rekey.ts), and the operator who changes the keyring file step by *)
(* step (DEVELOPER_GUIDE.md:127-130).                                      *)
(*                                                                         *)
(* At most one operation works on a credential (its transfer's lease);     *)
(* PaymentToken has what happens when that lease lapses.                   *)
(***************************************************************************)
EXTENDS Naturals, Sequences

CONSTANTS
  Procs,       \* the API and the worker
  Creds,       \* rows of transfer_credentials: a transfer and a purpose
  KeyIds,      \* encryption keys
  Plan,        \* the keyrings the operator mounts, one after the other
  MaxGen       \* bound on the generation of a credential

Keyrings == [active : KeyIds, keys : SUBSET KeyIds]

\* What loadKeyring accepts: the active key is in the ring.
Valid(ring) == ring \in Keyrings /\ ring.active \in ring.keys

ASSUME PlanAssumption ==
  /\ Plan \in Seq(Keyrings) /\ Len(Plan) > 0
  /\ \A i \in 1 .. Len(Plan) : Valid(Plan[i])
  /\ MaxGen \in Nat \ {0}

VARIABLES
  step,        \* the keyring that is mounted
  proc,        \* for each process: pc and the ring its ciphers were made with
  row,         \* the stored credentials
  op,          \* for each process, the operation it is in and the row as it read it
  rekey,       \* re-encryption: the row it read
  checked,     \* the retirement check has passed since the ring was mounted
  unsure       \* history: why a credential may be given up (see GivenUpIsUnsure)

vars == <<step, proc, row, op, rekey, checked, unsure>>

Mounted == Plan[step]
Down == [pc |-> "down"]
NoRow == [state |-> "NONE"]
NoOp == [pc |-> "idle"]
NoRekey == [pc |-> "idle"]

\* timed: it has an expiry. revived: history, an operation has written the ciphertext back
\* that re-encryption had replaced. A REJECTED row is handled as a READY one here.
Rows == [state : {"READY", "ROTATING", "UNAVAILABLE"}, key : KeyIds, gen : 1 .. MaxGen,
         timed : BOOLEAN, revived : BOOLEAN]
Pcs == {"opened", "rotating", "unoffered", "failed"}

TypeOK ==
  /\ step \in 1 .. Len(Plan)
  /\ proc \in [Procs -> {Down} \cup [pc : {"loaded", "up"}, ring : Keyrings]]
  /\ row \in [Creds -> {NoRow} \cup Rows]
  /\ op \in [Procs -> {NoOp} \cup [pc : Pcs, cred : Creds, seen : Rows]]
  /\ \A p \in Procs : op[p] # NoOp => proc[p].pc = "up"
  /\ rekey \in {NoRekey} \cup [pc : {"read"}, cred : Creds, seen : Rows]
  /\ checked \in BOOLEAN
  /\ unsure \in [Creds -> BOOLEAN]

Init ==
  /\ step = 1
  /\ proc = [p \in Procs |-> Down]
  /\ row = [c \in Creds |-> NoRow]
  /\ op = [p \in Procs |-> NoOp]
  /\ rekey = NoRekey
  /\ checked = FALSE
  /\ unsure = [c \in Creds |-> FALSE]

WorksOn(p, c) == op[p] # NoOp /\ op[p].cred = c
Stored == {c \in Creds : row[c] # NoRow}

-----------------------------------------------------------------------------
(* Processes. Their services read the keyring file when they are built; the *)
(* check of start-up reads it again.                                        *)

Load(p) ==
  /\ proc[p] = Down
  /\ proc' = [proc EXCEPT ![p] = [pc |-> "loaded", ring |-> Mounted]]
  /\ UNCHANGED <<step, row, op, rekey, checked, unsure>>

\* assertEncryptionKeys
Audited == \A c \in Stored : row[c].key \in Mounted.keys

Start(p) ==
  /\ proc[p].pc = "loaded"
  /\ proc' = [proc EXCEPT ![p] = IF Audited THEN [@ EXCEPT !.pc = "up"] ELSE Down]
  /\ UNCHANGED <<step, row, op, rekey, checked, unsure>>

\* A process is stopped for a deployment or dies. A rotation it was in is not resolved.
Stop(p) ==
  /\ proc[p] # Down
  /\ proc' = [proc EXCEPT ![p] = Down]
  /\ op' = [op EXCEPT ![p] = NoOp]
  /\ unsure' = [c \in Creds |-> unsure[c] \/ (WorksOn(p, c) /\ op[p].pc # "opened")]
  /\ UNCHANGED <<step, row, rekey, checked>>

-----------------------------------------------------------------------------
(* The token service.                                                       *)

EncryptionKeyAny(ring) == CHOOSE id \in ring.keys : id # Plan[1].active \/ ring.keys = {id}    \* mutant: the newest key
EncryptionKey(ring) == ring.active
Encrypted(p, gen, timed) ==
  [state |-> "READY", key |-> EncryptionKey(proc[p].ring), gen |-> gen, timed |-> timed, revived |-> FALSE]
CanDecryptActive(p, c) == c.key = proc[p].ring.active    \* mutant: only the active key is tried
CanDecrypt(p, c) == c.key \in proc[p].ring.keys

Up(p) == proc[p].pc = "up"
Free(c) == \A p \in Procs : ~WorksOn(p, c)

Ends(p) == op' = [op EXCEPT ![p] = NoOp]
Moves(p, pc) == op' = [op EXCEPT ![p].pc = pc]

\* The ciphertext of new, a row of the same generation, is another one than the stored.
Revives(c, new) == new.gen = row[c].gen /\ (new.key # row[c].key \/ row[c].revived)

\* saveCredential writes the whole row, if its generation is the expected one.
Save(c, expected, new) ==
  /\ row[c] # NoRow /\ row[c].gen = expected
  /\ row' = [row EXCEPT ![c] = [new EXCEPT !.revived = Revives(c, new)]]

Unsure(p) == unsure' = [unsure EXCEPT ![op[p].cred] = TRUE]

Store(p, c) ==
  /\ Up(p) /\ Free(c) /\ op[p] = NoOp
  /\ row[c] = NoRow
  /\ \E timed \in BOOLEAN : row' = [row EXCEPT ![c] = Encrypted(p, 1, timed)]
  /\ unsure' = [unsure EXCEPT ![c] = FALSE]
  /\ UNCHANGED <<step, proc, op, rekey, checked>>

\* get, unavailable and cleanup begin with the row.
Open(p, c) ==
  /\ Up(p) /\ Free(c) /\ op[p] = NoOp
  /\ row[c] # NoRow
  /\ op' = [op EXCEPT ![p] = [pc |-> "opened", cred |-> c, seen |-> row[c]]]
  /\ UNCHANGED <<step, proc, row, rekey, checked, unsure>>

Opened(p, state) == op[p].pc = "opened" /\ op[p].seen.state = state
Copy(p, state, timed) == [op[p].seen EXCEPT !.state = state, !.timed = timed]
SavesSeen(p, state, timed) == Save(op[p].cred, op[p].seen.gen, Copy(p, state, timed))

\* A rotation that was left unresolved is given up.
Resolve(p) ==
  /\ Opened(p, "ROTATING")
  /\ SavesSeen(p, "UNAVAILABLE", FALSE)
  /\ Ends(p)
  /\ UNCHANGED <<step, proc, rekey, checked, unsure>>

\* The token is used, or has expired, or cannot be decrypted, or its row is retained as it
\* is; or a save or a delete fails.
Close(p) ==
  /\ op[p].pc = "opened"
  /\ Ends(p)
  /\ UNCHANGED <<step, proc, row, rekey, checked, unsure>>

\* unavailable: the provider answered 401 or 403 to the token (transfer.service.ts:355-358).
Disown(p) ==
  /\ op[p].pc = "opened"
  /\ SavesSeen(p, "UNAVAILABLE", op[p].seen.timed)
  /\ Ends(p)
  /\ Unsure(p)
  /\ UNCHANGED <<step, proc, rekey, checked>>

\* cleanup deletes the row: the token has expired, or is revoked.
Remove(p) ==
  /\ op[p].pc = "opened"
  /\ \/ op[p].seen.timed /\ op[p].seen.state # "ROTATING"
     \/ op[p].seen.state = "READY" /\ CanDecrypt(p, op[p].seen)
  /\ row' = [row EXCEPT ![op[p].cred] = NoRow]
  /\ Ends(p)
  /\ UNCHANGED <<step, proc, rekey, checked, unsure>>

\* rotate_after has passed: the row says so before the provider is asked.
Mark(p) ==
  /\ Opened(p, "READY") /\ op[p].seen.timed
  /\ op[p].seen.gen < MaxGen
  /\ SavesSeen(p, "ROTATING", TRUE)
  /\ Moves(p, "rotating")
  /\ UNCHANGED <<step, proc, rekey, checked, unsure>>

\* The token is offered and replaced. An unanswered save is found written (lines 66-68).
Rotate(p) ==
  /\ op[p].pc = "rotating"
  /\ op[p].seen.gen < MaxGen
  /\ CanDecrypt(p, op[p].seen)
  /\ \E timed \in BOOLEAN :
       Save(op[p].cred, op[p].seen.gen, Encrypted(p, op[p].seen.gen + 1, timed))
  /\ Ends(p)
  /\ UNCHANGED <<step, proc, rekey, checked, unsure>>

\* The catch of get reads the row again (line 66).
Catches(p, pc) ==
  /\ op[p].pc = "rotating"
  /\ row[op[p].cred] # NoRow
  /\ op' = [op EXCEPT ![p] = [pc |-> pc, cred |-> op[p].cred, seen |-> row[op[p].cred]]]
  /\ UNCHANGED <<step, proc, row, rekey, checked>>

\* There is no client, or the token has expired: nothing was attempted.
Withhold(p) == Catches(p, "unoffered") /\ UNCHANGED unsure

\* The call fails or has no answer, or the new token is not saved; or the old one could not
\* be decrypted, so that nothing was offered. rotationAttempted does not tell them apart.
Fail(p) ==
  /\ Catches(p, "failed")
  /\ unsure' = [unsure EXCEPT ![op[p].cred] = @ \/ CanDecrypt(p, op[p].seen) \/ op[p].seen.revived]

Restore(p) ==
  /\ op[p].pc = "unoffered"
  /\ SavesSeen(p, "READY", op[p].seen.timed)
  /\ Ends(p)
  /\ UNCHANGED <<step, proc, rekey, checked, unsure>>

GiveUp(p) ==
  /\ op[p].pc = "failed"
  /\ SavesSeen(p, "UNAVAILABLE", FALSE)
  /\ Ends(p)
  /\ UNCHANGED <<step, proc, rekey, checked, unsure>>

\* The operation ends where it is, and the row stays ROTATING: the save of Mark has no
\* answer though it was written (line 54), or the read or the save of the catch fails
\* (lines 66, 71).
Abandon(p) ==
  /\ op[p].pc \in {"rotating", "unoffered", "failed"}
  /\ Ends(p)
  /\ Unsure(p)
  /\ UNCHANGED <<step, proc, row, rekey, checked>>

-----------------------------------------------------------------------------
(* rekey.ts, which the operator runs with the mounted keyring once both     *)
(* processes are deployed.                                                  *)

Deployed == \A p \in Procs : proc[p] # Down => proc[p].ring = Mounted

Reencryptable(c) == row[c].key # Mounted.active /\ row[c].state # "ROTATING"

RekeyRead(c) ==
  /\ rekey = NoRekey /\ Audited /\ Deployed
  /\ c \in Stored /\ Reencryptable(c)
  /\ rekey' = [pc |-> "read", cred |-> c, seen |-> row[c]]
  /\ UNCHANGED <<step, proc, row, op, checked, unsure>>

\* The update compares the ciphertext, the generation and the state.
RekeyWrite ==
  /\ rekey # NoRekey
  /\ row' = IF row[rekey.cred] = rekey.seen
              THEN [row EXCEPT ![rekey.cred] = [@ EXCEPT !.key = Mounted.active, !.revived = FALSE]]
              ELSE row
  /\ rekey' = NoRekey
  /\ UNCHANGED <<step, proc, op, checked, unsure>>

\* The keys the next keyring leaves out.
Retiring == IF step < Len(Plan) THEN Mounted.keys \ Plan[step + 1].keys ELSE {}
ReferencesReady(ids) == {c \in Stored : row[c].key \in ids /\ row[c].state = "READY"}    \* mutant
References(ids) == {c \in Stored : row[c].key \in ids}

\* --check-retirement, which the operator runs after the deployment and re-encryption,
\* whatever the services do meanwhile.
CheckRetirement ==
  /\ rekey = NoRekey /\ Audited /\ Deployed
  /\ Retiring # {} /\ Mounted.active \notin Retiring
  /\ References(Retiring) = {}
  /\ checked' = TRUE
  /\ UNCHANGED <<step, proc, row, op, rekey, unsure>>

\* The operator (external) mounts the next keyring.
Advance ==
  /\ step < Len(Plan)
  /\ Deployed /\ rekey = NoRekey
  /\ Retiring # {} => checked
  /\ step' = step + 1
  /\ checked' = FALSE
  /\ UNCHANGED <<proc, row, op, rekey, unsure>>

Operate(p) ==
  \/ Resolve(p) \/ Close(p) \/ Disown(p) \/ Remove(p) \/ Mark(p)
  \/ Rotate(p) \/ Withhold(p) \/ Fail(p) \/ Restore(p) \/ GiveUp(p) \/ Abandon(p)

Next ==
  \/ \E p \in Procs :
       Load(p) \/ Start(p) \/ Stop(p) \/ Operate(p) \/ \E c \in Creds : Store(p, c) \/ Open(p, c)
  \/ \E c \in Creds : RekeyRead(c)
  \/ RekeyWrite \/ CheckRetirement \/ Advance

Spec == Init /\ [][Next]_vars

-----------------------------------------------------------------------------
(* Properties                                                               *)

\* No stored credential is encrypted with a key that the mounted keyring has lost, though
\* services run beside re-encryption and the check (rekey.ts:12-22), but for one that an
\* operation wrote back as it was before re-encryption (payment-token.service.ts:54; see
\* PaymentToken's RetiredKeyIsGone).
RetiredIsUnreferenced == \A c \in Stored : row[c].key \in Mounted.keys \/ row[c].revived

\* Every process that serves can decrypt every stored credential, the ones stored by
\* processes that were started with another keyring included (server.ts:26, worker.ts:22,
\* payment-token.service.ts:36-37), but for one that was written back like that.
RunningCanRead ==
  \A p \in Procs, c \in Stored : Up(p) => CanDecrypt(p, row[c]) \/ row[c].revived

\* No credential is given up for want of a key (payment-token.service.ts:59-75). What gives
\* one up is a provider that refused it, or a rotation of which a call failed or stayed
\* unanswered, or in which the process died, or that met a ciphertext written back.
GivenUpIsUnsure == \A c \in Stored : row[c].state = "UNAVAILABLE" => unsure[c]
=============================================================================
