-------------------------- MODULE KeyRotationProofs --------------------------
(* Replacing a key, for every plan of keyrings, any number of processes and *)
(* credentials: what stays readable, and what is given up.                  *)
EXTENDS KeyRotation, TLAPS

\* No key is stored, or about to be encrypted with, that is not one of ids, but in rows
\* that were written back.
Within(ids) ==
  /\ \A p \in Procs : proc[p] # Down => EncryptionKey(proc[p].ring) \in ids
  /\ \A c \in Stored : row[c].key \in ids \/ row[c].revived

Kept == Mounted.keys \ Retiring

\* So it is of the mounted keyring; and once the check has passed, of what stays of it.
KeysInv ==
  /\ TypeOK
  /\ Within(Mounted.keys)
  /\ checked => Deployed /\ Mounted.active \in Kept /\ Within(Kept)

-----------------------------------------------------------------------------

LEMMA MountedIsValid ==
  ASSUME TypeOK
  PROVE  Mounted \in Keyrings /\ Valid(Mounted)
BY PlanAssumption DEF TypeOK, Mounted, Valid

LEMMA KeysInit == Init => KeysInv
<1> SUFFICES ASSUME Init PROVE KeysInv
  OBVIOUS
<1>1. TypeOK
  <2>1. 1 \in 1 .. Len(Plan)
    BY PlanAssumption
  <2> QED BY <2>1 DEF Init, TypeOK
<1>2. Stored = {} /\ \A p \in Procs : proc[p] = Down
  BY DEF Init, Stored
<1> QED BY <1>1, <1>2 DEF Init, KeysInv, Within

LEMMA OperationTypes ==
  ASSUME TypeOK, NEW p \in Procs, op[p] # NoOp
  PROVE  /\ op[p] \in [pc : Pcs, cred : Creds, seen : Rows]
         /\ op[p].cred \in Creds /\ op[p].seen \in Rows
         /\ Up(p) /\ proc[p] # Down
BY DEF TypeOK, NoOp, Up, Down

\* What a save stores: the row it was given, with the history of its ciphertext.
LEMMA SaveWrites ==
  ASSUME TypeOK, NEW c \in Creds, NEW gen, NEW new \in Rows, Save(c, gen, new)
  PROVE  /\ row[c] \in Rows /\ row[c].gen = gen
         /\ \E s \in Rows :
              /\ row' = [row EXCEPT ![c] = s]
              /\ s.state = new.state /\ s.key = new.key /\ s.gen = new.gen
              /\ s.revived <=> new.gen = gen /\ (new.key # row[c].key \/ row[c].revived)
<1>1. row[c] \in Rows /\ row[c].gen = gen
  BY DEF Save, TypeOK
<1>2. Revives(c, new) \in BOOLEAN
  BY <1>1 DEF Revives, Rows
<1>3. PICK s : s = [new EXCEPT !.revived = Revives(c, new)]
  OBVIOUS
<1>4. s \in Rows /\ s.state = new.state /\ s.key = new.key /\ s.gen = new.gen /\ s.revived = Revives(c, new)
  BY <1>2, <1>3 DEF Rows
<1> QED BY <1>1, <1>3, <1>4 DEF Save, Revives

\* The copy of an operation, as it saves it.
LEMMA CopyTypes ==
  ASSUME TypeOK, NEW p \in Procs, op[p] # NoOp,
         NEW s \in {"READY", "ROTATING", "UNAVAILABLE"}, NEW t \in BOOLEAN
  PROVE  /\ Copy(p, s, t) \in Rows
         /\ Copy(p, s, t).key = op[p].seen.key /\ Copy(p, s, t).gen = op[p].seen.gen
         /\ Copy(p, s, t).state = s
<1>1. PICK r \in Rows : r = op[p].seen
  BY OperationTypes
<1>2. PICK new : new = [r EXCEPT !.state = s, !.timed = t]
  OBVIOUS
<1>3. new = [state |-> s, key |-> r.key, gen |-> r.gen, timed |-> t, revived |-> r.revived]
  BY <1>2 DEF Rows
<1>4. new \in Rows /\ new.key = r.key /\ new.gen = r.gen /\ new.state = s
  BY <1>3 DEF Rows
<1>5. Copy(p, s, t) = new
  BY <1>1, <1>2 DEF Copy
<1> QED BY <1>1, <1>4, <1>5

LEMMA EncryptedRow ==
  ASSUME TypeOK, NEW p \in Procs, Up(p), NEW gen \in 1 .. MaxGen, NEW t \in BOOLEAN
  PROVE  /\ Encrypted(p, gen, t) \in Rows /\ proc[p] # Down
         /\ Encrypted(p, gen, t).key = EncryptionKey(proc[p].ring)
         /\ Encrypted(p, gen, t).state = "READY" /\ Encrypted(p, gen, t).gen = gen
         /\ ~Encrypted(p, gen, t).revived
BY DEF TypeOK, Up, Encrypted, EncryptionKey, Rows, Keyrings, Down

-----------------------------------------------------------------------------
(* The effect of a step on what is stored and what operations have read.    *)

\* A row is removed, written back, saved under the key it has, or encrypted anew.
RowWrite(p) ==
  \/ row' = row
  \/ \E c \in Creds, new \in {NoRow} \cup Rows :
       /\ row' = [row EXCEPT ![c] = new]
       /\ \/ new = NoRow \/ new.revived
          \/ proc[p] # Down /\ new.key = EncryptionKey(proc[p].ring)
          \/ c \in Stored /\ ~row[c].revived /\ new.key = row[c].key

\* An operation ends, or goes on with the row as it read it, before or now.
OpWrite(p) ==
  \/ op' = op
  \/ op' = [op EXCEPT ![p] = NoOp]
  \/ \E pc \in Pcs, c \in Creds, r \in Rows :
       /\ op' = [op EXCEPT ![p] = [pc |-> pc, cred |-> c, seen |-> r]]
       /\ Up(p)
       /\ (op[p] # NoOp /\ r = op[p].seen) \/ (c \in Stored /\ r = row[c])

Writes(p) ==
  /\ UNCHANGED <<step, proc, rekey, checked>>
  /\ RowWrite(p) /\ OpWrite(p)
  /\ unsure' \in [Creds -> BOOLEAN]

\* A copy that an operation saves is under the key of the stored row, or writes back.
LEMMA SavesSeenWrites ==
  ASSUME TypeOK, NEW p \in Procs, op[p] # NoOp,
         NEW s \in {"READY", "ROTATING", "UNAVAILABLE"}, NEW t \in BOOLEAN, SavesSeen(p, s, t)
  PROVE  RowWrite(p)
<1>0. PICK c \in Creds : c = op[p].cred
  BY OperationTypes
<1>1. PICK new : new = Copy(p, s, t)
  OBVIOUS
<1>2. new \in Rows /\ new.gen = op[p].seen.gen
  BY <1>1, CopyTypes
<1>3. Save(c, op[p].seen.gen, new)
  BY <1>0, <1>1 DEF SavesSeen
<1>4. row[c] # NoRow /\ row[c] \in Rows
  BY <1>3 DEF Save, TypeOK
<1>5. PICK w \in Rows : /\ row' = [row EXCEPT ![c] = w]
                        /\ w.key = new.key
                        /\ w.revived <=> new.key # row[c].key \/ row[c].revived
  BY <1>2, <1>3, SaveWrites
<1> QED BY <1>4, <1>5 DEF RowWrite, Stored

LEMMA SavesNewWrites ==
  ASSUME TypeOK, NEW p \in Procs, op[p] # NoOp, Rotate(p)
  PROVE  RowWrite(p)
<1>1. op[p].cred \in Creds /\ op[p].seen \in Rows /\ Up(p)
  BY OperationTypes
<1>2. PICK t \in BOOLEAN : Save(op[p].cred, op[p].seen.gen, Encrypted(p, op[p].seen.gen + 1, t))
  BY DEF Rotate
<1>3. PICK gen : gen = op[p].seen.gen + 1
  OBVIOUS
<1>4. gen \in 1 .. MaxGen
  BY <1>1, <1>3, PlanAssumption DEF Rows, Rotate
<1>5. PICK new : new = Encrypted(p, gen, t)
  OBVIOUS
<1>6. new \in Rows /\ proc[p] # Down /\ new.key = EncryptionKey(proc[p].ring)
  BY <1>1, <1>4, <1>5, EncryptedRow
<1>7. PICK r \in Rows : row' = [row EXCEPT ![op[p].cred] = r] /\ r.key = new.key
  <2>1. Save(op[p].cred, op[p].seen.gen, new)
    BY <1>2, <1>3, <1>5
  <2> QED BY <1>1, <1>6, <2>1, SaveWrites
<1> QED BY <1>1, <1>6, <1>7 DEF RowWrite

LEMMA MovesWrites ==
  ASSUME TypeOK, NEW p \in Procs, op[p] # NoOp, NEW pc \in Pcs, Moves(p, pc)
  PROVE  OpWrite(p)
<1>1. op[p] \in [pc : Pcs, cred : Creds, seen : Rows] /\ Up(p)
  BY OperationTypes
<1>2. PICK c \in Creds, r \in Rows : c = op[p].cred /\ r = op[p].seen
  BY <1>1
<1>3. [op[p] EXCEPT !.pc = pc] = [pc |-> pc, cred |-> c, seen |-> r]
  BY <1>1, <1>2
<1>4. op' = [op EXCEPT ![p] = [op[p] EXCEPT !.pc = pc]]
  BY DEF Moves
<1> QED BY <1>1, <1>2, <1>3, <1>4 DEF OpWrite

\* What the catch of get leaves of its operation.
LEMMA CatchesMoves ==
  ASSUME TypeOK, NEW p \in Procs, op[p] # NoOp, NEW pc \in Pcs, Catches(p, pc)
  PROVE  /\ row[op[p].cred] \in Rows
         /\ op' = [op EXCEPT ![p] = [pc |-> pc, cred |-> op[p].cred, seen |-> row[op[p].cred]]]
<1>1. op[p] \in [pc : Pcs, cred : Creds, seen : Rows]
  BY OperationTypes
<1>2. row[op[p].cred] \in Rows
  BY <1>1 DEF Catches, TypeOK
<1> QED BY <1>2 DEF Catches

LEMMA CatchesWrites ==
  ASSUME TypeOK, NEW p \in Procs, op[p] # NoOp, NEW pc \in Pcs, Catches(p, pc)
  PROVE  OpWrite(p)
<1>1. PICK c : c = op[p].cred
  OBVIOUS
<1>2. c \in Creds /\ Up(p)
  BY <1>1, OperationTypes
<1>3. row[c] \in Rows /\ op' = [op EXCEPT ![p] = [pc |-> pc, cred |-> c, seen |-> row[c]]]
  BY <1>1, CatchesMoves
<1>4. c \in Stored
  BY <1>2, <1>3 DEF Catches, Stored, Rows, NoRow
<1> QED BY <1>2, <1>3, <1>4 DEF OpWrite

LEMMA Operating ==
  ASSUME NEW p \in Procs, Operate(p)
  PROVE  op[p] # NoOp
<1>1. op[p].pc \in {"opened", "rotating", "unoffered", "failed"}
  BY DEF Operate, Resolve, Close, Disown, Remove, Mark, Rotate, Withhold, Fail, Restore, GiveUp,
         Abandon, Opened, Catches
<1> QED BY <1>1 DEF NoOp

LEMMA OperationWrites ==
  ASSUME TypeOK, NEW p \in Procs, Operate(p)
  PROVE  Writes(p)
<1> USE DEF Ends, Pcs
<1>1. op[p] # NoOp
  BY Operating
<1>2. op[p].cred \in Creds /\ op[p].seen \in Rows /\ op[p].seen.timed \in BOOLEAN
  BY <1>1, OperationTypes DEF Rows
<1>3. Unsure(p) => unsure' \in [Creds -> BOOLEAN]
  BY <1>2 DEF Unsure, TypeOK
<1>4. unsure \in [Creds -> BOOLEAN]
  BY DEF TypeOK
<1>5. Ends(p) => OpWrite(p)
  BY DEF OpWrite
<1>6. UNCHANGED row => RowWrite(p)
  BY DEF RowWrite
<1>7. CASE Resolve(p)
  <2>1. RowWrite(p)
    BY <1>1, <1>7, SavesSeenWrites DEF Resolve
  <2> QED BY <1>4, <1>5, <1>7, <2>1 DEF Resolve, Writes
<1>8. CASE Close(p)
  BY <1>4, <1>5, <1>6, <1>8 DEF Close, Writes
<1>9. CASE Disown(p)
  <2>1. RowWrite(p)
    BY <1>1, <1>2, <1>9, SavesSeenWrites DEF Disown
  <2> QED BY <1>3, <1>5, <1>9, <2>1 DEF Disown, Writes
<1>10. CASE Remove(p)
  <2>1. RowWrite(p)
    BY <1>2, <1>10 DEF Remove, RowWrite
  <2> QED BY <1>4, <1>5, <1>10, <2>1 DEF Remove, Writes
<1>11. CASE Mark(p)
  <2>1. RowWrite(p)
    BY <1>1, <1>11, SavesSeenWrites DEF Mark
  <2>2. OpWrite(p)
    BY <1>1, <1>11, MovesWrites DEF Mark
  <2> QED BY <1>4, <1>11, <2>1, <2>2 DEF Mark, Writes
<1>12. CASE Rotate(p)
  <2>1. RowWrite(p)
    BY <1>1, <1>12, SavesNewWrites
  <2> QED BY <1>4, <1>5, <1>12, <2>1 DEF Rotate, Writes
<1>13. CASE Withhold(p)
  <2>1. OpWrite(p)
    BY <1>1, <1>13, CatchesWrites DEF Withhold
  <2> QED BY <1>4, <1>6, <1>13, <2>1 DEF Withhold, Catches, Writes
<1>14. CASE Fail(p)
  <2>1. OpWrite(p)
    BY <1>1, <1>14, CatchesWrites DEF Fail
  <2>2. CanDecrypt(p, op[p].seen) \in BOOLEAN /\ op[p].seen.revived \in BOOLEAN
    BY <1>2 DEF CanDecrypt, Rows
  <2>3. unsure' \in [Creds -> BOOLEAN]
    BY <1>2, <1>14, <2>2 DEF Fail, TypeOK
  <2> QED BY <1>6, <1>14, <2>1, <2>3 DEF Fail, Catches, Writes
<1>15. CASE Restore(p)
  <2>1. RowWrite(p)
    BY <1>1, <1>2, <1>15, SavesSeenWrites DEF Restore
  <2> QED BY <1>4, <1>5, <1>15, <2>1 DEF Restore, Writes
<1>16. CASE GiveUp(p)
  <2>1. RowWrite(p)
    BY <1>1, <1>16, SavesSeenWrites DEF GiveUp
  <2> QED BY <1>4, <1>5, <1>16, <2>1 DEF GiveUp, Writes
<1>17. CASE Abandon(p)
  BY <1>3, <1>5, <1>6, <1>17 DEF Abandon, Writes
<1> QED BY <1>7, <1>8, <1>9, <1>10, <1>11, <1>12, <1>13, <1>14, <1>15, <1>16, <1>17 DEF Operate

LEMMA StepsWrite ==
  ASSUME TypeOK, NEW p \in Procs,
         Operate(p) \/ \E c \in Creds : Store(p, c) \/ Open(p, c)
  PROVE  Writes(p)
<1>1. ASSUME NEW c \in Creds, Store(p, c) PROVE Writes(p)
  <2>1. PICK t \in BOOLEAN : row' = [row EXCEPT ![c] = Encrypted(p, 1, t)]
    BY <1>1 DEF Store
  <2>2. /\ Encrypted(p, 1, t) \in Rows /\ proc[p] # Down
        /\ Encrypted(p, 1, t).key = EncryptionKey(proc[p].ring)
    BY <1>1, EncryptedRow, PlanAssumption DEF Store
  <2>3. RowWrite(p)
    BY <2>1, <2>2 DEF RowWrite
  <2> QED BY <1>1, <2>3 DEF Store, Writes, OpWrite, TypeOK
<1>2. ASSUME NEW c \in Creds, Open(p, c) PROVE Writes(p)
  <2>1. row[c] \in Rows /\ c \in Stored /\ "opened" \in Pcs
    BY <1>2 DEF Open, Stored, TypeOK, Pcs
  <2>2. OpWrite(p)
    BY <1>2, <2>1 DEF Open, OpWrite
  <2> QED BY <1>2, <2>2 DEF Open, Writes, RowWrite, TypeOK
<1> QED BY <1>1, <1>2, OperationWrites

-----------------------------------------------------------------------------
(* Every step keeps the invariant.                                          *)

LEMMA WritesTyped ==
  ASSUME TypeOK, NEW p \in Procs, Writes(p)
  PROVE  TypeOK'
<1>1. row' \in [Creds -> {NoRow} \cup Rows]
  BY DEF Writes, RowWrite, TypeOK
<1>2. /\ op' \in [Procs -> {NoOp} \cup [pc : Pcs, cred : Creds, seen : Rows]]
      /\ \A q \in Procs : op'[q] # NoOp => op[q] # NoOp \/ Up(q)
  BY DEF Writes, OpWrite, TypeOK
<1> QED BY <1>1, <1>2 DEF Writes, TypeOK, Up

LEMMA WritesWithin ==
  ASSUME TypeOK, NEW p \in Procs, Writes(p), NEW ids, Within(ids)
  PROVE  Within(ids)'
<1>1. ASSUME NEW c \in Creds, row'[c] # NoRow PROVE row'[c].key \in ids \/ row'[c].revived
  <2>1. CASE row' = row
    BY <1>1, <2>1 DEF Within, Stored
  <2>2. CASE row' # row
    <3>1. PICK d \in Creds, new \in {NoRow} \cup Rows :
            /\ row' = [row EXCEPT ![d] = new]
            /\ \/ new = NoRow \/ new.revived
               \/ proc[p] # Down /\ new.key = EncryptionKey(proc[p].ring)
               \/ d \in Stored /\ ~row[d].revived /\ new.key = row[d].key
      BY <2>2 DEF Writes, RowWrite
    <3>2. new = NoRow \/ new.revived \/ new.key \in ids
      BY <3>1 DEF Within
    <3>3. c # d => row[c] # NoRow /\ row'[c] = row[c]
      BY <1>1, <3>1 DEF TypeOK
    <3>4. row'[d] = new
      BY <3>1 DEF TypeOK
    <3> QED BY <1>1, <3>2, <3>3, <3>4 DEF Within, Stored
  <2> QED BY <2>1, <2>2
<1> QED BY <1>1 DEF Within, Stored, Writes, EncryptionKey

LEMMA ProcessKeeps ==
  ASSUME KeysInv, NEW p \in Procs, Load(p) \/ Start(p) \/ Stop(p)
  PROVE  KeysInv'
<1> USE MountedIsValid DEF KeysInv, Valid, Keyrings
<1>1. TypeOK'
  <2>1. CASE Load(p)
    BY <2>1 DEF Load, TypeOK, Down
  <2>2. CASE Start(p)
    <3>1. op[p] = NoOp
      BY <2>2 DEF Start, TypeOK
    <3>2. proc[p] \in [pc : {"loaded", "up"}, ring : Keyrings]
      BY <2>2 DEF Start, TypeOK, Down
    <3> QED BY <2>2, <3>1, <3>2 DEF Start, TypeOK
  <2>3. CASE Stop(p)
    <3>1. unsure' \in [Creds -> BOOLEAN]
      BY <2>3 DEF Stop, TypeOK, WorksOn
    <3> QED BY <2>3, <3>1 DEF Stop, TypeOK
  <2> QED BY <2>1, <2>2, <2>3
<1>2. \A q \in Procs : proc'[q] # Down =>
        (proc[q] # Down /\ proc'[q].ring = proc[q].ring) \/ proc'[q].ring = Mounted
  BY DEF Load, Start, Stop, TypeOK, Down
<1>3. UNCHANGED <<step, row, checked, Mounted, Retiring, Kept>>
  BY DEF Load, Start, Stop, Mounted, Retiring, Kept
<1>4. ASSUME NEW ids, Within(ids), Mounted.active \in ids PROVE Within(ids)'
  BY <1>2, <1>3, <1>4 DEF Within, Stored, EncryptionKey
<1>5. Deployed => Deployed'
  BY <1>2, <1>3 DEF Deployed
<1> QED BY <1>1, <1>3, <1>4, <1>5

\* A row that is re-encrypted was stored, and is under the mounted active key.
LEMMA RekeyedRows ==
  ASSUME TypeOK, RekeyWrite, NEW c \in Creds
  PROVE  \/ row'[c] = row[c]
         \/ /\ row[c] \in Rows /\ row'[c] \in Rows
            /\ row'[c].key = Mounted.active
            /\ row'[c].gen = row[c].gen /\ row'[c].state = row[c].state
<1>1. rekey.cred \in Creds /\ rekey.seen \in Rows
  BY DEF RekeyWrite, TypeOK, NoRekey
<1>2. CASE row' = row
  BY <1>2
<1>3. CASE /\ row[rekey.cred] = rekey.seen
           /\ row' = [row EXCEPT ![rekey.cred] = [@ EXCEPT !.key = Mounted.active, !.revived = FALSE]]
  <2>1. PICK r \in Rows, d \in Creds, k \in KeyIds :
          r = row[d] /\ d = rekey.cred /\ k = Mounted.active
    BY <1>1, <1>3, MountedIsValid DEF Keyrings
  <2>2. PICK new : new = [r EXCEPT !.key = k, !.revived = FALSE]
    OBVIOUS
  <2>3. row' = [row EXCEPT ![d] = new]
    BY <1>1, <1>3, <2>1, <2>2 DEF TypeOK
  <2>4. new \in Rows /\ new.key = k /\ new.gen = r.gen /\ new.state = r.state
    <3>1. new = [state |-> r.state, key |-> k, gen |-> r.gen, timed |-> r.timed, revived |-> FALSE]
      BY <2>1, <2>2 DEF Rows
    <3> QED BY <2>1, <3>1 DEF Rows
  <2>5. CASE c = d
    BY <2>1, <2>3, <2>4, <2>5 DEF TypeOK
  <2>6. CASE c # d
    BY <2>3, <2>6 DEF TypeOK
  <2> QED BY <2>5, <2>6
<1> QED BY <1>2, <1>3 DEF RekeyWrite

LEMMA RekeyTyped == ASSUME TypeOK, RekeyWrite PROVE TypeOK'
<1>1. DOMAIN row' = Creds /\ row' = [c \in Creds |-> row'[c]]
  BY DEF RekeyWrite, TypeOK
<1>2. \A c \in Creds : row'[c] \in {NoRow} \cup Rows
  BY RekeyedRows DEF TypeOK
<1>3. row' \in [Creds -> {NoRow} \cup Rows]
  BY <1>1, <1>2
<1> QED BY <1>3 DEF RekeyWrite, TypeOK

\* Re-encryption writes under the mounted active key, which no ring is about to lose once
\* the check has passed.
LEMMA RekeyKeeps ==
  ASSUME KeysInv, RekeyWrite \/ \E c \in Creds : RekeyRead(c)
  PROVE  KeysInv'
<1> USE MountedIsValid DEF KeysInv, Valid, Keyrings
<1>1. ASSUME NEW c \in Creds, RekeyRead(c) PROVE KeysInv'
  <2>1. TypeOK'
    BY <1>1 DEF RekeyRead, TypeOK, Stored
  <2> QED BY <1>1, <2>1 DEF RekeyRead, Mounted, Retiring, Kept, Within, Stored, Deployed
<1>2. CASE RekeyWrite
  <2>1. TypeOK'
    BY <1>2, RekeyTyped
  <2>2. \A c \in Creds : row'[c] = row[c] \/ row'[c].key = Mounted.active
    BY <1>2, RekeyedRows
  <2>3. ASSUME NEW ids, Within(ids), Mounted.active \in ids PROVE Within(ids)'
    BY <1>2, <2>2, <2>3 DEF RekeyWrite, Within, Stored, EncryptionKey
  <2>4. UNCHANGED <<Mounted, Retiring, Kept, checked, Deployed>>
    BY <1>2 DEF RekeyWrite, Mounted, Retiring, Kept, Deployed
  <2> QED BY <2>1, <2>3, <2>4
<1> QED BY <1>1, <1>2

\* The check and the next keyring: what is stored, and what processes encrypt with, is
\* under the keys that stay.
LEMMA OperatorKeeps ==
  ASSUME KeysInv, CheckRetirement \/ Advance
  PROVE  KeysInv'
<1> USE MountedIsValid DEF KeysInv, Valid, Keyrings
<1>1. CASE CheckRetirement
  <2>1. TypeOK'
    BY <1>1 DEF CheckRetirement, TypeOK
  <2>2. Mounted.active \in Kept
    BY <1>1 DEF CheckRetirement, Kept
  <2>3. \A p \in Procs : proc[p] # Down => EncryptionKey(proc[p].ring) \in Kept
    BY <1>1, <2>2 DEF CheckRetirement, Deployed, EncryptionKey
  <2>4. \A c \in Stored : row[c].key \in Kept \/ row[c].revived
    BY <1>1 DEF CheckRetirement, References, Within, Kept
  <2>5. Within(Kept)
    BY <2>3, <2>4 DEF Within
  <2>6. UNCHANGED <<Mounted, Retiring, Kept, Deployed>> /\ Deployed
    BY <1>1 DEF CheckRetirement, Mounted, Retiring, Kept, Deployed
  <2>7. ASSUME NEW ids, Within(ids) PROVE Within(ids)'
    BY <1>1, <2>7 DEF CheckRetirement, Within, Stored
  <2> QED BY <2>1, <2>2, <2>5, <2>6, <2>7
<1>2. CASE Advance
  <2>1. TypeOK'
    <3>1. step + 1 \in 1 .. Len(Plan)
      <4>1. Len(Plan) \in Nat
        BY PlanAssumption
      <4>2. step \in 1 .. Len(Plan) /\ step < Len(Plan)
        BY <1>2 DEF Advance, TypeOK
      <4> QED BY <4>1, <4>2
    <3> QED BY <1>2, <3>1 DEF Advance, TypeOK
  <2>2. Mounted' = Plan[step + 1]
    BY <1>2 DEF Advance, Mounted
  <2>3. Within(Kept)
    <3>1. CASE Retiring = {}
      BY <3>1 DEF Kept
    <3>2. CASE Retiring # {}
      BY <1>2, <3>2 DEF Advance
    <3> QED BY <3>1, <3>2
  <2>4. Kept \subseteq Plan[step + 1].keys
    BY <1>2 DEF Advance, Kept, Retiring
  <2>5. PICK ids : ids = Plan[step + 1].keys
    OBVIOUS
  <2>6. Within(ids)
    BY <2>3, <2>4, <2>5 DEF Within
  <2>7. Within(ids)'
    BY <1>2, <2>6 DEF Advance, Within, Stored
  <2>8. Within(Mounted.keys)'
    BY <2>2, <2>5, <2>7 DEF Within
  <2> QED BY <1>2, <2>1, <2>8 DEF Advance
<1> QED BY <1>1, <1>2

LEMMA StutterKeeps == ASSUME KeysInv, UNCHANGED vars PROVE KeysInv'
BY DEF vars, KeysInv, TypeOK, Within, Stored, Deployed, Mounted, Kept, Retiring, Up

LEMMA KeysNext == ASSUME KeysInv, [Next]_vars PROVE KeysInv'
<1>1. ASSUME NEW p \in Procs, Operate(p) \/ \E c \in Creds : Store(p, c) \/ Open(p, c)
      PROVE  KeysInv'
  <2>1. TypeOK /\ Writes(p)
    BY <1>1, StepsWrite DEF KeysInv
  <2>2. TypeOK'
    BY <2>1, WritesTyped
  <2>3. ASSUME NEW ids, Within(ids) PROVE Within(ids)'
    BY <2>1, <2>3, WritesWithin
  <2>4. UNCHANGED <<Mounted, Retiring, Kept, Deployed, checked>>
    BY <2>1 DEF Writes, Mounted, Retiring, Kept, Deployed
  <2> QED BY <2>2, <2>3, <2>4 DEF KeysInv
<1> QED BY <1>1, ProcessKeeps, RekeyKeeps, OperatorKeeps, StutterKeeps DEF Next

-----------------------------------------------------------------------------

\* The state keeps its types in every behaviour.
THEOREM RotationTyped == Spec => []TypeOK
<1>1. KeysInv => TypeOK
  BY DEF KeysInv
<1> QED BY <1>1, KeysInit, KeysNext, PTL DEF Spec

\* Whatever operations run beside re-encryption and the check, and whatever they read
\* before, a credential whose key has left the mounted keyring is one that an operation
\* wrote back over its re-encryption (rekey.ts:12-22, payment-token.service.ts:54).
THEOREM RetiredStaysUnreferenced == Spec => []RetiredIsUnreferenced
<1>1. KeysInv => RetiredIsUnreferenced
  BY DEF KeysInv, Within, RetiredIsUnreferenced
<1> QED BY <1>1, KeysInit, KeysNext, PTL DEF Spec

-----------------------------------------------------------------------------
(* Running processes can read what is stored, if the operator makes a key   *)
(* active only after the ring before it held that key.                      *)

Gradual == \A i \in 1 .. Len(Plan) - 1 : Plan[i + 1].active \in Plan[i].keys

\* Each process, the ones of the ring before included, has every key that is stored, that
\* others encrypt with or begin to encrypt with, and that it read; but for rows that were
\* written back.
ReadersInv ==
  \A p \in Procs : proc[p] # Down =>
    /\ Within(proc[p].ring.keys)
    /\ Mounted.active \in proc[p].ring.keys
    /\ op[p] # NoOp => op[p].seen.key \in proc[p].ring.keys \/ op[p].seen.revived

LEMMA ReadersInit == Init => ReadersInv
BY DEF Init, ReadersInv

\* No key comes to be written but the mounted active one.
LEMMA NoOtherKey ==
  ASSUME KeysInv, [Next]_vars, NEW ids, Within(ids), Mounted.active \in ids
  PROVE  Within(ids)'
<1> USE DEF KeysInv
<1>1. ASSUME NEW p \in Procs, Operate(p) \/ \E c \in Creds : Store(p, c) \/ Open(p, c)
      PROVE  Within(ids)'
  BY <1>1, StepsWrite, WritesWithin
<1>2. ASSUME NEW p \in Procs, Load(p) \/ Start(p) \/ Stop(p) PROVE Within(ids)'
  <2>1. \A q \in Procs : proc'[q] # Down =>
          (proc[q] # Down /\ proc'[q].ring = proc[q].ring) \/ proc'[q].ring = Mounted
    BY <1>2 DEF Load, Start, Stop, TypeOK, Down
  <2>2. UNCHANGED row
    BY <1>2 DEF Load, Start, Stop
  <2> QED BY <2>1, <2>2 DEF Within, Stored, EncryptionKey
<1>3. CASE RekeyWrite
  <2>1. \A c \in Creds : row'[c] = row[c] \/ row'[c].key = Mounted.active
    BY <1>3, RekeyedRows
  <2> QED BY <1>3, <2>1 DEF RekeyWrite, Within, Stored, EncryptionKey
<1>4. CASE CheckRetirement \/ Advance \/ (\E c \in Creds : RekeyRead(c)) \/ UNCHANGED vars
  <2>1. UNCHANGED <<proc, row>>
    BY <1>4 DEF CheckRetirement, Advance, RekeyRead, vars
  <2> QED BY <2>1 DEF Within, Stored, EncryptionKey
<1> QED BY <1>1, <1>2, <1>3, <1>4 DEF Next

\* What an operation has read was stored when it read it.
LEMMA ReadsStored ==
  ASSUME KeysInv, [Next]_vars, NEW p \in Procs, op'[p] # NoOp
  PROVE  \/ op[p] # NoOp /\ op'[p].seen = op[p].seen
         \/ \E c \in Stored : op'[p].seen = row[c]
<1> USE DEF KeysInv
<1>1. CASE op'[p] = op[p]
  BY <1>1
<1>2. ASSUME NEW q \in Procs, Operate(q) \/ \E c \in Creds : Store(q, c) \/ Open(q, c)
      PROVE  \/ op[p] # NoOp /\ op'[p].seen = op[p].seen
             \/ \E c \in Stored : op'[p].seen = row[c]
  <2>1. OpWrite(q)
    BY <1>2, StepsWrite DEF Writes
  <2>2. CASE op' = op \/ op' = [op EXCEPT ![q] = NoOp]
    BY <2>2 DEF TypeOK
  <2>3. CASE \E pc \in Pcs, c \in Creds, r \in Rows :
               /\ op' = [op EXCEPT ![q] = [pc |-> pc, cred |-> c, seen |-> r]]
               /\ (op[q] # NoOp /\ r = op[q].seen) \/ (c \in Stored /\ r = row[c])
    BY <2>3 DEF TypeOK
  <2> QED BY <2>1, <2>2, <2>3 DEF OpWrite
<1>3. ASSUME NEW q \in Procs, Load(q) \/ Start(q) \/ Stop(q) PROVE op'[p] = op[p]
  BY <1>3 DEF Load, Start, Stop, TypeOK
<1>4. CASE RekeyWrite \/ CheckRetirement \/ Advance \/ (\E c \in Creds : RekeyRead(c)) \/ UNCHANGED vars
  BY <1>4 DEF RekeyWrite, CheckRetirement, Advance, RekeyRead, vars
<1> QED BY <1>1, <1>2, <1>3, <1>4 DEF Next

\* How a step changes the ring of a process.
LEMMA RingSteps ==
  ASSUME KeysInv, [Next]_vars, NEW p \in Procs, proc'[p] # Down
  PROVE  \/ proc[p] # Down /\ proc'[p].ring = proc[p].ring
         \/ Load(p)
<1> USE DEF KeysInv
<1>1. CASE proc' = proc
  BY <1>1
<1>2. ASSUME NEW q \in Procs, Operate(q) \/ \E c \in Creds : Store(q, c) \/ Open(q, c)
      PROVE  proc' = proc
  BY <1>2, StepsWrite DEF Writes
<1>3. ASSUME NEW q \in Procs, Load(q) \/ Start(q) \/ Stop(q), q # p PROVE proc'[p] = proc[p]
  BY <1>3 DEF Load, Start, Stop, TypeOK
<1>4. CASE Start(p) \/ Stop(p)
  BY <1>4 DEF Start, Stop, TypeOK, Down
<1>5. CASE RekeyWrite \/ CheckRetirement \/ Advance \/ (\E c \in Creds : RekeyRead(c)) \/ UNCHANGED vars
  BY <1>5 DEF RekeyWrite, CheckRetirement, Advance, RekeyRead, vars
<1> QED BY <1>1, <1>2, <1>3, <1>4, <1>5 DEF Next

LEMMA StepSteps == ASSUME KeysInv, [Next]_vars PROVE UNCHANGED step \/ Advance
<1>1. ASSUME NEW q \in Procs, Operate(q) \/ \E c \in Creds : Store(q, c) \/ Open(q, c)
      PROVE  UNCHANGED step
  BY <1>1, StepsWrite DEF Writes, KeysInv
<1>2. ASSUME NEW q \in Procs, Load(q) \/ Start(q) \/ Stop(q) PROVE UNCHANGED step
  BY <1>2 DEF Load, Start, Stop
<1>3. CASE RekeyWrite \/ CheckRetirement \/ (\E c \in Creds : RekeyRead(c)) \/ UNCHANGED vars
  BY <1>3 DEF RekeyWrite, CheckRetirement, RekeyRead, vars
<1> QED BY <1>1, <1>2, <1>3 DEF Next

LEMMA ReadersNext ==
  ASSUME Gradual, KeysInv, ReadersInv, [Next]_vars
  PROVE  ReadersInv'
<1> SUFFICES ASSUME NEW p \in Procs, proc'[p] # Down
             PROVE  /\ Within(proc[p].ring.keys)'
                    /\ Mounted'.active \in proc'[p].ring.keys
                    /\ op'[p] # NoOp => op'[p].seen.key \in proc'[p].ring.keys \/ op'[p].seen.revived
  BY DEF ReadersInv
<1> PICK ids : ids = proc'[p].ring.keys
  OBVIOUS
<1> SUFFICES /\ Within(ids)' /\ Mounted'.active \in ids
             /\ op'[p] # NoOp => op'[p].seen.key \in ids \/ op'[p].seen.revived
  BY DEF Within
<1> USE DEF KeysInv
<1>1. CASE proc[p] # Down /\ proc'[p].ring = proc[p].ring
  <2>1. /\ Within(ids) /\ Mounted.active \in ids
        /\ op[p] # NoOp => op[p].seen.key \in ids \/ op[p].seen.revived
    BY <1>1 DEF ReadersInv, Within
  <2>2. op'[p] # NoOp => op'[p].seen.key \in ids \/ op'[p].seen.revived
    BY <2>1, ReadsStored DEF Within
  <2>3. CASE UNCHANGED step
    BY <2>1, <2>2, <2>3, NoOtherKey DEF Mounted
  <2>4. CASE Advance
    <3>1. Len(Plan) \in Nat
      BY PlanAssumption
    <3>2. step \in 1 .. Len(Plan) - 1
      BY <2>4, <3>1 DEF Advance, TypeOK
    <3>3. proc[p].ring = Mounted /\ Mounted' = Plan[step + 1]
      BY <1>1, <2>4 DEF Advance, Deployed, Mounted
    <3> QED BY <1>1, <2>1, <2>2, <3>2, <3>3, NoOtherKey DEF Gradual, Mounted
  <2> QED BY <2>3, <2>4, StepSteps
<1>2. CASE Load(p)
  <2>1. ids = Mounted.keys /\ Mounted' = Mounted
    BY <1>2 DEF Load, TypeOK, Mounted
  <2>2. Within(ids) /\ Mounted.active \in ids
    BY <2>1, MountedIsValid DEF Within, Valid
  <2>3. op'[p] = NoOp
    BY <1>2 DEF Load, TypeOK, Down
  <2> QED BY <2>1, <2>2, <2>3, NoOtherKey
<1> QED BY <1>1, <1>2, RingSteps

\* With a gradual plan, every process that serves can decrypt every stored credential that
\* was not written back, during a deployment and after a retirement too (server.ts:26,
\* payment-token.service.ts:36-37).
THEOREM GradualPlanIsReadable == ASSUME Gradual PROVE Spec => []RunningCanRead
<1>1. KeysInv /\ ReadersInv => RunningCanRead
  <2> SUFFICES ASSUME KeysInv, ReadersInv, NEW p \in Procs, NEW c \in Stored, Up(p)
               PROVE  CanDecrypt(p, row[c]) \/ row[c].revived
    BY DEF RunningCanRead
  <2>1. proc[p] # Down
    BY DEF KeysInv, TypeOK, Up, Down
  <2> QED BY <2>1 DEF ReadersInv, Within, CanDecrypt
<1>2. KeysInv /\ ReadersInv /\ [Next]_vars => KeysInv' /\ ReadersInv'
  BY KeysNext, ReadersNext
<1> QED BY <1>1, <1>2, KeysInit, ReadersInit, PTL DEF Spec

-----------------------------------------------------------------------------
(* With a gradual plan a credential is not given up for want of a key.      *)

\* The operation that works on c is the only one, it saw the generation that is stored,
\* and a rotation that nobody carries on any more is remembered as unsure.
Handled(c) ==
  /\ \A p, q \in Procs : WorksOn(p, c) /\ WorksOn(q, c) => p = q
  /\ \A p \in Procs : WorksOn(p, c) =>
       /\ row[c] # NoRow /\ row[c].gen = op[p].seen.gen
       /\ op[p].pc = "failed" \/ Opened(p, "ROTATING") => unsure[c]
  /\ row[c] # NoRow /\ row[c].state = "UNAVAILABLE" => unsure[c]
  /\ row[c] # NoRow /\ row[c].state = "ROTATING" =>
       unsure[c] \/ \E p \in Procs : WorksOn(p, c) /\ op[p].pc # "opened"

\* Nothing that concerns c changes but the key of its row.
LEMMA OtherHandled ==
  ASSUME NEW c \in Creds, Handled(c),
         row'[c] # NoRow <=> row[c] # NoRow,
         row[c] # NoRow => row'[c].gen = row[c].gen /\ row'[c].state = row[c].state,
         unsure'[c] = unsure[c],
         \A p \in Procs : WorksOn(p, c)' <=> WorksOn(p, c),
         \A p \in Procs : WorksOn(p, c) => op'[p] = op[p]
  PROVE  Handled(c)'
BY DEF Handled, Opened

\* The operation on c ends, and leaves no rotation that is not remembered.
LEMMA EndHandled ==
  ASSUME TypeOK, NEW p \in Procs, op[p] # NoOp, NEW c \in Creds, c = op[p].cred, Handled(c),
         Ends(p),
         row'[c] # NoRow /\ row'[c].state # "READY" => unsure'[c]
  PROVE  Handled(c)'
<1>1. \A q \in Procs : ~WorksOn(q, c)'
  BY DEF Ends, WorksOn, Handled, TypeOK
<1> QED BY <1>1 DEF Handled

\* It goes on with the rotation.
LEMMA MoveHandled ==
  ASSUME TypeOK, NEW p \in Procs, op[p] # NoOp, NEW c \in Creds, c = op[p].cred, Handled(c),
         NEW pc \in Pcs \ {"opened"}, NEW r \in Rows,
         op' = [op EXCEPT ![p] = [pc |-> pc, cred |-> c, seen |-> r]],
         row'[c] # NoRow /\ row'[c].gen = r.gen,
         pc = "failed" \/ row'[c].state = "UNAVAILABLE" => unsure'[c]
  PROVE  Handled(c)'
<1>1. PICK o : o = [pc |-> pc, cred |-> c, seen |-> r]
  OBVIOUS
<1>2. o.pc = pc /\ o.cred = c /\ o.seen = r /\ o # NoOp
  BY <1>1 DEF NoOp
<1>3. op'[p] = o /\ \A q \in Procs : q # p => op'[q] = op[q]
  BY <1>1 DEF TypeOK
<1>4. WorksOn(p, c)' /\ \A q \in Procs : WorksOn(q, c)' => q = p
  BY <1>2, <1>3 DEF Handled, WorksOn
<1> QED BY <1>2, <1>3, <1>4 DEF Handled, Opened

\* What a save leaves of the stored row that an operation works on.
LEMMA SaveStored ==
  ASSUME TypeOK, NEW c \in Creds, NEW gen, NEW new \in Rows, Save(c, gen, new)
  PROVE  /\ row'[c] # NoRow /\ row'[c].gen = new.gen /\ row'[c].state = new.state
         /\ \A d \in Creds : d # c => row'[d] = row[d]
<1>1. PICK s \in Rows : row' = [row EXCEPT ![c] = s] /\ s.gen = new.gen /\ s.state = new.state
  BY SaveWrites
<1>2. s # NoRow
  BY DEF Rows, NoRow
<1> QED BY <1>1, <1>2 DEF TypeOK

LEMMA SeenStored ==
  ASSUME TypeOK, NEW p \in Procs, op[p] # NoOp, NEW c \in Creds, c = op[p].cred,
         NEW s \in {"READY", "ROTATING", "UNAVAILABLE"}, NEW t \in BOOLEAN, SavesSeen(p, s, t)
  PROVE  /\ row'[c] # NoRow /\ row'[c].gen = op[p].seen.gen /\ row'[c].state = s
         /\ \A d \in Creds : d # c => row'[d] = row[d]
<1>1. PICK new : new = Copy(p, s, t)
  OBVIOUS
<1>2. new \in Rows /\ new.gen = op[p].seen.gen /\ new.state = s
  BY <1>1, CopyTypes
<1>3. Save(c, op[p].seen.gen, new)
  BY <1>1 DEF SavesSeen
<1> QED BY <1>2, <1>3, SaveStored

LEMMA RotateStored ==
  ASSUME TypeOK, NEW p \in Procs, op[p] # NoOp, NEW c \in Creds, c = op[p].cred, Rotate(p)
  PROVE  /\ row'[c].state = "READY"
         /\ \A d \in Creds : d # c => row'[d] = row[d]
<1>1. op[p].seen \in Rows /\ Up(p)
  BY OperationTypes
<1>2. PICK t \in BOOLEAN : Save(c, op[p].seen.gen, Encrypted(p, op[p].seen.gen + 1, t))
  BY DEF Rotate
<1>3. PICK gen : gen = op[p].seen.gen + 1
  OBVIOUS
<1>4. gen \in 1 .. MaxGen
  BY <1>1, <1>3, PlanAssumption DEF Rows, Rotate
<1>5. PICK new : new = Encrypted(p, gen, t)
  OBVIOUS
<1>6. new \in Rows /\ new.state = "READY"
  BY <1>1, <1>4, <1>5, EncryptedRow
<1>7. Save(c, op[p].seen.gen, new)
  BY <1>2, <1>3, <1>5
<1> QED BY <1>6, <1>7, SaveStored

\* An operation of p leaves the other credentials as they were.
LEMMA OperationsApart ==
  ASSUME TypeOK, NEW p \in Procs, op[p] # NoOp, NEW d \in Creds, d # op[p].cred,
         \A q \in Procs : q # p => op'[q] = op[q],
         op'[p] = NoOp \/ op'[p].cred = op[p].cred
  PROVE  \A q \in Procs : /\ WorksOn(q, d)' <=> WorksOn(q, d)
                          /\ WorksOn(q, d) => op'[q] = op[q]
BY DEF WorksOn

\* How an operation goes on: with the row as it read it, or as it reads it now.
LEMMA OperationMoves ==
  ASSUME TypeOK, NEW p \in Procs, Operate(p)
  PROVE  /\ \A q \in Procs : q # p => op'[q] = op[q]
         /\ op'[p] = NoOp \/ op'[p].cred = op[p].cred
<1>1. op[p] # NoOp
  BY Operating
<1>2. op[p] \in [pc : Pcs, cred : Creds, seen : Rows]
  BY <1>1, OperationTypes
<1>3. CASE Ends(p)
  BY <1>3 DEF Ends, TypeOK
<1>4. CASE Moves(p, "rotating")
  BY <1>2, <1>4 DEF Moves, TypeOK
<1>5. ASSUME NEW pc \in Pcs, Catches(p, pc)
      PROVE  /\ \A q \in Procs : q # p => op'[q] = op[q]
             /\ op'[p] = NoOp \/ op'[p].cred = op[p].cred
  <2>1. PICK o : o = [pc |-> pc, cred |-> op[p].cred, seen |-> row[op[p].cred]]
    OBVIOUS
  <2>2. op' = [op EXCEPT ![p] = o] /\ o.cred = op[p].cred
    BY <1>5, <2>1 DEF Catches
  <2> QED BY <2>2 DEF TypeOK
<1>6. Ends(p) \/ Moves(p, "rotating") \/ \E pc \in Pcs : Catches(p, pc)
  BY DEF Operate, Resolve, Close, Disown, Remove, Mark, Rotate, Withhold, Fail, Restore, GiveUp,
         Abandon, Pcs
<1> QED BY <1>3, <1>4, <1>5, <1>6

LEMMA OperationHandled ==
  ASSUME KeysInv, ReadersInv, NEW p \in Procs, Operate(p), \A c \in Creds : Handled(c)
  PROVE  \A c \in Creds : Handled(c)'
<1> USE DEF KeysInv
<1>1. op[p] # NoOp
  BY Operating
<1>2. PICK c \in Creds : c = op[p].cred
  BY <1>1, OperationTypes
<1>3. op[p].seen \in Rows /\ op[p].seen.timed \in BOOLEAN /\ WorksOn(p, c) /\ Handled(c)
  BY <1>1, <1>2, OperationTypes DEF WorksOn, Rows
<1>4. row[c] \in Rows /\ row[c] # NoRow /\ row[c].gen = op[p].seen.gen
  BY <1>3 DEF Handled, TypeOK
<1>5. Unsure(p) => unsure'[c] /\ \A d \in Creds : d # c => unsure'[d] = unsure[d]
  BY <1>2 DEF Unsure, TypeOK
<1>6. ASSUME NEW d \in Creds, d # c, row'[d] = row[d], unsure'[d] = unsure[d] PROVE Handled(d)'
  <2>1. \A q \in Procs : (WorksOn(q, d)' <=> WorksOn(q, d)) /\ (WorksOn(q, d) => op'[q] = op[q])
    BY <1>1, <1>2, <1>6, OperationMoves, OperationsApart
  <2> QED BY <1>6, <2>1, OtherHandled
<1>7. ASSUME \A d \in Creds : d # c => row'[d] = row[d] /\ unsure'[d] = unsure[d], Handled(c)'
      PROVE  \A d \in Creds : Handled(d)'
  BY <1>6, <1>7
<1>8. CASE Resolve(p)
  <2>1. unsure[c] /\ unsure' = unsure /\ Ends(p)
    BY <1>3, <1>8 DEF Resolve, Handled
  <2>2. \A d \in Creds : d # c => row'[d] = row[d]
    BY <1>1, <1>2, <1>8, SeenStored DEF Resolve
  <2>3. Handled(c)'
    BY <1>1, <1>2, <1>3, <2>1, EndHandled
  <2> QED BY <1>7, <2>1, <2>2, <2>3
<1>9. CASE Close(p)
  <2>1. UNCHANGED <<row, unsure>> /\ Ends(p) /\ op[p].pc = "opened"
    BY <1>9 DEF Close
  <2>2. row[c].state # "READY" => unsure[c]
    <3>1. \A q \in Procs : WorksOn(q, c) => op[q].pc = "opened"
      BY <1>3, <2>1 DEF Handled
    <3> QED BY <1>3, <1>4, <3>1 DEF Handled, Rows
  <2>3. Handled(c)'
    BY <1>1, <1>2, <1>3, <2>1, <2>2, EndHandled
  <2> QED BY <1>7, <2>1, <2>3
<1>10. CASE Disown(p)
  <2>1. \A d \in Creds : d # c => row'[d] = row[d]
    BY <1>1, <1>2, <1>3, <1>10, SeenStored DEF Disown
  <2>2. Handled(c)'
    BY <1>1, <1>2, <1>3, <1>5, <1>10, EndHandled DEF Disown
  <2> QED BY <1>5, <1>7, <1>10, <2>1, <2>2 DEF Disown
<1>11. CASE Remove(p)
  <2>1. row' = [row EXCEPT ![c] = NoRow] /\ unsure' = unsure /\ Ends(p)
    BY <1>2, <1>11 DEF Remove
  <2>2. row'[c] = NoRow /\ \A d \in Creds : d # c => row'[d] = row[d]
    BY <2>1 DEF TypeOK
  <2>3. Handled(c)'
    BY <1>1, <1>2, <1>3, <2>1, <2>2, EndHandled
  <2> QED BY <1>7, <2>1, <2>2, <2>3
<1>12. CASE Mark(p)
  <2>1. PICK r \in Rows : r = op[p].seen
    BY <1>3
  <2>2. op' = [op EXCEPT ![p] = [pc |-> "rotating", cred |-> c, seen |-> r]]
    <3>1. op[p] \in [pc : Pcs, cred : Creds, seen : Rows]
      BY <1>1, OperationTypes
    <3>2. [op[p] EXCEPT !.pc = "rotating"] = [pc |-> "rotating", cred |-> c, seen |-> r]
      BY <1>2, <2>1, <3>1
    <3>3. op' = [op EXCEPT ![p] = [op[p] EXCEPT !.pc = "rotating"]]
      BY <1>12 DEF Mark, Moves
    <3> QED BY <3>2, <3>3
  <2>3. /\ row'[c] # NoRow /\ row'[c].gen = r.gen /\ row'[c].state = "ROTATING"
        /\ \A d \in Creds : d # c => row'[d] = row[d]
    BY <1>1, <1>2, <1>12, <2>1, SeenStored DEF Mark
  <2>4. "rotating" \in Pcs \ {"opened"}
    BY DEF Pcs
  <2>5. Handled(c)'
    BY <1>1, <1>2, <1>3, <2>2, <2>3, <2>4, MoveHandled
  <2> QED BY <1>7, <1>12, <2>3, <2>5 DEF Mark
<1>13. CASE Rotate(p)
  <2>1. row'[c].state = "READY" /\ \A d \in Creds : d # c => row'[d] = row[d]
    BY <1>1, <1>2, <1>13, RotateStored
  <2>2. unsure' = unsure /\ Ends(p)
    BY <1>13 DEF Rotate
  <2>3. Handled(c)'
    BY <1>1, <1>2, <1>3, <2>1, <2>2, EndHandled
  <2> QED BY <1>7, <2>1, <2>2, <2>3
<1>14. CASE Withhold(p)
  <2>1. UNCHANGED <<row, unsure>> /\ "unoffered" \in Pcs \ {"opened"}
    BY <1>14 DEF Withhold, Catches, Pcs
  <2>2. op' = [op EXCEPT ![p] = [pc |-> "unoffered", cred |-> c, seen |-> row[c]]]
    BY <1>1, <1>2, <1>14, <2>1, CatchesMoves DEF Withhold
  <2>3. Handled(c)'
    <3>1. row'[c].state = "UNAVAILABLE" => unsure'[c]
      BY <1>3, <1>4, <2>1 DEF Handled
    <3> QED BY <1>1, <1>2, <1>3, <1>4, <2>1, <2>2, <3>1, MoveHandled
  <2> QED BY <1>7, <2>1, <2>3
<1>15. CASE Fail(p)
  <2>1. CanDecrypt(p, op[p].seen) \/ op[p].seen.revived
    BY <1>1, OperationTypes DEF ReadersInv, CanDecrypt
  <2>2. unsure'[c] /\ \A d \in Creds : d # c => unsure'[d] = unsure[d]
    BY <1>2, <1>15, <2>1 DEF Fail, TypeOK
  <2>3. row' = row /\ "failed" \in Pcs \ {"opened"}
    BY <1>15 DEF Fail, Catches, Pcs
  <2>4. op' = [op EXCEPT ![p] = [pc |-> "failed", cred |-> c, seen |-> row[c]]]
    BY <1>1, <1>2, <1>15, <2>3, CatchesMoves DEF Fail
  <2>5. Handled(c)'
    BY <1>1, <1>2, <1>3, <1>4, <2>2, <2>3, <2>4, MoveHandled
  <2> QED BY <1>7, <2>2, <2>3, <2>5
<1>16. CASE Restore(p)
  <2>1. row'[c].state = "READY" /\ \A d \in Creds : d # c => row'[d] = row[d]
    BY <1>1, <1>2, <1>3, <1>16, SeenStored DEF Restore
  <2>2. unsure' = unsure /\ Ends(p)
    BY <1>16 DEF Restore
  <2>3. Handled(c)'
    BY <1>1, <1>2, <1>3, <2>1, <2>2, EndHandled
  <2> QED BY <1>7, <2>1, <2>2, <2>3
<1>17. CASE GiveUp(p)
  <2>1. unsure[c] /\ unsure' = unsure /\ Ends(p)
    BY <1>3, <1>17 DEF GiveUp, Handled
  <2>2. \A d \in Creds : d # c => row'[d] = row[d]
    BY <1>1, <1>2, <1>17, SeenStored DEF GiveUp
  <2>3. Handled(c)'
    BY <1>1, <1>2, <1>3, <2>1, EndHandled
  <2> QED BY <1>7, <2>1, <2>2, <2>3
<1>18. CASE Abandon(p)
  <2>1. Handled(c)'
    BY <1>1, <1>2, <1>3, <1>5, <1>18, EndHandled DEF Abandon
  <2> QED BY <1>5, <1>7, <1>18, <2>1 DEF Abandon
<1> QED BY <1>8, <1>9, <1>10, <1>11, <1>12, <1>13, <1>14, <1>15, <1>16, <1>17, <1>18 DEF Operate

\* An operation begins with the row as it is stored.
LEMMA BeginHandled ==
  ASSUME TypeOK, NEW p \in Procs, NEW e \in Creds, Store(p, e) \/ Open(p, e),
         \A c \in Creds : Handled(c)
  PROVE  \A c \in Creds : Handled(c)'
<1>1. \A q \in Procs : ~WorksOn(q, e)
  BY DEF Store, Open, Free
<1>2. ASSUME NEW d \in Creds, d # e PROVE Handled(d)'
  <2>1. row'[d] = row[d] /\ unsure'[d] = unsure[d]
    BY <1>2 DEF Store, Open, TypeOK
  <2>2. \A q \in Procs : /\ WorksOn(q, d)' <=> WorksOn(q, d)
                         /\ WorksOn(q, d) => op'[q] = op[q]
    BY <1>2 DEF Store, Open, WorksOn, TypeOK
  <2> QED BY <2>1, <2>2, OtherHandled
<1>3. CASE Store(p, e)
  <2>1. \A q \in Procs : ~WorksOn(q, e)'
    BY <1>1, <1>3 DEF Store, WorksOn
  <2>2. row'[e].state = "READY"
    BY <1>3 DEF Store, Encrypted, TypeOK
  <2>3. Handled(e)'
    BY <2>1, <2>2 DEF Handled
  <2> QED BY <1>2, <2>3
<1>4. CASE Open(p, e)
  <2>1. UNCHANGED <<row, unsure>> /\ row[e] # NoRow /\ op'[p].seen = row[e]
        /\ \A q \in Procs : WorksOn(q, e)' => q = p
    BY <1>1, <1>4 DEF Open, WorksOn, TypeOK
  <2>2. op'[p].pc = "opened"
    BY <1>4 DEF Open, TypeOK
  <2>3. row[e].state \in {"ROTATING", "UNAVAILABLE"} => unsure[e]
    BY <1>1, <2>1 DEF Handled
  <2>4. \A q \in Procs : WorksOn(q, e)' =>
          /\ row'[e] # NoRow /\ row'[e].gen = op'[q].seen.gen
          /\ op'[q].pc = "failed" \/ Opened(q, "ROTATING")' => unsure'[e]
    BY <2>1, <2>2, <2>3 DEF Opened
  <2>5. Handled(e)'
    BY <2>1, <2>3, <2>4 DEF Handled
  <2> QED BY <1>2, <2>5
<1> QED BY <1>3, <1>4

\* A stopped process leaves its rotation unsure.
LEMMA StopHandled ==
  ASSUME TypeOK, NEW p \in Procs, Stop(p), NEW c \in Creds, Handled(c)
  PROVE  Handled(c)'
<1>1. /\ row' = row
      /\ op'[p] = NoOp /\ \A q \in Procs : q # p => op'[q] = op[q]
      /\ unsure'[c] = (unsure[c] \/ (WorksOn(p, c) /\ op[p].pc # "opened"))
  BY DEF Stop, TypeOK
<1>2. ~WorksOn(p, c)' /\ \A q \in Procs : q # p => (WorksOn(q, c)' <=> WorksOn(q, c))
  BY <1>1 DEF WorksOn
<1>3. unsure[c] => unsure'[c]
  BY <1>1
<1>4. row[c] # NoRow /\ row[c].state = "ROTATING" =>
        unsure'[c] \/ \E q \in Procs : WorksOn(q, c)' /\ op'[q].pc # "opened"
  BY <1>1, <1>2 DEF Handled
<1>5. \A q \in Procs : WorksOn(q, c)' =>
        /\ WorksOn(q, c) /\ op'[q] = op[q]
        /\ Opened(q, "ROTATING")' <=> Opened(q, "ROTATING")
  BY <1>1, <1>2 DEF Opened
<1> QED BY <1>1, <1>3, <1>4, <1>5 DEF Handled

\* Re-encryption changes the key of a row, and neither its state nor its generation.
LEMMA RekeyHandled ==
  ASSUME TypeOK, RekeyWrite, NEW c \in Creds, Handled(c)
  PROVE  Handled(c)'
<1>1. /\ row'[c] # NoRow <=> row[c] # NoRow
      /\ row[c] # NoRow => row'[c].gen = row[c].gen /\ row'[c].state = row[c].state
  BY RekeyedRows DEF Rows, NoRow
<1> QED BY <1>1, OtherHandled DEF RekeyWrite, WorksOn

LEMMA HandledNext ==
  ASSUME KeysInv, ReadersInv, \A c \in Creds : Handled(c), [Next]_vars
  PROVE  \A c \in Creds : Handled(c)'
<1> USE DEF KeysInv
<1>1. ASSUME UNCHANGED <<row, op, unsure>> PROVE \A c \in Creds : Handled(c)'
  BY <1>1 DEF Handled, WorksOn, Opened
<1>2. CASE (\E p \in Procs : Load(p) \/ Start(p)) \/ (\E c \in Creds : RekeyRead(c))
           \/ CheckRetirement \/ Advance \/ UNCHANGED vars
  BY <1>1, <1>2 DEF Load, Start, RekeyRead, CheckRetirement, Advance, vars
<1> QED BY <1>2, OperationHandled, BeginHandled, StopHandled, RekeyHandled DEF Next

\* With a gradual plan no credential is given up for want of a key: either its provider
\* refused it, or a rotation of it failed or stayed unanswered, or its process died, or it
\* had been written back (payment-token.service.ts:59-75).
THEOREM GradualPlanGivesUpNothing == ASSUME Gradual PROVE Spec => []GivenUpIsUnsure
<1> DEFINE AllHandled == \A c \in Creds : Handled(c)
<1>1. Init => AllHandled
  BY DEF Init, Handled, WorksOn
<1>2. AllHandled => GivenUpIsUnsure
  BY DEF Handled, GivenUpIsUnsure, Stored
<1>3. KeysInv /\ ReadersInv /\ AllHandled /\ [Next]_vars => KeysInv' /\ ReadersInv' /\ AllHandled'
  BY KeysNext, ReadersNext, HandledNext
<1> QED BY <1>1, <1>2, <1>3, KeysInit, ReadersInit, PTL DEF Spec
=============================================================================
