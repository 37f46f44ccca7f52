-------------------------- MODULE SchemaUpgradeProofs --------------------------
(***************************************************************************)
(* What the upgrade keeps, for every database of the old version: any      *)
(* users, addresses, wallets and grants.                                   *)
(***************************************************************************)
EXTENDS SchemaUpgrade, TLAPS

USE DEF Finished, Statuses, TransferRows

LEMMA PartialType ==
  ASSUME NEW S, NEW T, NEW f
  PROVE  f \in Partial(S, T) <=> (f = [x \in DOMAIN f |-> f[x]] /\ DOMAIN f \subseteq S
                                  /\ \A x \in DOMAIN f : f[x] \in T)
  BY DEF Partial

-----------------------------------------------------------------------------
(* The strengthening: after the linkage migration addresses are canonical, *)
(* so that what the index compares is the wallet itself.                   *)

WalletsInv ==
  applied >= 2 =>
    /\ \A w \in DOMAIN wallets : wallets[w].spelling = "canonical" /\ wallets[w].status # "ACTIVE"
    /\ LinkedOnce(wallets)

(* A transfer that can still be submitted was never instructed, and the    *)
(* new version submits only with a credential of its own.                  *)
TransferInv ==
  /\ transfer.sent <= 1
  /\ transfer.status \in {"AWAITING_AUTHORIZATION", "AUTHORIZED"} => transfer.sent = 0
  /\ applied = 3 /\ transfer.legacy /\ transfer.status = "SUBMITTING" => transfer.credential

GrantsInv ==
  /\ tables = "none" => DOMAIN grants = {}
  /\ applied < 2 => attested = {} /\ access = {}

IInv == TypeOK /\ WalletsInv /\ TransferInv /\ GrantsInv /\ LeftToRecovery /\ NothingInvented

(* The initial databases satisfy it. *)
LEMMA InitKeeps == Init => IInv
  <1> SUFFICES ASSUME Init PROVE IInv
    OBVIOUS
  <1>0. /\ core \in {"absent", "known", "missing"} /\ applied = 0 /\ running = FALSE
        /\ wallets \in Partial(Wallets, WalletRows) /\ grants \in Partial(Grants, GrantRows)
        /\ tables \in {"none", "mixed", "legacy", "both"} /\ columns \in BOOLEAN
        /\ attested = {} /\ access = {}
        /\ transfer \in TransferRows /\ OldTransfer(transfer)
        /\ tables = "none" => DOMAIN grants = {}
    BY Zenon DEF Init
  <1>1. TransferInv
    <2>1. CASE transfer.status = "NONE"
      BY <1>0, <2>1 DEF OldTransfer, NoTransfer, TransferInv
    <2>2. CASE transfer.status # "NONE"
      BY <1>0, <2>2 DEF OldTransfer, MaybeSent, TransferInv
    <2> QED
      BY <2>1, <2>2
  <1>2. TypeOK
    <2>1. applied \in 0 .. 3 /\ attested \subseteq Grants /\ access \subseteq Grants
      BY <1>0
    <2>2. running \in BOOLEAN
      BY <1>0
    <2> QED
      BY <1>0, <2>1, <2>2, Zenon DEF TypeOK
  <1> QED
    BY <1>0, <1>1, <1>2 DEF IInv, WalletsInv, GrantsInv, LeftToRecovery, NothingInvented

(* A step that leaves the transfer alone. *)
LEMMA TransferKept ==
  ASSUME IInv, UNCHANGED transfer, applied' \in {applied, 1, 2}
  PROVE  TransferInv' /\ LeftToRecovery'
  BY DEF IInv, TransferInv, LeftToRecovery, TypeOK

(* A step that leaves the wallets alone. *)
LEMMA WalletsKept ==
  ASSUME IInv, UNCHANGED wallets, applied' \in {applied, 1} \/ applied \in {2, 3}
  PROVE  WalletsInv'
  <1>1. applied' >= 2 => applied >= 2
    BY DEF IInv, TypeOK
  <1>2. LinkedOnce(wallets) => LinkedOnce(wallets)'
    BY DEF LinkedOnce
  <1> QED
    BY <1>1, <1>2 DEF IInv, WalletsInv

(* The migrations. *)
LEMMA LinkageKeeps ==
  ASSUME IInv, Linkage
  PROVE  IInv'
  <1>0. applied = 1 /\ applied' = 2
    BY DEF Linkage, Migrate, IInv, TypeOK
  <1>1. wallets' = Upgraded(wallets) /\ DOMAIN wallets' = DOMAIN wallets
    BY DEF Linkage, Upgraded
  <1>2. ASSUME NEW w \in DOMAIN wallets
        PROVE  /\ wallets'[w] \in WalletRows
               /\ wallets'[w].spelling = "canonical" /\ wallets'[w].status # "ACTIVE"
    <2>1. wallets[w] \in WalletRows
      BY PartialType DEF IInv, TypeOK
    <2> QED
      BY <1>1, <2>1 DEF Upgraded, Converted, Canonical, WalletRows, Spellings
  <1>3. wallets' \in Partial(Wallets, WalletRows)
    <2>1. DOMAIN wallets \subseteq Wallets
      BY PartialType DEF IInv, TypeOK
    <2>2. wallets' = [w \in DOMAIN wallets' |-> wallets'[w]]
      BY <1>1 DEF Upgraded
    <2> QED
      BY <1>1, <1>2, <2>1, <2>2, PartialType
  <1>4. WalletsInv'
    BY <1>1, <1>2 DEF Linkage, Refused, WalletsInv
  <1>5. attested' \subseteq Grants /\ access' \subseteq Grants
    BY PartialType DEF Linkage, Copied, IInv, TypeOK
  <1>6. TypeOK'
    BY <1>0, <1>3, <1>5 DEF Linkage, Migrate, IInv, TypeOK
  <1>7. TransferInv' /\ LeftToRecovery'
    BY <1>0, TransferKept DEF Linkage
  <1>8. GrantsInv' /\ NothingInvented'
    BY <1>0 DEF Linkage, Copied, IInv, GrantsInv, NothingInvented, TypeOK
  <1> QED
    BY <1>4, <1>6, <1>7, <1>8 DEF IInv

LEMMA AuthorityKeeps ==
  ASSUME IInv, Authority
  PROVE  IInv'
  <1>0. applied = 2 /\ applied' = 3
    BY DEF Authority, Migrate, IInv, TypeOK
  <1>1. transfer \in TransferRows /\ TransferInv
    BY DEF IInv, TypeOK
  <1>2. transfer' \in TransferRows /\ TransferInv' /\ LeftToRecovery'
    BY <1>0, <1>1 DEF Authority, Recovered, TransferInv, LeftToRecovery
  <1>3. UNCHANGED rows /\ UNCHANGED core /\ UNCHANGED running
    BY DEF Authority, Migrate
  <1>4. TypeOK'
    BY <1>0, <1>2, <1>3 DEF IInv, TypeOK, rows
  <1>5. WalletsInv'
    BY <1>0, <1>3, WalletsKept DEF rows
  <1>6. GrantsInv' /\ NothingInvented'
    BY <1>0, <1>3 DEF IInv, GrantsInv, NothingInvented, rows
  <1> QED
    BY <1>2, <1>4, <1>5, <1>6 DEF IInv

LEMMA BaselineKeeps ==
  ASSUME IInv, Baseline
  PROVE  IInv'
  <1>0. applied = 0 /\ applied' = 1
    BY DEF Baseline, Migrate, IInv, TypeOK
  <1>1. UNCHANGED rows /\ UNCHANGED transfer /\ UNCHANGED running /\ core' = "known"
    BY DEF Baseline, Migrate
  <1>2. TypeOK'
    BY <1>0, <1>1 DEF IInv, TypeOK, rows
  <1>3. TransferInv' /\ LeftToRecovery'
    BY <1>0, <1>1, TransferKept
  <1> QED
    BY <1>0, <1>1, <1>2, <1>3 DEF IInv, WalletsInv, GrantsInv, NothingInvented, rows

-----------------------------------------------------------------------------
(* The operator acts before the last migration. *)
LEMMA OperatorKeeps ==
  ASSUME IInv, Operator
  PROVE  IInv'
  <1>0. applied < 3 /\ applied' = applied /\ UNCHANGED <<running, columns, attested, access>>
    BY DEF Operator, ResolveCore, ResolveTables, ResolveAmounts, Unlink, Delete, Stopped
  <1>1. CASE ResolveCore \/ ResolveTables
    <2>1. UNCHANGED <<wallets, grants, transfer>> /\ (tables' = tables \/ tables' = "legacy")
      BY <1>1 DEF ResolveCore, ResolveTables
    <2>2. TypeOK'
      BY <1>0, <1>1, <2>1 DEF ResolveCore, ResolveTables, IInv, TypeOK
    <2>3. TransferInv' /\ LeftToRecovery' /\ WalletsInv'
      BY <1>0, <2>1, TransferKept, WalletsKept
    <2> QED
      BY <1>0, <2>1, <2>2, <2>3 DEF IInv, GrantsInv, NothingInvented
  <1>2. CASE ResolveAmounts
    <2>1. UNCHANGED <<core, wallets, grants, tables>>
      BY <1>2 DEF ResolveAmounts
    <2>2. transfer' \in TransferRows /\ TransferInv' /\ LeftToRecovery'
      BY <1>0, <1>2 DEF ResolveAmounts, IInv, TypeOK, TransferInv, LeftToRecovery
    <2>3. TypeOK'
      BY <1>0, <2>1, <2>2 DEF IInv, TypeOK
    <2> QED
      BY <1>0, <2>1, <2>2, <2>3, WalletsKept DEF IInv, GrantsInv, NothingInvented
  <1>3. ASSUME NEW v \in DOMAIN wallets, Unlink(v) \/ Delete(v)
        PROVE  IInv'
    <2>0. applied = 1
      BY <1>3 DEF Unlink, Delete
    <2>1. wallets \in Partial(Wallets, WalletRows) /\ grants \in Partial(Grants, GrantRows)
      BY DEF IInv, TypeOK
    <2>2. wallets' \in Partial(Wallets, WalletRows)
      <3>1. CASE Unlink(v)
        <4>1. wallets' = [wallets EXCEPT ![v].status = "UNLINKED"]
          BY <3>1 DEF Unlink
        <4>2. ASSUME NEW w \in DOMAIN wallets PROVE wallets'[w] \in WalletRows
          <5>1. wallets[w] \in WalletRows
            BY <2>1, PartialType
          <5>2. wallets'[w] = IF w = v THEN [wallets[w] EXCEPT !.status = "UNLINKED"] ELSE wallets[w]
            BY <4>1
          <5> QED
            BY <5>1, <5>2 DEF WalletRows
        <4>3. DOMAIN wallets' = DOMAIN wallets /\ wallets' = [w \in DOMAIN wallets' |-> wallets'[w]]
          BY <4>1
        <4> QED
          BY <2>1, <4>2, <4>3, PartialType
      <3>2. CASE Delete(v)
        <4>1. wallets' = [w \in DOMAIN wallets \ {v} |-> wallets[w]]
          BY <3>2 DEF Delete
        <4> QED
          BY <2>1, <4>1, PartialType
      <3> QED
        BY <1>3, <3>1, <3>2
    <2>3. grants' \in Partial(Grants, GrantRows) /\ (tables = "none" => DOMAIN grants' = {})
      <3>1. CASE Unlink(v)
        BY <2>1, <3>1 DEF Unlink, IInv, GrantsInv
      <3>2. CASE Delete(v)
        <4>1. PICK kept \in SUBSET DOMAIN grants : grants' = [g \in kept |-> grants[g]]
          BY <3>2 DEF Delete
        <4>2. tables = "none" => DOMAIN grants' = {}
          BY <4>1 DEF IInv, GrantsInv
        <4> QED
          BY <2>1, <4>1, <4>2, PartialType
      <3> QED
        BY <1>3, <3>1, <3>2
    <2>4. UNCHANGED <<core, tables, transfer>>
      BY <1>3 DEF Unlink, Delete
    <2>5. TypeOK'
      BY <1>0, <2>2, <2>3, <2>4 DEF IInv, TypeOK
    <2>6. TransferInv' /\ LeftToRecovery'
      BY <1>0, <2>4, TransferKept
    <2>7. WalletsInv'
      BY <1>0, <2>0 DEF WalletsInv
    <2>8. GrantsInv' /\ NothingInvented'
      BY <1>0, <2>0, <2>3, <2>4 DEF IInv, GrantsInv, NothingInvented
    <2> QED
      BY <2>5, <2>6, <2>7, <2>8 DEF IInv
  <1> QED
    BY <1>1, <1>2, <1>3 DEF Operator

-----------------------------------------------------------------------------
(* The new version. *)
LEMMA LinkKeeps ==
  ASSUME IInv, NEW u \in Users, NEW a \in Addresses, NEW w \in Wallets, Link(u, a, w)
  PROVE  IInv'
  <1> DEFINE row == [owner |-> u, address |-> a, spelling |-> "canonical", status |-> "LINKED"]
  <1>1. wallets' = [v \in DOMAIN wallets \cup {w} |-> IF v = w THEN row ELSE wallets[v]]
    BY DEF Link
  <1>2. wallets \in Partial(Wallets, WalletRows)
    BY DEF IInv, TypeOK
  <1>3. row \in WalletRows
    BY DEF WalletRows, Spellings
  <1>4. \A v \in DOMAIN wallets' : wallets'[v] \in WalletRows
    BY <1>1, <1>2, <1>3, PartialType
  <1>5. wallets' \in Partial(Wallets, WalletRows)
    <2>1. DOMAIN wallets' \subseteq Wallets
      BY <1>1, <1>2, PartialType
    <2>2. wallets' = [v \in DOMAIN wallets' |-> wallets'[v]]
      BY <1>1
    <2> QED
      BY <1>4, <2>1, <2>2, PartialType
  <1>6. UNCHANGED <<core, applied, grants, tables, columns, attested, access, transfer, running>>
    BY DEF Link
  <1>7. TypeOK'
    BY <1>5, <1>6 DEF IInv, TypeOK
  <1>8. WalletsInv'
    <2>1. LinkedOnce(wallets)'
      BY DEF Link
    <2>2. applied >= 2 =>
            \A v \in DOMAIN wallets' : wallets'[v].spelling = "canonical" /\ wallets'[v].status # "ACTIVE"
      BY <1>1 DEF IInv, WalletsInv
    <2> QED
      BY <1>6, <2>1, <2>2 DEF WalletsInv
  <1>9. TransferInv' /\ LeftToRecovery' /\ GrantsInv' /\ NothingInvented'
    BY <1>6, TransferKept DEF IInv, GrantsInv, NothingInvented
  <1> QED
    BY <1>7, <1>8, <1>9 DEF IInv

LEMMA ChangeKeeps ==
  ASSUME IInv, Authorize \/ Submit \/ Answer \/ Refresh \/ Expire
  PROVE  IInv'
  <1>1. running /\ UNCHANGED <<core, applied, rows, running>>
    BY DEF Authorize, Submit, Answer, Refresh, Expire, Changed
  <1>2. transfer \in TransferRows /\ TransferInv /\ LeftToRecovery
    BY DEF IInv, TypeOK
  <1>3. transfer' \in TransferRows /\ TransferInv' /\ LeftToRecovery'
    <2>1. CASE Authorize
      BY <1>1, <1>2, <2>1 DEF Authorize, Changed, TransferInv, LeftToRecovery
    <2>2. CASE Submit
      <3>1. CASE transfer.credential
        <4>1. transfer' = [transfer EXCEPT !.status = "SUBMITTING", !.sent = IF @ = 0 THEN 1 ELSE 2]
          BY <2>2, <3>1 DEF Submit, Changed
        <4>2. transfer.sent = 0 /\ transfer.status = "AUTHORIZED"
          BY <1>2, <2>2 DEF Submit, TransferInv
        <4> DEFINE t == [transfer EXCEPT !.status = "SUBMITTING"]
        <4>3. t \in TransferRows /\ t.credential /\ t.status = "SUBMITTING" /\ t.sent = 0
          BY <1>2, <3>1, <4>2
        <4>4. transfer' = [t EXCEPT !.sent = 1]
          BY <1>2, <4>1, <4>2
        <4>5. /\ transfer' \in TransferRows
              /\ transfer'.sent = 1 /\ transfer'.credential /\ transfer'.status = "SUBMITTING"
          <5> HIDE DEF t
          <5> QED  BY <4>3, <4>4
        <4> QED
          BY <4>5 DEF TransferInv, LeftToRecovery
      <3>2. CASE ~transfer.credential
        BY <1>1, <1>2, <2>2, <3>2 DEF Submit, Changed, TransferInv, LeftToRecovery
      <3> QED
        BY <3>1, <3>2
    <2>3. CASE Answer
      BY <1>1, <1>2, <2>3 DEF Answer, Changed, TransferInv, LeftToRecovery
    <2>4. CASE Refresh
      BY <1>1, <1>2, <2>4 DEF Refresh, Changed, TransferInv, LeftToRecovery
    <2>5. CASE Expire
      BY <1>1, <1>2, <2>5 DEF Expire, Changed, TransferInv, LeftToRecovery
    <2> QED
      BY <2>1, <2>2, <2>3, <2>4, <2>5
  <1>4. TypeOK'
    BY <1>1, <1>3 DEF IInv, TypeOK, rows
  <1>5. WalletsInv'
    BY <1>1, WalletsKept DEF rows
  <1>6. GrantsInv' /\ NothingInvented'
    BY <1>1 DEF IInv, GrantsInv, NothingInvented, rows
  <1> QED
    BY <1>3, <1>4, <1>5, <1>6 DEF IInv

LEMMA StartKeeps ==
  ASSUME IInv, Start \/ Stop \/ Rollback \/ UNCHANGED vars
  PROVE  IInv'
  <1>1. UNCHANGED <<core, applied, rows, transfer>> /\ running' \in BOOLEAN
    BY DEF Start, Stop, Rollback, vars, IInv, TypeOK
  <1>2. TypeOK' /\ GrantsInv' /\ NothingInvented'
    BY <1>1 DEF IInv, TypeOK, GrantsInv, NothingInvented, rows
  <1>3. TransferInv' /\ LeftToRecovery'
    BY <1>1, TransferKept
  <1>4. WalletsInv'
    BY <1>1, WalletsKept DEF rows
  <1> QED
    BY <1>2, <1>3, <1>4 DEF IInv

LEMMA NextKeeps ==
  ASSUME IInv, [Next]_vars
  PROVE  IInv'
  BY BaselineKeeps, LinkageKeeps, AuthorityKeeps, OperatorKeeps, LinkKeeps, ChangeKeeps, StartKeeps
     DEF Next, Service

-----------------------------------------------------------------------------
(* The strengthening holds throughout every upgrade and after it. *)
THEOREM UpgradeInductive == Spec => []IInv
  BY InitKeeps, NextKeeps, PTL DEF Spec

(* Rows keep their types through the migrations (all of SchemaUpgrade). *)
THEOREM UpgradeTyped == Spec => []TypeOK
  BY UpgradeInductive, PTL DEF IInv

(* No wallet has two linked owners once wallets are migrated (linkage 20-40). *)
THEOREM OwnersStayUnique == Spec => []OneOwner
  <1>1. IInv => OneOwner
    <2> SUFFICES ASSUME IInv, applied >= 2,
                        NEW v \in DOMAIN wallets, NEW w \in DOMAIN wallets,
                        v # w, IsLinked(wallets[v]), IsLinked(wallets[w])
                 PROVE  wallets[v].address # wallets[w].address
      BY DEF OneOwner
    <2>1. wallets[v].status = "LINKED" /\ wallets[w].status = "LINKED"
      BY DEF IsLinked, IInv, WalletsInv
    <2>2. ~SameText(wallets[v], wallets[w])
      BY <2>1 DEF IInv, WalletsInv, LinkedOnce
    <2> QED
      BY <2>2 DEF IInv, WalletsInv, SameText
  <1> QED
    BY <1>1, UpgradeInductive, PTL

(* No transfer of the old version is instructed a second time (authority 36-42). *)
THEOREM UpgradeNeverResends == Spec => []NotResent
  <1>1. IInv => NotResent
    BY DEF IInv, TransferInv, NotResent
  <1> QED
    BY <1>1, UpgradeInductive, PTL

(* Unfinished transfers without credentials stay flagged (authority 36-42). *)
THEOREM RecoveryIsKept == Spec => []LeftToRecovery
  BY UpgradeInductive, PTL DEF IInv

(* What is copied from the old grants was complete (linkage 45-70). *)
THEOREM CopiesAreComplete == Spec => []NothingInvented
  BY UpgradeInductive, PTL DEF IInv

(* No migration adds or drops a wallet, changes its owner, or links or     *)
(* unlinks it (linkage 20-38).                                             *)
THEOREM OwnersAreNotChosen == Spec => NoOwnerChosen
  <1> DEFINE Kept ==
        /\ DOMAIN wallets' = DOMAIN wallets
        /\ \A w \in DOMAIN wallets :
             /\ wallets'[w].owner = wallets[w].owner
             /\ wallets'[w].address = wallets[w].address
             /\ IsLinked(wallets'[w]) <=> IsLinked(wallets[w])
  <1>1. ASSUME IInv, [Next]_vars, applied' # applied PROVE Kept
    <2>1. Baseline \/ Linkage \/ Authority
      BY <1>1 DEF Next, vars, Operator, ResolveCore, ResolveTables, ResolveAmounts, Unlink, Delete,
                  Stopped, Rollback, Start, Stop, Service, Link, Authorize, Submit, Answer, Refresh, Expire, Changed
    <2>2. CASE Linkage
      <3>1. wallets' = [w \in DOMAIN wallets |-> Converted(Canonical(wallets[w]))]
        BY <2>2 DEF Linkage, Upgraded
      <3>2. ASSUME NEW w \in DOMAIN wallets
            PROVE  /\ wallets'[w].owner = wallets[w].owner
                   /\ wallets'[w].address = wallets[w].address
                   /\ IsLinked(wallets'[w]) <=> IsLinked(wallets[w])
        <4>1. wallets[w] \in WalletRows
          BY <1>1, PartialType DEF IInv, TypeOK
        <4> QED
          BY <3>1, <4>1 DEF Converted, Canonical, IsLinked, WalletRows, Spellings
      <3> QED
        BY <3>1, <3>2
    <2>3. CASE Baseline \/ Authority
      BY <2>3 DEF Baseline, Authority, rows
    <2> QED
      BY <2>1, <2>2, <2>3
  <1>2. IInv /\ [Next]_vars => [applied' # applied => Kept]_vars
    BY <1>1
  <1> QED
    BY <1>2, UpgradeInductive, PTL DEF Spec, NoOwnerChosen
=============================================================================
