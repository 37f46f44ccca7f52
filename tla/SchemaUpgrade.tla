---------------------------- MODULE SchemaUpgrade ----------------------------
(***************************************************************************)
(* `pnpm db:migrate` over a database of an older version: the baseline and *)
(* the two incremental migrations (src/src/database/knex-migrations), what *)
(* they refuse, the operator who resolves it, and the processes that start *)
(* on the result (DEVELOPER_GUIDE.md:135-160).                             *)
(*                                                                         *)
(* knex runs a migration and records it in one transaction, one migrator   *)
(* at a time, so a migration is one step here; the command may stop        *)
(* between two of them for as long as it likes.  The old version is        *)
(* stopped.  Its rows are arbitrary within the constraints its tables had; *)
(* tables and columns that are only created are left out.  The transfer is *)
(* one row, and what the new processes do to it the few steps that tell    *)
(* whether it pays again (Transfer has them call by call; CREATING and     *)
(* FINALIZING, which end like an authorization that expires, are left out).*)
(***************************************************************************)
EXTENDS Naturals

CONSTANTS
  Users,
  Addresses,   \* wallet addresses, as the provider knows them
  Wallets,     \* rows of wallets
  Grants       \* rows of the former mixed table of grants

VARIABLES
  core,        \* the tables of the core schema: "absent", "known", or some "missing"
  applied,     \* how many migrations knex_migrations records
  wallets,     \* the rows that exist
  grants,      \* the old grants that exist
  tables,      \* where they are: wallet_grants ("mixed"), legacy_wallet_grants ("legacy"),
               \*   in "both" or in "none"
  columns,     \* that table has the columns of proofs and credentials
  attested,    \* grants copied to wallet_ownership_attestations
  access,      \* grants copied to wallet_access_grants
  transfer,    \* a transfer of the old version
  running      \* the API and the worker run

rows == <<wallets, grants, tables, columns, attested, access>>
vars == <<core, applied, rows, transfer, running>>

Spellings == {"canonical", "variant", "refused"}
WalletRows == [owner : Users, address : Addresses, spelling : Spellings,
               status : {"ACTIVE", "LINKED", "UNLINKED"}]

\* complete: every field the copy asks for is there
GrantRows == [purpose : {"ONBOARDING", "REUSABLE_ACCESS"}, complete : BOOLEAN]

Finished == {"COMPLETED", "FAILED", "EXPIRED"}
Statuses == {"AWAITING_AUTHORIZATION", "AUTHORIZED", "SUBMITTING", "PENDING", "UNKNOWN"} \cup Finished

\* legacy: the table has outgoing_access_token_enc; sent: instructions sent, 2 for more than one
TransferRows == [status : Statuses \cup {"NONE"}, legacy : BOOLEAN, valid : BOOLEAN,
                 flagged : BOOLEAN, credential : BOOLEAN, sent : 0 .. 2]

NoTransfer == [status |-> "NONE", legacy |-> FALSE, valid |-> TRUE,
               flagged |-> FALSE, credential |-> FALSE, sent |-> 0]

Partial(S, T) == UNION {[D -> T] : D \in SUBSET S}

TypeOK ==
  /\ core \in {"absent", "known", "missing"}
  /\ applied \in 0 .. 3
  /\ wallets \in Partial(Wallets, WalletRows)
  /\ grants \in Partial(Grants, GrantRows)
  /\ tables \in {"none", "mixed", "legacy", "both"}
  /\ columns \in BOOLEAN
  /\ attested \subseteq Grants /\ access \subseteq Grants
  /\ transfer \in TransferRows
  /\ running \in BOOLEAN

\* What the unique indexes compare: the text of the address.
SameText(a, b) == a.address = b.address /\ a.spelling = b.spelling

\* uq_user_wallet
OncePerUser(ws) ==
  \A v, w \in DOMAIN ws : v # w /\ ws[v].owner = ws[w].owner => ~SameText(ws[v], ws[w])

\* uq_wallets_active_address
LinkedOnce(ws) ==
  \A v, w \in DOMAIN ws :
    v # w /\ ws[v].status = "LINKED" /\ ws[w].status = "LINKED" => ~SameText(ws[v], ws[w])

\* When the old version had sent its instruction.
MaybeSent(status) ==
  CASE status \in {"SUBMITTING", "UNKNOWN"} -> {0, 1}
    [] status \in {"PENDING", "COMPLETED"} -> {1}
    [] OTHER -> {0}

(* A transfer of the old version, or none. *)
OldTransfer(t) ==
  IF t.status = "NONE" THEN t = NoTransfer
  ELSE t.sent \in MaybeSent(t.status) /\ ~t.flagged /\ ~t.credential

Init ==
  /\ transfer \in TransferRows
  /\ OldTransfer(transfer)
  /\ core \in {"absent", "known", "missing"}
  /\ applied = 0
  /\ wallets \in Partial(Wallets, WalletRows)
  /\ OncePerUser(wallets)
  /\ grants \in Partial(Grants, GrantRows)
  /\ tables \in {"none", "mixed", "legacy", "both"}
  /\ tables = "none" => DOMAIN grants = {}
  /\ columns \in BOOLEAN
  /\ columns => DOMAIN grants # {}
  /\ attested = {} /\ access = {}
  /\ core = "absent" => DOMAIN wallets = {} /\ tables = "none" /\ transfer = NoTransfer
  /\ running = FALSE

-----------------------------------------------------------------------------
(* The migrations: each is the next that is not recorded.                  *)

Migrate(n) == applied = n - 1 /\ ~running /\ applied' = n /\ UNCHANGED running

(* 202609290001_baseline: creates everything, or adopts the known core.    *)
Baseline ==
  /\ Migrate(1)
  /\ core # "missing"
  /\ core' = "known"
  /\ UNCHANGED <<rows, transfer>>

IsLinked(w) == w.status \in {"ACTIVE", "LINKED"}

AsSpelled(w) == w    \* mutant: addresses are checked but not rewritten
Canonical(w) == [w EXCEPT !.spelling = "canonical"]

Converted(w) == [w EXCEPT !.status = IF IsLinked(w) THEN "LINKED" ELSE "UNLINKED"]

Competing(ws) ==
  \E v, w \in DOMAIN ws :
    v # w /\ IsLinked(ws[v]) /\ IsLinked(ws[w]) /\ ws[v].address = ws[w].address

Copied(purpose) ==
  {g \in DOMAIN grants : columns /\ grants[g].purpose = purpose /\ grants[g].complete}

Upgraded(ws) == [w \in DOMAIN ws |-> Converted(Canonical(ws[w]))]

(* What the migration, or an index it has to keep or create, refuses.      *)
Refused(ws) ==
  \/ \E w \in DOMAIN ws : ws[w].spelling = "refused"
  \/ Competing(ws)
  \/ ~OncePerUser(Upgraded(ws))
  \/ ~LinkedOnce(Upgraded(ws))

AmbiguousAny == tables \in {"both", "legacy"}    \* mutant: resolved tables are refused again
Ambiguous == tables = "both"

(* 202609300001_onboarding_linkage: canonical addresses, two statuses, the *)
(* index of linked addresses, grants split and the rest quarantined.       *)
Linkage ==
  /\ Migrate(2)
  /\ ~Refused(wallets)
  /\ ~Ambiguous
  /\ wallets' = Upgraded(wallets)
  /\ tables' = IF tables = "none" THEN "none" ELSE "legacy"
  /\ attested' = Copied("ONBOARDING")
  /\ access' = Copied("REUSABLE_ACCESS")
  /\ UNCHANGED <<core, grants, columns, transfer>>

RecoveredAnew(t) ==      \* mutant: an interrupted instruction waits for a new consent
  [t EXCEPT !.flagged = TRUE, !.status = IF @ = "SUBMITTING" THEN "AWAITING_AUTHORIZATION" ELSE @]
Recovered(t) ==
  [t EXCEPT !.flagged = TRUE, !.status = IF @ = "SUBMITTING" THEN "UNKNOWN" ELSE @]

(* 202609300002_p2p_authority: constraints, and unfinished transfers of    *)
(* the old kind are left to manual recovery.                               *)
Authority ==
  /\ Migrate(3)
  /\ transfer.valid
  /\ transfer' = IF transfer.legacy /\ transfer.status \notin Finished \cup {"NONE"}
                 THEN Recovered(transfer) ELSE transfer
  /\ UNCHANGED <<core, rows>>

(* A migration that throws, or whose process dies, is rolled back.         *)
Rollback == applied < 3 /\ ~running /\ UNCHANGED vars

-----------------------------------------------------------------------------
(* The operator resolves what a migration refused, while nothing runs.     *)

Stopped == applied < 3 /\ ~running /\ UNCHANGED <<applied, running, columns, attested, access>>

ResolveCore == Stopped /\ core = "missing" /\ core' = "known" /\ UNCHANGED <<wallets, grants, tables, transfer>>

Unlink(w) ==
  /\ Stopped /\ applied = 1 /\ Competing(wallets)
  /\ wallets' = [wallets EXCEPT ![w].status = "UNLINKED"]
  /\ UNCHANGED <<core, grants, tables, transfer>>

(* A deleted wallet takes its grants, whichever they are, with it.         *)
Delete(w) ==
  /\ Stopped /\ applied = 1 /\ Refused(wallets)
  /\ wallets' = [v \in DOMAIN wallets \ {w} |-> wallets[v]]
  /\ \E kept \in SUBSET DOMAIN grants : grants' = [g \in kept |-> grants[g]]
  /\ UNCHANGED <<core, tables, transfer>>

ResolveTables == Stopped /\ tables = "both" /\ tables' = "legacy" /\ UNCHANGED <<core, wallets, grants, transfer>>

ResolveAmounts ==
  /\ Stopped /\ ~transfer.valid
  /\ transfer' = [transfer EXCEPT !.valid = TRUE]
  /\ UNCHANGED <<core, wallets, grants, tables>>

Operator ==
  \/ ResolveCore \/ ResolveTables \/ ResolveAmounts
  \/ \E w \in DOMAIN wallets : Unlink(w) \/ Delete(w)

-----------------------------------------------------------------------------
(* The new version, which Compose starts when all migrations are applied.  *)

Start == applied = 3 /\ ~running /\ running' = TRUE /\ UNCHANGED <<core, applied, rows, transfer>>
Stop == running /\ running' = FALSE /\ UNCHANGED <<core, applied, rows, transfer>>

(* saveOwnership: a verified wallet is linked, unless somebody else's is.  *)
Link(u, a, w) ==
  LET row == [owner |-> u, address |-> a, spelling |-> "canonical", status |-> "LINKED"]
      linked == [v \in DOMAIN wallets \cup {w} |-> IF v = w THEN row ELSE wallets[v]]
  IN  /\ running
      /\ w \in DOMAIN wallets => wallets[w].owner = u /\ SameText(wallets[w], row)
      /\ OncePerUser(linked)
      /\ LinkedOnce(linked)
      /\ wallets' = linked
      /\ UNCHANGED <<core, applied, grants, tables, columns, attested, access, transfer, running>>

Changed(t) == running /\ transfer' = t /\ UNCHANGED <<core, applied, rows, running>>

(* A callback with a new consent: the credential comes with its rights.    *)
Authorize ==
  /\ transfer.status = "AWAITING_AUTHORIZATION"
  /\ Changed([transfer EXCEPT !.status = "AUTHORIZED", !.credential = TRUE])

(* submit: without a credential it throws, and maintain flags the row.     *)
Submit ==
  /\ transfer.status = "AUTHORIZED"
  /\ Changed(IF transfer.credential
             THEN [transfer EXCEPT !.status = "SUBMITTING", !.sent = IF @ = 0 THEN 1 ELSE 2]
             ELSE [transfer EXCEPT !.flagged = TRUE])

(* The answer to the instruction, or a minute without one.                 *)
Answer ==
  /\ transfer.status = "SUBMITTING"
  /\ \/ Changed([transfer EXCEPT !.status = "PENDING", !.flagged = FALSE])
     \/ Changed([transfer EXCEPT !.status = "UNKNOWN", !.flagged = TRUE])
     \/ Changed([transfer EXCEPT !.status = "FAILED", !.flagged = FALSE])

(* refresh: the payment is read with the row's credential, or not at all.  *)
Refresh ==
  /\ transfer.status \in {"PENDING", "UNKNOWN"}
  /\ \/ Changed([transfer EXCEPT !.flagged = TRUE])
     \/ /\ transfer.credential
        /\ \E s \in {"PENDING", "COMPLETED", "FAILED"} :
             Changed([transfer EXCEPT !.status = s, !.flagged = FALSE])

Expire ==
  /\ transfer.status \in {"AWAITING_AUTHORIZATION", "AUTHORIZED"}
  /\ Changed([transfer EXCEPT !.status = "EXPIRED"])

Service ==
  \/ \E u \in Users, a \in Addresses, w \in Wallets : Link(u, a, w)
  \/ Authorize \/ Submit \/ Answer \/ Refresh \/ Expire

Next == Baseline \/ Linkage \/ Authority \/ Rollback \/ Operator \/ Start \/ Stop \/ Service

Spec == Init /\ [][Next]_vars

(* The operator resolves what is refused and repeats the command.          *)
FairSpec == Spec /\ WF_vars(Baseline \/ Linkage \/ Authority \/ Operator)

-----------------------------------------------------------------------------
(* Once wallets are migrated, no two linked rows are one wallet at the     *)
(* provider, whatever spelling and status they came with and whoever links *)
(* afterwards (linkage 20-40, grant.repository.ts 30-43).                  *)
OneOwner ==
  applied >= 2 =>
    \A v, w \in DOMAIN wallets :
      v # w /\ IsLinked(wallets[v]) /\ IsLinked(wallets[w]) => wallets[v].address # wallets[w].address

(* "The upgrade never chooses an owner" (DEVELOPER_GUIDE.md:153): a        *)
(* migration keeps every wallet, its owner, and whether it is linked.      *)
NoOwnerChosen ==
  [][ applied' # applied =>
        /\ DOMAIN wallets' = DOMAIN wallets
        /\ \A w \in DOMAIN wallets :
             /\ wallets'[w].owner = wallets[w].owner
             /\ wallets'[w].address = wallets[w].address
             /\ IsLinked(wallets'[w]) <=> IsLinked(wallets[w]) ]_vars

(* "... invents wallet verification" (153-154): what was copied was        *)
(* complete, and its original is still in quarantine (linkage 45-70).      *)
NothingInvented ==
  \A g \in attested \cup access :
    g \in DOMAIN grants /\ grants[g].complete /\ tables = "legacy"

(* "... or resends an outgoing payment" (154): a transfer whose            *)
(* instruction the old version may have sent is never instructed again.    *)
NotResent == transfer.sent <= 1

(* An unfinished transfer of the old version stays marked for manual       *)
(* recovery as long as it has no credential of the new one (authority      *)
(* 36-42, transfer.service.ts 248-254).                                    *)
LeftToRecovery ==
  applied = 3 /\ transfer.legacy /\ ~transfer.credential =>
    transfer.flagged \/ transfer.status \in Finished \cup {"NONE"}

(* Whatever is refused can be resolved, and then the upgrade completes,    *)
(* also when its first migrations were committed long before.              *)
UpgradeCompletes == <>(applied = 3)
=============================================================================
