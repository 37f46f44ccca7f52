-------------------------- MODULE PaymentAuthority --------------------------
(***************************************************************************)
(* By whose authority a payment is sent: accounts and bearer tokens        *)
(* (services/auth.service.ts, middlewares/auth.middleware.ts), proven      *)
(* wallets (repositories/grant.repository.ts), the parties a transfer is   *)
(* created between and submitted for, and the grants it holds              *)
(* (services/transfer.service.ts).                                         *)
(*                                                                         *)
(* Every read of the database is a step of its own, since accounts and     *)
(* wallets change between them: an operator suspends accounts and unlinks  *)
(* wallets (no code of the repository does), and the callbacks of          *)
(* onboarding, which carry no bearer token, link wallets.  How one transfer *)
(* is carried through failures is the subject of Transfer and PaymentToken; *)
(* here it has the steps that look at authority.                           *)
(***************************************************************************)
EXTENDS Sequences, Naturals

CONSTANTS
  Users,          \* identifiers of rows of users
  Emails,
  Registrations,  \* requests to register
  Addresses,      \* wallet addresses
  Transactions,   \* onboarding sessions, by their identifier
  Answers,        \* accesses a provider's grant may have
  None            \* no user, and no wallet

ASSUME NoneAssumption == None \notin Users /\ None \notin Users \X Addresses

VARIABLES
  accounts,   \* rows of users
  tokens,     \* accounts with a bearer token that has not expired
  reg,        \* how far each registration is
  wallets,    \* rows of wallets, by owner and address (uq_user_wallet), all with verified_at
  proofs,     \* what the provider confirmed to each finished session
  attested,   \* sessions with a row in wallet_ownership_attestations
  pay,        \* a transfer and the operation that handles it
  held,       \* its credentials
  seen        \* history: the parties that could pay at some moment of this operation

ids  == <<accounts, tokens, reg>>
owns == <<wallets, proofs, attested>>
vars == <<ids, owns, pay, held, seen>>

Rows == Users \X Addresses
Partial(S, T) == UNION {[D -> T] : D \in SUBSET S}
Nothing == [x \in {} |-> x]

AccountRows == [email : Emails, status : {"ACTIVE", "SUSPENDED", "PENDING_VERIFICATION"}]
RegRows == [pc : {"idle", "checked", "created", "refused", "failed"}, email : Emails]

\* Whose money and which resource a scope names, and how far it goes, as seen from the transfer.
\* limits.debit counts debits of the agreed amount, 0 for no such key; more: any further key.
Limits == [receiver : {"incoming", "other", "none"}, debit : 0 .. 2, more : BOOLEAN]
NoLimits == [receiver |-> "none", debit |-> 0, more |-> FALSE]
Scopes == [type : {"incoming-payment", "quote", "outgoing-payment"},
           actions : SUBSET {"create", "read", "list", "complete"},
           on : {"sender", "recipient", "incoming", "other", "none"}, limits : Limits]
NoGrant == <<>>
Purposes == {"incoming-create", "quote", "incoming", "outgoing"}

ASSUME AnswersAssumption == Answers \subseteq Seq(Scopes)

Parties == {"from", "to"}
PayRows == [pc : {"idle", "admitted", "sender", "found",
                  "reserved", "consent", "authorized",
                  "submitting", "rechecked", "ready", "instructed", "closed"},
            user : Users \cup {None}, from : Rows \cup {None}, to : Rows \cup {None}]
NoPay == [pc |-> "idle", user |-> None, from |-> None, to |-> None]

TypeOK ==
  /\ accounts \in Partial(Users, AccountRows)
  /\ tokens \subseteq Users
  /\ reg \in [Registrations -> RegRows]
  /\ wallets \in Partial(Rows, {"LINKED", "UNLINKED"})
  /\ proofs \in Partial(Transactions, Rows)
  /\ attested \subseteq Transactions
  /\ pay \in PayRows
  /\ held \in [Purposes -> Seq(Scopes)]
  /\ seen \subseteq Parties

Init ==
  /\ accounts = Nothing /\ tokens = {}
  /\ reg \in [Registrations -> {r \in RegRows : r.pc = "idle"}]
  /\ wallets = Nothing /\ proofs = Nothing /\ attested = {}
  /\ pay = NoPay
  /\ held = [p \in Purposes |-> NoGrant]
  /\ seen = {}

(* findWallet: a linked wallet of an active account.                       *)
Found(row) ==
  /\ row \in DOMAIN wallets /\ wallets[row] = "LINKED"
  /\ row[1] \in DOMAIN accounts /\ accounts[row[1]].status = "ACTIVE"

Usable == {p \in Parties : pay[p] # None /\ Found(pay[p])}

\* An operation starts from "idle" or from "authorized", with nothing seen.
Observe == seen' = (IF pay.pc \in {"idle", "authorized"} THEN {} ELSE seen) \cup Usable'

-----------------------------------------------------------------------------
(* Accounts.                                                               *)

Known(e) == \E u \in DOMAIN accounts : accounts[u].email = e

Vacant(e) == ~Known(e)

NewAccount(e) == [email |-> e, status |-> "ACTIVE"]

Find(r) ==
  /\ reg[r].pc \in {"idle", "refused", "failed"}
  /\ reg' = [reg EXCEPT ![r].pc = IF Known(reg[r].email) THEN "refused" ELSE "checked"]
  /\ UNCHANGED <<accounts, tokens, owns, pay, held, seen>>

(* After hashing: the insert, and the token for the row it returns.        *)
Insert(r, u) ==
  /\ reg[r].pc = "checked"
  /\ Vacant(reg[r].email)
  /\ u \notin DOMAIN accounts
  /\ accounts' = [v \in DOMAIN accounts \cup {u} |-> IF v = u THEN NewAccount(reg[r].email) ELSE accounts[v]]
  /\ tokens' = tokens \cup {u}
  /\ reg' = [reg EXCEPT ![r].pc = "created"]
  /\ UNCHANGED <<owns, pay, held, seen>>

(* The unique constraint, or the database, refuses it: 500, not 409.       *)
InsertFails(r) ==
  /\ reg[r].pc = "checked"
  /\ reg' = [reg EXCEPT ![r].pc = "failed"]
  /\ UNCHANGED <<accounts, tokens, owns, pay, held, seen>>

(* Whatever the status of the account.                                     *)
Login(u) ==
  /\ u \in DOMAIN accounts \ tokens
  /\ tokens' = tokens \cup {u}
  /\ UNCHANGED <<accounts, reg, owns, pay, held, seen>>

TokenExpires(u) ==
  /\ u \in tokens
  /\ tokens' = tokens \ {u}
  /\ UNCHANGED <<accounts, reg, owns, pay, held, seen>>

SetStatus(u, s) ==
  /\ u \in DOMAIN accounts /\ accounts[u].status # s
  /\ accounts' = [accounts EXCEPT ![u].status = s]
  /\ UNCHANGED <<tokens, reg, owns, pay, held>>
  /\ Observe

AccountStep ==
  \/ \E r \in Registrations : Find(r) \/ InsertFails(r) \/ \E u \in Users : Insert(r, u)
  \/ \E u \in Users : Login(u) \/ TokenExpires(u)
  \/ \E u \in Users, s \in {"ACTIVE", "SUSPENDED", "PENDING_VERIFICATION"} : SetStatus(u, s)

-----------------------------------------------------------------------------
(* Wallet ownership.                                                       *)

(* The provider confirms to a session that its user has the wallet.        *)
Prove(tx, row) ==
  /\ tx \notin DOMAIN proofs
  /\ row[1] \in DOMAIN accounts
  /\ proofs' = [t \in DOMAIN proofs \cup {tx} |-> IF t = tx THEN row ELSE proofs[t]]
  /\ UNCHANGED <<ids, wallets, attested, pay, held, seen>>

TakenNever(row) == FALSE    \* mutant: no index over linked addresses
Taken(row) == \E other \in DOMAIN wallets : other # row /\ other[2] = row[2] /\ wallets[other] = "LINKED"

ReplayedNever(tx) == FALSE    \* mutant: a session that was saved is merged again
Replayed(tx) == tx \in attested

(* saveOwnership, once or again, as late as it likes: the row is inserted  *)
(* or merged and its attestation added in one transaction.  A session that *)
(* has its attestation changes nothing, and neither does a wallet that is  *)
(* linked to somebody else (409).                                          *)
SaveOwnership(tx) ==
  /\ tx \in DOMAIN proofs
  /\ ~Replayed(tx)
  /\ ~Taken(proofs[tx])
  /\ wallets' = [w \in DOMAIN wallets \cup {proofs[tx]} |-> IF w = proofs[tx] THEN "LINKED" ELSE wallets[w]]
  /\ attested' = attested \cup {tx}
  /\ UNCHANGED <<ids, proofs, pay, held>>
  /\ Observe

Unlink(row) ==
  /\ row \in DOMAIN wallets /\ wallets[row] = "LINKED"
  /\ wallets' = [wallets EXCEPT ![row] = "UNLINKED"]
  /\ UNCHANGED <<ids, proofs, attested, pay, held>>
  /\ Observe

OwnershipStep ==
  \/ \E tx \in Transactions : SaveOwnership(tx) \/ \E row \in Rows : Prove(tx, row)
  \/ \E row \in Rows : Unlink(row)

-----------------------------------------------------------------------------
(* The grants of a transfer: what the code accepts of a provider's answer. *)

ExactScope(access, type, actions, on) ==
  access = <<[type |-> type, actions |-> actions, on |-> on, limits |-> NoLimits]>>

CheckOutgoingAnyKey(access, create) ==    \* mutant: further keys of limits are not looked at
  /\ Len(access) = 1
  /\ access[1].type = "outgoing-payment" /\ access[1].on = "sender"
  /\ access[1].actions \subseteq {"create", "read", "list"}
  /\ (IF create THEN {"create", "read", "list"} ELSE {"read", "list"}) \subseteq access[1].actions
  /\ access[1].limits.receiver = "incoming" /\ access[1].limits.debit = 1
CheckOutgoing(access, create) ==
  /\ Len(access) = 1
  /\ access[1].type = "outgoing-payment" /\ access[1].on = "sender"
  /\ access[1].actions \subseteq {"create", "read", "list"}
  /\ (IF create THEN {"create", "read", "list"} ELSE {"read", "list"}) \subseteq access[1].actions
  /\ access[1].limits = [receiver |-> "incoming", debit |-> 1, more |-> FALSE]

Accepts(purpose, access) ==
  CASE purpose = "incoming-create" -> ExactScope(access, "incoming-payment", {"create"}, "recipient")
    [] purpose = "quote"           -> ExactScope(access, "quote", {"create"}, "none")
    [] purpose = "incoming"        -> ExactScope(access, "incoming-payment", {"read", "complete"}, "incoming")
    [] purpose = "outgoing"        -> CheckOutgoing(access, TRUE)

Accepted == [p \in Purposes |-> {access \in Answers : Accepts(p, access)}]
AcceptedLater == {access \in Answers : CheckOutgoing(access, FALSE)}

-----------------------------------------------------------------------------
(* A transfer: creation, consent, submission.                              *)

At(pc) == pay.pc = pc
Becomes(row) == pay' = row /\ UNCHANGED <<ids, owns>> /\ Observe
Ends == Becomes([pay EXCEPT !.pc = "closed"]) /\ UNCHANGED held

(* requireAuth: the account is read again, and only a suspended one shut   *)
(* out.                                                                    *)
Admit(u) ==
  /\ At("idle")
  /\ u \in tokens /\ u \in DOMAIN accounts
  /\ accounts[u].status # "SUSPENDED"
  /\ Becomes([pay EXCEPT !.pc = "admitted", !.user = u]) /\ UNCHANGED held

(* The sender's wallet, the one asked for or the preferred one, and then   *)
(* the recipient's.                                                        *)
FindSender(row) ==
  /\ At("admitted")
  /\ row[1] = pay.user /\ Found(row)
  /\ Becomes([pay EXCEPT !.pc = "sender", !.from = row]) /\ UNCHANGED held

FindRecipient(row) ==
  /\ At("sender")
  /\ row[1] # pay.user /\ Found(row)
  /\ Becomes([pay EXCEPT !.pc = "found", !.to = row]) /\ UNCHANGED held

(* A party without a wallet, an exceeded limit, or a wallet that is no     *)
(* longer what was linked: nothing is reserved.                            *)
Refuse == pay.pc \in {"admitted", "sender", "found"} /\ Becomes(NoPay) /\ UNCHANGED held

DifferByOwner(from, to) == from[1] # to[1]    \* mutant: different users are taken for different wallets
Differ(from, to) == from[2] # to[2]

(* The providers confirm both addresses, and the row is inserted.          *)
Reserve ==
  /\ At("found")
  /\ Differ(pay.from, pay.to)
  /\ Becomes([pay EXCEPT !.pc = "reserved"]) /\ UNCHANGED held

(* The grants of the preparation, of which the temporary ones may stay.    *)
Prepare ==
  /\ At("reserved")
  /\ \E left \in SUBSET {"incoming-create", "quote"} :
       \E got \in [left \cup {"incoming"} -> UNION {Accepted[p] : p \in Purposes}] :
         /\ \A p \in DOMAIN got : got[p] \in Accepted[p]
         /\ held' = [p \in Purposes |-> IF p \in DOMAIN got THEN got[p] ELSE NoGrant]
  /\ Becomes([pay EXCEPT !.pc = "consent"])

Authorize ==
  /\ At("consent")
  /\ \E access \in Accepted["outgoing"] : held' = [held EXCEPT !["outgoing"] = access]
  /\ Becomes([pay EXCEPT !.pc = "authorized"])

(* A grant that is refused, an expiry: the transfer ends.                  *)
GiveUp == pay.pc \in {"reserved", "consent", "authorized", "submitting", "rechecked", "ready"} /\ Ends

(* A callback or the worker takes the lease and submits.                   *)
Submit == At("authorized") /\ Becomes([pay EXCEPT !.pc = "submitting"]) /\ UNCHANGED held

RecheckedAtCreation(row) == TRUE    \* mutant: the wallets found at creation are trusted
Rechecked(row) == Found(row)

RecheckSender ==
  /\ At("submitting") /\ Rechecked(pay.from)
  /\ Becomes([pay EXCEPT !.pc = "rechecked"]) /\ UNCHANGED held

RecheckRecipient ==
  /\ At("rechecked") /\ Rechecked(pay.to)
  /\ Becomes([pay EXCEPT !.pc = "ready"]) /\ UNCHANGED held

(* The token is read, or rotated under the same check.                     *)
Instruct ==
  /\ At("ready")
  /\ \E access \in Accepted["outgoing"] : held' = [held EXCEPT !["outgoing"] = access]
  /\ Becomes([pay EXCEPT !.pc = "instructed"])

(* The process ends or loses its lease before it claims SUBMITTING.        *)
Interrupt ==
  /\ pay.pc \in {"submitting", "rechecked", "ready"}
  /\ Becomes([pay EXCEPT !.pc = "authorized"]) /\ UNCHANGED held

(* refresh: a rotated token need not allow to create any more.             *)
Refresh ==
  /\ At("instructed")
  /\ \E access \in AcceptedLater : held' = [held EXCEPT !["outgoing"] = access]
  /\ Becomes(pay)

PaymentStep ==
  \/ \E u \in Users : Admit(u)
  \/ \E row \in Rows : FindSender(row) \/ FindRecipient(row)
  \/ Refuse \/ Reserve \/ Prepare \/ Authorize \/ GiveUp
  \/ Submit \/ RecheckSender \/ RecheckRecipient \/ Instruct \/ Interrupt \/ Refresh

Next == AccountStep \/ OwnershipStep \/ PaymentStep

Spec == Init /\ [][Next]_vars

-----------------------------------------------------------------------------
(* Of the registrations of one e-mail address, at most one is answered     *)
(* with an account, however they overlap (auth.service.ts 15-28 looks      *)
(* first and hashes in between).                                           *)
RegisteredOnce ==
  \A r, s \in Registrations :
    r # s /\ reg[r].pc = "created" /\ reg[s].pc = "created" => reg[r].email # reg[s].email

(* A linked wallet was proven by its user in a session of its own, and is  *)
(* linked for nobody else (grant.repository.ts 20-46).                     *)
LinkedIsProven ==
  \A row \in DOMAIN wallets :
    wallets[row] = "LINKED" =>
      /\ \E tx \in attested : tx \in DOMAIN proofs /\ proofs[tx] = row
      /\ \A other \in DOMAIN wallets : other # row /\ other[2] = row[2] => wallets[other] = "UNLINKED"

(* "Reverify an unlinked wallet to link it again" (DEVELOPER_GUIDE.md      *)
(* 180-181): a callback that comes again does not bring back a wallet that *)
(* was unlinked since.                                                     *)
UnlinkedNeedsNewProof ==
  [][ \A row \in DOMAIN wallets :
        wallets[row] = "UNLINKED" /\ wallets'[row] = "LINKED" =>
          \E tx \in Transactions : tx \in attested' \ attested /\ proofs[tx] = row ]_vars

(* "Transfers to yourself or the same wallet address are rejected"         *)
(* (DEVELOPER_GUIDE.md:235): also when the address changes hands between   *)
(* the two lookups (transfer.service.ts 40-54).                            *)
PartiesDiffer ==
  pay.pc \notin {"idle", "admitted", "sender", "found"} =>
    pay.from[1] # pay.to[1] /\ pay.from[2] # pay.to[2]

(* A payment is instructed only if each party was active and linked at     *)
(* some moment of that very submission: a wallet unlinked or an account    *)
(* suspended before it started, and left so, is not paid from or to        *)
(* (transfer.service.ts 271-273).                                          *)
SubmissionSawBoth == [][ At("ready") /\ pay'.pc = "instructed" => seen = Parties ]_vars

\* Whether an access lets its holder debit n agreed amounts towards the receiver.
MayDebit(access, on, receiver, n) ==
  \E i \in DOMAIN access :
    /\ access[i].type = "outgoing-payment" /\ "create" \in access[i].actions
    /\ access[i].on = on
    /\ access[i].limits.receiver \in {receiver, "none"}
    /\ n <= access[i].limits.debit \/ access[i].limits.debit = 0 \/ access[i].limits.more

(* No credential that is held debits anything but the agreed amount, once, *)
(* from the sender's wallet to the transfer's incoming payment, whatever   *)
(* the provider answered (transfer.service.ts 419-461).                    *)
HeldGrantIsNarrow ==
  \A p \in Purposes, n \in 1 .. 2 :
    \A on \in {"sender", "recipient", "incoming", "other", "none"}, receiver \in {"incoming", "other"} :
      MayDebit(held[p], on, receiver, n) => p = "outgoing" /\ on = "sender" /\ receiver = "incoming" /\ n = 1
=============================================================================
