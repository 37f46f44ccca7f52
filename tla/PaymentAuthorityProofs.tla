------------------------ MODULE PaymentAuthorityProofs ------------------------
(***************************************************************************)
(* What holds of accounts, wallets, parties and grants for any number of   *)
(* users, addresses and sessions, and for any answer of the providers.     *)
(***************************************************************************)
EXTENDS PaymentAuthority, TLAPS

LEMMA PartialType ==
  ASSUME NEW S, NEW T, NEW f
  PROVE  f \in Partial(S, T) <=> (f = [x \in DOMAIN f |-> f[x]] /\ DOMAIN f \subseteq S
                                  /\ \A x \in DOMAIN f : f[x] \in T)
  BY DEF Partial

(* A row is added, or replaced. *)
LEMMA PartialAdd ==
  ASSUME NEW S, NEW T, NEW f \in Partial(S, T), NEW k \in S, NEW v \in T
  PROVE  [x \in DOMAIN f \cup {k} |-> IF x = k THEN v ELSE f[x]] \in Partial(S, T)
  <1> DEFINE g == [x \in DOMAIN f \cup {k} |-> IF x = k THEN v ELSE f[x]]
  <1>1. DOMAIN f \subseteq S /\ \A x \in DOMAIN f : f[x] \in T
    BY PartialType
  <1>2. g \in [DOMAIN f \cup {k} -> T]
    BY <1>1
  <1> QED
    BY <1>1, <1>2 DEF Partial

LEMMA PartialExcept ==
  ASSUME NEW S, NEW T, NEW f \in Partial(S, T), NEW k \in DOMAIN f, NEW v \in T
  PROVE  [f EXCEPT ![k] = v] \in Partial(S, T)
  <1>1. PICK D \in SUBSET S : f \in [D -> T]
    BY DEF Partial
  <1>2. [f EXCEPT ![k] = v] \in [D -> T]
    BY <1>1
  <1> QED
    BY <1>2 DEF Partial

-----------------------------------------------------------------------------
(* Types, by group of variables.                                           *)

(* A step of the accounts leaves ownership and the transfer alone. *)
LEMMA AccountStepFrame ==
  ASSUME AccountStep
  PROVE  UNCHANGED <<owns, pay, held>>
  BY Zenon DEF AccountStep, Find, Insert, InsertFails, Login, TokenExpires, SetStatus

LEMMA OwnershipStepFrame ==
  ASSUME OwnershipStep
  PROVE  UNCHANGED <<ids, pay, held>>
  BY Zenon DEF OwnershipStep, Prove, SaveOwnership, Unlink

LEMMA PaymentStepFrame ==
  ASSUME PaymentStep
  PROVE  UNCHANGED <<ids, owns>>
  BY Zenon DEF PaymentStep, Admit, FindSender, FindRecipient, Refuse, Reserve, Prepare, Authorize, GiveUp, Submit,
     RecheckSender, RecheckRecipient, Instruct, Interrupt, Refresh, Becomes, Ends

LEMMA IdsTyped ==
  ASSUME TypeOK, AccountStep
  PROVE  accounts' \in Partial(Users, AccountRows) /\ tokens' \subseteq Users /\ reg' \in [Registrations -> RegRows]
  <1>1. ASSUME NEW r \in Registrations, NEW u \in Users, Insert(r, u)
        PROVE  accounts' \in Partial(Users, AccountRows) /\ tokens' \subseteq Users /\ reg' \in [Registrations -> RegRows]
    <2>1. NewAccount(reg[r].email) \in AccountRows
      BY DEF TypeOK, NewAccount, AccountRows, RegRows
    <2>2. accounts' \in Partial(Users, AccountRows)
      BY <1>1, <2>1, PartialAdd DEF Insert, TypeOK
    <2>3. tokens' \subseteq Users /\ reg' \in [Registrations -> RegRows]
      BY <1>1 DEF Insert, TypeOK, RegRows
    <2> QED
      BY <2>2, <2>3
  <1>2. ASSUME NEW u \in Users, NEW s \in {"ACTIVE", "SUSPENDED", "PENDING_VERIFICATION"}, SetStatus(u, s)
        PROVE  accounts' \in Partial(Users, AccountRows) /\ UNCHANGED <<tokens, reg>>
    <2>1. accounts[u] \in AccountRows
      BY <1>2, PartialType DEF SetStatus, TypeOK
    <2>2. [accounts[u] EXCEPT !.status = s] \in AccountRows
      BY <2>1 DEF AccountRows
    <2>3. accounts' = [accounts EXCEPT ![u] = [accounts[u] EXCEPT !.status = s]]
      BY <1>2 DEF SetStatus
    <2>4. u \in DOMAIN accounts /\ accounts \in Partial(Users, AccountRows)
      BY <1>2 DEF SetStatus, TypeOK
    <2>5. accounts' \in Partial(Users, AccountRows)
      BY <2>2, <2>3, <2>4, PartialExcept
    <2> QED
      BY <1>2, <2>5 DEF SetStatus
  <1>3. ASSUME NEW r \in Registrations, Find(r) \/ InsertFails(r)
        PROVE  reg' \in [Registrations -> RegRows] /\ UNCHANGED <<accounts, tokens>>
    BY <1>3 DEF Find, InsertFails, TypeOK, RegRows
  <1>4. ASSUME NEW u \in Users, Login(u) \/ TokenExpires(u)
        PROVE  tokens' \subseteq Users /\ UNCHANGED <<accounts, reg>>
    BY <1>4 DEF Login, TokenExpires, TypeOK
  <1> QED
    BY <1>1, <1>2, <1>3, <1>4 DEF AccountStep, TypeOK

LEMMA OwnsTyped ==
  ASSUME TypeOK, OwnershipStep
  PROVE  wallets' \in Partial(Rows, {"LINKED", "UNLINKED"}) /\ proofs' \in Partial(Transactions, Rows)
         /\ attested' \subseteq Transactions
  <1>1. ASSUME NEW tx \in Transactions, SaveOwnership(tx)
        PROVE  wallets' \in Partial(Rows, {"LINKED", "UNLINKED"}) /\ UNCHANGED proofs /\ attested' \subseteq Transactions
    <2>1. proofs[tx] \in Rows
      BY <1>1, PartialType DEF SaveOwnership, TypeOK
    <2>2. wallets' \in Partial(Rows, {"LINKED", "UNLINKED"})
      BY <1>1, <2>1, PartialAdd DEF SaveOwnership, TypeOK
    <2> QED
      BY <1>1, <2>2 DEF SaveOwnership, TypeOK
  <1>2. ASSUME NEW tx \in Transactions, NEW row \in Rows, Prove(tx, row)
        PROVE  proofs' \in Partial(Transactions, Rows) /\ UNCHANGED <<wallets, attested>>
    BY <1>2, PartialAdd DEF Prove, TypeOK
  <1>3. ASSUME NEW row \in Rows, Unlink(row)
        PROVE  wallets' \in Partial(Rows, {"LINKED", "UNLINKED"}) /\ UNCHANGED <<proofs, attested>>
    BY <1>3, PartialExcept DEF Unlink, TypeOK
  <1> QED
    BY <1>1, <1>2, <1>3 DEF OwnershipStep, TypeOK

LEMMA PayTyped ==
  ASSUME TypeOK, PaymentStep
  PROVE  pay' \in PayRows
  <1>1. pay \in PayRows
    BY DEF TypeOK
  <1>2. ASSUME NEW u \in Users, Admit(u)
        PROVE  pay' \in PayRows
    BY <1>1, <1>2 DEF Admit, Becomes, PayRows
  <1>3. ASSUME NEW row \in Rows, FindSender(row) \/ FindRecipient(row)
        PROVE  pay' \in PayRows
    BY <1>1, <1>3 DEF FindSender, FindRecipient, Becomes, PayRows
  <1>4. ASSUME Refuse PROVE pay' \in PayRows
    BY <1>4 DEF Refuse, Becomes, NoPay, PayRows
  <1>5. ASSUME Reserve \/ Prepare \/ Authorize \/ GiveUp \/ Submit PROVE pay' \in PayRows
    BY <1>1, <1>5 DEF Reserve, Prepare, Authorize, GiveUp, Submit, Becomes, Ends, PayRows
  <1>6. ASSUME RecheckSender \/ RecheckRecipient \/ Instruct \/ Interrupt \/ Refresh PROVE pay' \in PayRows
    BY <1>1, <1>6 DEF RecheckSender, RecheckRecipient, Instruct, Interrupt, Refresh, Becomes, PayRows
  <1> QED
    BY <1>2, <1>3, <1>4, <1>5, <1>6 DEF PaymentStep

-----------------------------------------------------------------------------
(* Credentials: each was accepted for its purpose.                         *)

GrantsInv ==
  /\ \A p \in Purposes \ {"outgoing"} : held[p] = NoGrant \/ held[p] \in Accepted[p]
  /\ held["outgoing"] = NoGrant \/ held["outgoing"] \in AcceptedLater

(* What may create may later be read. *)
LEMMA AcceptedIsKept == Accepted["outgoing"] \subseteq AcceptedLater
  BY DEF Accepted, AcceptedLater, Accepts, CheckOutgoing, Purposes

LEMMA AcceptedTyped ==
  /\ \A p \in Purposes : Accepted[p] \subseteq Seq(Scopes)
  /\ AcceptedLater \subseteq Seq(Scopes)
  BY AnswersAssumption DEF Accepted, AcceptedLater

LEMMA PrepareKeeps ==
  ASSUME Prepare
  PROVE  held' \in [Purposes -> Seq(Scopes)] /\ GrantsInv'
  <1>0. PICK left \in SUBSET {"incoming-create", "quote"} :
          \E got \in [left \cup {"incoming"} -> UNION {Accepted[p] : p \in Purposes}] :
            /\ \A p \in DOMAIN got : got[p] \in Accepted[p]
            /\ held' = [p \in Purposes |-> IF p \in DOMAIN got THEN got[p] ELSE NoGrant]
    BY DEF Prepare
  <1>1. PICK got \in [left \cup {"incoming"} -> UNION {Accepted[p] : p \in Purposes}] :
          /\ \A p \in DOMAIN got : got[p] \in Accepted[p]
          /\ held' = [p \in Purposes |-> IF p \in DOMAIN got THEN got[p] ELSE NoGrant]
    BY <1>0
  <1>2. DOMAIN got \subseteq Purposes \ {"outgoing"}
    BY DEF Purposes
  <1>3. ASSUME NEW p \in Purposes
        PROVE  held'[p] = NoGrant \/ (p # "outgoing" /\ held'[p] \in Accepted[p])
    <2>1. held'[p] = IF p \in DOMAIN got THEN got[p] ELSE NoGrant
      BY <1>1, Zenon
    <2> QED
      BY <1>1, <1>2, <2>1
  <1>4. NoGrant \in Seq(Scopes)
    BY DEF NoGrant
  <1>5. held' \in [Purposes -> Seq(Scopes)]
    BY <1>1, <1>3, <1>4, AcceptedTyped
  <1> QED
    BY <1>3, <1>5 DEF GrantsInv, Purposes

LEMMA OutgoingKeeps ==
  ASSUME held \in [Purposes -> Seq(Scopes)], GrantsInv,
         NEW access \in AcceptedLater, held' = [held EXCEPT !["outgoing"] = access]
  PROVE  held' \in [Purposes -> Seq(Scopes)] /\ GrantsInv'
  <1>1. access \in Seq(Scopes) /\ "outgoing" \in Purposes
    BY AcceptedTyped DEF Purposes
  <1>2. held'["outgoing"] = access /\ \A p \in Purposes \ {"outgoing"} : held'[p] = held[p]
    BY <1>1
  <1> QED
    BY <1>1, <1>2 DEF GrantsInv

LEMMA GrantsStep ==
  ASSUME TypeOK, GrantsInv, [Next]_vars
  PROVE  held' \in [Purposes -> Seq(Scopes)] /\ GrantsInv'
  <1>0. held \in [Purposes -> Seq(Scopes)]
    BY DEF TypeOK
  <1>1. CASE UNCHANGED held
    BY <1>0, <1>1 DEF GrantsInv
  <1>2. CASE Prepare
    BY <1>2, PrepareKeeps
  <1>3. CASE Authorize \/ Instruct \/ Refresh
    <2>1. PICK access \in AcceptedLater : held' = [held EXCEPT !["outgoing"] = access]
      BY <1>3, AcceptedIsKept DEF Authorize, Instruct, Refresh
    <2> QED
      BY <1>0, <2>1, OutgoingKeeps
  <1>4. UNCHANGED held \/ Prepare \/ Authorize \/ Instruct \/ Refresh
    <2>1. CASE AccountStep
      BY <2>1, AccountStepFrame
    <2>2. CASE OwnershipStep
      BY <2>2, OwnershipStepFrame
    <2>3. CASE PaymentStep
      BY <2>3, Zenon DEF PaymentStep, Admit, FindSender, FindRecipient, Refuse, Reserve, GiveUp, Submit,
         RecheckSender, RecheckRecipient, Interrupt, Ends
    <2>4. CASE UNCHANGED vars
      BY <2>4 DEF vars
    <2> QED
      BY <2>1, <2>2, <2>3, <2>4 DEF Next
  <1> QED
    BY <1>1, <1>2, <1>3, <1>4

-----------------------------------------------------------------------------
(* Types of every variable.                                                *)

LEMMA SeenTyped ==
  ASSUME TypeOK, [Next]_vars
  PROVE  seen' \subseteq Parties
  <1>1. CASE UNCHANGED seen
    BY <1>1 DEF TypeOK
  <1>2. CASE Observe
    BY <1>2 DEF Observe, Usable, TypeOK
  <1>3. UNCHANGED seen \/ Observe
    <2>1. CASE AccountStep
      BY <2>1, Zenon DEF AccountStep, Find, Insert, InsertFails, Login, TokenExpires, SetStatus
    <2>2. CASE OwnershipStep
      BY <2>2, Zenon DEF OwnershipStep, Prove, SaveOwnership, Unlink
    <2>3. CASE PaymentStep
      BY <2>3, Zenon DEF PaymentStep, Admit, FindSender, FindRecipient, Refuse, Reserve, Prepare, Authorize,
         GiveUp, Submit, RecheckSender, RecheckRecipient, Instruct, Interrupt, Refresh, Becomes, Ends
    <2>4. CASE UNCHANGED vars
      BY <2>4 DEF vars
    <2> QED
      BY <2>1, <2>2, <2>3, <2>4 DEF Next
  <1> QED
    BY <1>1, <1>2, <1>3

LEMMA TypeInit == Init => TypeOK /\ GrantsInv
  <1> SUFFICES ASSUME Init PROVE TypeOK /\ GrantsInv
    OBVIOUS
  <1>1. \A S, T : Nothing \in Partial(S, T)
    <2>1. Nothing = [x \in DOMAIN Nothing |-> Nothing[x]] /\ DOMAIN Nothing = {}
      BY DEF Nothing
    <2> QED
      BY <2>1, PartialType
  <1>2. accounts \in Partial(Users, AccountRows) /\ wallets \in Partial(Rows, {"LINKED", "UNLINKED"})
        /\ proofs \in Partial(Transactions, Rows)
    BY <1>1 DEF Init
  <1>3. reg \in [Registrations -> RegRows] /\ pay \in PayRows
    BY DEF Init, NoPay, PayRows
  <1>4. held \in [Purposes -> Seq(Scopes)] /\ GrantsInv
    BY DEF Init, GrantsInv, NoGrant, Purposes
  <1> QED
    BY <1>2, <1>3, <1>4 DEF Init, TypeOK

LEMMA TypeStep ==
  ASSUME TypeOK, GrantsInv, [Next]_vars
  PROVE  TypeOK' /\ GrantsInv'
  <1>1. held' \in [Purposes -> Seq(Scopes)] /\ GrantsInv'
    BY GrantsStep
  <1>2. seen' \subseteq Parties
    BY SeenTyped
  <1>3. CASE AccountStep
    BY <1>1, <1>2, <1>3, AccountStepFrame, IdsTyped DEF TypeOK, owns
  <1>4. CASE OwnershipStep
    BY <1>1, <1>2, <1>4, OwnershipStepFrame, OwnsTyped DEF TypeOK, ids
  <1>5. CASE PaymentStep
    BY <1>1, <1>2, <1>5, PaymentStepFrame, PayTyped DEF TypeOK, ids, owns
  <1>6. CASE UNCHANGED vars
    BY <1>1, <1>2, <1>6 DEF TypeOK, vars, ids, owns
  <1> QED
    BY <1>3, <1>4, <1>5, <1>6 DEF Next

(* TypeOK is invariant: accounts, wallets, the transfer and its            *)
(* credentials stay within their rows (Init and every action).             *)
THEOREM AuthorityTyped == Spec => [](TypeOK /\ GrantsInv)
  BY TypeInit, TypeStep, PTL DEF Spec

-----------------------------------------------------------------------------
(* Registrations: what was created is known, and known is not vacant.      *)

CreatedIsKnown == \A r \in Registrations : reg[r].pc = "created" => Known(reg[r].email)

LEMMA RegisteredStep ==
  ASSUME TypeOK, CreatedIsKnown, RegisteredOnce, [Next]_vars
  PROVE  CreatedIsKnown' /\ RegisteredOnce'
  <1>1. ASSUME NEW q \in Registrations, NEW u \in Users, Insert(q, u)
        PROVE  CreatedIsKnown' /\ RegisteredOnce'
    <2>1. \A r \in Registrations :
            /\ reg'[r].email = reg[r].email
            /\ reg'[r].pc = "created" => r = q \/ reg[r].pc = "created"
      BY <1>1 DEF Insert, TypeOK, RegRows
    <2>2. ~Known(reg[q].email) /\ accounts'[u].email = reg[q].email
          /\ u \in DOMAIN accounts' /\ DOMAIN accounts \subseteq DOMAIN accounts'
          /\ \A v \in DOMAIN accounts : accounts'[v] = accounts[v]
      BY <1>1 DEF Insert, Vacant, NewAccount
    <2>3. \A e : Known(e) => Known(e)'
      BY <2>2 DEF Known
    <2>4. Known(reg[q].email)'
      BY <2>1, <2>2 DEF Known
    <2>5. CreatedIsKnown'
      BY <2>1, <2>2, <2>4 DEF CreatedIsKnown, Known
    <2>6. \A r \in Registrations : reg[r].pc = "created" => reg[r].email # reg[q].email
      BY <2>2 DEF CreatedIsKnown
    <2> QED
      BY <2>1, <2>5, <2>6 DEF RegisteredOnce
  <1>2. ASSUME NEW q \in Registrations, Find(q) \/ InsertFails(q)
        PROVE  CreatedIsKnown' /\ RegisteredOnce'
    <2>1. \A r \in Registrations :
            /\ reg'[r].email = reg[r].email
            /\ reg'[r].pc = "created" => reg[r].pc = "created"
      BY <1>2 DEF Find, InsertFails, TypeOK, RegRows
    <2>2. UNCHANGED accounts
      BY <1>2 DEF Find, InsertFails
    <2> QED
      BY <2>1, <2>2 DEF CreatedIsKnown, RegisteredOnce, Known
  <1>3. ASSUME NEW u \in Users, NEW s \in {"ACTIVE", "SUSPENDED", "PENDING_VERIFICATION"}, SetStatus(u, s)
        PROVE  CreatedIsKnown' /\ RegisteredOnce'
    <2>1. \A v \in DOMAIN accounts : accounts[v] \in AccountRows
      BY PartialType DEF TypeOK
    <2>2. DOMAIN accounts' = DOMAIN accounts /\ \A v \in DOMAIN accounts : accounts'[v].email = accounts[v].email
      BY <1>3, <2>1 DEF SetStatus, AccountRows
    <2>3. UNCHANGED reg
      BY <1>3 DEF SetStatus
    <2> QED
      BY <2>2, <2>3 DEF CreatedIsKnown, RegisteredOnce, Known
  <1>4. ASSUME UNCHANGED <<accounts, reg>>
        PROVE  CreatedIsKnown' /\ RegisteredOnce'
    BY <1>4 DEF CreatedIsKnown, RegisteredOnce, Known
  <1>5. CASE AccountStep
    <2>1. ASSUME NEW u \in Users, Login(u) \/ TokenExpires(u)
          PROVE  UNCHANGED <<accounts, reg>>
      BY <2>1 DEF Login, TokenExpires
    <2> QED
      BY <1>1, <1>2, <1>3, <1>4, <1>5, <2>1, Zenon DEF AccountStep
  <1>6. CASE OwnershipStep
    BY <1>4, <1>6, OwnershipStepFrame DEF ids
  <1>7. CASE PaymentStep
    BY <1>4, <1>7, PaymentStepFrame DEF ids
  <1>8. CASE UNCHANGED vars
    BY <1>4, <1>8 DEF vars, ids
  <1> QED
    BY <1>5, <1>6, <1>7, <1>8 DEF Next

(* RegisteredOnce, for any number of overlapping registrations: the        *)
(* unique e-mail address decides, not the lookup (auth.service.ts 15-28).  *)
THEOREM AccountsAreUnique == Spec => []RegisteredOnce
  <1>1. Init => CreatedIsKnown /\ RegisteredOnce
    BY DEF Init, CreatedIsKnown, RegisteredOnce
  <1>2. TypeOK /\ CreatedIsKnown /\ RegisteredOnce /\ [Next]_vars => (CreatedIsKnown /\ RegisteredOnce)'
    BY RegisteredStep
  <1> QED
    BY <1>1, <1>2, AuthorityTyped, PTL DEF Spec

-----------------------------------------------------------------------------
(* Ownership.                                                              *)

LEMMA OwnersStep ==
  ASSUME TypeOK, LinkedIsProven, [Next]_vars
  PROVE  LinkedIsProven'
  <1>0. proofs = [t \in DOMAIN proofs |-> proofs[t]] /\ \A t \in DOMAIN proofs : proofs[t] \in Rows
    BY PartialType DEF TypeOK
  <1>1. ASSUME NEW tx \in Transactions, SaveOwnership(tx)
        PROVE  LinkedIsProven'
    <2> DEFINE new == proofs[tx]
    <2>1. /\ DOMAIN wallets' = DOMAIN wallets \cup {new} /\ wallets'[new] = "LINKED"
          /\ \A w \in DOMAIN wallets \ {new} : wallets'[w] = wallets[w]
          /\ tx \in DOMAIN proofs /\ attested' = attested \cup {tx} /\ UNCHANGED proofs
          /\ ~Taken(new)
      BY <1>1 DEF SaveOwnership
    <2>2. \A other \in DOMAIN wallets : other # new /\ other[2] = new[2] => wallets[other] = "UNLINKED"
      BY <2>1, PartialType DEF Taken, TypeOK
    <2> HIDE DEF new
    <2>3. ASSUME NEW row \in DOMAIN wallets', wallets'[row] = "LINKED"
          PROVE  \E t \in attested' : t \in DOMAIN proofs' /\ proofs'[t] = row
      <3>1. CASE row = new
        BY <2>1, <3>1 DEF new
      <3>2. CASE row # new
        BY <2>1, <2>3, <3>2 DEF LinkedIsProven
      <3> QED
        BY <3>1, <3>2
    <2>4. ASSUME NEW row \in DOMAIN wallets', wallets'[row] = "LINKED",
                 NEW other \in DOMAIN wallets', other # row, other[2] = row[2]
          PROVE  wallets'[other] = "UNLINKED"
      <3>1. CASE row = new
        BY <2>1, <2>2, <2>4, <3>1
      <3>2. CASE row # new
        <4>1. row \in DOMAIN wallets /\ wallets[row] = "LINKED"
          BY <2>1, <2>4, <3>2
        <4>2. other # new
          BY <2>2, <2>4, <3>2, <4>1
        <4> QED
          BY <2>1, <2>4, <4>1, <4>2 DEF LinkedIsProven
      <3> QED
        BY <3>1, <3>2
    <2> QED
      BY <2>3, <2>4 DEF LinkedIsProven
  <1>2. ASSUME NEW tx \in Transactions, NEW row \in Rows, Prove(tx, row)
        PROVE  LinkedIsProven'
    <2>1. UNCHANGED <<wallets, attested>> /\ DOMAIN proofs \subseteq DOMAIN proofs'
          /\ \A t \in DOMAIN proofs : proofs'[t] = proofs[t]
      BY <1>2 DEF Prove
    <2> QED
      BY <2>1 DEF LinkedIsProven
  <1>3. ASSUME NEW row \in Rows, Unlink(row)
        PROVE  LinkedIsProven'
    <2>1. UNCHANGED <<proofs, attested>> /\ DOMAIN wallets' = DOMAIN wallets /\ wallets'[row] = "UNLINKED"
          /\ \A w \in DOMAIN wallets \ {row} : wallets'[w] = wallets[w]
      BY <1>3 DEF Unlink
    <2> QED
      BY <2>1 DEF LinkedIsProven
  <1>4. CASE UNCHANGED owns
    BY <1>4 DEF LinkedIsProven, owns
  <1>5. CASE AccountStep
    BY <1>4, <1>5, AccountStepFrame
  <1>6. CASE OwnershipStep
    BY <1>1, <1>2, <1>3, <1>6 DEF OwnershipStep
  <1>7. CASE PaymentStep
    BY <1>4, <1>7, PaymentStepFrame
  <1> QED
    BY <1>4, <1>5, <1>6, <1>7 DEF Next, vars

(* LinkedIsProven, for any number of users, wallets and sessions: what the *)
(* transaction of saveOwnership and the index over linked addresses keep   *)
(* together (grant.repository.ts 20-46).                                   *)
THEOREM LinkedWalletsAreProven == Spec => []LinkedIsProven
  <1>1. Init => LinkedIsProven
    BY DEF Init, Nothing, LinkedIsProven
  <1>2. TypeOK /\ LinkedIsProven /\ [Next]_vars => LinkedIsProven'
    BY OwnersStep
  <1> QED
    BY <1>1, <1>2, AuthorityTyped, PTL DEF Spec

(* UnlinkedNeedsNewProof: a callback that comes again, however late, never *)
(* brings back a wallet that was unlinked (grant.repository.ts 24-29).     *)
THEOREM RelinkingIsProven == Spec => UnlinkedNeedsNewProof
  <1> DEFINE Proven == \A row \in DOMAIN wallets :
               wallets[row] = "UNLINKED" /\ wallets'[row] = "LINKED" =>
                 \E tx \in Transactions : tx \in attested' \ attested /\ proofs[tx] = row
  <1>1. ASSUME NEW tx \in Transactions, SaveOwnership(tx)
        PROVE  Proven
    <2>1. tx \notin attested /\ attested' = attested \cup {tx}
          /\ \A w \in DOMAIN wallets : w = proofs[tx] \/ wallets'[w] = wallets[w]
      BY <1>1 DEF SaveOwnership, Replayed
    <2> QED
      BY <2>1
  <1>2. ASSUME NEW row \in Rows, Unlink(row)
        PROVE  Proven
    <2>1. \A w \in DOMAIN wallets : wallets'[w] = "UNLINKED" \/ wallets'[w] = wallets[w]
      BY <1>2 DEF Unlink
    <2> QED
      BY <2>1
  <1>3. ASSUME UNCHANGED wallets
        PROVE  Proven
    BY <1>3
  <1>4. Next => Proven
    <2> HIDE DEF Proven
    <2>1. AccountStep => Proven
      BY <1>3, AccountStepFrame DEF owns
    <2>2. OwnershipStep => Proven
      BY <1>1, <1>2, <1>3 DEF OwnershipStep, Prove
    <2>3. PaymentStep => Proven
      BY <1>3, PaymentStepFrame DEF owns
    <2> QED
      BY <2>1, <2>2, <2>3 DEF Next
  <1>5. [Next]_vars => [Proven]_vars
    BY <1>4
  <1> QED
    BY <1>5, PTL DEF Spec, UnlinkedNeedsNewProof

-----------------------------------------------------------------------------
(* The parties of a transfer.                                              *)

PartiesInv ==
  /\ At("sender") => pay.from \in Rows /\ pay.from[1] = pay.user
  /\ At("found") => pay.from \in Rows /\ pay.to \in Rows /\ pay.from[1] # pay.to[1]
  /\ PartiesDiffer

LEMMA PartiesStep ==
  ASSUME TypeOK, PartiesInv, [Next]_vars
  PROVE  PartiesInv'
  <1>0. pay \in PayRows
    BY DEF TypeOK
  <1>1. CASE UNCHANGED pay
    BY <1>1 DEF PartiesInv, PartiesDiffer, At
  <1>2. ASSUME NEW u \in Users, Admit(u)
        PROVE  PartiesInv'
    BY <1>0, <1>2 DEF Admit, Becomes, PartiesInv, PartiesDiffer, At, PayRows
  <1>3. ASSUME NEW row \in Rows, FindSender(row)
        PROVE  PartiesInv'
    <2>1. pay'.pc = "sender" /\ pay'.from = row /\ pay'.user = pay.user /\ row[1] = pay.user
      BY <1>0, <1>3 DEF FindSender, Becomes, PayRows
    <2> QED
      BY <2>1 DEF PartiesInv, PartiesDiffer, At
  <1>4. ASSUME NEW row \in Rows, FindRecipient(row)
        PROVE  PartiesInv'
    <2>1. pay'.pc = "found" /\ pay'.from = pay.from /\ pay'.to = row /\ row[1] # pay.user /\ At("sender")
      BY <1>0, <1>4 DEF FindRecipient, Becomes, PayRows
    <2> QED
      BY <2>1 DEF PartiesInv, PartiesDiffer, At
  <1>5. CASE Refuse
    BY <1>5 DEF Refuse, Becomes, NoPay, PartiesInv, PartiesDiffer, At
  <1>6. CASE Reserve
    <2>1. pay'.pc = "reserved" /\ pay'.from = pay.from /\ pay'.to = pay.to /\ At("found") /\ pay.from[2] # pay.to[2]
      BY <1>0, <1>6 DEF Reserve, Differ, Becomes, PayRows
    <2> QED
      BY <2>1 DEF PartiesInv, PartiesDiffer, At
  <1>7. CASE Prepare \/ Authorize \/ GiveUp \/ Submit \/ RecheckSender \/ RecheckRecipient \/ Instruct \/ Interrupt \/ Refresh
    <2>1. pay'.from = pay.from /\ pay'.to = pay.to
          /\ pay.pc \notin {"idle", "admitted", "sender", "found"} /\ pay'.pc \notin {"idle", "admitted", "sender", "found"}
      BY <1>0, <1>7 DEF Prepare, Authorize, GiveUp, Submit, RecheckSender, RecheckRecipient, Instruct, Interrupt, Refresh,
         Becomes, Ends, At, PayRows
    <2> QED
      BY <2>1 DEF PartiesInv, PartiesDiffer, At
  <1>8. CASE PaymentStep
    BY <1>2, <1>3, <1>4, <1>5, <1>6, <1>7, <1>8 DEF PaymentStep
  <1>9. UNCHANGED pay \/ PaymentStep
    BY AccountStepFrame, OwnershipStepFrame DEF Next, vars
  <1> QED
    BY <1>1, <1>8, <1>9

(* PartiesDiffer, for any number of users and wallets: an address that     *)
(* changes hands between the two lookups is not paid to itself             *)
(* (transfer.service.ts 35-54).                                            *)
THEOREM PartiesStayDifferent == Spec => []PartiesDiffer
  <1>1. Init => PartiesInv
    BY DEF Init, NoPay, PartiesInv, PartiesDiffer, At
  <1>2. TypeOK /\ PartiesInv /\ [Next]_vars => PartiesInv'
    BY PartiesStep
  <1>3. PartiesInv => PartiesDiffer
    BY DEF PartiesInv
  <1> QED
    BY <1>1, <1>2, <1>3, AuthorityTyped, PTL DEF Spec

-----------------------------------------------------------------------------
(* A submission looks at both parties again.                               *)

SeenInv ==
  /\ At("rechecked") => "from" \in seen
  /\ At("ready") => seen = Parties

LEMMA FoundIsRow ==
  ASSUME TypeOK, NEW row, Found(row)
  PROVE  row # None
  <1>1. row \in Rows
    BY PartialType DEF Found, TypeOK
  <1> QED
    BY <1>1, NoneAssumption DEF Rows

LEMMA SeenStep ==
  ASSUME TypeOK, SeenInv, [Next]_vars
  PROVE  SeenInv'
  <1>0. pay \in PayRows /\ seen' \subseteq Parties
    BY SeenTyped DEF TypeOK
  <1>1. CASE UNCHANGED pay /\ (UNCHANGED seen \/ Observe)
    BY <1>0, <1>1 DEF SeenInv, At, Observe, PayRows
  <1>2. CASE RecheckSender
    <2>1. pay'.pc = "rechecked" /\ pay'["from"] = pay["from"] /\ Observe
      BY <1>0, <1>2 DEF RecheckSender, Becomes, PayRows
    <2>2. Found(pay["from"])' /\ pay'["from"] # None
      BY <1>2, <2>1, FoundIsRow DEF RecheckSender, Rechecked, Becomes, Found, ids, owns
    <2>3. "from" \in Usable'
      BY <2>1, <2>2 DEF Usable, Parties
    <2> QED
      BY <2>1, <2>3 DEF SeenInv, At, Observe
  <1>3. CASE RecheckRecipient
    <2>1. pay'.pc = "ready" /\ pay'["to"] = pay["to"] /\ At("rechecked") /\ Observe
      BY <1>0, <1>3 DEF RecheckRecipient, Becomes, PayRows
    <2>2. Found(pay["to"])' /\ pay'["to"] # None
      BY <1>3, <2>1, FoundIsRow DEF RecheckRecipient, Rechecked, Becomes, Found, ids, owns
    <2>3. "to" \in Usable'
      BY <2>1, <2>2 DEF Usable, Parties
    <2>4. "from" \in seen'
      BY <2>1 DEF SeenInv, At, Observe
    <2> QED
      BY <1>0, <2>1, <2>3, <2>4 DEF SeenInv, At, Observe, Parties
  <1>4. CASE PaymentStep
    <2>1. RecheckSender \/ RecheckRecipient \/ UNCHANGED pay \/ pay'.pc \notin {"rechecked", "ready"}
      <3>1. ASSUME Reserve \/ Prepare \/ Authorize \/ GiveUp \/ Submit \/ Instruct \/ Interrupt
            PROVE  pay'.pc \notin {"rechecked", "ready"}
        BY <1>0, <3>1 DEF Reserve, Prepare, Authorize, GiveUp, Submit, Instruct, Interrupt, Becomes, Ends, PayRows
      <3>2. Refresh => UNCHANGED pay
        BY DEF Refresh, Becomes
      <3>3. ASSUME Refuse
            PROVE  pay'.pc \notin {"rechecked", "ready"}
        BY <3>3 DEF Refuse, Becomes, NoPay
      <3>4. ASSUME NEW u \in Users, Admit(u)
            PROVE  pay'.pc \notin {"rechecked", "ready"}
        BY <1>0, <3>4 DEF Admit, Becomes, PayRows
      <3>5. ASSUME NEW row \in Rows, FindSender(row) \/ FindRecipient(row)
            PROVE  pay'.pc \notin {"rechecked", "ready"}
        BY <1>0, <3>5 DEF FindSender, FindRecipient, Becomes, PayRows
      <3> QED
        BY <1>4, <3>1, <3>2, <3>3, <3>4, <3>5 DEF PaymentStep
    <2>2. Observe
      BY <1>4, Zenon DEF PaymentStep, Admit, FindSender, FindRecipient, Refuse, Reserve, Prepare, Authorize,
         GiveUp, Submit, RecheckSender, RecheckRecipient, Instruct, Interrupt, Refresh, Becomes, Ends
    <2>3. CASE pay'.pc \notin {"rechecked", "ready"}
      BY <2>3 DEF SeenInv, At
    <2> QED
      BY <1>1, <1>2, <1>3, <2>1, <2>2, <2>3
  <1>5. CASE AccountStep
    BY <1>1, <1>5, AccountStepFrame, Zenon DEF AccountStep, Find, Insert, InsertFails, Login, TokenExpires, SetStatus
  <1>6. CASE OwnershipStep
    BY <1>1, <1>6, OwnershipStepFrame, Zenon DEF OwnershipStep, Prove, SaveOwnership, Unlink
  <1> QED
    BY <1>1, <1>4, <1>5, <1>6 DEF Next, vars

(* SubmissionSawBoth, for any number of users and wallets and however      *)
(* their accounts and links change meanwhile (transfer.service.ts          *)
(* 271-273).                                                               *)
THEOREM SubmissionsSeeBoth == Spec => SubmissionSawBoth
  <1>1. Init => SeenInv
    BY DEF Init, NoPay, SeenInv, At
  <1>2. TypeOK /\ SeenInv /\ [Next]_vars => SeenInv'
    BY SeenStep
  <1>3. SeenInv => (At("ready") /\ pay'.pc = "instructed" => seen = Parties)
    BY DEF SeenInv
  <1> QED
    BY <1>1, <1>2, <1>3, AuthorityTyped, PTL DEF Spec, SubmissionSawBoth

-----------------------------------------------------------------------------
(* What the credentials allow.                                             *)

LEMMA ExactScopeSpendsNothing ==
  ASSUME NEW access, NEW type, NEW actions, NEW scopeOn, ExactScope(access, type, actions, scopeOn),
         type # "outgoing-payment", NEW on, NEW receiver, NEW n
  PROVE  ~MayDebit(access, on, receiver, n)
  BY DEF ExactScope, MayDebit, NoLimits

LEMMA OutgoingSpendsOnce ==
  ASSUME NEW access \in Seq(Scopes), NEW create \in BOOLEAN, CheckOutgoing(access, create),
         NEW on, NEW receiver \in {"incoming", "other"}, NEW n \in 1 .. 2, MayDebit(access, on, receiver, n)
  PROVE  on = "sender" /\ receiver = "incoming" /\ n = 1
  <1>1. DOMAIN access = {1}
    BY DEF CheckOutgoing
  <1>2. access[1].limits = [receiver |-> "incoming", debit |-> 1, more |-> FALSE] /\ access[1].on = "sender"
    BY DEF CheckOutgoing
  <1>3. access[1].on = on /\ access[1].limits.receiver \in {receiver, "none"}
        /\ (n <= access[1].limits.debit \/ access[1].limits.debit = 0 \/ access[1].limits.more)
    BY <1>1 DEF MayDebit
  <1> QED
    BY <1>2, <1>3

(* HeldGrantIsNarrow, for any set of answers a provider may give           *)
(* (transfer.service.ts 419-461).                                          *)
THEOREM GrantsStayNarrow == Spec => []HeldGrantIsNarrow
  <1>1. ASSUME GrantsInv
        PROVE  HeldGrantIsNarrow
    <2> SUFFICES ASSUME NEW p \in Purposes, NEW n \in 1 .. 2,
                        NEW on \in {"sender", "recipient", "incoming", "other", "none"},
                        NEW receiver \in {"incoming", "other"}, MayDebit(held[p], on, receiver, n)
                 PROVE  p = "outgoing" /\ on = "sender" /\ receiver = "incoming" /\ n = 1
      BY DEF HeldGrantIsNarrow
    <2>1. held[p] # NoGrant
      BY DEF MayDebit, NoGrant
    <2>2. CASE p # "outgoing"
      <3>1. held[p] \in Accepted[p]
        BY <1>1, <2>1, <2>2 DEF GrantsInv
      <3>2. \E type, actions, scopeOn : type # "outgoing-payment" /\ ExactScope(held[p], type, actions, scopeOn)
        <4>1. p \in {"incoming-create", "quote", "incoming"} /\ Accepts(p, held[p])
          BY <2>2, <3>1 DEF Accepted, Purposes
        <4>2. \/ ExactScope(held[p], "incoming-payment", {"create"}, "recipient")
              \/ ExactScope(held[p], "quote", {"create"}, "none")
              \/ ExactScope(held[p], "incoming-payment", {"read", "complete"}, "incoming")
          BY <4>1 DEF Accepts
        <4> QED
          BY <4>2
      <3> QED
        BY <3>2, ExactScopeSpendsNothing
    <2>3. CASE p = "outgoing"
      <3>1. held[p] \in Seq(Scopes) /\ CheckOutgoing(held[p], FALSE)
        BY <1>1, <2>1, <2>3, AnswersAssumption DEF GrantsInv, AcceptedLater
      <3> QED
        BY <2>3, <3>1, OutgoingSpendsOnce
    <2> QED
      BY <2>2, <2>3
  <1> QED
    BY <1>1, AuthorityTyped, PTL
=============================================================================
