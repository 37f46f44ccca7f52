# Digital wallet backend: specifications, model checking, proofs

The backend lets a user link Open Payments wallets and send money from one to
another. It holds no money itself: it asks the wallets' providers to move it,
over HTTP calls that time out, behind several API processes and workers that
share PostgreSQL and Redis. What is hard about it is that every operation is a
chain of awaited calls to parties that answer late, twice or never, and that
another process may act between any two of them.

This directory models the parts where that matters, call by call, checks them
with TLC, and proves with TLAPS, for every size of the system, all the safety and
action properties that TLC checks: of a transfer and its contract with the sender, of
payment tokens, of linking a wallet, of the payment limits, of key replacement, of the
authority behind a payment, and of the upgrade of an existing database.

## 1. Inventory of the system

Paths are relative to `src/`.

| Component | State it keeps | Operations | Hard behaviour | Model |
|---|---|---|---|---|
| Transfer service (`src/services/transfer.service.ts`) | none; locals across awaits | `create`, `handleCallback`, `get`, `processNext`; inside them `maintain`, `submit`, `refresh`, `cleanup` | leases lapse under a running operation; the payment instruction is not idempotent; two providers are read at different times | `Transfer` |
| Transfer repository (`src/repositories/transfer.repository.ts`) | table `transfers`, leases, `transfer_credentials` | `reserve`, `claim`, `claimDue`, `renew`, `release`, `transition`, `saveCredential`, `clearCredential` | guarded updates by a holder that lost its lease | `TransferStore`, `PaymentToken` |
| Payment session repository | Redis, encrypted, with a TTL | `save`, `findById`, `delete` | written without the lease | session of `Transfer` |
| Payment token service (`src/services/payment-token.service.ts`) | rows of `transfer_credentials` | `store`, `get` (rotates), `assertUsable`, `unavailable`, `cleanup` | a rotation kills the old token before the new one is known | `PaymentToken` |
| Re-encryption (`src/rekey.ts`) | the same rows | re-encrypt, `--check-retirement` | runs beside the service without leases | `PaymentToken`, `KeyRotation` |
| Keyrings and the cipher (`src/utils/grant-encryption.ts`, `encryption-audit.ts`, `packages/open-payments-primitives/src/cipher.ts`) | a keyring file that every process reads when it starts | load, encrypt, decrypt, check at start-up | processes with different keyrings serve beside each other during a deployment | `KeyRotation` |
| Worker (`src/worker.ts`) | none | `processNext` for ever | recovery of everything that was interrupted | `Transfer` (`ClaimDue`, fairness) |
| Onboarding service (`src/services/onboarding.service.ts`) | none; locals across awaits | `start`, `requestConsent`, `handleCallback`, `getStatus` | no leases at all: compare-and-set on the stored session; Redis and PostgreSQL are written one after the other | `Onboarding` |
| Onboarding, request and grant repositories | Redis sessions and active pointer; `onboarding_requests`; `wallets`, `wallet_ownership_attestations` | `save`, `findById`, `findActiveByUserId`, `transition`; `find`, `reserve`, `remove`; `getFinalized`, `saveOwnership` | pointer released after the session was written; two users prove one wallet | `Onboarding`, `PaymentAuthority` |
| Rate limiter (`src/middlewares/rateLimiter.middleware.ts`) | Redis counters and admission records | per-scope windows, per-wallet admission | retried requests, two keys that expire on their own | `PaymentLimits` |
| Accounts, access tokens (`src/services/auth.service.ts`, `src/middlewares/auth.middleware.ts`) | table `users` | `register`, `login`, authentication | e-mail race; accounts suspended between two reads | `PaymentAuthority` |
| Database migrations (`src/database`) | the schema, the rows of older versions | `up` of each migration | stop and repeat half-way, rows nobody foresaw, payments in flight | `SchemaUpgrade` |
| HTTP application, server | none | start-up, shutdown, routing | | start-up in `KeyRotation` |
| Wallet service, URL shortener, configuration, other primitives, scripts | none that matters | | | not modelled |

How they interact: a request reaches a service through a controller; a service
keeps what must survive in PostgreSQL (transfers, credentials, reservations,
attestations) and what may be lost in Redis (sessions, pointers, counters). The
user's browser comes back from the provider as a *callback* that any process may
receive, more than once. For transfers, PostgreSQL leases (60 s, renewed by a
heartbeat) keep operations on one row apart, and the worker picks up rows whose
`next_attempt_at` has passed. The token service writes only under the transfer's
lease; re-encryption writes under none.

What makes each part correct:

- *Transfer*: at most one payment instruction, whatever is retried; the status
  never says less or more than the money did; nothing is forgotten by the worker;
  what is needed to find out stays stored; interrupted work ends.
- *Payment token*: a token that was offered for rotation is never taken for good;
  authority that is out is not forgotten; only the row's current token is used.
- *Onboarding*: one open session per user; a key means one session; a session is
  COMPLETED only with its attestation; one continuation of a grant.
- *Payment limits*: no window lets more payments of a wallet through than its limit; the
  wallet's limit counts none twice and refuses none that it let through before (the user's
  counts every request, retries included); and a window ends.
- *Key replacement*: no stored credential is under a key that is gone, every running
  process can read every credential, and none is given up for want of a key. The first two
  fail where the token service undoes re-encryption (section 6, 2), and only there.
- *Authority*: an e-mail address has one account; a linked wallet was proven by its one
  owner; a payment is between two different, linked wallets of active accounts at the
  time it is sent; no grant that is held allows more than that payment.
- *Upgrade*: no wallet gets two owners or loses one, nothing is taken for verified that
  was not, nothing is paid again, and it completes once what it refuses is resolved.

The hazards behind these, each at its line, are in `PROJECT.json` (`hazards`).

## 2. Modules

| Module | What it is |
|---|---|
| `TransferStore` | one row of `transfers`, its lease, its guarded writes; faults and time |
| `Transfer` | all operations on that transfer, the session, the outgoing credential, the providers; properties; fairness; refinement mapping |
| `TransferContract` | the abstract specification: what a transfer promises its sender, without processes, leases or retries |
| `TransferInvariant` | the inductive strengthening `IInv` of the safety properties |
| `TransferSafety` | TLAPS proofs: type correctness, `IInv` and the properties about money |
| `TransferOutcomes` | TLAPS proofs: `Custody`, the other safety and action properties, the refinement of `TransferContract` |
| `PaymentToken` | one credential: the token service, re-encryption, the token's life at the provider |
| `PaymentTokenProofs` | TLAPS proofs of all its properties, over an inductive `IInv` |
| `Onboarding` | wallet linking of one user |
| `OnboardingProofs` | TLAPS proofs of all its properties, over an inductive `IInv` |
| `PaymentLimits` | the two Redis scripts of the rate limiter, and the requests of one sender |
| `PaymentLimitsProofs` | TLAPS proofs of all its properties |
| `KeyRotation` | keyrings, processes, credentials, re-encryption and the operator's steps |
| `KeyRotationProofs` | TLAPS proofs of its type invariant and three safety properties |
| `PaymentAuthority` | accounts, bearer tokens, wallets and who proved them, the parties and the grants of a transfer |
| `PaymentAuthorityProofs` | TLAPS proofs of all its properties |
| `SchemaUpgrade` | the migrations over a database of the old version, the operator, the new version on the result |
| `SchemaUpgradeProofs` | TLAPS proofs of all its safety properties |
| `MCTransfer`, `MCPaymentToken`, `MCOnboarding`, `MCPaymentLimits`, `MCKeyRotation`, `MCPaymentAuthority`, `MCSchemaUpgrade` | instances for TLC (symmetry, and a view for the first; the two plans of keyrings; the providers' answers) |

### Transfer

`Owners` are slots for running operations; `pc[o]` is the next awaited call and a
step is that call with the local code up to the next one. `snap[o]` is the
operation's variable `t`; `row` is the table. The labels follow the code: `c_*`
is `create`, `h_*` `handleCallback`, `s_*` `submit`, `m_*` and `r_*` `maintain`
and `refresh`, `k_*` `cleanup`; `kind[o]` says who called (which decides where
`submit` returns to). `Write` is `TransferRepository.transition`: it matches the
row, or not, or fails before or after it took effect. `Update` is
`TransferService.update`, which expects the status it last saw.

Abstractions, and why they keep what the properties tell apart:

- Times are the comparisons the code makes: lease live or lapsed, 60 s passed or
  not since `state_changed_at`, `next_attempt_at` null, later or due, `expires_at`
  passed or not. Each may pass at any moment.
- The heartbeat and `alive()` renew a live lease: as a guard, `Holds(o)`. A
  lease lapses only when nobody renews it: its holder is gone, has stopped before
  its heartbeat began, or stalls (a fault).
- A fault is a crash, a failed or unanswered call (before or after its effect) or a
  stalled heartbeat; `MaxFaults` bounds them. Answers that are merely late, an
  ambiguous answer of the provider to the instruction, refusals and lagging reads
  of the outgoing payment are free.
- Amounts are units up to `FullAmount`, the quoted amount.
- Only the outgoing credential is state (`token`); the others are calls that may
  fail here and are `PaymentToken`'s subject. Rotation of the outgoing one during a
  read is likewise a read that fails. Either read of `refresh` may fail at any time, as
  often as it likes: that is how a lost credential shows here.
- `continueAfter`, `load` and session read at the start of a callback, and the
  second expiry check of `submit` (line 277) are merged with the step beside them.
- The incoming payment is read as it is; the outgoing one may lag behind.

### PaymentToken

One credential, with the row as each operation last read it (`op[o].seen`), since
all its writes are built from that copy. The provider issues tokens 1, 2, ...; a
rotation offered to it (`asked`) may take effect at any later time (`Replace`),
answered or not. `expires_at` and `rotate_after` are set together from
`expires_in` and are `timed`; their passing is `past`. Crashes, lapsed leases and
lost acknowledgements are unbounded. The initial states are an empty row and a
READY one that is still under the old key.

### Onboarding

One user, `Procs` request slots, no leases. A `transition` is a read and a
compare-and-set on the whole value; it is one step at the comparison, which may
fail for no visible reason (another write in between) or succeed and lose its
acknowledgement. The pointer is released in a step of its own (`Finish`, `Free`).
Session and pointer expire together. The outcome of the wallet lookup and of the
grant request is part of the step before it, as nothing is shared in between. An
admission whose answer is lost may be sent again by the Redis client
(`config/redis.ts:18-19`); it then finds its own pointer, and `start` takes that for a
conflict and goes on to `s_resent`, where it removes its reservation. One
`interact_ref` per grant verifies; a foreign link that refuses `saveOwnership` is a
choice.

### PaymentLimits

The requests of one sender's wallet: each passes the scope counter `create`, then the
lookup of its key, then the wallet's admission. `callback` and `status` differ from
`create` in what they are keyed by and in their maximum. A script is one step, since
Redis runs it alone; its answer may be lost, and the client library or the caller may
send it again. Time passes in units of which `Second` make a second (the code
counts milliseconds and answers in seconds rounded up); a key's life counts down to 0,
its last unit, in which it still exists with PTTL 0, and then to -1, gone. That
boundary is kept because the script reads PTTL and EXISTS of two keys.

### KeyRotation

Each process is down, loaded (it has read the file, and its services have their
ciphers) or up (the check of start-up, which reads the file once more, has passed). A
credential is its state, generation and key. The operator goes through `Plan`, a
sequence of keyrings, and follows the guide: a keyring is mounted when all running
processes have the one before; re-encryption runs after that; a keyring that drops
keys is mounted after a passed check. `MCKeyRotation` has two plans: `Guide` takes the
guide at its word and makes k2 active at once, `Staged` mounts k2 first and makes it
active in a second deployment.

An operation reads a row (`Open`) and writes it back whole, changed in its state
(`Copy`, `Save`): the token is used or found unusable (`Close`), the provider refused it
(`Disown`, which is `unavailable`), an unresolved rotation is given up (`Resolve`), the
row is deleted (`Remove`), or a rotation runs: `Mark`, then `Rotate`; or `Withhold` and
`Restore`, when it throws before it was attempted, or `Fail` and `GiveUp`. `Abandon` is
each point at which it ends with the row still ROTATING: the save of line 54 has no answer, or
the read or save of the catch fails. The operator's check runs whatever operations hold
rows at that moment.

`revived` and `unsure` are history variables. A row is `revived` while its ciphertext is
one that re-encryption had replaced and an operation wrote back (section 6, 2); a new
token or another re-encryption ends that. `unsure` is set by what may give a credential
up: the provider refused it, a call of its rotation failed or stayed unanswered, the
process died in it, or it met a revived ciphertext.

Abstractions: one operation at a time works on a credential (its lease; `PaymentToken`
has lapses). Sessions in Redis, whose keys the guide has the operator wait for (their
TTL), the state REJECTED, and the legacy wallet credential tables are left out. A row is
`timed` if it has an expiry. Generations are bounded by `MaxGen`.

### PaymentAuthority

Every read of the database is a step: registration looks for the e-mail address, hashes,
then inserts (`Find`, `Insert`); `requireAuth` reads the account again (`Admit`); `create`
looks up the sender, the recipient, asks the providers and inserts (`FindSender`,
`FindRecipient`, `Reserve`); `submit` looks up both again, one after the other
(`RecheckSender`, `RecheckRecipient`, `Instruct`). Between any two, the callbacks of
onboarding link wallets (`SaveOwnership`, as often as they are sent), and an operator
suspends accounts or unlinks wallets: no code of the repository does either, but
statuses for both exist and every lookup asks for them.

`Prove` is the whole of onboarding up to the ownership: which user, session and wallet it
confirms is `Onboarding`'s subject. The rows that `saveOwnership` writes have
`verified_at`, so the lookup's condition on it is always true. A scope of a grant is its
type, its actions, what it is on (the sender's or recipient's wallet, the incoming
payment, another), and its limits, each with the values the checks tell apart;
`checkOutgoing` and `exactScope` are translated as they are. The provider may answer
with any of `Answers`. `seen` is a history variable: which party was active and linked at
some moment of the running operation. It is what a lookup can guarantee, since no lookup
locks anything; that both still are when the payment is sent, the code does not promise.

### SchemaUpgrade

A migration is one step, as it runs in a transaction with its record in
`knex_migrations`; the command may stop, and be repeated, between two. The initial
states are all databases the old version may have left, within its constraints: wallets
under canonical, other or refused spellings with any of the statuses both versions use,
grants of either purpose with or without what the new tables need, the old tables named
any way, one transfer in any status, with or without a payment the provider got. What a
migration refuses stays as it is until the operator resolves it in a way the guide
leaves to him (`Operator`): he unlinks or deletes wallets, removes one of two grant
tables, corrects amounts. After the last one the new version runs on the result, in
the steps that matter to it.

Abstractions: spellings that the URL parser maps to one canonical form are the
addresses' `variant`. The copies carry their grant's identifier. Of a transfer the status,
the flag for manual recovery, whether it has a credential of the new version and how
often it was sent are kept. `CREATE ... IF NOT EXISTS` and added columns have no
state beyond `core` and `columns`.

## 3. Runs

All pass runs check deadlock. `tlc -workers 2`, minutes on a small machine.

| Run | Instance | What it shows |
|---|---|---|
| `transfer` | 2 owners, 2 callbacks, amount 1, 1 fault: 1.0 M states up to `View` | the safety of `Transfer`, what a step may never do, `IInv`, and the refinement of `TransferContract` |
| `transfer_liveness` | 1 owner, 1 callback, 2 faults | `InterruptedResolves`, `DeliveredIsReported` under `FreshSpec` |
| `token` | 2 operations, 3 tokens: 2.6 M states | safety of a credential beside re-encryption |
| `onboarding` | 2 requests, 1 key, 2 sessions: 0.57 M states | linking, keys, state machine |
| `limits` | 2 requests, 3 payments, limit 2, window 3: 98 k states | the payment limits |
| `rotation` | 2 processes, 2 credentials, `Staged`: 299 k states | replacement of a key in steps |
| `authority` | 2 users, e-mail addresses, registrations and wallet addresses, 3 sessions, all single scopes as answers: 129 k states | owners, parties, grants |
| `upgrade` | 2 users, 2 wallets at 1 address, 1 grant, 1 transfer: 1.08 M states, most of them initial | the upgrade, and that it completes |
| `transfer_terminal`, `token_retirement`, `onboarding_grant`, `rotation_guide` | smallest that shows it | the four disagreements of section 6 |

Why the bounds are enough to be interesting:

- *Two owners* is the overlap that matters: one that lost its lease and one that
  holds it. A slot is reused, so a history has as many operations as it likes. The
  proofs of section 5 hold for any number.
- *Two callbacks* are the bound one and a different one.
- *One fault with two owners* already yields a crash, a lost answer, or a lapsed
  lease under a running holder, which then continues beside its successor. Two
  faults with two owners are out of reach in minutes; the liveness run has two, with
  one owner at a time.
- *`View`* in `MCTransfer` identifies states that differ only in a local variable
  which its operation will not read again before it assigns it or ends: the row it
  last saw once it is about to drop its lease or to reload the row (only that row's
  status, while it waits to update it), the kind of the operation past the steps that
  branch on it, the callback past `h_finalize`, the session past `h_save`. Without it
  the same instance has 2.96 M states and no other behaviour of the shared state. The
  part of `IInv` about such a copy is checked on one state of each class, and proved
  in section 5 for all.
- *Amount 1*: the properties compare delivered amounts with the full one and older
  with newer reports; 0 and 1 are enough for both.
- *Three tokens* let a rotation follow a rotation, or a store follow a cleanup.
- *Two sessions and a key* let a session follow another while a request of the first
  still runs, and a stalled `releaseActive` meet a pointer that is not its own.
- *Three payments against a limit of two* are one more than fits; a window of three
  units with two to the second has a boundary inside a second, and windows follow each
  other without bound.
- *Two processes* can have different keyrings, *two credentials* can be re-encrypted
  and retained in different states, and three generations let a rotation follow another.
- *Two users, two addresses, three sessions* let an address change hands and come back,
  and a used session be sent again after that. A second transfer would add nothing:
  transfers share no authority but accounts and wallets, which change freely here.
- *Two wallets at one address* compete in every combination of owners, spellings and
  statuses; wallets at different addresses do not interact, which the proof confirms
  for any number.

A run checks what deserves it most. Type invariants and some invariants of
`PaymentAuthority`, `SchemaUpgrade` and `PaymentLimits` (`RegisteredOnce`,
`NothingInvented`, `LeftToRecovery`, `NoOwnerChosen`, `WindowsAreNotExtended`) are in no
run, because section 5 proves them.

What the properties are about, beyond their comments: each names the lines it
guards, `PROJECT.json` (`mutants`) pairs each with a plausible mistake in that code
under which TLC finds it violated, and the mutated definitions stand beside the
real ones in the modules, marked `mutant`.

## 4. Fairness

`Schedule`: an operation that runs goes on (`WF` on each process's `Step`: a Node
process serves its callbacks), time passes (`WF` on the clock and on the lapse of a
lease nobody renews), and the worker keeps claiming (`SF` on `ClaimDue`:
`worker.ts:21-33` polls for ever, but a status read may hold the lease at any given
moment, so the claim is enabled again and again rather than always). Nobody is
obliged to poll, to answer the consent or to send a callback. Faults are never required,
and are bounded. `InterruptedResolves` needs no more than this.

`FreshReads` adds, for `DeliveredIsReported`, that each of the two reads of `refresh`, the
outgoing payment's and the incoming one's, succeeds when it is tried again and again. The
code does not see to that, so it is an assumption of the property: an expiry, one lost
answer to a rotation or one refusal makes a credential unusable for good
(`payment-token.service.ts:49`, `:64-79`, `:86-89`), and the payment then stays PENDING or
UNKNOWN until an operator settles it, as the guide says (`DEVELOPER_GUIDE.md:275-280`). What is
checked is thus that a delivery is reported as long as neither reconciliation credential is
lost and the provider's list shows the payment in the end. Without either half of
`FreshReads` TLC finds the property violated.

`FairSpec` of `SchemaUpgrade`: whoever upgrades repeats the command and resolves what it
refused (`WF` on the three migrations and the operator together), as the guide asks
(`DEVELOPER_GUIDE.md:135-154`). What is checked is that this is enough: no
refusal is beyond resolution, and no committed migration is met again by one that
refuses its result.

## 5. Proofs

Proved for every set of processes and callbacks, every amount and every number of
faults, from the assumptions of `TransferStore` (`None` is neither a process nor a
callback; `FullAmount` positive; `MaxFaults` a natural number):

- `TypeCorrect`: `Spec => []TypeOK`.
- `Inductive`: `Spec => []IInv`.
- `InstructedOnce`, `ClosedIsSettled`, `CompletedIsPaid`: the three properties about
  money, from `IInv`.
- `CustodyKept`: `Spec => []Custody`.
- `UnknownFlagged`, `UnfinishedScheduled`, `ReconcilableReadable`, `InteractionOnce`,
  `ClosedAtRest`: the other safety properties, from `Custody`.
- `StatusStays`, `CallbackStays`: what no step of a process may do to the row.
- `ContractKept`: `Transfer` implements `TransferContract`.

For any number of operations and tokens (`TokensAssumption`: at least one token):

- `TokenTyped`, `ReadyTokenWasNotOffered`, `HolderUsesTheCurrentToken`,
  `OnlyDeadTokensAreForgotten`, `UnresolvedRotationIsRetained`: all five properties of
  `PaymentToken` that its run checks.

For any requests, payments, limits, windows and seconds (`PaymentLimits`' assumptions:
all positive):

- `LimitsTyped`, `CountedOnce`, `LimitHolds`, `WalletRetryPasses`, `WindowsEnd`:
  `TypeOK`, `CountIsExact`, `PaymentsAreLimited`, `WalletReadmitsRetry` (of the wallet's
  limit only), `WindowsAreNotExtended`.
- `WaitSuffices`: `RetryAfterIsEnough`.

For any number of requests, keys and sessions (`None` is no key, at least one session):

- `OnboardingInductive`, `OnboardingTyped`: `IInv` and `TypeOK`.
- `OpenSessionIsActive`, `CompletionIsLinked`, `LinkedSessionStaysClosed`,
  `ContinuesAlone`, `AdmittedKeyKeepsItsSession`, `RequestsFollowMachine`: all six
  properties of `Onboarding` that its run checks; the fifth with the exception of section
  6, 5.

For every plan of valid keyrings, any processes and credentials:

- `RotationTyped`, `RetiredStaysUnreferenced`: `TypeOK`, `RetiredIsUnreferenced`, whose
  exception is a row that was written back (`revived`).
- `GradualPlanIsReadable`, `GradualPlanGivesUpNothing`: `RunningCanRead` and
  `GivenUpIsUnsure`, from the further assumption `Gradual`, that a keyring makes a key
  active only if the one before it held that key. `Staged` is gradual; `Guide` is not,
  and there `rotation_guide` shows that the second fails. The first has the same
  exception; the second lists what may give a credential up.

For any users, e-mail addresses, registrations, wallet addresses, sessions and answers of
providers (assuming only that `None` is no user or wallet and that answers are sequences
of scopes):

- `AuthorityTyped`, `AccountsAreUnique`, `LinkedWalletsAreProven`, `RelinkingIsProven`,
  `PartiesStayDifferent`, `SubmissionsSeeBoth`, `GrantsStayNarrow`: all properties of
  `PaymentAuthority`.

For any users, addresses, wallets and grants, without assumptions:

- `UpgradeInductive`, `UpgradeTyped`, `OwnersStayUnique`, `UpgradeNeverResends`,
  `RecoveryIsKept`, `CopiesAreComplete`, `OwnersAreNotChosen`: all safety properties of
  `SchemaUpgrade`.

The argument for a transfer. `AtMostOneInstruction` is not inductive: a state with two
processes at `s_send` satisfies it. What prevents that state is that `s_send` is reached
only by moving the row from AUTHORIZED to SUBMITTING, and that the row never returns to
AUTHORIZED once instructed. So `IInv` says, for the row (`RowOK`), which statuses go
with which stage of the request and the payment; for every process (`LabelRow`,
`LabelSnap`), what the row must be and what its own copy says at each label; and that at
most one process is creating and at most one is about to send (`Alone`). A process whose
lease has lapsed is covered too: its labels say nothing about the row that a successor
could break, except at `s_send`, where the successor can only have made the row UNKNOWN.

Most steps do one of three things, each with its lemma: they touch nothing shared
(`LocalKeeps`), they write a row that fits (`WriteKeeps`, `UpdateKeeps`), or they
move one process between labels that rely on nothing (`FreeLabels`, `QuietKeeps`).
The proof of a step chooses the lemma and discharges its side condition. One lemma
per group of actions (`CreateKeeps`, `CallbackKeeps`, `SubmitKeeps`, `MaintainKeeps`,
`CleanupKeeps`, `ArrivalKeeps`, `EnvironmentKeeps`), then the theorem.

The argument for what becomes of a transfer. `IInv` says nothing of who may still write
what, and the other properties depend on that: two operations could both be past the
binding of the callback, or an overtaken creation could reopen a transfer whose incoming
payment is closed. `Custody` adds it. The holder of the lease has a copy that agrees
with the row in status, callback and cleanup, except at the labels that follow a call
whose answer is unknown (`HolderOK`). An operation that lost its lease knows only what
cannot change any more (`ViewOK`): that its copy was terminal, which of the incoming
payment's URLs are known, and, where it is about to close one, that the result is
`Final`, so that no creation can revive it. One operation is past the binding of the
callback, and the row shows it (`OneConsent`); once the `interact_ref` is out, every
session that can still be used is marked as continued (`RefOnce`).

All steps of a process have one of few shapes: it passes from a label to another without
writing (`Passes`), the holder writes the row (`WrittenBy`, where `Turn` lists which
label takes which status where), or it takes or drops the lease. Each shape
preserves `Custody` by one lemma, and each action is shown to have a shape. They also
give `Careful`, which the action properties need: a step leaves the row alone or is a
write of the lease's holder, and a write of an overtaken operation matches no row.

The argument for the contract. `RowSteps` says how a step may change the row, and
`NextDeal` how it may change request, payment and delivery, which only `Send` and the
provider's own steps do. A step that changes the row moves `Phase` as a contract step
does (`StoreMaps`), with `IInv` and `Custody` for what the contract demands of money in
that phase (a transfer is reported failed only when nothing can move, completed only
when all was delivered); the others are the contract's steps of the same name, or
stutters.

The argument for tokens. A READY row must not hold a token that anyone offered, but an
operation without the lease may be just about to offer it. So a token is at risk
(`AtRisk`) from the moment an operation has marked the row and goes to rotate, and
`CredInv` says that a settled row's token is not at risk, and that no token after the
row's is. A save needs the lease, so an overtaken operation cannot write any more, but its
token may still reach the provider; and a save of the holder whose acknowledgement was
lost may have taken effect. `ReliesOn` is what the holder knows at each label in both
cases: at `g_catch`, that the row is still marked or has the next generation.

The argument for the payment limits. The count is exact because an admission record is
given what is left of the counter's window, and so lives exactly as long: the invariant
says that every live record has the counter's life, and that the payments let through
in the running window are those with a record (`CurrentAdmissions`). Cardinalities of
finite sets then give the limit. For the waiting, what a refused client was told is at
least the life of the counter (`ToldCovers`, which is about rounding up), and the two
run down together until the window ends (`WaitInv`).

The argument for linking a wallet. Without leases, what a request relies on must survive
every other one (`ReliesOn`, `Apart`). One that claimed the callback is alone in the
grant's continuation even after a status read failed the session, since only a
CONSENT_PENDING session can be claimed and only that request itself leads back there; so the
attestation is its own, and a linked session is not reopened. One that is refused its
admission removes a reservation only while its session was never stored, because an id is
used by the one request that handed it out; one whose admission was sent twice is the only
exception, and `StartsInv` says of it that its session is its own and has not come past
PENDING. And one that frees the active pointer does so
for a session that is over, which no step reopens. All statuses are then reached by the
compare-and-set of `Transition` from the status it names, which gives the state machine.

The argument for key replacement. It is not enough that no row is under a lost key: a
process may be about to encrypt with one, and an operation may write back a row it read.
An operation's save of its copy either leaves the stored key as it is or makes the row
`revived` (`SavesSeenWrites`), so operations need no bound on what they read, and the check
need not wait for them. `KeysInv` then says that all that processes encrypt with, and all
that is stored and not revived, is within the mounted keyring (`Within`) and, once the
check has passed, within the keys that stay, until the next keyring is mounted. For
reading, `ReadersInv` says the same of the keyring of each running process, with the
mounted active key and what its operation has read in it. With that, no operation fails to
decrypt what was not revived. For giving up, `Handled` says that the operation on a
credential is the only one, that it saw the stored generation, so that its saves take
effect, and that a row marked ROTATING has an operation that carries the rotation on or is
remembered as unsure.


The argument for authority. Overlapping registrations are told apart by what is left in
the table: one that was answered has its e-mail address there, accounts are never
deleted, and the second insert needs a vacant one (`CreatedIsKnown`). The parties differ
in their owners because the recipient is looked up among the others, and in their
addresses because the two are compared before the insert, whatever happens to the wallets
in between (`PartiesInv`). A lookup that succeeds finds the party's wallet linked and its
account active in the very state of the step, which `seen` then remembers to the end of the
operation (`SeenInv`). A grant that passed the checks is narrow because they fix every
field that widens it (`OutgoingSpendsOnce`), and nothing else is ever stored (`GrantsInv`).

The argument for the upgrade. The indexes compare texts, and the property is about
wallets. Once all spellings are canonical, which the new version keeps, two texts are
equal exactly when the wallets are (`WalletsInv`). For payments, `TransferInv`: a transfer
that may still be submitted was never sent, because the old version's SUBMITTING became
UNKNOWN, from which no step leads back, and one that this version submits has a credential.

Model-checked only: liveness (`InterruptedResolves`, `DeliveredIsReported`,
`UpgradeCompletes`), which is beyond the prover, as is anything with ENABLED. Every
other property of the passing runs is a theorem. The contract is a safety
specification: nothing is said of its fairness.

## 6. Where the code and its documents disagree

The first four are `violation` runs with a short counterexample each; the fifth is the
exception that a property names.

1. `TerminalIsFinal`: `create` claims its row by the lease alone, without looking at its
   status (`transfer.service.ts:64`). If it stalls between the reservation and that claim,
   past 60 s or the expiry, a status read or the worker ends the row as FAILED or EXPIRED
   (a replay of the key only presents it, `:487-490`). The creator then claims it: its
   updates at `:83` and `:109` keep that status, and the one at `:137` writes
   AWAITING_AUTHORIZATION over it. Such a transfer still has `cleanup_state` DONE, so its
   second end skips the cleanup (`:387`).
2. `RetiredKeyIsGone`: the token service writes whole rows back and compares only the
   generation, which re-encryption does not change (`payment-token.service.ts:54`). In
   `KeyRotation`, a row that this happened to is `revived`: it may be under a key that the
   next keyring has lost, and a process with that keyring cannot read it.
3. `GrantContinuedOnce`: whether to send the `interact_ref` is decided from the
   session read before the claim (`onboarding.service.ts:142`).
4. `GivenUpIsUnsure`: the token service calls a rotation attempted before it decrypts
   the token (`payment-token.service.ts:59`, `:61`). With the guide's steps for a new
   key, which make it active at once, a process with the old keyring fails to decrypt
   what a new one stored and gives the credential up for good.
5. The comment at `onboarding.service.ts:50` says "Only a confirmed admission conflict can
   discard the new reservation." An admission that was applied and whose answer was lost is
   sent again by the Redis client, is answered as a conflict with itself
   (`onboarding.repository.ts:19-25`), and loses its reservation (`:52-54`): the client
   gets 409, and a retry of its key is not a replay. This has no run of its own:
   `KeyKeepsItsSession` names it as its exception (`SentTwice`), and shows that it is the
   only one and that the session is still PENDING then.

`TransferContract` has the phase `abandoned` because of 1: a failure before any
callback may be revived. From the first bound callback on, terminal is final
(`StatusNeverReturns`).

## 7. Not modelled

Encryption, hashing and validation of what providers and clients send (the models take
the verdict as a choice); the choice of wallets and their limits; lists and other reads,
among them the wallet service and the route that tells the checkout service which
wallets a user has; the legacy wallet credential tables of `rekey.ts`; the ledger and
rewards tables, which no code uses, and the seeds; the URL shortener, a sample over an
in-memory map; routing, configuration, error answers and set-up scripts, which keep no
state.

A transfer is whole in `Transfer` and has only the steps of its authority in
`PaymentAuthority`; the two are not composed, as the product of failures and changes of
accounts is beyond TLC, and what they share, the guards of `submit`, is in both: as
a step that may refuse there, as lookups here.

No liveness is claimed for key replacement: a row that is rotated whenever the operator
looks keeps its old key for ever, and the guide only asks to try again.

## 8. Plan

In order of what matters to money first.

1. Done: `TransferStore`, `Transfer`, `TransferContract`, `TransferInvariant`;
   `PaymentToken`; `Onboarding`; `PaymentLimits`; `KeyRotation`; `PaymentAuthority`;
   `SchemaUpgrade`; their runs and the proofs of section 5.
2. Model next: an abstract specification of onboarding (a key names one session, a
   session is linked at most once) refined by `Onboarding`; the credential that
   `Transfer` abstracts to `token`, refined by `PaymentToken`.
3. Prove next: those two refinements, from the inductive invariants of
   `OnboardingProofs` and `PaymentTokenProofs`.

## 9. Running it

    tlc -workers 2 -config MCTransfer.cfg MCTransfer.tla
    tlc -workers 2 -config MCKeyRotation.cfg MCKeyRotation.tla
    tlapm TransferSafety.tla && tlapm TransferOutcomes.tla
    tlapm PaymentLimitsProofs.tla && tlapm KeyRotationProofs.tla
    tlapm PaymentAuthorityProofs.tla && tlapm SchemaUpgradeProofs.tla
    tlapm OnboardingProofs.tla && tlapm PaymentTokenProofs.tla

The other runs are the other `MC*.cfg`, each with the module its name begins with.
