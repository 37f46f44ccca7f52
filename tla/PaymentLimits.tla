---------------------------- MODULE PaymentLimits ----------------------------
(* The limits a payment request of one user passes on its way to its        *)
(* reservation: the requests per user (rateLimiter.middleware.ts, consume), *)
(* and the distinct payments per wallet (wallet), both counted in Redis.    *)
(* Each script is atomic; expiry, retries and lost answers come between.    *)
EXTENDS Integers, FiniteSets

CONSTANTS
  Requests,     \* slots for requests in flight or waiting to be sent again
  Keys,         \* idempotency keys of the payments from the wallet
  Window,       \* length of a window in units of time, 60000 ms in the code
  Second,       \* units of time in a second
  Limit,        \* payments per wallet and window, 10 in the code
  Maximum,      \* requests per user and window, 10 in the code
  MaxCounted    \* bound on the requests counted in one window

ASSUME LimitsAssumption ==
  /\ {Window, Second, Limit, Maximum} \subseteq Nat \ {0}
  /\ MaxCounted \in Nat
  /\ IsFiniteSet(Keys)

VARIABLES
  requests,     \* the counter of the user
  payments,     \* the counter of the wallet
  admitted,     \* for each key, the life of its admission record
  transfers,    \* keys whose transfer is reserved
  req,          \* for each slot, its request
  starters,     \* history: keys counted in the wallet's window
  refused       \* history: slots refused in each counter's window

vars == <<requests, payments, admitted, transfers, req, starters, refused>>

\* A Redis key that is gone. One with a life of 0 is in its last unit of time:
\* it still exists, and PTTL answers 0.
Gone == -1
Lives == Gone .. Window

Counters == [count : Nat, ttl : Lives]
NoCounter == [count |-> 0, ttl |-> Gone]
Ages(life) == IF life = Gone THEN Gone ELSE life - 1
Aged(c) == IF c.ttl \in {Gone, 0} THEN NoCounter ELSE [c EXCEPT !.ttl = @ - 1]

Idle == [pc |-> "idle"]
At(pc, k) == [pc |-> pc, key |-> k]
Move(r, to) == req' = [req EXCEPT ![r] = to]
In(r, pc) == req[r].pc = pc

\* The answer 429 names the seconds to wait (left counts them down in units).
CeilDown(ttl) == ttl \div Second    \* mutant: rounded down
Ceil(ttl) == (ttl + Second - 1) \div Second
RetryAfter(ttl) == IF Ceil(ttl) > 1 THEN Ceil(ttl) ELSE 1
Told(by, c) == [pc |-> "refused", by |-> by, left |-> RetryAfter(c.ttl) * Second]

TypeOK ==
  /\ requests \in Counters /\ payments \in Counters
  /\ admitted \in [Keys -> Lives]
  /\ transfers \subseteq Keys
  /\ req \in [Requests ->
       {Idle} \cup {At(pc, k) : pc \in {"lookup", "admit", "reserve"}, k \in Keys}
       \cup [pc : {"refused"}, by : {"user", "wallet"}, left : 0 .. (Window + Second)]]
  /\ starters \subseteq Keys
  /\ refused \in [{"user", "wallet"} -> SUBSET Requests]

Init ==
  /\ requests = NoCounter
  /\ payments = NoCounter
  /\ admitted = [k \in Keys |-> Gone]
  /\ transfers = {}
  /\ req = [r \in Requests |-> Idle]
  /\ starters = {}
  /\ refused = [by \in {"user", "wallet"} |-> {}]

-----------------------------------------------------------------------------
(* The scripts                                                              *)

\* INCR, and PEXPIRE by the request that finds no counter.
Incremented(c) ==
  IF c.ttl = Gone THEN [count |-> 1, ttl |-> Window] ELSE [c EXCEPT !.count = @ + 1]

\* A window begins when its counter starts anew: nobody was refused in it yet.
Begin(by, fresh) == IF fresh THEN [refused EXCEPT ![by] = {}] ELSE refused

IsAdmittedForgotten(k) == FALSE    \* mutant: the record is not looked for
IsAdmitted(k) == admitted[k] # Gone
Restarts == payments.count = 0 \/ payments.ttl <= 0
AdmitsOneMore(k) == ~IsAdmitted(k) /\ payments.count <= Limit    \* mutant
Admits(k) == ~IsAdmitted(k) /\ payments.count < Limit
Admitted == IF Restarts THEN [count |-> 1, ttl |-> Window]
                        ELSE [payments EXCEPT !.count = @ + 1]
AdmissionLifeFull == Window    \* mutant: a window of its own
AdmissionLife == Admitted.ttl

\* The script of wallet once it admits k for the first time in this window.
Count(k) ==
  /\ payments' = Admitted
  /\ admitted' = [admitted EXCEPT ![k] = AdmissionLife]
  /\ starters' = IF Restarts THEN {k} ELSE starters \cup {k}
  /\ refused' = Begin("wallet", Restarts)

-----------------------------------------------------------------------------
(* A request                                                                *)

\* The client sends a payment, for the first time or again, early or late, and
\* limits.create counts it. Redis may run the script and the answer be lost:
\* the client library sends the script again, or the request ends with 503.
Arrive(r, k) ==
  /\ In(r, "idle") \/ In(r, "refused")
  /\ requests.count < MaxCounted
  /\ \E once \in BOOLEAN :
       LET first == Incremented(requests)
           c == IF once THEN first ELSE Incremented(first)
           passes == c.count <= Maximum
           earlier == Begin("user", requests.ttl = Gone)
       IN /\ requests' = c
          /\ \/ passes /\ Move(r, At("lookup", k)) /\ refused' = earlier
             \/ ~passes /\ Move(r, Told("user", c))
                        /\ refused' = [earlier EXCEPT !["user"] = @ \cup {r}]
             \/ Move(r, Idle) /\ refused' = earlier
  /\ UNCHANGED <<payments, admitted, transfers, starters>>

\* Redis is unavailable, a wallet or provider lookup fails, or the process dies:
\* the request ends where it is.
Abandon(r) ==
  /\ req[r].pc \in {"lookup", "admit", "reserve"}
  /\ Move(r, Idle)
  /\ UNCHANGED <<requests, payments, admitted, transfers, starters, refused>>

\* findByIdempotencyKey: a payment that has its transfer is replayed.
Lookup(r) ==
  /\ In(r, "lookup")
  /\ Move(r, IF req[r].key \in transfers THEN Idle ELSE At("admit", req[r].key))
  /\ UNCHANGED <<requests, payments, admitted, transfers, starters, refused>>

\* The wallet's script: a key that was admitted passes again without being counted.
Readmit(r) ==
  /\ In(r, "admit")
  /\ IsAdmitted(req[r].key)
  /\ Move(r, At("reserve", req[r].key))
  /\ UNCHANGED <<requests, payments, admitted, transfers, starters, refused>>

\* A new key is counted. If the answer is lost, the library's second try is a
\* Readmit, and without one the request ends with 503 and leaves its admission.
Admit(r) ==
  /\ In(r, "admit")
  /\ Admits(req[r].key)
  /\ Count(req[r].key)
  /\ \E to \in {At("reserve", req[r].key), At("admit", req[r].key), Idle} : Move(r, to)
  /\ UNCHANGED <<requests, transfers>>

\* The wallet has had its payments in this window.
RefusePayment(r) ==
  /\ In(r, "admit")
  /\ ~IsAdmitted(req[r].key)
  /\ ~Admits(req[r].key)
  /\ Move(r, Told("wallet", payments))
  /\ refused' = [refused EXCEPT !["wallet"] = @ \cup {r}]
  /\ UNCHANGED <<requests, payments, admitted, transfers, starters>>

\* The insert, which one request per key wins; the others replay.
Reserve(r) ==
  /\ In(r, "reserve")
  /\ transfers' = transfers \cup {req[r].key}
  /\ Move(r, Idle)
  /\ UNCHANGED <<requests, payments, admitted, starters, refused>>

-----------------------------------------------------------------------------
(* Time                                                                     *)

Waited(q) == IF q.pc = "refused" /\ q.left > 0 THEN [q EXCEPT !.left = @ - 1] ELSE q

\* A unit of time passes for every key of Redis and for the clients that wait.
Tick ==
  /\ requests' = Aged(requests)
  /\ payments' = Aged(payments)
  /\ admitted' = [k \in Keys |-> Ages(admitted[k])]
  /\ req' = [r \in Requests |-> Waited(req[r])]
  /\ UNCHANGED <<transfers, starters, refused>>

Next ==
  \/ \E r \in Requests :
       \/ \E k \in Keys : Arrive(r, k)
       \/ Abandon(r)
       \/ Lookup(r)
       \/ Readmit(r)
       \/ Admit(r)
       \/ RefusePayment(r)
       \/ Reserve(r)
  \/ Tick

Spec == Init /\ [][Next]_vars

-----------------------------------------------------------------------------
(* Properties                                                               *)

\* The wallet's count is the number of payments with an admission record of this
\* window, and the records end with the window: a payment sent again within the
\* window is not counted twice, and one sent again after it is counted anew
\* (rateLimiter.middleware.ts:36-45, DEVELOPER_GUIDE.md:410).
CurrentAdmissions == {k \in Keys : IsAdmitted(k) /\ admitted[k] = payments.ttl}
CountIsExact ==
  /\ payments.count = Cardinality(CurrentAdmissions)
  /\ \A k \in Keys : admitted[k] > 0 => admitted[k] = payments.ttl

\* However requests overlap, are repeated or lose their answers, no more than
\* Limit different payments from the wallet are let through in a window
\* (rateLimiter.middleware.ts:39).
PaymentsAreLimited == Cardinality(starters) <= Limit

\* Refusals never prolong the window they are refused in, neither the user's
\* nor the wallet's: a client that keeps trying is not locked out for ever
\* (rateLimiter.middleware.ts:14, 40-45).
WindowsAreNotExtended ==
  [][ /\ requests'.ttl > requests.ttl => requests.ttl = Gone
      /\ payments'.ttl > payments.ttl => payments.ttl \in {Gone, 0} ]_vars

\* The wallet's limit never refuses a payment that it let through earlier in the
\* same window, though the wallet has had all its payments by then
\* (rateLimiter.middleware.ts:36, DEVELOPER_GUIDE.md:410-411). This is the wallet's
\* limit alone: the user's counts every request, and may refuse the same retry
\* before it gets here (11-18).
WalletReadmitsRetry ==
  [][ \A r \in Requests :
        In(r, "admit") /\ req'[r].pc = "refused" => req[r].key \notin starters ]_vars

\* A client that waits as long as Retry-After says does not meet the window that
\* refused it, its very last millisecond apart (rateLimiter.middleware.ts:18, 49).
RetryAfterIsEnough ==
  \A r \in Requests :
    In(r, "refused") /\ req[r].left = 0 =>
      /\ req[r].by = "user" /\ r \in refused["user"] => requests.ttl \in {Gone, 0}
      /\ req[r].by = "wallet" /\ r \in refused["wallet"] => payments.ttl \in {Gone, 0}
=============================================================================
