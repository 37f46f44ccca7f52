------------------------- MODULE PaymentLimitsProofs -------------------------
(* The promises of PaymentLimits about a window, for every number of        *)
(* requests, keys, payments per window and every length of the window.      *)
EXTENDS PaymentLimits, FiniteSetTheorems, TLAPS

-----------------------------------------------------------------------------
(* Types                                                                    *)

\* Rounding up to seconds adds less than a second.
LEMMA RoundingUp ==
  ASSUME NEW a \in Nat, NEW b \in Nat \ {0}
  PROVE  a \div b \in Nat /\ (a \div b) * b <= a /\ a < (a \div b) * b + b
BY SMTT(30)

LEMMA ToldIsRefused ==
  ASSUME NEW by \in {"user", "wallet"}, NEW c \in Counters
  PROVE  Told(by, c) \in [pc : {"refused"}, by : {"user", "wallet"}, left : 0 .. (Window + Second)]
<1>1. Second \in Nat \ {0} /\ Window \in Nat \ {0} /\ c.ttl \in Int /\ c.ttl >= -1 /\ c.ttl <= Window
  BY LimitsAssumption DEF Counters, Lives, Gone
<1>2. RetryAfter(c.ttl) * Second \in 0 .. (Window + Second)
  <2>1. CASE c.ttl = -1 /\ Second = 1
    BY <1>1, <2>1 DEF RetryAfter, Ceil
  <2>2. CASE ~(c.ttl = -1 /\ Second = 1)
    <3>1. c.ttl + Second - 1 \in Nat
      BY <1>1, <2>2
    <3>2. Ceil(c.ttl) \in Nat /\ Ceil(c.ttl) * Second <= c.ttl + Second - 1
      BY <1>1, <3>1, RoundingUp DEF Ceil
    <3>3. CASE Ceil(c.ttl) > 1
      <4>1. RetryAfter(c.ttl) = Ceil(c.ttl)
        BY <3>3 DEF RetryAfter
      <4>2. Ceil(c.ttl) * Second \in Nat
        BY <1>1, <3>2
      <4> QED BY <1>1, <3>2, <4>1, <4>2
    <3>4. CASE ~(Ceil(c.ttl) > 1)
      BY <1>1, <3>4 DEF RetryAfter
    <3> QED BY <3>3, <3>4
  <2> QED BY <2>1, <2>2
<1> QED BY <1>2 DEF Told

\* INCR leaves a counter, and time leaves counters and records.
LEMMA CountersCount ==
  ASSUME NEW c \in Counters
  PROVE  Incremented(c) \in Counters /\ Aged(c) \in Counters
BY LimitsAssumption DEF Counters, NoCounter, Incremented, Aged, Lives, Gone

LEMMA RecordsAge ==
  ASSUME NEW life \in Lives
  PROVE  Ages(life) \in Lives
BY LimitsAssumption DEF Ages, Lives, Gone

Requesting == {Idle} \cup {At(pc, k) : pc \in {"lookup", "admit", "reserve"}, k \in Keys}
Refused == [pc : {"refused"}, by : {"user", "wallet"}, left : 0 .. (Window + Second)]

\* A request that is on its way has one of the user's keys.
LEMMA UnderWayHasKey ==
  ASSUME TypeOK, NEW r \in Requests, req[r].pc \in {"lookup", "admit", "reserve"}
  PROVE  req[r].key \in Keys
<1>1. req[r] \in Requesting \cup Refused
  BY DEF TypeOK, Requesting, Refused
<1> QED BY <1>1 DEF Requesting, Refused, Idle, At

LEMMA TypeStep ==
  ASSUME TypeOK, [Next]_vars
  PROVE  TypeOK'
<1> USE DEF TypeOK
<1>1. ASSUME NEW r \in Requests, NEW k \in Keys, Arrive(r, k) PROVE TypeOK'
  <2>1. requests' \in Counters
    BY <1>1, CountersCount DEF Arrive
  <2>2. refused' \in [{"user", "wallet"} -> SUBSET Requests]
    BY <1>1 DEF Arrive, Begin
  <2>3. Told("user", requests') \in Refused
    BY <2>1, ToldIsRefused DEF Refused
  <2>4. \E q \in {At("lookup", k), Idle, Told("user", requests')} : Move(r, q)
    BY <1>1 DEF Arrive
  <2>5. req' \in [Requests -> Requesting \cup Refused]
    BY <2>3, <2>4 DEF Move, Requesting, Refused
  <2> QED BY <1>1, <2>1, <2>2, <2>5 DEF Arrive, Requesting, Refused
<1>2. ASSUME NEW r \in Requests, Abandon(r) \/ Lookup(r) \/ Readmit(r) \/ Reserve(r) PROVE TypeOK'
  <2>1. req[r].key \in Keys \/ Abandon(r)
    BY <1>2, UnderWayHasKey DEF Lookup, Readmit, Reserve, In
  <2>2. \E q \in Requesting : Move(r, q)
    BY <1>2, <2>1 DEF Abandon, Lookup, Readmit, Reserve, Requesting
  <2>3. req' \in [Requests -> Requesting \cup Refused]
    BY <2>2 DEF Move, Requesting, Refused
  <2>4. transfers' \subseteq Keys
    BY <1>2, <2>1 DEF Abandon, Lookup, Readmit, Reserve
  <2> QED BY <1>2, <2>3, <2>4 DEF Abandon, Lookup, Readmit, Reserve, Requesting, Refused
<1>3. ASSUME NEW r \in Requests, RefusePayment(r) PROVE TypeOK'
  <2>1. Told("wallet", payments) \in Refused
    BY ToldIsRefused DEF Refused
  <2>2. req' \in [Requests -> Requesting \cup Refused]
    BY <1>3, <2>1 DEF RefusePayment, Move, Requesting, Refused
  <2> QED BY <1>3, <2>2 DEF RefusePayment, Requesting, Refused
<1>4. ASSUME NEW r \in Requests, Admit(r) PROVE TypeOK'
  <2>1. req[r].key \in Keys
    BY <1>4, UnderWayHasKey DEF Admit, In
  <2>2. Admitted \in Counters /\ AdmissionLife \in Lives
    BY LimitsAssumption DEF Admitted, AdmissionLife, Counters, Lives, Gone
  <2>3. \E q \in Requesting : Move(r, q)
    BY <1>4, <2>1 DEF Admit, Requesting
  <2>4. req' \in [Requests -> Requesting \cup Refused]
    BY <2>3 DEF Move, Requesting, Refused
  <2>5. refused' \in [{"user", "wallet"} -> SUBSET Requests]
    BY <1>4 DEF Admit, Count, Begin
  <2> QED BY <1>4, <2>1, <2>2, <2>4, <2>5 DEF Admit, Count, Requesting, Refused
<1>5. ASSUME Tick PROVE TypeOK'
  <2>1. ASSUME NEW r \in Requests PROVE Waited(req[r]) \in Requesting \cup Refused
    <3>1. req[r] \in Requesting \cup Refused
      BY DEF Requesting, Refused
    <3>2. CASE req[r] \in Refused /\ req[r].left > 0
      BY <3>2, LimitsAssumption DEF Waited, Refused
    <3>3. CASE ~(req[r] \in Refused /\ req[r].left > 0)
      BY <3>1, <3>3 DEF Waited, Requesting, Refused, Idle, At
    <3> QED BY <3>2, <3>3
  <2>2. req' \in [Requests -> Requesting \cup Refused]
    BY <1>5, <2>1 DEF Tick
  <2> QED BY <1>5, <2>2, CountersCount, RecordsAge DEF Tick, Requesting, Refused
<1>6. CASE UNCHANGED vars
  BY <1>6 DEF vars
<1> QED BY <1>1, <1>2, <1>3, <1>4, <1>5, <1>6 DEF Next

\* Counters, admission records and requests have the types of the scripts and of
\* the handlers, and a client is never told to wait longer than the rounded-up window.
THEOREM LimitsTyped == Spec => []TypeOK
<1>1. Init => TypeOK
  BY LimitsAssumption DEF Init, TypeOK, Counters, NoCounter, Lives, Gone
<1>2. TypeOK /\ [Next]_vars => TypeOK'
  BY TypeStep
<1> QED BY <1>1, <1>2, PTL DEF Spec

-----------------------------------------------------------------------------
(* The window of a wallet                                                   *)

\* What the argument needs of the types.
Typed ==
  /\ requests \in Counters
  /\ payments \in Counters
  /\ admitted \in [Keys -> Lives]
  /\ starters \subseteq Keys

\* A counter that exists has counted somebody, and while the wallet's exists the
\* payments it counted are those whose admission is of this window.
WindowOK ==
  /\ payments.ttl # Gone => payments.count > 0 /\ starters = CurrentAdmissions
  /\ payments.count <= Limit

LimitsInv == Typed /\ CountIsExact /\ WindowOK /\ PaymentsAreLimited

wallet == <<payments, admitted, starters>>

-----------------------------------------------------------------------------

LEMMA CurrentIsFinite == IsFiniteSet(CurrentAdmissions)
  BY FS_Subset, LimitsAssumption DEF CurrentAdmissions

\* A window that is gone, or in its last unit of time, or that counted nobody has no
\* admission with time left.
LEMMA NothingOutlives ==
  ASSUME Typed, CountIsExact, Restarts, NEW k \in Keys
  PROVE  admitted[k] <= 0
<1> SUFFICES ASSUME admitted[k] > 0 PROVE FALSE
  BY DEF Typed, Lives, Gone
<1>1. admitted[k] = payments.ttl
  BY DEF CountIsExact
<1>2. payments.count = 0
  BY <1>1 DEF Restarts, Typed, Counters, Lives, Gone
<1>3. k \in CurrentAdmissions
  BY <1>1 DEF CurrentAdmissions, IsAdmitted, Gone
<1>4. CurrentAdmissions = {}
  BY <1>2, CurrentIsFinite, FS_EmptySet DEF CountIsExact
<1> QED BY <1>3, <1>4

LEMMA InitHolds == Init => LimitsInv
<1> SUFFICES ASSUME Init PROVE LimitsInv
  OBVIOUS
<1>1. Typed
  BY LimitsAssumption DEF Init, Typed, Counters, NoCounter, Lives, Gone
<1>2. CurrentAdmissions = {}
  BY DEF Init, CurrentAdmissions, IsAdmitted
<1>3. CountIsExact
  BY <1>2, FS_EmptySet DEF Init, CountIsExact, NoCounter, Gone
<1>4. WindowOK
  BY LimitsAssumption DEF Init, WindowOK, NoCounter
<1>5. PaymentsAreLimited
  BY FS_EmptySet, LimitsAssumption DEF Init, PaymentsAreLimited
<1> QED BY <1>1, <1>3, <1>4, <1>5 DEF LimitsInv

\* The script admits a payment that starts a window.
LEMMA CountRestarts ==
  ASSUME LimitsInv, NEW k \in Keys, Admits(k), Count(k), Restarts, requests' \in Counters
  PROVE  LimitsInv'
<1> USE DEF LimitsInv, Gone
<1>1. /\ payments' = [count |-> 1, ttl |-> Window]
      /\ admitted' = [admitted EXCEPT ![k] = Window]
      /\ starters' = {k}
  BY DEF Count, Admitted, AdmissionLife
<1>2. Typed'
  BY <1>1, LimitsAssumption DEF Typed, Counters, Lives
<1>3. \A j \in Keys : j # k => admitted'[j] <= 0
  BY <1>1, NothingOutlives DEF Typed
<1>4. admitted'[k] = Window
  BY <1>1 DEF Typed
<1>5. CurrentAdmissions' = {k}
  <2>1. k \in CurrentAdmissions'
    BY <1>1, <1>4, LimitsAssumption DEF CurrentAdmissions, IsAdmitted
  <2>2. ASSUME NEW j \in Keys, j # k PROVE j \notin CurrentAdmissions'
    BY <1>1, <1>3, <2>2, LimitsAssumption DEF CurrentAdmissions
  <2> QED BY <2>1, <2>2 DEF CurrentAdmissions
<1>6. Cardinality({k}) = 1
  BY FS_Singleton
<1>7. CountIsExact'
  BY <1>1, <1>2, <1>3, <1>4, <1>5, <1>6 DEF CountIsExact, Typed, Lives
<1>8. WindowOK' /\ PaymentsAreLimited'
  BY <1>1, <1>5, <1>6, LimitsAssumption DEF WindowOK, PaymentsAreLimited
<1> QED BY <1>2, <1>7, <1>8

\* The script admits a payment to a window that runs.
LEMMA CountJoins ==
  ASSUME LimitsInv, NEW k \in Keys, Admits(k), Count(k), ~Restarts, requests' \in Counters
  PROVE  LimitsInv'
<1> USE DEF LimitsInv, Gone
<1> DEFINE life == payments.ttl
<1>1. /\ payments.count \in Nat /\ life \in Lives /\ life > 0
      /\ payments' = [payments EXCEPT !.count = @ + 1]
      /\ payments'.count = payments.count + 1 /\ payments'.ttl = life
      /\ admitted' = [admitted EXCEPT ![k] = life]
      /\ starters' = starters \cup {k}
  BY DEF Typed, Counters, Lives, Restarts, Count, Admitted, AdmissionLife
<1>2. Typed'
  BY <1>1 DEF Typed, Counters
<1>3. /\ admitted'[k] = life
      /\ \A j \in Keys : j # k => admitted'[j] = admitted[j]
  BY <1>1 DEF Typed
<1>4. k \notin CurrentAdmissions /\ starters = CurrentAdmissions
  BY <1>1 DEF Admits, CurrentAdmissions, WindowOK
<1>5. CurrentAdmissions' = CurrentAdmissions \cup {k}
  <2>1. k \in CurrentAdmissions'
    BY <1>1, <1>3 DEF CurrentAdmissions, IsAdmitted
  <2>2. ASSUME NEW j \in Keys, j # k
        PROVE  j \in CurrentAdmissions' <=> j \in CurrentAdmissions
    BY <1>1, <1>3, <2>2 DEF CurrentAdmissions, IsAdmitted
  <2> QED BY <2>1, <2>2 DEF CurrentAdmissions
<1>6. Cardinality(CurrentAdmissions') = payments.count + 1
  BY <1>4, <1>5, CurrentIsFinite, FS_AddElement DEF CountIsExact
<1>7. CountIsExact'
  BY <1>1, <1>3, <1>6 DEF CountIsExact
<1>8. payments.count + 1 <= Limit
  BY <1>1, LimitsAssumption DEF Admits
<1>9. starters' = CurrentAdmissions'
  BY <1>1, <1>4, <1>5
<1>10. WindowOK' /\ PaymentsAreLimited'
  <2>1. starters' = CurrentAdmissions' /\ Cardinality(starters') <= Limit
    BY <1>6, <1>8, <1>9
  <2>2. payments'.count > 0
    BY <1>1
  <2> QED BY <1>1, <1>8, <2>1, <2>2 DEF WindowOK, PaymentsAreLimited
<1> QED BY <1>2, <1>7, <1>10

\* Time takes a unit from the counter and from its admissions alike.
LEMMA TickKeeps ==
  ASSUME LimitsInv, Tick
  PROVE  LimitsInv'
<1> USE DEF LimitsInv, Gone
<1>1. /\ payments' = Aged(payments) /\ requests' = Aged(requests)
      /\ admitted' = [k \in Keys |-> Ages(admitted[k])]
      /\ starters' = starters
  BY DEF Tick
<1>2. Typed'
  <2>1. ASSUME NEW c \in Counters PROVE Aged(c) \in Counters
    BY LimitsAssumption DEF Aged, Counters, NoCounter, Lives
  <2>2. ASSUME NEW k \in Keys PROVE Ages(admitted[k]) \in Lives
    BY LimitsAssumption DEF Typed, Ages, Lives
  <2> QED BY <1>1, <2>1, <2>2 DEF Typed
<1>3. PaymentsAreLimited'
  BY <1>1 DEF PaymentsAreLimited
<1>4. CASE payments.ttl \in {Gone, 0}
  <2>1. payments' = NoCounter
    BY <1>1, <1>4 DEF Aged
  <2>2. \A k \in Keys : admitted[k] <= 0
    BY <1>4, NothingOutlives DEF Restarts
  <2>3. \A k \in Keys : admitted'[k] = Gone
    BY <1>1, <2>2 DEF Typed, Lives, Ages
  <2>4. CurrentAdmissions' = {}
    BY <2>3 DEF CurrentAdmissions, IsAdmitted
  <2>5. CountIsExact'
    BY <2>1, <2>3, <2>4, FS_EmptySet DEF CountIsExact, NoCounter
  <2>6. WindowOK'
    BY <2>1, LimitsAssumption DEF WindowOK, NoCounter
  <2> QED BY <1>2, <1>3, <2>5, <2>6
<1>5. CASE payments.ttl \notin {Gone, 0}
  <2>1. /\ payments.count \in Nat /\ payments.ttl \in Nat /\ payments.ttl > 0
        /\ payments'.count = payments.count /\ payments'.ttl = payments.ttl - 1
    BY <1>1, <1>5, LimitsAssumption DEF Typed, Counters, Lives, Aged
  <2>2. \A k \in Keys : admitted[k] > 0 => admitted[k] = payments.ttl /\ admitted'[k] = payments'.ttl
    BY <1>1, <2>1 DEF CountIsExact, Ages
  <2>3. \A k \in Keys : ~(admitted[k] > 0) => admitted'[k] = Gone
    BY <1>1 DEF Typed, Lives, Ages
  <2>4. CurrentAdmissions' = CurrentAdmissions
    <3>1. ASSUME NEW k \in Keys PROVE k \in CurrentAdmissions' <=> k \in CurrentAdmissions
      BY <2>1, <2>2, <2>3 DEF CurrentAdmissions, IsAdmitted
    <3> QED BY <3>1 DEF CurrentAdmissions
  <2>5. CountIsExact'
    BY <2>1, <2>2, <2>3, <2>4 DEF CountIsExact
  <2>6. WindowOK'
    BY <1>1, <2>1, <2>4 DEF WindowOK
  <2> QED BY <1>2, <1>3, <2>5, <2>6
<1> QED BY <1>4, <1>5

\* A step that does not write the wallet's counter, its records or their history.
LEMMA OthersKeep ==
  ASSUME LimitsInv, UNCHANGED wallet, requests' \in Counters
  PROVE  LimitsInv'
BY DEF LimitsInv, wallet, Typed, CountIsExact, WindowOK, PaymentsAreLimited,
       CurrentAdmissions, IsAdmitted

\* Every step keeps the invariant.
LEMMA StepKeeps ==
  ASSUME TypeOK, LimitsInv, [Next]_vars
  PROVE  LimitsInv'
<1> USE DEF LimitsInv, wallet
<1>1. requests \in Counters
  BY DEF Typed
<1>2. ASSUME NEW r \in Requests, NEW k \in Keys, Arrive(r, k) PROVE LimitsInv'
  <2>1. requests' \in Counters
    BY <1>1, <1>2, CountersCount DEF Arrive
  <2> QED BY <1>2, <2>1, OthersKeep DEF Arrive
<1>3. ASSUME NEW r \in Requests,
             Abandon(r) \/ Lookup(r) \/ Readmit(r) \/ RefusePayment(r) \/ Reserve(r)
      PROVE  LimitsInv'
  BY <1>1, <1>3, OthersKeep DEF Abandon, Lookup, Readmit, RefusePayment, Reserve
<1>4. ASSUME NEW r \in Requests, Admit(r) PROVE LimitsInv'
  <2>1. req[r].key \in Keys
    BY <1>4, UnderWayHasKey DEF Admit, In
  <2> QED BY <1>1, <1>4, <2>1, CountRestarts, CountJoins DEF Admit
<1>5. CASE UNCHANGED vars
  BY <1>1, <1>5, OthersKeep DEF vars
<1> QED BY <1>2, <1>3, <1>4, <1>5, TickKeeps DEF Next

\* The invariant of a window holds in every reachable state.
THEOREM WindowInvariant == Spec => []LimitsInv
<1>1. LimitsInv /\ TypeOK /\ [Next]_vars => LimitsInv'
  BY StepKeeps
<1> QED BY <1>1, InitHolds, LimitsTyped, PTL DEF Spec

\* The count is that of the payments admitted in this window, whatever was retried
\* and however the answers were lost (rateLimiter.middleware.ts:36-45).
THEOREM CountedOnce == Spec => []CountIsExact
BY WindowInvariant, PTL DEF LimitsInv

\* No window lets more than Limit payments of a wallet through
\* (rateLimiter.middleware.ts:39).
THEOREM LimitHolds == Spec => []PaymentsAreLimited
BY WindowInvariant, PTL DEF LimitsInv

\* The wallet's limit never refuses a payment it counted in this window (rateLimiter.
\* middleware.ts:36): while the count is at its limit, exactly the payments it counted
\* have a record to show. Of the user's limit, which counts retries too, it says nothing.
THEOREM WalletRetryPasses == Spec => WalletReadmitsRetry
<1> DEFINE Passes == \A r \in Requests :
             In(r, "admit") /\ req'[r].pc = "refused" => req[r].key \notin starters
<1>1. LimitsInv /\ TypeOK /\ [Next]_vars => [Passes]_vars
  <2> SUFFICES ASSUME LimitsInv, TypeOK, Next, NEW r \in Requests, In(r, "admit"),
                      req'[r].pc = "refused"
               PROVE  req[r].key \notin starters
    OBVIOUS
  <2>1. RefusePayment(r)
    <3>1. \A to : \A s \in Requests : Move(s, to) => req'[r] = req[r] \/ (s = r /\ req'[r] = to)
      BY DEF TypeOK, Move
    <3>2. ASSUME NEW s \in Requests, NEW k \in Keys, Arrive(s, k) PROVE FALSE
      <4>1. s # r
        BY <3>2 DEF Arrive, In
      <4>2. \E to : Move(s, to)
        BY <3>2 DEF Arrive
      <4> QED BY <3>1, <4>1, <4>2 DEF In
    <3>3. ASSUME NEW s \in Requests, Abandon(s) \/ Lookup(s) \/ Readmit(s) \/ Admit(s) \/ Reserve(s)
          PROVE  FALSE
      <4>1. \E to : Move(s, to) /\ to.pc # "refused"
        BY <3>3 DEF Abandon, Lookup, Readmit, Admit, Reserve, Idle, At
      <4> QED BY <3>1, <4>1 DEF In
    <3>4. ASSUME Tick PROVE FALSE
      BY <3>4 DEF Tick, Waited, In
    <3>5. ASSUME NEW s \in Requests, RefusePayment(s) PROVE s = r
      BY <3>1, <3>5 DEF RefusePayment, In
    <3> QED BY <3>2, <3>3, <3>4, <3>5 DEF Next
  <2>2. payments.count >= Limit /\ ~IsAdmitted(req[r].key)
    BY <2>1, LimitsAssumption DEF RefusePayment, Admits, TypeOK, Counters
  <2>3. payments.ttl # Gone
    <3>1. SUFFICES ASSUME payments.ttl = Gone PROVE FALSE
      OBVIOUS
    <3>2. CurrentAdmissions = {}
      BY <3>1 DEF CurrentAdmissions, IsAdmitted
    <3> QED BY <2>2, <3>2, FS_EmptySet, LimitsAssumption DEF LimitsInv, CountIsExact
  <2>4. starters = CurrentAdmissions
    BY <2>3 DEF LimitsInv, WindowOK
  <2> QED BY <2>2, <2>4 DEF CurrentAdmissions
<1> QED BY <1>1, WindowInvariant, LimitsTyped, PTL DEF Spec, WalletReadmitsRetry

\* Refused requests do not prolong a window (rateLimiter.middleware.ts:14, 40-45).
THEOREM WindowsEnd == Spec => WindowsAreNotExtended
<1> DEFINE Ends == /\ requests'.ttl > requests.ttl => requests.ttl = Gone
                   /\ payments'.ttl > payments.ttl => payments.ttl \in {Gone, 0}
<1>1. LimitsInv /\ TypeOK /\ [Next]_vars => [Ends]_vars
  <2> SUFFICES ASSUME LimitsInv, TypeOK, Next PROVE Ends
    OBVIOUS
  <2>1. /\ requests.count \in Nat /\ requests.ttl \in Lives
        /\ payments.count \in Nat /\ payments.ttl \in Lives
    BY DEF TypeOK, Counters
  <2>2. ASSUME NEW c \in Counters PROVE ~(Aged(c).ttl > c.ttl)
    BY LimitsAssumption DEF Aged, NoCounter, Counters, Lives, Gone
  <2>3. ASSUME NEW c \in Counters, c.ttl # Gone PROVE Incremented(c).ttl = c.ttl /\ Incremented(c) \in Counters
    BY <2>3, CountersCount DEF Incremented, Counters
  <2>4. ASSUME NEW r \in Requests, NEW k \in Keys, Arrive(r, k) PROVE Ends
    <3>1. requests' = Incremented(requests) \/ requests' = Incremented(Incremented(requests))
      BY <2>4 DEF Arrive
    <3>2. requests.ttl # Gone => requests'.ttl = requests.ttl
      BY <2>3, <3>1 DEF TypeOK
    <3> QED BY <2>1, <2>4, <3>2, LimitsAssumption DEF Arrive, Lives, Gone
  <2>5. ASSUME NEW r \in Requests, Admit(r) PROVE Ends
    <3>1. CASE payments.ttl \in {Gone, 0}
      BY <2>1, <2>5, <3>1, LimitsAssumption DEF Admit, Lives, Gone
    <3>2. CASE payments.ttl \notin {Gone, 0}
      <4>1. ~Restarts
        BY <2>1, <3>2, LimitsAssumption DEF Restarts, LimitsInv, WindowOK, Lives, Gone
      <4>2. payments'.ttl = payments.ttl
        BY <2>5, <4>1 DEF Admit, Count, Admitted, TypeOK, Counters
      <4> QED BY <2>1, <2>5, <4>2, LimitsAssumption DEF Admit, Lives, Gone
    <3> QED BY <3>1, <3>2
  <2>6. ASSUME NEW r \in Requests,
               Abandon(r) \/ Lookup(r) \/ Readmit(r) \/ RefusePayment(r) \/ Reserve(r)
        PROVE  Ends
    BY <2>1, <2>6, LimitsAssumption DEF Abandon, Lookup, Readmit, RefusePayment, Reserve, Lives, Gone
  <2>7. ASSUME Tick PROVE Ends
    BY <2>2, <2>7 DEF Tick, TypeOK
  <2> QED BY <2>4, <2>5, <2>6, <2>7 DEF Next
<1> QED BY <1>1, WindowInvariant, LimitsTyped, PTL DEF Spec, WindowsAreNotExtended

-----------------------------------------------------------------------------
(* The time a refused client is told to wait                                *)

\* A client that was refused in a counter's window is still to wait at least as long
\* as that window lasts.
Waits(by, life) ==
  \A r \in Requests :
    In(r, "refused") /\ req[r].by = by /\ r \in refused[by] => life <= req[r].left

WaitInv == Waits("user", requests.ttl) /\ Waits("wallet", payments.ttl)

\* Rounding up never tells a client less than the life of the counter.
LEMMA ToldCovers ==
  ASSUME NEW by, NEW c \in Counters
  PROVE  /\ c.ttl <= Told(by, c).left
         /\ Told(by, c).pc = "refused" /\ Told(by, c).by = by
<1>1. Second \in Nat \ {0} /\ c.ttl \in Int /\ c.ttl >= -1
  BY LimitsAssumption DEF Counters, Lives, Gone
<1>2. c.ttl <= RetryAfter(c.ttl) * Second
  <2>1. CASE c.ttl <= 0
    <3>1. Ceil(c.ttl) > 1 => FALSE
      <4>1. CASE c.ttl + Second - 1 \in Nat
        <5>1. Ceil(c.ttl) \in Nat /\ Ceil(c.ttl) * Second <= c.ttl + Second - 1
          BY <1>1, <4>1, RoundingUp DEF Ceil
        <5>2. Ceil(c.ttl) * Second < Second
          BY <1>1, <2>1, <5>1
        <5>3. Ceil(c.ttl) > 1 => Ceil(c.ttl) * Second >= Second
          BY <1>1, <5>1
        <5> QED BY <1>1, <5>1, <5>2, <5>3
      <4>2. CASE c.ttl + Second - 1 \notin Nat
        <5>1. c.ttl = -1 /\ Second = 1
          BY <1>1, <4>2
        <5> QED BY <5>1 DEF Ceil
      <4> QED BY <4>1, <4>2
    <3> QED BY <1>1, <2>1, <3>1 DEF RetryAfter
  <2>2. CASE c.ttl > 0
    <3>1. c.ttl + Second - 1 \in Nat
      BY <1>1, <2>2
    <3>2. /\ Ceil(c.ttl) \in Nat
          /\ c.ttl + Second - 1 < Ceil(c.ttl) * Second + Second
      BY <1>1, <3>1, RoundingUp DEF Ceil
    <3>3. Ceil(c.ttl) * Second \in Nat
      BY <1>1, <3>2
    <3>4. c.ttl <= Ceil(c.ttl) * Second
      BY <1>1, <3>2, <3>3
    <3>5. CASE Ceil(c.ttl) > 1
      BY <3>4, <3>5 DEF RetryAfter
    <3>6. CASE ~(Ceil(c.ttl) > 1)
      <4>1. Ceil(c.ttl) * Second <= Second
        <5>1. Ceil(c.ttl) \in {0, 1}
          BY <3>2, <3>6
        <5> QED BY <1>1, <5>1
      <4> QED BY <1>1, <3>3, <3>4, <3>6, <4>1 DEF RetryAfter
    <3> QED BY <3>5, <3>6
  <2> QED BY <1>1, <2>1, <2>2
<1> QED BY <1>2 DEF Told

\* INCR leaves the life of a counter that exists.
LEMMA IncrementedLife ==
  ASSUME NEW c \in Counters
  PROVE  /\ Incremented(c) \in Counters /\ Incremented(c).ttl # Gone
         /\ c.ttl # Gone => Incremented(c).ttl = c.ttl
BY CountersCount, LimitsAssumption DEF Incremented, Counters, Gone

\* A step of one request: those that were refused before wait on, and this one, if it is
\* refused, waits long enough.
LEMMA MoveWaits ==
  ASSUME TypeOK, NEW by \in {"user", "wallet"}, NEW life, Waits(by, life),
         NEW r \in Requests, NEW to, Move(r, to),
         NEW next, next = life \/ refused'[by] \subseteq {r},
         refused'[by] \subseteq refused[by] \cup {r},
         r \in refused'[by] /\ to.pc = "refused" /\ to.by = by => next <= to.left
  PROVE  Waits(by, next)'
<1> SUFFICES ASSUME NEW q \in Requests, req'[q].pc = "refused", req'[q].by = by, q \in refused'[by]
             PROVE  next <= req'[q].left
  BY DEF Waits, In
<1>1. CASE q = r
  BY <1>1 DEF TypeOK, Move
<1>2. CASE q # r
  <2>1. req'[q] = req[q] /\ q \in refused[by] /\ next = life
    BY <1>2 DEF TypeOK, Move
  <2> QED BY <2>1 DEF Waits, In
<1> QED BY <1>1, <1>2

\* The request is counted, and the counter keeps its life or starts a window.
LEMMA ArriveWaits ==
  ASSUME TypeOK, WaitInv, NEW r \in Requests, NEW k \in Keys, Arrive(r, k)
  PROVE  WaitInv'
<1> DEFINE earlier == Begin("user", requests.ttl = Gone)
<1>1. PICK c \in Counters :
        /\ requests' = c
        /\ c.ttl = requests.ttl \/ requests.ttl = Gone
        /\ \/ Move(r, At("lookup", k)) /\ refused' = earlier
           \/ Move(r, Told("user", c)) /\ refused' = [earlier EXCEPT !["user"] = @ \cup {r}]
           \/ Move(r, Idle) /\ refused' = earlier
  <2>1. Incremented(requests) \in Counters /\ Incremented(Incremented(requests)) \in Counters
    BY IncrementedLife DEF TypeOK
  <2>2. requests.ttl # Gone => /\ Incremented(requests).ttl = requests.ttl
                               /\ Incremented(Incremented(requests)).ttl = requests.ttl
    BY <2>1, IncrementedLife DEF TypeOK
  <2> QED BY <2>1, <2>2 DEF Arrive
<1>2. PICK to : /\ Move(r, to)
                /\ \/ to \in {At("lookup", k), Idle} /\ refused' = earlier
                   \/ to = Told("user", c) /\ refused' = [earlier EXCEPT !["user"] = @ \cup {r}]
  BY <1>1
<1>3. /\ refused'["user"] \subseteq refused["user"] \cup {r}
      /\ refused'["wallet"] = refused["wallet"]
      /\ requests.ttl = Gone => refused'["user"] \subseteq {r}
  BY <1>2 DEF Begin, TypeOK
<1>4. to.pc = "refused" => to.by = "user" /\ c.ttl <= to.left
  BY <1>2, ToldCovers DEF At, Idle
<1>5. PICK life : life = requests.ttl
  OBVIOUS
<1>6. PICK paid : paid = payments.ttl
  OBVIOUS
<1>7. Waits("user", c.ttl)'
  BY <1>1, <1>2, <1>3, <1>4, <1>5, MoveWaits DEF WaitInv
<1>8. Waits("wallet", paid)'
  BY <1>2, <1>3, <1>4, <1>6, MoveWaits DEF WaitInv
<1>9. payments'.ttl = paid
  BY <1>6 DEF Arrive
<1> QED BY <1>1, <1>7, <1>8, <1>9 DEF WaitInv, Waits

\* A step on the way to the reservation, and one that is refused by the wallet.
LEMMA OthersWait ==
  ASSUME TypeOK, WaitInv, NEW r \in Requests,
         Abandon(r) \/ Lookup(r) \/ Readmit(r) \/ RefusePayment(r) \/ Reserve(r)
  PROVE  WaitInv'
<1>1. UNCHANGED <<requests, payments>> /\ payments \in Counters
  BY DEF Abandon, Lookup, Readmit, RefusePayment, Reserve, TypeOK
<1>2. PICK to : /\ Move(r, to)
                /\ \/ to.pc # "refused" /\ refused' = refused
                   \/ /\ to = Told("wallet", payments)
                      /\ refused' = [refused EXCEPT !["wallet"] = @ \cup {r}]
  BY DEF Abandon, Lookup, Readmit, RefusePayment, Reserve, At, Idle
<1>3. refused'["user"] = refused["user"] /\ refused'["wallet"] \subseteq refused["wallet"] \cup {r}
  BY <1>2 DEF TypeOK
<1>4. to.pc = "refused" => to.by = "wallet" /\ payments.ttl <= to.left
  BY <1>1, <1>2, ToldCovers
<1>5. PICK life : life = requests.ttl
  OBVIOUS
<1>6. PICK paid : paid = payments.ttl
  OBVIOUS
<1>7. Waits("user", life)'
  BY <1>2, <1>3, <1>4, <1>5, MoveWaits DEF WaitInv
<1>8. Waits("wallet", paid)'
  BY <1>2, <1>3, <1>4, <1>6, MoveWaits DEF WaitInv
<1> QED BY <1>1, <1>5, <1>6, <1>7, <1>8 DEF WaitInv, Waits

\* A payment that is admitted begins a window, in which nobody was refused yet, or joins
\* one and leaves its life.
LEMMA AdmitWaits ==
  ASSUME TypeOK, WaitInv, NEW r \in Requests, Admit(r)
  PROVE  WaitInv'
<1>1. PICK to : Move(r, to) /\ to.pc # "refused"
  BY DEF Admit, At, Idle
<1>2. refused' = IF Restarts THEN [refused EXCEPT !["wallet"] = {}] ELSE refused
  BY DEF Admit, Count, Begin
<1>3. requests' = requests /\ payments' = Admitted
  BY DEF Admit, Count
<1>4. PICK life : life = requests.ttl
  OBVIOUS
<1>5. PICK paid : paid = payments.ttl
  OBVIOUS
<1>6. PICK next : next = Admitted.ttl
  OBVIOUS
<1>7. next = paid \/ refused'["wallet"] \subseteq {r}
  BY <1>2, <1>5, <1>6 DEF Admitted, TypeOK, Counters
<1>8. refused'["user"] = refused["user"] /\ refused'["wallet"] \subseteq refused["wallet"]
  BY <1>2 DEF TypeOK
<1>9. Waits("user", life)'
  BY <1>1, <1>4, <1>8, MoveWaits DEF WaitInv
<1>10. Waits("wallet", next)'
  BY <1>1, <1>5, <1>7, <1>8, MoveWaits DEF WaitInv
<1> QED BY <1>3, <1>4, <1>6, <1>9, <1>10 DEF WaitInv, Waits

\* Time takes a unit from the wait and from the window alike.
LEMMA TickWaits ==
  ASSUME TypeOK, WaitInv, Tick
  PROVE  WaitInv'
<1>1. ASSUME NEW by, NEW c \in Counters, NEW r \in Requests, Waits(by, c.ttl),
             req'[r].pc = "refused", req'[r].by = by, r \in refused'[by]
      PROVE  Aged(c).ttl <= req'[r].left
  <2>1. req'[r] = Waited(req[r]) /\ refused' = refused
    BY DEF Tick
  <2>2. req[r] \in Refused
    <3>1. req[r] \in Requesting \cup Refused
      BY DEF TypeOK, Requesting, Refused
    <3>2. req[r].pc = "refused"
      BY <1>1, <2>1, <3>1 DEF Waited
    <3> QED BY <3>1, <3>2 DEF Requesting, Idle, At
  <2>3. /\ req[r].left \in Nat
        /\ req'[r].left = IF req[r].left > 0 THEN req[r].left - 1 ELSE req[r].left
        /\ req[r].by = by /\ req[r].pc = "refused"
    BY <1>1, <2>1, <2>2, LimitsAssumption DEF Waited, Refused
  <2>4. c.ttl <= req[r].left
    BY <1>1, <2>1, <2>3 DEF Waits, In
  <2>5. c.ttl \in Int /\ Aged(c).ttl = IF c.ttl \in {-1, 0} THEN -1 ELSE c.ttl - 1
    BY LimitsAssumption DEF Counters, Lives, Gone, Aged, NoCounter
  <2>6. c.ttl >= -1
    BY LimitsAssumption DEF Counters, Lives, Gone
  <2> QED BY <2>3, <2>4, <2>5, <2>6
<1>2. requests' = Aged(requests) /\ payments' = Aged(payments)
  BY DEF Tick
<1>3. requests \in Counters /\ payments \in Counters
  BY DEF TypeOK
<1> QED BY <1>1, <1>2, <1>3 DEF WaitInv, Waits, In

LEMMA WaitStep ==
  ASSUME TypeOK, WaitInv, [Next]_vars
  PROVE  WaitInv'
<1>1. CASE UNCHANGED vars
  BY <1>1 DEF vars, WaitInv, Waits, In
<1> QED BY <1>1, ArriveWaits, OthersWait, AdmitWaits, TickWaits DEF Next

\* A client that has waited as long as it was told does not meet the window that refused
\* it, its last unit of time apart (rateLimiter.middleware.ts:18, 49).
THEOREM WaitSuffices == Spec => []RetryAfterIsEnough
<1>1. Init => WaitInv
  BY DEF Init, WaitInv, Waits, In, Idle
<1>2. TypeOK /\ WaitInv => RetryAfterIsEnough
  <2> SUFFICES ASSUME TypeOK, WaitInv, NEW r \in Requests, In(r, "refused"), req[r].left = 0
               PROVE  /\ req[r].by = "user" /\ r \in refused["user"] => requests.ttl \in {Gone, 0}
                      /\ req[r].by = "wallet" /\ r \in refused["wallet"] => payments.ttl \in {Gone, 0}
    BY DEF RetryAfterIsEnough
  <2> QED BY LimitsAssumption DEF WaitInv, Waits, TypeOK, Counters, Lives, Gone
<1>3. TypeOK /\ WaitInv /\ [Next]_vars => WaitInv'
  BY WaitStep
<1> QED BY <1>1, <1>2, <1>3, LimitsTyped, PTL DEF Spec
=============================================================================
