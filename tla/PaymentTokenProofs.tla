------------------------- MODULE PaymentTokenProofs -------------------------
(***************************************************************************)
(* What one payment credential keeps, for any number of operations and     *)
(* tokens.                                                                 *)
(***************************************************************************)
EXTENDS PaymentToken, TLAPS

Ops == [pc : Labels, seen : Creds, got : 0 .. MaxTokens]

(* A token that was offered for rotation, or that an operation is about to *)
(* offer, with or without the lease.                                       *)
AtRisk(t) ==
  t \in asked \/ \E p \in Owners : op[p].pc = "g_rotate" /\ op[p].seen.token = t

(* ... by an operation other than o. *)
AtRiskBesides(o, t) ==
  t \in asked \/ \E p \in Owners \ {o} : op[p].pc = "g_rotate" /\ op[p].seen.token = t

(* A row whose token nobody asked to replace. *)
Settled(c) == c.state \in {"READY", "REJECTED"} \/ (c.state = "UNAVAILABLE" /\ c.timed)

(* A row never goes back to an earlier token.                              *)
CredInv ==
  /\ cred.token <= issued
  /\ cred.state = "NONE" => cred.token = 0
  /\ cred.state # "NONE" =>
       /\ cred.generation >= 1 /\ cred.generation <= cred.token
       /\ \A t \in Tokens : AtRisk(t) => t <= cred.token
  /\ Settled(cred) => ~AtRisk(cred.token)

ProviderInv ==
  /\ \A t \in live \cup past \cup asked : t <= issued
  /\ live \cap past = {}
  /\ \A t \in Tokens : next[t] # 0 => t < next[t] /\ next[t] <= issued /\ t \in asked /\ t \notin live

Same(c, d) == c.state = d.state /\ c.generation = d.generation /\ c.token = d.token

(* The row says that the operation r rotates its token. *)
Marked(r) == cred.state = "ROTATING" /\ cred.generation = r.seen.generation /\ cred.token = r.seen.token

(* What the holder o of the lease, in the state r, relies on. *)
ReliesOn(o, r) ==
  /\ r.pc \in {"unresolved", "g_mark", "u_save", "k_revoke", "k_clear"} => Same(cred, r.seen)
  /\ r.pc \in {"g_mark", "u_read", "u_save"} => cred.state = "READY"
  /\ r.pc = "unresolved" => cred.state = "ROTATING"
  /\ r.pc \in {"t_save", "t_reject"} => r.got >= 1 /\ \A t \in Tokens : AtRisk(t) => t < r.got
  /\ r.pc \in {"g_rotate", "g_wait", "g_save", "g_reject", "g_abort", "g_restore"} => Marked(r)
  /\ r.pc \in {"g_rotate", "g_abort", "g_restore"} => ~AtRiskBesides(o, r.seen.token)
  /\ r.pc \in {"g_save", "g_reject"} => r.got = next[r.seen.token] /\ r.got # 0
  /\ r.pc = "g_catch" =>
       \/ Marked(r)
       \/ cred.generation = r.seen.generation + 1 /\ cred.state \in {"READY", "REJECTED"}
  /\ r.pc = "use" => cred.state = "READY" /\ r.got = cred.token
  /\ r.pc = "k_revoke" => Revocable(cred)
  /\ r.pc = "k_clear" => Settled(cred) /\ cred.token \notin live

OpsInv ==
  /\ \A o \in Owners :
       /\ op[o].seen.token <= issued /\ op[o].got <= issued
       /\ op[o].pc \in {"g_rotate", "g_wait"} => op[o].seen.token >= 1
  /\ \A o \in lease : ReliesOn(o, op[o])

IInv == TypeOK /\ CredInv /\ ProviderInv /\ OpsInv

-----------------------------------------------------------------------------
(* Lemmas about single operations. *)

LEMMA AtRow ==
  ASSUME NEW label \in Labels
  PROVE  /\ At(label) \in Ops /\ At(label).pc = label
         /\ At(label).seen.token = 0 /\ At(label).got = 0
  <1>1. 0 \in 0 .. MaxTokens
    BY TokensAssumption
  <1>2. NoCred \in Creds /\ NoCred.token = 0
    BY <1>1 DEF NoCred, Creds
  <1> QED
    BY <1>1, <1>2 DEF At, Ops

(* Where an operation goes with a call that brings nothing. *)
LEMMA GotoRow ==
  ASSUME NEW o \in Owners, op[o] \in Ops, NEW label \in Labels, Goto(o, label)
  PROVE  \E r \in Ops :
           /\ op' = [op EXCEPT ![o] = r] /\ r.pc = label
           /\ label = "held" \/ (r.seen = op[o].seen /\ r.got = op[o].got)
           /\ r.seen.token \in {0, op[o].seen.token} /\ r.got \in {0, op[o].got}
  <1>1. CASE label = "held"
    BY <1>1, AtRow DEF Goto
  <1>2. CASE label # "held"
    <2> DEFINE m == [op[o] EXCEPT !.pc = label]
    <2>1. m \in Ops /\ m.pc = label /\ m.seen = op[o].seen /\ m.got = op[o].got
      BY DEF Ops
    <2>2. op' = [op EXCEPT ![o] = m]
      BY <1>2 DEF Goto
    <2> QED
      BY <2>1, <2>2
  <1> QED
    BY <1>1, <1>2

LEMMA SeeRow ==
  ASSUME NEW o \in Owners, op[o] \in Ops, cred \in Creds, NEW label \in Labels, See(o, label)
  PROVE  \E r \in Ops : op' = [op EXCEPT ![o] = r] /\ r.pc = label /\ r.seen = cred /\ r.got = op[o].got
  <1> DEFINE m == [op[o] EXCEPT !.pc = label, !.seen = cred]
  <1>1. m \in Ops /\ m.pc = label /\ m.seen = cred /\ m.got = op[o].got
    BY DEF Ops
  <1>2. op' = [op EXCEPT ![o] = m]
    BY DEF See
  <1> QED
    BY <1>1, <1>2

LEMMA HaveRow ==
  ASSUME NEW o \in Owners, op[o] \in Ops, NEW label \in Labels, NEW token \in 0 .. MaxTokens, Have(o, label, token)
  PROVE  \E r \in Ops : op' = [op EXCEPT ![o] = r] /\ r.pc = label /\ r.seen = op[o].seen /\ r.got = token
  <1> DEFINE m == [op[o] EXCEPT !.pc = label, !.got = token]
  <1>1. m \in Ops /\ m.pc = label /\ m.seen = op[o].seen /\ m.got = token
    BY DEF Ops
  <1>2. op' = [op EXCEPT ![o] = m]
    BY DEF Have
  <1> QED
    BY <1>1, <1>2

(* Nobody else begins to offer a token when o moves on. *)
LEMMA RiskShrinks ==
  ASSUME op \in [Owners -> Ops], NEW o \in Owners, NEW r \in Ops, op' = [op EXCEPT ![o] = r],
         UNCHANGED asked, NEW t
  PROVE  /\ AtRisk(t)' => AtRisk(t) \/ (r.pc = "g_rotate" /\ r.seen.token = t)
         /\ \A p \in Owners : AtRiskBesides(p, t)' =>
              AtRiskBesides(p, t) \/ (p # o /\ r.pc = "g_rotate" /\ r.seen.token = t)
  <1>1. \A p \in Owners : op'[p] = IF p = o THEN r ELSE op[p]
    OBVIOUS
  <1> QED
    BY <1>1 DEF AtRisk, AtRiskBesides

(* Every token at risk was issued. *)
LEMMA RiskIssued ==
  ASSUME TypeOK, ProviderInv, OpsInv, NEW t, AtRisk(t)
  PROVE  t <= issued /\ t \in 0 .. MaxTokens
  <1>1. CASE t \in asked
    BY <1>1, TokensAssumption DEF TypeOK, ProviderInv, Tokens
  <1>2. CASE t \notin asked
    <2>1. PICK p \in Owners : op[p].seen.token = t
      BY <1>2 DEF AtRisk
    <2>2. op[p].seen \in Creds
      BY DEF TypeOK
    <2> QED
      BY <2>1, <2>2 DEF OpsInv, Creds
  <1> QED
    BY <1>1, <1>2

(* What a holder relies on does not depend on the other operations, but    *)
(* for the tokens they put at risk.                                        *)
LEMMA RelianceKeeps ==
  ASSUME NEW o, NEW r, ReliesOn(o, r),
         UNCHANGED <<cred, tokens>>,
         \A t \in Tokens : AtRisk(t)' => AtRisk(t),
         AtRiskBesides(o, r.seen.token)' => AtRiskBesides(o, r.seen.token)
  PROVE  ReliesOn(o, r)'
  BY DEF ReliesOn, Marked, tokens

-----------------------------------------------------------------------------
(* Steps of one operation. *)

(* A step that changes nothing stored, by an operation that does not begin *)
(* to offer a token; the lease may go, or come to it.                      *)
LEMMA LeaseKeeps ==
  ASSUME IInv, NEW o \in Owners, NEW r \in Ops,
         op' = [op EXCEPT ![o] = r], UNCHANGED <<cred, tokens, tool>>,
         r.pc # "g_rotate", r.pc = "g_wait" => r.seen.token >= 1,
         r.seen.token <= issued, r.got <= issued,
         lease' \in SUBSET Owners, \A p, q \in lease' : p = q, \A p \in lease' \ {o} : p \in lease,
         o \in lease' => ReliesOn(o, r)
  PROVE  IInv'
  <1>0. op \in [Owners -> Ops] /\ asked' = asked
    BY DEF IInv, TypeOK, Ops, tokens
  <1>1. TypeOK'
    BY DEF IInv, TypeOK, Ops, tokens, tool
  <1>2. /\ \A t : AtRisk(t)' => AtRisk(t)
        /\ \A t : \A p \in Owners : AtRiskBesides(p, t)' => AtRiskBesides(p, t)
    BY <1>0, RiskShrinks
  <1>3. CredInv'
    BY <1>2 DEF IInv, CredInv, Settled, tokens
  <1>4. ProviderInv'
    BY DEF IInv, ProviderInv, tokens
  <1>5. OpsInv'
    <2>1. \A p \in Owners : op'[p] = IF p = o THEN r ELSE op[p]
      BY <1>0
    <2>2. \A p \in Owners :
            /\ op'[p].seen.token <= issued' /\ op'[p].got <= issued'
            /\ op'[p].pc \in {"g_rotate", "g_wait"} => op'[p].seen.token >= 1
      BY <2>1 DEF IInv, OpsInv, tokens
    <2>3. ASSUME NEW p \in lease' PROVE ReliesOn(p, op[p])'
      <3>1. p \in Owners
        BY <2>3
      <3>2. PICK s \in Ops : s = op'[p]
        BY <1>0, <2>1, <3>1
      <3>3. ReliesOn(p, s)
        BY <2>1, <3>1, <3>2 DEF IInv, OpsInv
      <3>4. ReliesOn(p, s)'
        BY <1>2, <3>1, <3>3, RelianceKeeps
      <3> QED
        BY <3>2, <3>4 DEF ReliesOn, Marked
    <2> QED
      BY <2>2, <2>3 DEF OpsInv
  <1> QED
    BY <1>1, <1>3, <1>4, <1>5 DEF IInv

LEMMA MoveKeeps ==
  ASSUME IInv, NEW o \in Owners, NEW r \in Ops,
         op' = [op EXCEPT ![o] = r], UNCHANGED <<credential, tokens, tool>>,
         r.pc # "g_rotate", r.pc = "g_wait" => r.seen.token >= 1,
         r.seen.token <= issued, r.got <= issued,
         o \in lease => ReliesOn(o, r)
  PROVE  IInv'
  <1>1. lease' = lease /\ lease \in SUBSET Owners /\ \A p, q \in lease : p = q
    BY DEF credential, IInv, TypeOK
  <1> QED
    BY <1>1, LeaseKeeps DEF credential

(* Labels at which an operation relies on nothing. *)
Resting == {"idle", "held", "k_read"}

LEMMA RestingRelies ==
  ASSUME NEW o, NEW r, r.pc \in Resting
  PROVE  ReliesOn(o, r) /\ ReliesOn(o, r)'
  BY DEF Resting, ReliesOn

(* The holder writes the row new. *)
LEMMA SaveKeeps ==
  ASSUME IInv, NEW o \in lease, NEW r \in Ops, NEW new \in Creds,
         op' = [op EXCEPT ![o] = r], cred' = new, UNCHANGED <<lease, tokens, tool>>,
         r.seen.token <= issued, r.got <= issued,
         new.token <= issued, new.state = "NONE" => new.token = 0,
         new.state # "NONE" => /\ new.generation >= 1 /\ new.generation <= new.token
                               /\ \A t \in Tokens : AtRisk(t) => t <= new.token,
         Settled(new) => r.pc # "g_rotate" /\ ~AtRisk(new.token),
         r.pc = "g_rotate" => new.state # "NONE" /\ r.seen.token = new.token,
         r.pc # "g_wait",
         ReliesOn(o, r)'
  PROVE  IInv'
  <1>0. op \in [Owners -> Ops] /\ asked' = asked /\ o \in Owners
    BY DEF IInv, TypeOK, Ops, tokens
  <1>1. TypeOK'
    BY <1>0 DEF IInv, TypeOK, Ops, tokens, tool
  <1>2. \A t : AtRisk(t)' => AtRisk(t) \/ (r.pc = "g_rotate" /\ r.seen.token = t)
    BY <1>0, RiskShrinks
  <1>3. CredInv'
    BY <1>2 DEF CredInv, Settled, tokens, Creds
  <1>4. ProviderInv'
    BY DEF IInv, ProviderInv, tokens
  <1>5. OpsInv'
    <2>1. \A p \in Owners : op'[p] = IF p = o THEN r ELSE op[p]
      BY <1>0
    <2>2. \A p \in Owners :
            /\ op'[p].seen.token <= issued' /\ op'[p].got <= issued'
            /\ op'[p].pc \in {"g_rotate", "g_wait"} => op'[p].seen.token >= 1
      BY <2>1 DEF IInv, OpsInv, tokens, Creds
    <2>3. \A p \in lease' : p = o /\ op'[p] = r
      BY <1>0, <2>1 DEF IInv, TypeOK
    <2> QED
      BY <2>2, <2>3 DEF OpsInv, ReliesOn, Marked
  <1> QED
    BY <1>1, <1>3, <1>4, <1>5 DEF IInv

(* What the invariant says of one operation. *)
LEMMA OwnRow ==
  ASSUME IInv, NEW o \in Owners
  PROVE  /\ op \in [Owners -> Ops] /\ op[o] \in Ops /\ op[o].seen \in Creds /\ op[o].got \in 0 .. MaxTokens
         /\ cred \in Creds /\ cred.token <= issued /\ issued \in 0 .. MaxTokens
         /\ op[o].seen.token <= issued /\ op[o].got <= issued
         /\ op[o].seen.token \in 0 .. MaxTokens /\ cred.token \in 0 .. MaxTokens
         /\ o \in lease => ReliesOn(o, op[o])
  BY DEF IInv, TypeOK, Ops, CredInv, OpsInv, Creds

(* An operation goes on, or returns, and relies there on what holds. *)
LEMMA GotoKeeps ==
  ASSUME IInv, NEW o \in Owners, NEW label \in Labels \ {"g_rotate", "g_wait"},
         Goto(o, label), UNCHANGED <<credential, tokens, tool>>,
         label \notin Resting /\ o \in lease =>
           \A r \in Ops : r.pc = label /\ r.seen = op[o].seen /\ r.got = op[o].got => ReliesOn(o, r)
  PROVE  IInv'
  <1>1. PICK r \in Ops :
          /\ op' = [op EXCEPT ![o] = r] /\ r.pc = label
          /\ label = "held" \/ (r.seen = op[o].seen /\ r.got = op[o].got)
          /\ r.seen.token \in {0, op[o].seen.token} /\ r.got \in {0, op[o].got}
    BY OwnRow, GotoRow
  <1>2. o \in lease => ReliesOn(o, r)
    <2>1. CASE label \in Resting
      BY <1>1, <2>1, RestingRelies
    <2>2. CASE label \notin Resting
      BY <1>1, <2>2 DEF Resting
    <2> QED
      BY <2>1, <2>2
  <1>3. r.seen.token <= issued /\ r.got <= issued
    BY <1>1, OwnRow
  <1> QED
    BY <1>1, <1>2, <1>3, MoveKeeps

LEMMA SeeKeeps ==
  ASSUME IInv, NEW o \in Owners, NEW label \in Labels \ {"g_rotate", "g_wait"},
         See(o, label), UNCHANGED <<credential, tokens, tool>>,
         o \in lease => \A r \in Ops : r.pc = label /\ r.seen = cred /\ r.got = op[o].got => ReliesOn(o, r)
  PROVE  IInv'
  <1>1. PICK r \in Ops : op' = [op EXCEPT ![o] = r] /\ r.pc = label /\ r.seen = cred /\ r.got = op[o].got
    BY OwnRow, SeeRow
  <1> QED
    BY <1>1, OwnRow, MoveKeeps

LEMMA HaveKeeps ==
  ASSUME IInv, NEW o \in Owners, NEW label \in Labels \ {"g_rotate", "g_wait"}, NEW token \in 0 .. issued,
         Have(o, label, token), UNCHANGED <<credential, tokens, tool>>,
         o \in lease => \A r \in Ops : r.pc = label /\ r.seen = op[o].seen /\ r.got = token => ReliesOn(o, r)
  PROVE  IInv'
  <1>0. token \in 0 .. MaxTokens /\ token <= issued
    <2>1. issued \in 0 .. MaxTokens /\ MaxTokens \in Nat
      BY OwnRow, TokensAssumption
    <2> QED
      BY <2>1
  <1>1. PICK r \in Ops : op' = [op EXCEPT ![o] = r] /\ r.pc = label /\ r.seen = op[o].seen /\ r.got = token
    BY <1>0, OwnRow, HaveRow
  <1>2. r.seen.token <= issued /\ r.got <= issued
    BY <1>0, <1>1, OwnRow
  <1> QED
    BY <1>1, <1>2, MoveKeeps

(* A write, acknowledged or not, after which the operation relies on       *)
(* nothing but the row it wrote, or the one it left.                       *)
LEMMA WriteKeeps ==
  ASSUME IInv, NEW o \in Owners, NEW expected, NEW new,
         NEW ok \in Labels \ {"g_rotate", "g_wait"}, NEW err \in Labels \ {"g_rotate", "g_wait"},
         Save(o, expected, new, ok, err),
         CanSave(o, expected) =>
           /\ new \in Creds /\ new.token <= issued
           /\ new.state # "NONE" /\ new.generation >= 1 /\ new.generation <= new.token
           /\ \A t \in Tokens : AtRisk(t) => t <= new.token
           /\ Settled(new) => ~AtRisk(new.token),
         \A label \in {ok, err} \ Resting, r \in Ops :
           CanSave(o, expected) /\ cred' = new /\ r.pc = label /\ r.seen = op[o].seen /\ r.got = op[o].got
             => ReliesOn(o, r)',
         err \notin Resting /\ o \in lease =>
           \A r \in Ops : r.pc = err /\ r.seen = op[o].seen /\ r.got = op[o].got => ReliesOn(o, r)
  PROVE  IInv'
  <1>1. ASSUME NEW label \in {ok, err}, CanSave(o, expected), cred' = new, Goto(o, label)
        PROVE  IInv'
    <2>1. PICK r \in Ops :
            /\ op' = [op EXCEPT ![o] = r] /\ r.pc = label
            /\ label = "held" \/ (r.seen = op[o].seen /\ r.got = op[o].got)
            /\ r.seen.token \in {0, op[o].seen.token} /\ r.got \in {0, op[o].got}
      BY <1>1, OwnRow, GotoRow
    <2>2. ReliesOn(o, r)'
      <3>1. CASE label \in Resting
        BY <2>1, <3>1, RestingRelies
      <3>2. CASE label \notin Resting
        BY <1>1, <2>1, <3>2 DEF Resting
      <3> QED
        BY <3>1, <3>2
    <2>3. r.seen.token <= issued /\ r.got <= issued
      BY <2>1, OwnRow
    <2>4. UNCHANGED <<lease, tokens, tool>>
      BY DEF Save
    <2> QED
      BY <1>1, <2>1, <2>2, <2>3, <2>4, SaveKeeps DEF CanSave
  <1>2. ASSUME UNCHANGED cred, Goto(o, err) PROVE IInv'
    <2>1. UNCHANGED <<credential, tokens, tool>>
      BY <1>2 DEF Save, credential
    <2> QED
      BY <1>2, <2>1, GotoKeeps
  <1> QED
    BY <1>1, <1>2 DEF Save

-----------------------------------------------------------------------------
(* One lemma for each action of an operation. *)

(* A holder that reads the row it relies on reads a typed one. *)
LEMMA HeldRow ==
  ASSUME IInv, cred.state # "NONE"
  PROVE  /\ cred.token \in Tokens /\ cred.generation \in 1 .. MaxTokens /\ cred.generation <= cred.token
         /\ \A t \in Tokens : AtRisk(t) => t <= cred.token
  BY TokensAssumption DEF IInv, TypeOK, CredInv, Creds, Tokens

LEMMA StoreKeeps ==
  ASSUME IInv, NEW o \in Owners, Store(o)
  PROVE  IInv'
  <1>1. ASSUME op[o].pc = "held", issued < MaxTokens, issued' = issued + 1, live' = live \cup {issued + 1},
               NEW label \in {"t_save", "t_reject"}, Have(o, label, issued + 1),
               UNCHANGED <<credential, past, asked, next, tool>>
        PROVE  IInv'
    <2>1. issued + 1 \in Tokens /\ issued + 1 \in 0 .. MaxTokens /\ issued \in Nat /\ issued' \in 0 .. MaxTokens
      BY <1>1, OwnRow, TokensAssumption DEF Tokens
    <2>2. PICK r \in Ops :
            op' = [op EXCEPT ![o] = r] /\ r.pc = label /\ r.seen = op[o].seen /\ r.got = issued + 1
      BY <1>1, <2>1, OwnRow, HaveRow DEF Labels
    <2>3. \A p \in Owners : op'[p] = IF p = o THEN r ELSE op[p]
      BY <2>2, OwnRow
    <2>4. /\ \A t : AtRisk(t)' => AtRisk(t)
          /\ \A t : \A p \in Owners : AtRiskBesides(p, t)' => AtRiskBesides(p, t)
      BY <1>1, <2>2, OwnRow, RiskShrinks
    <2>5. TypeOK'
      BY <1>1, <2>1, <2>2 DEF IInv, TypeOK, Ops, credential, tool
    <2>6. CredInv'
      BY <1>1, <2>1, <2>4, OwnRow DEF IInv, CredInv, Settled, credential
    <2>7. ProviderInv'
      BY <1>1, <2>1 DEF IInv, TypeOK, ProviderInv, Tokens
    <2>8. \A p \in Owners :
            /\ op'[p].seen.token <= issued' /\ op'[p].got <= issued'
            /\ op'[p].pc \in {"g_rotate", "g_wait"} => op'[p].seen.token >= 1
      <3> SUFFICES ASSUME NEW p \in Owners
                   PROVE  /\ op'[p].seen.token <= issued' /\ op'[p].got <= issued'
                          /\ op'[p].pc \in {"g_rotate", "g_wait"} => op'[p].seen.token >= 1
        OBVIOUS
      <3>1. op[p].seen.token \in Nat /\ op[p].seen.token <= issued /\ op[p].got \in Nat /\ op[p].got <= issued
        BY OwnRow, TokensAssumption
      <3>2. op[p].pc \in {"g_rotate", "g_wait"} => op[p].seen.token >= 1
        BY DEF IInv, OpsInv
      <3>3. op[o].seen.token \in Nat /\ op[o].seen.token <= issued
        BY OwnRow, TokensAssumption
      <3> QED
        BY <1>1, <2>1, <2>2, <2>3, <3>1, <3>2, <3>3
    <2>9. ASSUME NEW p \in lease' PROVE ReliesOn(p, op[p])'
      <3>1. p \in lease /\ p \in Owners
        BY <1>1, <2>9 DEF credential, IInv, TypeOK
      <3>2. CASE p = o
        <4>1. \A t \in Tokens : AtRisk(t)' => t < issued + 1
          BY <2>1, <2>4, RiskIssued, TokensAssumption DEF IInv
        <4>2. ReliesOn(o, r)'
          BY <1>1, <2>1, <2>2, <4>1 DEF ReliesOn
        <4> QED
          BY <2>3, <3>2, <4>2 DEF ReliesOn, Marked
      <3>3. CASE p # o
        <4>1. PICK s \in Ops : s = op[p] /\ s = op'[p]
          BY <2>3, <3>1, <3>3, OwnRow
        <4>2. ReliesOn(p, s)
          BY <3>1, <4>1 DEF IInv, OpsInv
        <4>3. ReliesOn(p, s)'
          BY <1>1, <2>1, <2>4, <3>1, <4>2, OwnRow DEF ReliesOn, Marked, credential
        <4> QED
          BY <4>1, <4>3 DEF ReliesOn, Marked
      <3> QED
        BY <3>2, <3>3
    <2> QED
      BY <2>5, <2>6, <2>7, <2>8, <2>9 DEF IInv, OpsInv
  <1>2. ASSUME NEW state \in {"READY", "REJECTED"}, NEW timed \in BOOLEAN, NEW ok \in {"held", "k_read"},
               op[o].pc \in {"t_save", "t_reject"},
               Save(o, 0, Encoded(op[o].got, 1, timed, state), ok, "held")
        PROVE  IInv'
    <2> DEFINE new == Encoded(op[o].got, 1, timed, state)
    <2>1. new \in Creds /\ new.token = op[o].got /\ new.generation = 1 /\ new.state = state
      <3>1. 1 \in 0 .. MaxTokens
        BY TokensAssumption
      <3> QED
        BY <3>1, OwnRow DEF Encoded, Creds
    <2>2. ASSUME CanSave(o, 0)
          PROVE  op[o].got \in Tokens /\ \A t \in Tokens : AtRisk(t) => t < op[o].got
      BY <1>2, <2>2, OwnRow, TokensAssumption DEF CanSave, ReliesOn, Tokens
    <2>3. CanSave(o, 0) =>
            /\ new \in Creds /\ new.token <= issued
            /\ new.state # "NONE" /\ new.generation >= 1 /\ new.generation <= new.token
            /\ \A t \in Tokens : AtRisk(t) => t <= new.token
            /\ Settled(new) => ~AtRisk(new.token)
      BY <2>1, <2>2, OwnRow DEF Tokens
    <2>4. ok \in Labels \ {"g_rotate", "g_wait"} /\ ok \in Resting /\ "held" \in Labels /\ "held" \in Resting
      BY <1>2 DEF Labels, Resting
    <2> HIDE DEF new
    <2>5. Save(o, 0, new, ok, "held")
      BY <1>2 DEF new
    <2> QED
      BY <2>3, <2>4, <2>5, WriteKeeps
  <1> QED
    BY <1>1, <1>2 DEF Store

LEMMA GetKeeps ==
  ASSUME IInv, NEW o \in Owners, Get(o)
  PROVE  IInv'
  <1>0. UNCHANGED <<credential, tokens, tool>> /\ {"unresolved", "use", "g_mark"} \subseteq Labels
    BY DEF Get, Labels
  <1>1. CASE cred.state = "ROTATING" /\ See(o, "unresolved")
    <2>1. \A r \in Ops : r.pc = "unresolved" /\ r.seen = cred => ReliesOn(o, r)
      BY <1>1 DEF ReliesOn, Same
    <2> QED
      BY <1>0, <1>1, <2>1, SeeKeeps
  <1>2. CASE Usable(cred) /\ Have(o, "use", cred.token)
    <2>1. \A r \in Ops : r.pc = "use" /\ r.got = cred.token => ReliesOn(o, r)
      BY <1>2 DEF ReliesOn, Usable
    <2>2. cred.token \in 0 .. issued
      BY OwnRow, TokensAssumption
    <2> QED
      BY <1>0, <1>2, <2>1, <2>2, HaveKeeps
  <1>3. CASE Usable(cred) /\ See(o, "g_mark")
    <2>1. \A r \in Ops : r.pc = "g_mark" /\ r.seen = cred => ReliesOn(o, r)
      BY <1>3 DEF ReliesOn, Same, Usable
    <2> QED
      BY <1>0, <1>3, <2>1, SeeKeeps
  <1> QED
    BY <1>1, <1>2, <1>3 DEF Get

LEMMA MarkRotatingKeeps ==
  ASSUME IInv, NEW o \in Owners, MarkRotating(o)
  PROVE  IInv'
  <1> DEFINE new == [op[o].seen EXCEPT !.state = "ROTATING"]
  <1>0. /\ op[o].pc = "g_mark" /\ UNCHANGED <<lease, tokens, tool>>
        /\ "held" \in Labels /\ "g_rotate" \in Labels
    BY DEF MarkRotating, Save, Labels
  <1>1. /\ new \in Creds /\ new.state = "ROTATING" /\ new.token = op[o].seen.token
        /\ new.generation = op[o].seen.generation
    BY OwnRow DEF Creds
  <1> HIDE DEF new
  <1>2. ASSUME CanSave(o, op[o].seen.generation), cred' = new,
               NEW label \in {"g_rotate", "held"}, Goto(o, label)
        PROVE  IInv'
    <2>1. o \in lease /\ Same(cred, op[o].seen) /\ cred.state = "READY"
      BY <1>0, <1>2, OwnRow DEF CanSave, ReliesOn
    <2>2. PICK r \in Ops :
            /\ op' = [op EXCEPT ![o] = r] /\ r.pc = label
            /\ label = "held" \/ (r.seen = op[o].seen /\ r.got = op[o].got)
            /\ r.seen.token \in {0, op[o].seen.token} /\ r.got \in {0, op[o].got}
      BY <1>0, <1>2, OwnRow, GotoRow
    <2>3. /\ new.token = cred.token /\ new.generation = cred.generation
          /\ new.generation >= 1 /\ new.generation <= new.token /\ ~Settled(new)
          /\ \A t \in Tokens : AtRisk(t) => t <= new.token
      BY <1>1, <2>1, HeldRow DEF Same, Settled
    <2>4. ~AtRisk(cred.token)
      BY <2>1 DEF IInv, CredInv, Settled
    <2>5. r.pc = "g_rotate" => r.seen = op[o].seen /\ r.seen.token = new.token /\ ~AtRiskBesides(o, r.seen.token)'
      <3>2. AtRiskBesides(o, cred.token) => AtRisk(cred.token)
        BY DEF AtRiskBesides, AtRisk
      <3>3. r.pc = "g_rotate" => r.seen = op[o].seen /\ r.seen.token = new.token /\ r.seen.token = cred.token
        BY <1>1, <2>1, <2>2, <2>3
      <3>4. ASSUME r.pc = "g_rotate" PROVE ~AtRiskBesides(o, r.seen.token)'
        <4>1. AtRiskBesides(o, r.seen.token)' => AtRiskBesides(o, r.seen.token)
          <5>1. asked' = asked
            BY <1>0 DEF tokens
          <5>2. \A p \in Owners \ {o} : op'[p] = op[p]
            BY <2>2, OwnRow
          <5> QED
            BY <5>1, <5>2 DEF AtRiskBesides
        <4>2. AtRiskBesides(o, r.seen.token) => AtRisk(cred.token)
          BY <3>2, <3>3, <3>4
        <4> QED
          BY <2>4, <4>1, <4>2
      <3> QED
        BY <3>3, <3>4
    <2>6. ReliesOn(o, r)'
      <3>1. CASE label = "held"
        BY <2>2, <3>1, RestingRelies DEF Resting
      <3>2. CASE label = "g_rotate"
        BY <1>1, <1>2, <2>2, <2>5, <3>2 DEF ReliesOn, Marked
      <3> QED
        BY <1>2, <3>1, <3>2
    <2>7. r.seen.token <= issued /\ r.got <= issued /\ new.token <= issued
      BY <2>2, <2>3, OwnRow
    <2>8. r.pc # "g_wait"
      BY <1>2, <2>2
    <2> QED
      BY <1>0, <1>1, <1>2, <2>1, <2>2, <2>3, <2>5, <2>6, <2>7, <2>8, SaveKeeps
  <1>3. ASSUME UNCHANGED cred, Goto(o, "held") PROVE IInv'
    BY <1>0, <1>3, GotoKeeps DEF credential, Resting
  <1>4. Save(o, op[o].seen.generation, new, "g_rotate", "held")
    BY DEF MarkRotating, new
  <1> QED
    BY <1>2, <1>3, <1>4 DEF Save

LEMMA AskRotationKeeps ==
  ASSUME IInv, NEW o \in Owners, AskRotation(o)
  PROVE  IInv'
  <1>0. /\ op[o].pc = "g_rotate" /\ UNCHANGED <<credential, issued, live, past, next, tool>>
        /\ {"g_wait", "g_abort"} \subseteq Labels
    BY DEF AskRotation, Labels
  <1>1. ASSUME asked' = asked \cup {op[o].seen.token}, Goto(o, "g_wait")
        PROVE  IInv'
    <2>1. PICK r \in Ops :
            op' = [op EXCEPT ![o] = r] /\ r.pc = "g_wait" /\ r.seen = op[o].seen /\ r.got = op[o].got
      BY <1>0, <1>1, OwnRow, GotoRow
    <2>2. \A p \in Owners : op'[p] = IF p = o THEN r ELSE op[p]
      BY <2>1, OwnRow
    <2>3. op[o].seen.token \in Tokens
      BY <1>0, OwnRow, TokensAssumption DEF IInv, OpsInv, Tokens
    <2>4. /\ \A t : AtRisk(t)' => AtRisk(t)
          /\ \A t : \A p \in Owners \ {o} : AtRiskBesides(p, t)' => AtRiskBesides(p, t)
      BY <1>0, <1>1, <2>1, <2>2 DEF AtRisk, AtRiskBesides
    <2>5. TypeOK'
      BY <1>0, <1>1, <2>1, <2>3 DEF IInv, TypeOK, Ops, credential, tool
    <2>6. CredInv'
      BY <1>0, <2>4 DEF IInv, CredInv, Settled, credential
    <2>7. ProviderInv'
      BY <1>0, <1>1, <2>3, OwnRow DEF IInv, ProviderInv
    <2>8. \A p \in Owners :
            /\ op'[p].seen.token <= issued' /\ op'[p].got <= issued'
            /\ op'[p].pc \in {"g_rotate", "g_wait"} => op'[p].seen.token >= 1
      BY <1>0, <2>1, <2>2 DEF IInv, OpsInv
    <2>9. ASSUME NEW p \in lease' PROVE ReliesOn(p, op[p])'
      <3>1. p \in lease /\ p \in Owners
        BY <1>0, <2>9 DEF credential, IInv, TypeOK
      <3>2. PICK s \in Ops : s = op'[p]
        BY <2>1, <2>2, <3>1, OwnRow
      <3>3. CASE p = o
        <4>1. Marked(op[o])
          BY <1>0, <3>1, <3>3, OwnRow DEF ReliesOn
        <4>2. ReliesOn(o, r)'
          BY <1>0, <2>1, <4>1 DEF ReliesOn, Marked, credential
        <4> QED
          BY <2>2, <3>3, <4>2 DEF ReliesOn, Marked
      <3>4. CASE p # o
        <4>1. ReliesOn(p, s)
          BY <2>2, <3>1, <3>2, <3>4 DEF IInv, OpsInv
        <4>2. ReliesOn(p, s)'
          BY <1>0, <2>4, <3>1, <3>4, <4>1 DEF ReliesOn, Marked, credential
        <4> QED
          BY <3>2, <4>2 DEF ReliesOn, Marked
      <3> QED
        BY <3>3, <3>4
    <2> QED
      BY <2>5, <2>6, <2>7, <2>8, <2>9 DEF IInv, OpsInv
  <1>2. ASSUME UNCHANGED asked, Goto(o, "g_abort")
        PROVE  IInv'
    <2>1. \A r \in Ops : o \in lease /\ r.pc = "g_abort" /\ r.seen = op[o].seen => ReliesOn(o, r)
      BY <1>0, OwnRow DEF ReliesOn, Marked
    <2> QED
      BY <1>0, <1>2, <2>1, GotoKeeps DEF tokens
  <1> QED
    BY <1>1, <1>2 DEF AskRotation

LEMMA RotationAnswerKeeps ==
  ASSUME IInv, NEW o \in Owners, RotationAnswer(o)
  PROVE  IInv'
  <1>0. /\ op[o].pc = "g_wait" /\ UNCHANGED <<credential, tokens, tool>>
        /\ {"g_save", "g_reject", "g_catch"} \subseteq Labels
        /\ o \in lease => Marked(op[o])
    BY OwnRow DEF RotationAnswer, Labels, ReliesOn
  <1>1. ASSUME next[op[o].seen.token] # 0, NEW label \in {"g_save", "g_reject"},
               Have(o, label, next[op[o].seen.token])
        PROVE  IInv'
    <2>1. op[o].seen.token \in Tokens
      BY <1>0, OwnRow, TokensAssumption DEF IInv, OpsInv, Tokens
    <2>2. next[op[o].seen.token] \in 0 .. issued
      BY <1>1, <2>1, OwnRow, TokensAssumption DEF IInv, TypeOK, ProviderInv
    <2>3. ASSUME o \in lease,
                 NEW r \in Ops, r.pc = label, r.seen = op[o].seen, r.got = next[op[o].seen.token]
          PROVE  ReliesOn(o, r)
      BY <1>0, <1>1, <2>3 DEF ReliesOn, Marked
    <2> QED
      BY <1>0, <1>1, <2>2, <2>3, HaveKeeps
  <1>2. ASSUME Goto(o, "g_catch") PROVE IInv'
    <2>1. ASSUME o \in lease, NEW r \in Ops, r.pc = "g_catch", r.seen = op[o].seen
          PROVE  ReliesOn(o, r)
      BY <1>0, <2>1 DEF ReliesOn, Marked
    <2> QED
      BY <1>0, <1>2, <2>1, GotoKeeps
  <1> QED
    BY <1>1, <1>2 DEF RotationAnswer

LEMMA PersistReplacementKeeps ==
  ASSUME IInv, NEW o \in Owners, PersistReplacement(o)
  PROVE  IInv'
  <1>1. ASSUME NEW timed \in BOOLEAN, NEW state \in {"READY", "REJECTED"}, NEW ok \in {"use", "k_read"},
               op[o].pc \in {"g_save", "g_reject"}, ok = "use" => state = "READY",
               Save(o, op[o].seen.generation, Encoded(op[o].got, op[o].seen.generation + 1, timed, state),
                    ok, "g_catch")
        PROVE  IInv'
    <2> DEFINE new == Encoded(op[o].got, op[o].seen.generation + 1, timed, state)
    <2>1. new.token = op[o].got /\ new.generation = op[o].seen.generation + 1 /\ new.state = state
      BY DEF Encoded
    <2>2. ASSUME o \in lease
          PROVE  /\ new \in Creds /\ new.token <= issued
                 /\ new.state # "NONE" /\ new.generation >= 1 /\ new.generation <= new.token
                 /\ \A t \in Tokens : AtRisk(t) => t < new.token
                 /\ Marked(op[o])
      <3>1. Marked(op[o]) /\ op[o].got = next[op[o].seen.token] /\ op[o].got # 0
        BY <1>1, <2>2, OwnRow DEF ReliesOn
      <3>2. /\ cred.token = op[o].seen.token /\ cred.generation = op[o].seen.generation
            /\ cred.token \in Tokens /\ cred.generation \in 1 .. MaxTokens /\ cred.generation <= cred.token
            /\ \A t \in Tokens : AtRisk(t) => t <= cred.token
        BY <3>1, HeldRow DEF Marked
      <3>3. cred.token < op[o].got /\ op[o].got <= issued
        BY <3>1, <3>2 DEF IInv, ProviderInv
      <3>4. cred.generation + 1 <= op[o].got /\ op[o].got \in 0 .. MaxTokens /\ cred.generation + 1 \in 0 .. MaxTokens
        BY <3>2, <3>3, OwnRow, TokensAssumption DEF Tokens
      <3>5. new \in Creds
        BY <1>1, <3>2, <3>4 DEF Encoded, Creds
      <3>6. \A t \in Tokens : AtRisk(t) => t < op[o].got
        BY <3>2, <3>3, <3>4, TokensAssumption DEF Tokens
      <3>7. new.state # "NONE" /\ new.token <= issued /\ new.generation <= new.token
        <4>1. new.state = state /\ state # "NONE"
          BY <2>1
        <4>2. new.token = op[o].got /\ new.generation = op[o].seen.generation + 1
          BY <2>1
        <4>3. op[o].got <= issued
          BY <3>3
        <4>4. op[o].seen.generation + 1 <= op[o].got
          BY <3>2, <3>4
        <4> QED
          BY <4>1, <4>2, <4>3, <4>4
      <3>8. new.generation >= 1
        BY <2>1, <3>2
      <3>9. \A t \in Tokens : AtRisk(t) => t < new.token
        BY <2>1, <3>6
      <3> QED
        BY <3>1, <3>5, <3>7, <3>8, <3>9
    <2> HIDE DEF new
    <2>3. CanSave(o, op[o].seen.generation) =>
            /\ new \in Creds /\ new.token <= issued
            /\ new.state # "NONE" /\ new.generation >= 1 /\ new.generation <= new.token
            /\ \A t \in Tokens : AtRisk(t) => t <= new.token
            /\ Settled(new) => ~AtRisk(new.token)
      <3>1. new \in Creds => new.token \in 0 .. MaxTokens
        BY DEF Creds
      <3> QED
        BY <2>2, <3>1, RiskIssued, TokensAssumption DEF CanSave, IInv, Creds, Tokens
    <2>4. ASSUME NEW label \in {ok, "g_catch"} \ Resting, NEW r \in Ops, o \in lease,
                 cred' = new, r.pc = label, r.seen = op[o].seen, r.got = op[o].got
          PROVE  ReliesOn(o, r)'
      BY <1>1, <2>1, <2>4 DEF ReliesOn, Resting
    <2>5. ASSUME o \in lease, NEW r \in Ops, r.pc = "g_catch", r.seen = op[o].seen
          PROVE  ReliesOn(o, r)
      BY <2>2, <2>5 DEF ReliesOn, Marked
    <2>6. ok \in Labels \ {"g_rotate", "g_wait"} /\ "g_catch" \in Labels \ {"g_rotate", "g_wait"}
      BY <1>1 DEF Labels
    <2>7. Save(o, op[o].seen.generation, new, ok, "g_catch")
      BY <1>1 DEF new
    <2> QED
      BY <2>3, <2>4, <2>5, <2>6, <2>7, WriteKeeps DEF CanSave
  <1> QED
    BY <1>1 DEF PersistReplacement

LEMMA RotationFailsKeeps ==
  ASSUME IInv, NEW o \in Owners, RotationFails(o)
  PROVE  IInv'
  <1>0. /\ UNCHANGED <<credential, tokens, tool>>
        /\ {"unresolved", "use", "g_restore", "held"} \subseteq Labels
    BY DEF RotationFails, Labels
  <1>1. CASE Recovered(o) /\ Have(o, "use", cred.token)
    <2>1. \A r \in Ops : r.pc = "use" /\ r.got = cred.token => ReliesOn(o, r)
      BY <1>1 DEF ReliesOn, Recovered
    <2>2. cred.token \in 0 .. issued
      BY OwnRow, TokensAssumption
    <2> QED
      BY <1>0, <1>1, <2>1, <2>2, HaveKeeps
  <1>2. CASE cred.generation = op[o].seen.generation /\ op[o].pc = "g_catch" /\ See(o, "unresolved")
    <2>1. ASSUME o \in lease, NEW r \in Ops, r.pc = "unresolved", r.seen = cred
          PROVE  ReliesOn(o, r)
      <3>1. cred.generation \in Nat
        BY OwnRow, TokensAssumption DEF Creds
      <3>2. cred.state = "ROTATING"
        BY <1>2, <2>1, <3>1, OwnRow DEF ReliesOn, Marked
      <3> QED
        BY <2>1, <3>2 DEF ReliesOn, Same
    <2> QED
      BY <1>0, <1>2, <2>1, SeeKeeps
  <1>3. CASE op[o].pc = "g_abort" /\ See(o, "g_restore")
    <2>1. ASSUME o \in lease, NEW r \in Ops, r.pc = "g_restore", r.seen = cred
          PROVE  ReliesOn(o, r)
      BY <1>3, <2>1, OwnRow DEF ReliesOn, Marked
    <2> QED
      BY <1>0, <1>3, <2>1, SeeKeeps
  <1>4. CASE Goto(o, "held")
    BY <1>0, <1>4, GotoKeeps DEF Resting
  <1> QED
    BY <1>1, <1>2, <1>3, <1>4 DEF RotationFails

(* An operation that is not about to offer a token adds no risk. *)
LEMMA OwnRisk ==
  ASSUME NEW o \in Owners, op[o].pc # "g_rotate", NEW t, AtRisk(t)
  PROVE  AtRiskBesides(o, t)
  BY DEF AtRisk, AtRiskBesides

LEMMA RestoreKeeps ==
  ASSUME IInv, NEW o \in Owners, Restore(o)
  PROVE  IInv'
  <1> DEFINE new == [op[o].seen EXCEPT !.state = "READY"]
  <1>1. /\ new \in Creds /\ new.state = "READY" /\ new.token = op[o].seen.token
        /\ new.generation = op[o].seen.generation
    BY OwnRow DEF Creds
  <1>2. op[o].pc = "g_restore" /\ Save(o, op[o].seen.generation, new, "held", "held")
    BY DEF Restore
  <1> HIDE DEF new
  <1>3. ASSUME o \in lease
        PROVE  /\ new.generation >= 1 /\ new.generation <= new.token
               /\ \A t \in Tokens : AtRisk(t) => t <= new.token
               /\ ~AtRisk(new.token)
    <2>1. Marked(op[o]) /\ ~AtRiskBesides(o, op[o].seen.token)
      BY <1>2, <1>3, OwnRow DEF ReliesOn
    <2> QED
      BY <1>1, <1>2, <2>1, HeldRow, OwnRisk DEF Marked
  <1>4. "held" \in Labels \ {"g_rotate", "g_wait"} /\ "held" \in Resting
    BY DEF Labels, Resting
  <1> QED
    BY <1>1, <1>2, <1>3, <1>4, OwnRow, WriteKeeps DEF CanSave

LEMMA SaveUnresolvedKeeps ==
  ASSUME IInv, NEW o \in Owners, SaveUnresolved(o)
  PROVE  IInv'
  <1> DEFINE new == Unresolved(op[o].seen)
  <1>1. /\ new \in Creds /\ new.state = "UNAVAILABLE" /\ ~new.timed /\ new.token = op[o].seen.token
        /\ new.generation = op[o].seen.generation
    BY OwnRow DEF Unresolved, Creds
  <1>2. op[o].pc = "unresolved" /\ Save(o, op[o].seen.generation, new, "held", "held")
    BY DEF SaveUnresolved
  <1> HIDE DEF new
  <1>3. ASSUME o \in lease
        PROVE  /\ new.generation >= 1 /\ new.generation <= new.token
               /\ \A t \in Tokens : AtRisk(t) => t <= new.token
    BY <1>1, <1>2, <1>3, OwnRow, HeldRow DEF ReliesOn, Same
  <1>4. ~Settled(new)
    BY <1>1 DEF Settled
  <1>5. "held" \in Labels \ {"g_rotate", "g_wait"} /\ "held" \in Resting
    BY DEF Labels, Resting
  <1> QED
    BY <1>1, <1>2, <1>3, <1>4, <1>5, OwnRow, WriteKeeps DEF CanSave

LEMMA UseKeeps ==
  ASSUME IInv, NEW o \in Owners, Use(o)
  PROVE  IInv'
  <1>0. op[o].pc = "use" /\ UNCHANGED <<credential, tokens, tool>> /\ {"held", "u_read"} \subseteq Labels
    BY DEF Use, Labels
  <1>1. CASE Goto(o, "held")
    BY <1>0, <1>1, GotoKeeps DEF Resting
  <1>2. CASE Goto(o, "u_read")
    <2>1. ASSUME o \in lease, NEW r \in Ops, r.pc = "u_read" PROVE ReliesOn(o, r)
      BY <1>0, <2>1, OwnRow DEF ReliesOn
    <2> QED
      BY <1>0, <1>2, <2>1, GotoKeeps
  <1> QED
    BY <1>1, <1>2 DEF Use

LEMMA MarkUnavailableKeeps ==
  ASSUME IInv, NEW o \in Owners, MarkUnavailable(o)
  PROVE  IInv'
  <1>0. {"held", "u_save"} \subseteq Labels /\ "held" \in Resting
    BY DEF Labels, Resting
  <1>1. CASE op[o].pc = "u_read" /\ See(o, "u_save") /\ UNCHANGED <<credential, tokens, tool>>
    <2>1. ASSUME o \in lease, NEW r \in Ops, r.pc = "u_save", r.seen = cred PROVE ReliesOn(o, r)
      BY <1>1, <2>1, OwnRow DEF ReliesOn, Same
    <2> QED
      BY <1>0, <1>1, <2>1, SeeKeeps
  <1>2. CASE Goto(o, "held") /\ UNCHANGED <<credential, tokens, tool>>
    BY <1>0, <1>2, GotoKeeps
  <1>3. ASSUME op[o].pc = "u_save",
               Save(o, op[o].seen.generation, [op[o].seen EXCEPT !.state = "UNAVAILABLE"], "held", "held")
        PROVE  IInv'
    <2> DEFINE new == [op[o].seen EXCEPT !.state = "UNAVAILABLE"]
    <2>1. /\ new \in Creds /\ new.state = "UNAVAILABLE" /\ new.token = op[o].seen.token
          /\ new.generation = op[o].seen.generation
      BY OwnRow DEF Creds
    <2>2. Save(o, op[o].seen.generation, new, "held", "held")
      BY <1>3
    <2> HIDE DEF new
    <2>3. ASSUME o \in lease
          PROVE  /\ new.generation >= 1 /\ new.generation <= new.token
                 /\ \A t \in Tokens : AtRisk(t) => t <= new.token
                 /\ ~AtRisk(new.token)
      <3>1. Same(cred, op[o].seen) /\ cred.state = "READY"
        BY <1>3, <2>3, OwnRow DEF ReliesOn
      <3>2. ~AtRisk(cred.token)
        BY <3>1 DEF IInv, CredInv, Settled
      <3> QED
        BY <2>1, <3>1, <3>2, HeldRow DEF Same
    <2> QED
      BY <1>0, <2>1, <2>2, <2>3, OwnRow, WriteKeeps DEF CanSave
  <1> QED
    BY <1>1, <1>2, <1>3 DEF MarkUnavailable

(* A token past its expiry is not in force, and its row is settled. *)
LEMMA ExpiredRow ==
  ASSUME IInv, Expired(cred), cred.state # "ROTATING"
  PROVE  cred.token \notin live /\ Settled(cred)
  <1>1. cred.token \in past /\ cred.timed
    BY DEF Expired
  <1>2. cred.token \notin live
    BY <1>1 DEF IInv, ProviderInv
  <1>3. cred.state # "NONE"
    BY <1>1, TokensAssumption DEF IInv, TypeOK, CredInv, Tokens
  <1>4. cred.state \in {"READY", "UNAVAILABLE", "REJECTED"}
    BY <1>3 DEF IInv, TypeOK, Creds
  <1> QED
    BY <1>1, <1>2, <1>4 DEF Settled

LEMMA ReadForCleanupKeeps ==
  ASSUME IInv, NEW o \in Owners, ReadForCleanup(o)
  PROVE  IInv'
  <1>0. /\ UNCHANGED <<credential, tokens, tool>>
        /\ {"unresolved", "k_clear", "k_revoke", "held"} \subseteq Labels /\ "held" \in Resting
    BY DEF ReadForCleanup, Labels, Resting
  <1>1. CASE cred.state = "ROTATING" /\ See(o, "unresolved")
    <2>1. \A r \in Ops : r.pc = "unresolved" /\ r.seen = cred => ReliesOn(o, r)
      BY <1>1 DEF ReliesOn, Same
    <2> QED
      BY <1>0, <1>1, <2>1, SeeKeeps
  <1>2. CASE cred.state # "ROTATING" /\ Expired(cred) /\ See(o, "k_clear")
    <2>1. \A r \in Ops : r.pc = "k_clear" /\ r.seen = cred => ReliesOn(o, r)
      BY <1>2, ExpiredRow DEF ReliesOn, Same
    <2> QED
      BY <1>0, <1>2, <2>1, SeeKeeps
  <1>3. CASE Revocable(cred) /\ See(o, "k_revoke")
    <2>1. \A r \in Ops : r.pc = "k_revoke" /\ r.seen = cred => ReliesOn(o, r)
      BY <1>3 DEF ReliesOn, Same
    <2> QED
      BY <1>0, <1>3, <2>1, SeeKeeps
  <1>4. CASE Goto(o, "held")
    BY <1>0, <1>4, GotoKeeps
  <1> QED
    BY <1>1, <1>2, <1>3, <1>4 DEF ReadForCleanup

LEMMA RevokeKeeps ==
  ASSUME IInv, NEW o \in Owners, Revoke(o)
  PROVE  IInv'
  <1>0. /\ op[o].pc = "k_revoke" /\ UNCHANGED <<credential, issued, past, asked, next, tool>>
        /\ {"k_clear", "held"} \subseteq Labels
    BY DEF Revoke, Labels
  <1>1. ASSUME live' \in SUBSET live, NEW label \in {"k_clear", "held"}, Goto(o, label),
               label = "k_clear" => op[o].seen.token \notin live'
        PROVE  IInv'
    <2>1. PICK r \in Ops :
            /\ op' = [op EXCEPT ![o] = r] /\ r.pc = label
            /\ label = "held" \/ (r.seen = op[o].seen /\ r.got = op[o].got)
            /\ r.seen.token \in {0, op[o].seen.token} /\ r.got \in {0, op[o].got}
      BY <1>0, <1>1, OwnRow, GotoRow
    <2>2. \A p \in Owners : op'[p] = IF p = o THEN r ELSE op[p]
      BY <2>1, OwnRow
    <2>3. /\ \A t : AtRisk(t)' => AtRisk(t)
          /\ \A t : \A p \in Owners : AtRiskBesides(p, t)' => AtRiskBesides(p, t)
      BY <1>0, <1>1, <2>1, OwnRow, RiskShrinks
    <2>4. TypeOK'
      BY <1>0, <1>1, <2>1 DEF IInv, TypeOK, Ops, credential, tool
    <2>5. CredInv'
      BY <1>0, <2>3 DEF IInv, CredInv, Settled, credential
    <2>6. ProviderInv'
      BY <1>0, <1>1 DEF IInv, ProviderInv
    <2>7. \A p \in Owners :
            /\ op'[p].seen.token <= issued' /\ op'[p].got <= issued'
            /\ op'[p].pc \in {"g_rotate", "g_wait"} => op'[p].seen.token >= 1
      BY <1>0, <1>1, <2>1, <2>2, OwnRow DEF IInv, OpsInv
    <2>8. ASSUME NEW p \in lease' PROVE ReliesOn(p, op[p])'
      <3>1. p \in lease /\ p \in Owners
        BY <1>0, <2>8 DEF credential, IInv, TypeOK
      <3>2. PICK s \in Ops : s = op'[p]
        BY <2>1, <2>2, <3>1, OwnRow
      <3>3. CASE p = o
        <4>1. Same(cred, op[o].seen) /\ Revocable(cred)
          BY <1>0, <3>1, <3>3, OwnRow DEF ReliesOn
        <4>2. ReliesOn(o, r)'
          BY <1>0, <1>1, <2>1, <4>1 DEF ReliesOn, Same, Revocable, Settled, credential
        <4> QED
          BY <2>2, <3>3, <4>2 DEF ReliesOn, Marked
      <3>4. CASE p # o
        <4>1. ReliesOn(p, s)
          BY <2>2, <3>1, <3>2, <3>4 DEF IInv, OpsInv
        <4>2. ReliesOn(p, s)'
          BY <1>0, <1>1, <2>3, <3>1, <4>1 DEF ReliesOn, Marked, credential
        <4> QED
          BY <3>2, <4>2 DEF ReliesOn, Marked
      <3> QED
        BY <3>3, <3>4
    <2> QED
      BY <2>4, <2>5, <2>6, <2>7, <2>8 DEF IInv, OpsInv
  <1>2. CASE live' = live \ {op[o].seen.token} /\ \E label \in {"k_clear", "held"} : Goto(o, label)
    BY <1>1, <1>2
  <1>3. CASE UNCHANGED live /\ Goto(o, "held")
    BY <1>1, <1>3
  <1>4. CASE Expired(op[o].seen) /\ UNCHANGED live /\ Goto(o, "k_clear")
    <2>1. op[o].seen.token \notin live'
      BY <1>4 DEF Expired, IInv, ProviderInv
    <2> QED
      BY <1>1, <1>4, <2>1
  <1> QED
    BY <1>2, <1>3, <1>4 DEF Revoke

LEMMA ClearKeeps ==
  ASSUME IInv, NEW o \in Owners, Clear(o)
  PROVE  IInv'
  <1>0. /\ op[o].pc = "k_clear" /\ Goto(o, "held") /\ UNCHANGED <<lease, tokens, tool>>
        /\ "held" \in Labels /\ "held" \in Resting
    BY DEF Clear, Labels, Resting
  <1>1. ASSUME o \in lease, cred' = NoCred PROVE IInv'
    <2>1. PICK r \in Ops :
            /\ op' = [op EXCEPT ![o] = r] /\ r.pc = "held"
            /\ r.seen.token \in {0, op[o].seen.token} /\ r.got \in {0, op[o].got}
      BY <1>0, OwnRow, GotoRow
    <2>2. NoCred \in Creds /\ NoCred.token = 0 /\ NoCred.state = "NONE" /\ ~Settled(NoCred)
      <3>1. 0 \in 0 .. MaxTokens
        BY TokensAssumption
      <3> QED
        BY <3>1 DEF NoCred, Creds, Settled
    <2>3. ReliesOn(o, r)'
      BY <1>0, <2>1, RestingRelies
    <2>4. 0 <= issued /\ r.seen.token <= issued /\ r.got <= issued
      BY <2>1, OwnRow, TokensAssumption
    <2> QED
      BY <1>0, <1>1, <2>1, <2>2, <2>3, <2>4, SaveKeeps
  <1>2. ASSUME UNCHANGED cred PROVE IInv'
    BY <1>0, <1>2, GotoKeeps DEF credential
  <1> QED
    BY <1>1, <1>2 DEF Clear, MayClear

LEMMA OperationKeeps ==
  ASSUME IInv, NEW o \in Owners, Operation(o)
  PROVE  IInv'
  BY StoreKeeps, GetKeeps, MarkRotatingKeeps, AskRotationKeeps, RotationAnswerKeeps,
     PersistReplacementKeeps, RotationFailsKeeps, RestoreKeeps, SaveUnresolvedKeeps, UseKeeps,
     MarkUnavailableKeeps, ReadForCleanupKeeps, RevokeKeeps, ClearKeeps
     DEF Operation

-----------------------------------------------------------------------------
(* The lease, the re-encryption and the provider. *)

LEMMA ClaimKeeps ==
  ASSUME IInv, NEW o \in Owners, Claim(o)
  PROVE  IInv'
  <1>1. "held" \in Labels
    BY DEF Labels
  <1>2. PICK r \in Ops :
          /\ op' = [op EXCEPT ![o] = r] /\ r.pc = "held"
          /\ r.seen.token \in {0, op[o].seen.token} /\ r.got \in {0, op[o].got}
    BY <1>1, OwnRow, GotoRow DEF Claim
  <1>3. r.seen.token <= issued /\ r.got <= issued
    BY <1>2, OwnRow, TokensAssumption
  <1>4. lease' = {o} /\ UNCHANGED <<cred, tokens, tool>>
    BY DEF Claim
  <1>5. ReliesOn(o, r)
    BY <1>2, RestingRelies DEF Resting
  <1> QED
    BY <1>2, <1>3, <1>4, <1>5, LeaseKeeps

LEMMA FinishKeeps ==
  ASSUME IInv, NEW o \in Owners, Finish(o)
  PROVE  IInv'
  <1>1. At("idle") \in Ops /\ At("idle").pc = "idle" /\ At("idle").seen.token = 0 /\ At("idle").got = 0
    BY AtRow DEF Labels
  <1>2. op' = [op EXCEPT ![o] = At("idle")] /\ lease' \in SUBSET lease /\ UNCHANGED <<cred, tokens, tool>>
    BY DEF Finish
  <1>3. lease' \in SUBSET Owners /\ \A p, q \in lease' : p = q
    BY <1>2 DEF IInv, TypeOK
  <1>4. 0 <= issued
    BY OwnRow, TokensAssumption
  <1>5. ReliesOn(o, At("idle"))
    BY <1>1, RestingRelies DEF Resting
  <1> QED
    BY <1>1, <1>2, <1>3, <1>4, <1>5, LeaseKeeps

LEMMA LapseKeeps ==
  ASSUME IInv, Lapse
  PROVE  IInv'
  <1>1. lease' = {} /\ UNCHANGED <<cred, op, issued, live, past, asked, next, rekey, retired>>
    BY DEF Lapse, tokens, tool
  <1>2. TypeOK'
    BY <1>1 DEF IInv, TypeOK
  <1>3. CredInv'
    BY <1>1 DEF IInv, CredInv, Settled, AtRisk
  <1>4. ProviderInv'
    BY <1>1 DEF IInv, ProviderInv
  <1>5. OpsInv'
    BY <1>1 DEF IInv, OpsInv
  <1> QED
    BY <1>2, <1>3, <1>4, <1>5 DEF IInv

(* The re-encryption changes the key of a row, and nothing that the        *)
(* operations rely on.                                                     *)
LEMMA ToolKeeps ==
  ASSUME IInv, UNCHANGED <<lease, op, tokens>>, rekey' \in Creds, retired' \in BOOLEAN,
         cred' \in Creds, Same(cred', cred), cred'.timed = cred.timed
  PROVE  IInv'
  <1>1. UNCHANGED <<lease, op, issued, live, past, asked, next>>
    BY DEF tokens
  <1>2. TypeOK'
    BY <1>1 DEF IInv, TypeOK
  <1>3. CredInv'
    BY <1>1 DEF IInv, CredInv, Settled, AtRisk, Same
  <1>4. ProviderInv'
    BY <1>1 DEF IInv, ProviderInv
  <1>5. ASSUME NEW o \in lease' PROVE ReliesOn(o, op[o])'
    <2>1. o \in lease /\ ReliesOn(o, op[o]) /\ op'[o] = op[o]
      BY <1>1, <1>5 DEF IInv, OpsInv
    <2>2. PICK r \in Ops : r = op[o] /\ r = op'[o]
      BY <2>1, OwnRow DEF IInv, TypeOK
    <2>3. \A t : AtRiskBesides(o, t)' => AtRiskBesides(o, t)
      BY <1>1 DEF AtRiskBesides
    <2>4. \A t : AtRisk(t)' => AtRisk(t)
      BY <1>1 DEF AtRisk
    <2>5. ReliesOn(o, r)
      BY <2>1, <2>2
    <2>6. ReliesOn(o, r)'
      BY <1>1, <2>3, <2>4, <2>5 DEF ReliesOn, Marked, Same, Settled, Revocable
    <2> QED
      BY <2>2, <2>6 DEF ReliesOn, Marked
  <1>6. OpsInv'
    BY <1>1, <1>5 DEF IInv, OpsInv
  <1> QED
    BY <1>2, <1>3, <1>4, <1>6 DEF IInv

LEMMA RekeyKeeps ==
  ASSUME IInv, RekeyPage \/ RekeyUpdate \/ CheckRetirement
  PROVE  IInv'
  <1>0. cred \in Creds /\ NoCred \in Creds /\ rekey \in Creds /\ retired \in BOOLEAN
    <2>1. 0 \in 0 .. MaxTokens
      BY TokensAssumption
    <2> QED
      BY <2>1 DEF IInv, TypeOK, NoCred, Creds
  <1>1. CASE RekeyPage
    BY <1>0, <1>1, ToolKeeps DEF RekeyPage, Same, credential
  <1>2. CASE RekeyUpdate
    <2>1. CASE UnchangedSince /\ cred' = [cred EXCEPT !.token = rekey.token, !.key = "active"]
      <3>1. cred' \in Creds /\ Same(cred', cred) /\ cred'.timed = cred.timed
        BY <1>0, <2>1 DEF UnchangedSince, Same, Creds
      <3> QED
        BY <1>0, <1>2, <3>1, ToolKeeps DEF RekeyUpdate
    <2>2. CASE UNCHANGED cred
      BY <1>0, <1>2, <2>2, ToolKeeps DEF RekeyUpdate, Same
    <2> QED
      BY <1>2, <2>1, <2>2 DEF RekeyUpdate
  <1>3. CASE CheckRetirement
    BY <1>0, <1>3, ToolKeeps DEF CheckRetirement, Same, credential
  <1> QED
    BY <1>1, <1>2, <1>3

(* The provider replaces a token offered to it: nobody holds the fresh one. *)
LEMMA ReplaceKeeps ==
  ASSUME IInv, NEW t \in Tokens, Replace(t)
  PROVE  IInv'
  <1>1. /\ t \in asked /\ t \in live /\ issued < MaxTokens /\ issued' = issued + 1
        /\ next' = [next EXCEPT ![t] = issued + 1] /\ live' = (live \ {t}) \cup {issued + 1}
        /\ UNCHANGED <<cred, lease, op, past, asked, rekey, retired>>
    BY DEF Replace, credential, tool
  <1>2. /\ issued \in Nat /\ issued + 1 \in Tokens /\ issued + 1 \in 0 .. MaxTokens /\ t \in Nat /\ t <= issued
        /\ next \in [Tokens -> 0 .. MaxTokens]
    BY <1>1, TokensAssumption DEF IInv, TypeOK, ProviderInv, Tokens
  <1>3. \A u \in Tokens : next'[u] = IF u = t THEN issued + 1 ELSE next[u]
    BY <1>1, <1>2
  <1>4. TypeOK'
    BY <1>1, <1>2 DEF IInv, TypeOK
  <1>5. CredInv'
    <2>1. cred.token \in Nat
      BY TokensAssumption DEF IInv, TypeOK, Creds
    <2> QED
      BY <1>1, <1>2, <2>1 DEF IInv, CredInv, Settled, AtRisk
  <1>6. ProviderInv'
    <2>1. \A u \in live' \cup past' \cup asked' : u <= issued'
      BY <1>1, <1>2, TokensAssumption DEF IInv, TypeOK, ProviderInv, Tokens
    <2>2. live' \cap past' = {}
      BY <1>1, <1>2 DEF IInv, ProviderInv
    <2>3. ASSUME NEW u \in Tokens, next'[u] # 0
          PROVE  u < next'[u] /\ next'[u] <= issued' /\ u \in asked' /\ u \notin live'
      <3>1. CASE u = t
        BY <1>1, <1>2, <1>3, <3>1
      <3>2. CASE u # t
        <4>1. u < next[u] /\ next[u] <= issued /\ u \in asked /\ u \notin live /\ next'[u] = next[u]
          BY <1>3, <2>3, <3>2 DEF IInv, ProviderInv
        <4>2. u \in Nat /\ next[u] \in Nat
          BY <1>2, <2>3, TokensAssumption DEF Tokens
        <4> QED
          BY <1>1, <1>2, <4>1, <4>2
      <3> QED
        BY <3>1, <3>2
    <2> QED
      BY <2>1, <2>2, <2>3 DEF ProviderInv
  <1>7. ASSUME NEW o \in lease' PROVE ReliesOn(o, op[o])'
    <2>1. o \in lease /\ ReliesOn(o, op[o]) /\ op'[o] = op[o]
      BY <1>1, <1>7 DEF IInv, OpsInv
    <2>2. PICK r \in Ops : r = op[o] /\ r = op'[o]
      BY <2>1, OwnRow DEF IInv, TypeOK
    <2>3. ReliesOn(o, r)
      BY <2>1, <2>2
    <2>4. /\ \A u : AtRiskBesides(o, u)' => AtRiskBesides(o, u)
          /\ \A u : AtRisk(u)' => AtRisk(u)
      BY <1>1 DEF AtRiskBesides, AtRisk
    <2>5. r.pc \in {"g_save", "g_reject"} => r.got = next'[r.seen.token] /\ r.got # 0
      <3>1. ASSUME r.pc \in {"g_save", "g_reject"}
            PROVE  r.got = next'[r.seen.token] /\ r.got # 0
        <4>1. Marked(r) /\ r.got = next[r.seen.token] /\ r.got # 0
          BY <2>3, <3>1 DEF ReliesOn
        <4>2. r.seen.token \in Tokens
          BY <4>1, HeldRow DEF Marked
        <4>3. r.seen.token # t
          BY <1>1, <4>1, <4>2 DEF IInv, ProviderInv
        <4> QED
          BY <1>3, <4>1, <4>2, <4>3
      <3> QED
        BY <3>1
    <2>6. cred.token \notin live => cred.token \notin live'
      <3>1. cred.token <= issued /\ cred.token \in Nat
        BY TokensAssumption DEF IInv, TypeOK, CredInv, Creds
      <3> QED
        BY <1>1, <1>2, <3>1
    <2>7. ReliesOn(o, r)'
      BY <1>1, <2>3, <2>4, <2>5, <2>6 DEF ReliesOn, Marked, Same, Settled, Revocable
    <2> QED
      BY <2>2, <2>7 DEF ReliesOn, Marked
  <1>8. \A p \in Owners :
          /\ op'[p].seen.token <= issued' /\ op'[p].got <= issued'
          /\ op'[p].pc \in {"g_rotate", "g_wait"} => op'[p].seen.token >= 1
    <2> SUFFICES ASSUME NEW p \in Owners
                 PROVE  /\ op'[p].seen.token <= issued' /\ op'[p].got <= issued'
                        /\ op'[p].pc \in {"g_rotate", "g_wait"} => op'[p].seen.token >= 1
      OBVIOUS
    <2>1. op[p].seen.token \in Nat /\ op[p].seen.token <= issued /\ op[p].got \in Nat /\ op[p].got <= issued
      BY OwnRow, TokensAssumption
    <2>2. op[p].pc \in {"g_rotate", "g_wait"} => op[p].seen.token >= 1
      BY DEF IInv, OpsInv
    <2> QED
      BY <1>1, <1>2, <2>1, <2>2
  <1> QED
    BY <1>4, <1>5, <1>6, <1>7, <1>8 DEF IInv, OpsInv

LEMMA PassKeeps ==
  ASSUME IInv, NEW t \in Tokens, Pass(t)
  PROVE  IInv'
  <1>1. /\ t \in 1 .. issued /\ past' = past \cup {t} /\ live' = live \ {t}
        /\ UNCHANGED <<cred, lease, op, issued, asked, next, rekey, retired>>
    BY DEF Pass, credential, tool
  <1>2. TypeOK'
    BY <1>1 DEF IInv, TypeOK
  <1>3. CredInv'
    BY <1>1 DEF IInv, CredInv, Settled, AtRisk
  <1>4. ProviderInv'
    BY <1>1, TokensAssumption DEF IInv, TypeOK, ProviderInv
  <1>5. ASSUME NEW o \in lease' PROVE ReliesOn(o, op[o])'
    <2>1. o \in lease /\ ReliesOn(o, op[o]) /\ op'[o] = op[o]
      BY <1>1, <1>5 DEF IInv, OpsInv
    <2>2. PICK r \in Ops : r = op[o] /\ r = op'[o]
      BY <2>1, OwnRow DEF IInv, TypeOK
    <2>3. ReliesOn(o, r)
      BY <2>1, <2>2
    <2>4. /\ \A u : AtRiskBesides(o, u)' => AtRiskBesides(o, u)
          /\ \A u : AtRisk(u)' => AtRisk(u)
      BY <1>1 DEF AtRiskBesides, AtRisk
    <2>5. ReliesOn(o, r)'
      BY <1>1, <2>3, <2>4 DEF ReliesOn, Marked, Same, Settled, Revocable
    <2> QED
      BY <2>2, <2>5 DEF ReliesOn, Marked
  <1>6. OpsInv'
    BY <1>1, <1>5 DEF IInv, OpsInv
  <1> QED
    BY <1>2, <1>3, <1>4, <1>6 DEF IInv

-----------------------------------------------------------------------------
(* The invariant. *)

LEMMA InitInv == Init => IInv
  <1> SUFFICES ASSUME Init PROVE IInv
    OBVIOUS
  <1>1. /\ lease = {} /\ past = {} /\ asked = {} /\ rekey = NoCred /\ retired = FALSE
        /\ op = [o \in Owners |-> At("idle")] /\ next = [t \in Tokens |-> 0]
    BY DEF Init
  <1>2. 0 \in 0 .. MaxTokens /\ 1 \in 0 .. MaxTokens /\ 1 \in Tokens
    BY TokensAssumption DEF Tokens
  <1>3. At("idle") \in Ops /\ At("idle").pc = "idle" /\ At("idle").seen.token = 0 /\ At("idle").got = 0
    BY AtRow DEF Labels
  <1>4. \A t : ~AtRisk(t)
    BY <1>1, <1>3 DEF AtRisk
  <1>5. NoCred \in Creds
    BY <1>2 DEF NoCred, Creds
  <1>6. /\ cred \in Creds /\ issued \in {0, 1} /\ live \in SUBSET Tokens /\ \A t \in live : t <= issued
        /\ cred.token <= issued
        /\ cred.state = "NONE" => cred.token = 0
        /\ cred.state # "NONE" => cred.generation >= 1 /\ cred.generation <= cred.token
    <2>1. CASE cred = NoCred /\ issued = 0 /\ live = {}
      BY <1>5, <2>1 DEF NoCred
    <2>2. ASSUME NEW timed \in BOOLEAN,
                 cred = [Encoded(1, 1, timed, "READY") EXCEPT !.key = "old"], issued = 1, live = {1}
          PROVE  /\ cred \in Creds /\ cred.token = 1 /\ cred.generation = 1 /\ cred.state = "READY"
                 /\ live \in SUBSET Tokens /\ \A t \in live : t <= issued
      BY <1>2, <2>2 DEF Encoded, Creds
    <2> QED
      BY <2>1, <2>2 DEF Init
  <1>7. TypeOK
    BY <1>1, <1>2, <1>3, <1>5, <1>6 DEF TypeOK, Ops
  <1>8. CredInv
    BY <1>4, <1>6 DEF CredInv
  <1>9. ProviderInv
    BY <1>1, <1>6 DEF ProviderInv
  <1>10. OpsInv
    <2>1. 0 <= issued
      BY <1>6
    <2> QED
      BY <1>1, <1>3, <2>1 DEF OpsInv
  <1> QED
    BY <1>7, <1>8, <1>9, <1>10 DEF IInv

LEMMA StepInv == IInv /\ [Next]_vars => IInv'
  <1> SUFFICES ASSUME IInv, [Next]_vars PROVE IInv'
    OBVIOUS
  <1>1. CASE UNCHANGED vars
    <2>1. UNCHANGED <<lease, op, tokens, cred, rekey, retired>>
      BY <1>1 DEF vars, credential, tool
    <2> QED
      BY <2>1, ToolKeeps DEF IInv, TypeOK, Same
  <1>2. CASE \E o \in Owners : Claim(o) \/ Operation(o) \/ Finish(o)
    BY <1>2, ClaimKeeps, OperationKeeps, FinishKeeps
  <1>3. CASE Lapse \/ RekeyPage \/ RekeyUpdate \/ CheckRetirement
    BY <1>3, LapseKeeps, RekeyKeeps
  <1>4. CASE \E t \in Tokens : Replace(t) \/ Pass(t)
    BY <1>4, ReplaceKeeps, PassKeeps
  <1> QED
    BY <1>1, <1>2, <1>3, <1>4 DEF Next

LEMMA Inductive == Spec => []IInv
  BY InitInv, StepInv, PTL DEF Spec

(* The credential's row, the operations under a lease and the provider's   *)
(* tokens keep their types: no generation and no token leaves its range.   *)
THEOREM TokenTyped == Spec => []TypeOK
  <1>1. IInv => TypeOK
    BY DEF IInv
  <1> QED
    BY <1>1, Inductive, PTL

(* A READY credential was never offered for rotation, for any number of    *)
(* operations that lost their lease and of tokens: the row's token is not  *)
(* at risk, because it says ROTATING while an operation may offer it.      *)
THEOREM ReadyTokenWasNotOffered == Spec => []ReadyWasNotOffered
  <1>1. IInv => ReadyWasNotOffered
    BY DEF IInv, CredInv, Settled, AtRisk, ReadyWasNotOffered
  <1> QED
    BY <1>1, Inductive, PTL

(* The holder of the lease calls the provider with the row's own token,    *)
(* and the row is READY: what it relies on at "use".                       *)
THEOREM HolderUsesTheCurrentToken == Spec => []HolderUsesCurrent
  <1>1. IInv => HolderUsesCurrent
    BY DEF IInv, OpsInv, ReliesOn, HolderUsesCurrent
  <1> QED
    BY <1>1, Inductive, PTL

-----------------------------------------------------------------------------
(* Who writes the row, and over what. *)

LEMMA SaveWrites ==
  ASSUME NEW o, NEW expected, NEW new, NEW ok, NEW err, Save(o, expected, new, ok, err), cred' # cred
  PROVE  CanSave(o, expected) /\ cred' = new
  BY DEF Save

(* An operation writes the row only under the lease: it clears a settled   *)
(* row, or writes one over a row that is not UNAVAILABLE.                  *)
LEMMA HolderWrites ==
  ASSUME IInv, NEW o \in Owners, Operation(o), cred' # cred
  PROVE  \/ Settled(cred) /\ cred.token \notin live
         \/ cred.state # "UNAVAILABLE" /\ cred'.state # "NONE"
  <1>0. op[o].seen \in Creds /\ cred \in Creds
    BY OwnRow
  <1>1. CASE Store(o)
    <2>1. PICK timed \in BOOLEAN, state \in {"READY", "REJECTED"}, ok \in {"held", "k_read"} :
            Save(o, 0, Encoded(op[o].got, 1, timed, state), ok, "held")
      BY <1>1 DEF Store, credential
    <2>2. cred.generation = 0 /\ cred' = Encoded(op[o].got, 1, timed, state)
      BY <2>1, SaveWrites DEF CanSave
    <2>3. cred.state = "NONE"
      BY <2>2 DEF IInv, CredInv
    <2> QED
      BY <2>2, <2>3 DEF Encoded
  <1>2. CASE MarkRotating(o)
    <2>1. o \in lease /\ op[o].pc = "g_mark" /\ cred' = [op[o].seen EXCEPT !.state = "ROTATING"]
      BY <1>2, SaveWrites DEF MarkRotating, CanSave
    <2> QED
      BY <1>0, <2>1, OwnRow DEF ReliesOn, Creds
  <1>3. CASE PersistReplacement(o)
    <2>1. PICK timed \in BOOLEAN, state \in {"READY", "REJECTED"}, ok \in {"use", "k_read"} :
            /\ op[o].pc \in {"g_save", "g_reject"}
            /\ Save(o, op[o].seen.generation, Encoded(op[o].got, op[o].seen.generation + 1, timed, state),
                    ok, "g_catch")
      BY <1>3 DEF PersistReplacement
    <2>2. o \in lease /\ cred' = Encoded(op[o].got, op[o].seen.generation + 1, timed, state)
      BY <2>1, SaveWrites DEF CanSave
    <2> QED
      BY <2>1, <2>2, OwnRow DEF ReliesOn, Marked, Encoded
  <1>4. CASE Restore(o)
    <2>1. o \in lease /\ op[o].pc = "g_restore" /\ cred' = [op[o].seen EXCEPT !.state = "READY"]
      BY <1>4, SaveWrites DEF Restore, CanSave
    <2> QED
      BY <1>0, <2>1, OwnRow DEF ReliesOn, Marked, Creds
  <1>5. CASE SaveUnresolved(o)
    <2>1. o \in lease /\ op[o].pc = "unresolved" /\ cred' = Unresolved(op[o].seen)
      BY <1>5, SaveWrites DEF SaveUnresolved, CanSave
    <2> QED
      BY <1>0, <2>1, OwnRow DEF ReliesOn, Unresolved, Creds
  <1>6. CASE MarkUnavailable(o)
    <2>1. /\ op[o].pc = "u_save"
          /\ Save(o, op[o].seen.generation, [op[o].seen EXCEPT !.state = "UNAVAILABLE"], "held", "held")
      BY <1>6 DEF MarkUnavailable, credential
    <2>2. o \in lease /\ cred' = [op[o].seen EXCEPT !.state = "UNAVAILABLE"]
      BY <2>1, SaveWrites DEF CanSave
    <2> QED
      BY <1>0, <2>1, <2>2, OwnRow DEF ReliesOn, Creds
  <1>7. CASE Clear(o)
    <2>1. o \in lease /\ op[o].pc = "k_clear"
      BY <1>7 DEF Clear, MayClear
    <2> QED
      BY <2>1, OwnRow DEF ReliesOn
  <1>8. ~(Get(o) \/ AskRotation(o) \/ RotationAnswer(o) \/ RotationFails(o) \/ Use(o) \/ ReadForCleanup(o) \/ Revoke(o))
    BY DEF Get, AskRotation, RotationAnswer, RotationFails, Use, ReadForCleanup, Revoke, credential
  <1> QED
    BY <1>1, <1>2, <1>3, <1>4, <1>5, <1>6, <1>7, <1>8 DEF Operation

(* Every other step keeps the row, but for its key. *)
LEMMA OthersKeepRow ==
  ASSUME IInv, [Next]_vars, ~\E o \in Owners : Operation(o)
  PROVE  Same(cred', cred)
  <1>1. CASE RekeyUpdate
    <2>1. cred \in Creds
      BY DEF IInv, TypeOK
    <2> QED
      BY <1>1, <2>1 DEF RekeyUpdate, UnchangedSince, Same, Creds
  <1>2. CASE ~RekeyUpdate
    <2>1. cred' = cred
      BY <1>2 DEF Next, vars, credential, Claim, Finish, Lapse, RekeyPage, CheckRetirement, Replace, Pass
    <2> QED
      BY <2>1 DEF Same
  <1> QED
    BY <1>1, <1>2

(* The row is deleted only when neither its token nor a replacement is in  *)
(* force: the deletion needs the lease, under which the row is settled, so *)
(* its token was never offered and has no replacement.                     *)
THEOREM OnlyDeadTokensAreForgotten == Spec => ForgetsOnlyDeadTokens
  <1> DEFINE A == cred.state # "NONE" /\ cred'.state = "NONE" =>
                    cred.token \notin live /\ next[cred.token] \notin live
  <1>1. ASSUME IInv, [Next]_vars PROVE A
    <2> SUFFICES ASSUME cred.state # "NONE", cred'.state = "NONE"
                 PROVE  cred.token \notin live /\ next[cred.token] \notin live
      OBVIOUS
    <2>1. \E o \in Owners : Operation(o)
      BY <1>1, OthersKeepRow DEF Same
    <2>2. Settled(cred) /\ cred.token \notin live
      BY <1>1, <2>1, HolderWrites
    <2>3. cred.token \notin asked /\ cred.token \in Tokens
      BY <1>1, <2>2, HeldRow DEF IInv, CredInv, AtRisk
    <2>4. next[cred.token] = 0
      BY <1>1, <2>3 DEF IInv, ProviderInv
    <2>5. 0 \notin live
      BY <1>1, TokensAssumption DEF IInv, TypeOK, Tokens
    <2> QED
      BY <2>2, <2>4, <2>5
  <1>2. IInv /\ [Next]_vars => [A]_vars
    BY <1>1
  <1> QED
    BY <1>2, Inductive, PTL DEF Spec, ForgetsOnlyDeadTokens

(* A credential whose rotation has no known outcome stays UNAVAILABLE and  *)
(* keeps its token: every writer expects another row.                      *)
THEOREM UnresolvedRotationIsRetained == Spec => UnresolvedIsRetained
  <1> DEFINE A == cred.state = "UNAVAILABLE" /\ cred.token \in asked =>
                    cred'.state = "UNAVAILABLE" /\ cred'.token = cred.token
  <1>1. ASSUME IInv, [Next]_vars PROVE A
    <2> SUFFICES ASSUME cred.state = "UNAVAILABLE", cred.token \in asked
                 PROVE  cred'.state = "UNAVAILABLE" /\ cred'.token = cred.token
      OBVIOUS
    <2>1. ~Settled(cred)
      BY <1>1 DEF IInv, CredInv, AtRisk
    <2>2. CASE \E o \in Owners : Operation(o)
      BY <1>1, <2>1, <2>2, HolderWrites
    <2>3. CASE ~\E o \in Owners : Operation(o)
      BY <1>1, <2>3, OthersKeepRow DEF Same
    <2> QED
      BY <2>2, <2>3
  <1>2. IInv /\ [Next]_vars => [A]_vars
    BY <1>1
  <1> QED
    BY <1>2, Inductive, PTL DEF Spec, UnresolvedIsRetained

=============================================================================
