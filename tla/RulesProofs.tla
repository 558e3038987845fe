----------------------------- MODULE RulesProofs -----------------------------
(***************************************************************************)
(* Theorems about the ownership of clients, for every number of clients,   *)
(* inbounds, factors and rules.                                            *)
(***************************************************************************)
EXTENDS Effective, BasicFacts, TLAPS

States == {"active", "paused"} \cup Retired

Exists(d, r) == d.rules[r] # NoRow
Single(d, r) == Exists(d, r) /\ d.rules[r].kind = "single"
Tracks(d, r, t) == d.rc[r][t] # NoRow
Owns(d, r, t) == Exists(d, r) /\ d.rules[r].state = "active" /\ Tracks(d, r, t)

(* What TypeOK says about the tables, and that a single-user rule never    *)
(* includes disabled clients.                                              *)
Typed(d) ==
    /\ d \in DB
    /\ \A r \in RuleId, t \in Traffic : Tracks(d, r, t) => Exists(d, r)
    /\ \A r \in RuleId : Exists(d, r) => r < d.next
    /\ \A r \in RuleId, t, u \in Traffic :
          Single(d, r) /\ Tracks(d, r, t) /\ Tracks(d, r, u) => t = u
    /\ \A r \in RuleId : Single(d, r) => ~d.rules[r].includeDisabled

(* OneOwner, without a cardinality. *)
Owned(d) ==
    \A t \in Traffic, r, q \in RuleId : Owns(d, r, t) /\ Owns(d, q, t) => r = q

(* The client of an active single-user rule was deleted, and there is a    *)
(* row u with its email: the next reconciliation relinks the rule to u.    *)
Returns(d, r, u) ==
    /\ Single(d, r) /\ d.rules[r].state = "active"
    /\ \E t \in Traffic : /\ Tracks(d, r, t) /\ traffics[t] = NoRow
                          /\ Matches(u, d.rc[r][t].email)

(* The row a rule returns to is free for it: no other single-user rule     *)
(* returns there or owns it, and a scope or snapshot that does, owns it    *)
(* under the email it has now.                                             *)
Clear(d) ==
    \A u \in Traffic, r, q \in RuleId :
        r # q /\ Returns(d, r, u) =>
           /\ ~Returns(d, q, u)
           /\ Owns(d, q, u) => ~Single(d, q) /\ Matches(u, d.rc[q][u].email)

Safe(d) == Owned(d) /\ Clear(d)

(* The panel's row of a single-user rule's client has not been deleted. *)
NoneLost(d) ==
    \A r \in RuleId, t \in Traffic :
        Single(d, r) /\ Tracks(d, r, t) => traffics[t] # NoRow

(* Single-user rules are only those of `enable`. *)
Enabled(d) == \A r \in RuleId : Single(d, r) => "enable" \in Commands

-----------------------------------------------------------------------------
(* Records of the tables. *)
LEMMA DBParts ==
    ASSUME NEW d \in DB
    PROVE  /\ d.rules \in [RuleId -> Rule \cup {NoRow}]
           /\ d.rc \in [RuleId -> [Traffic -> RuleClient \cup {NoRow}]]
           /\ d.next \in 1..(MaxRules + 1)
           /\ d = [rules |-> d.rules, rc |-> d.rc, next |-> d.next]
BY DEF DB

LEMMA DBMake ==
    ASSUME NEW rules \in [RuleId -> Rule \cup {NoRow}],
           NEW rc \in [RuleId -> [Traffic -> RuleClient \cup {NoRow}]],
           NEW next \in 1..(MaxRules + 1)
    PROVE  [rules |-> rules, rc |-> rc, next |-> next] \in DB
BY DEF DB

LEMMA RowTypes ==
    ASSUME NEW d \in DB, NEW r \in RuleId
    PROVE  /\ Exists(d, r) <=> d.rules[r] \in Rule
           /\ \A t \in Traffic : Tracks(d, r, t) <=> d.rc[r][t] \in RuleClient
BY DBParts, NoRowAssumption DEF Exists, Tracks

LEMMA RuleFields ==
    ASSUME NEW x \in Rule
    PROVE  /\ x.kind \in {"single", "scope", "snapshot"} /\ x.state \in States
           /\ x.email \in Emails \cup {NoRow} /\ x.inbound \in MaybeInbound
           /\ x.factor \in Factors /\ x.includeDisabled \in BOOLEAN /\ x.aged \in BOOLEAN
BY DEF Rule, States

LEMMA OwnersAre ==
    ASSUME NEW d, NEW t, NEW r
    PROVE  r \in Owners(d, t) <=> r \in RuleId /\ Owns(d, r, t)
BY DEF Owners, RulesForTraffic, ListRulesInStates, Owns, Exists, Tracks

LEMMA ClientsAre ==
    ASSUME NEW d, NEW r, NEW t
    PROVE  t \in RuleClients(d, r) <=> t \in Traffic /\ Tracks(d, r, t)
BY DEF RuleClients, Tracks

(* SetRule changes one state and nothing else. *)
LEMMA SetRuleIs ==
    ASSUME NEW d \in DB, NEW r \in RuleId, Exists(d, r), NEW state \in States
    PROVE  LET x == SetRule(d, r, state)
           IN  /\ x \in DB /\ x.rc = d.rc /\ x.next = d.next
               /\ \A q \in RuleId : q # r => x.rules[q] = d.rules[q]
               /\ Exists(x, r)
               /\ x.rules[r].state = state /\ x.rules[r].kind = d.rules[r].kind
               /\ x.rules[r].factor = d.rules[r].factor
               /\ x.rules[r].includeDisabled = d.rules[r].includeDisabled
<1> DEFINE y == [d.rules[r] EXCEPT !.state = state]
           x == SetRule(d, r, state)
<1>1. d.rules[r] \in Rule BY RowTypes
<1>2. /\ y \in Rule /\ y.state = state /\ y.kind = d.rules[r].kind
      /\ y.factor = d.rules[r].factor /\ y.includeDisabled = d.rules[r].includeDisabled
  BY <1>1 DEF Rule, States
<1>3. x = [d EXCEPT !.rules = [d.rules EXCEPT ![r] = y]] BY DEF SetRule
<1> HIDE DEF y
<1>4. x = [rules |-> [d.rules EXCEPT ![r] = y], rc |-> d.rc, next |-> d.next]
  BY <1>3, DBParts
<1>5. [d.rules EXCEPT ![r] = y] \in [RuleId -> Rule \cup {NoRow}] BY <1>2, DBParts
<1>6. x \in DB
  <2>1. /\ d.rc \in [RuleId -> [Traffic -> RuleClient \cup {NoRow}]]
        /\ d.next \in 1..(MaxRules + 1)
    BY DBParts
  <2> HIDE DEF x
  <2> QED BY <1>4, <1>5, <2>1, DBMake
<1>7. \A q \in RuleId : x.rules[q] = IF q = r THEN y ELSE d.rules[q] BY <1>4, DBParts
<1>8. x.rc = d.rc /\ x.next = d.next BY <1>4
<1> HIDE DEF x
<1>9. x.rules[r] = y /\ Exists(x, r) BY <1>2, <1>6, <1>7, RowTypes
<1> QED BY <1>2, <1>6, <1>7, <1>8, <1>9 DEF x, y

(* One client row, all those of a rule, or all rows are written. *)
ClientRows == [Traffic -> RuleClient \cup {NoRow}]

LEMMA PutAllIs ==
    ASSUME NEW d \in DB, NEW m \in [RuleId -> ClientRows]
    PROVE  LET x == [d EXCEPT !.rc = m]
           IN  x \in DB /\ x.rules = d.rules /\ x.next = d.next /\ x.rc = m
<1>1. [d EXCEPT !.rc = m] = [rules |-> d.rules, rc |-> m, next |-> d.next] BY DBParts
<1> QED BY <1>1, DBParts, DBMake DEF ClientRows

LEMMA PutRowsIs ==
    ASSUME NEW d \in DB, NEW r \in RuleId, NEW m \in ClientRows
    PROVE  LET x == [d EXCEPT !.rc[r] = m]
           IN  /\ x \in DB /\ x.rules = d.rules /\ x.next = d.next
               /\ x.rc[r] = m /\ \A q \in RuleId : q # r => x.rc[q] = d.rc[q]
<1> DEFINE n == [d.rc EXCEPT ![r] = m]
<1>1. d.rc \in [RuleId -> ClientRows] BY DBParts DEF ClientRows
<1>2. /\ n \in [RuleId -> ClientRows] /\ n[r] = m
      /\ \A q \in RuleId : q # r => n[q] = d.rc[q]
  BY <1>1
<1>3. [d EXCEPT !.rc[r] = m] = [d EXCEPT !.rc = n] BY DBParts
<1> HIDE DEF n
<1>4. LET x == [d EXCEPT !.rc = n]
      IN  x \in DB /\ x.rules = d.rules /\ x.next = d.next /\ x.rc = n
  BY <1>2, PutAllIs
<1> QED BY <1>2, <1>3, <1>4

Put(d, r, t, c) == [d EXCEPT !.rc[r][t] = c]

LEMMA PutIs ==
    ASSUME NEW d \in DB, NEW r \in RuleId, NEW t \in Traffic, NEW c \in RuleClient \cup {NoRow}
    PROVE  LET x == Put(d, r, t, c)
           IN  /\ x \in DB /\ x.rules = d.rules /\ x.next = d.next
               /\ x.rc[r][t] = c
               /\ \A u \in Traffic : u # t => x.rc[r][u] = d.rc[r][u]
               /\ \A q \in RuleId : q # r => x.rc[q] = d.rc[q]
<1> DEFINE m == [d.rc[r] EXCEPT ![t] = c]
<1>1. d.rc[r] \in ClientRows BY DBParts DEF ClientRows
<1>2. m \in ClientRows /\ m[t] = c /\ \A u \in Traffic : u # t => m[u] = d.rc[r][u]
  BY <1>1 DEF ClientRows
<1>3. Put(d, r, t, c) = [d EXCEPT !.rc[r] = m] BY DBParts DEF Put
<1> HIDE DEF m
<1>4. LET x == [d EXCEPT !.rc[r] = m]
      IN  /\ x \in DB /\ x.rules = d.rules /\ x.next = d.next
          /\ x.rc[r] = m /\ \A q \in RuleId : q # r => x.rc[q] = d.rc[q]
  BY <1>2, PutRowsIs
<1> QED BY <1>2, <1>3, <1>4

LEMMA ClientFields ==
    ASSUME NEW c \in RuleClient
    PROVE  /\ c.email \in Emails /\ c.missing \in {"no", "grace", "expired"}
           /\ c # NoRow
           /\ MarkMissing(c) \in RuleClient /\ MarkMissing(c).email = c.email
           /\ MarkMissing(c).missing = IF c.missing = "no" THEN "grace" ELSE c.missing
           /\ c.missing # "no" => MarkMissing(c) = c
BY NoRowAssumption DEF RuleClient, MarkMissing

LEMMA TrackedType ==
    ASSUME NEW e \in Emails
    PROVE  /\ Tracked(e) \in RuleClient /\ Tracked(e).email = e /\ Tracked(e).missing = "no"
           /\ Tracked(e) # NoRow
BY NoRowAssumption DEF Tracked, RuleClient

-----------------------------------------------------------------------------
(* What the daemon's steps keep, which follow each other in a transaction; *)
(* and what `enable` and `resume` do, after which a row that a rule        *)
(* returns to need not be free any more.                                   *)
Kept(d, x) == Typed(x) /\ (NoneLost(d) => NoneLost(x)) /\ (Enabled(d) => Enabled(x))
Preserves(d, x) == Kept(d, x) /\ (Safe(d) => Safe(x))
Allows(d, x) == Kept(d, x) /\ (Owned(d) => Owned(x))

LEMMA PreservesSelf == ASSUME NEW d, Typed(d) PROVE Preserves(d, d) /\ Allows(d, d)
BY DEF Preserves, Allows, Kept

LEMMA PreservesTrans ==
    ASSUME NEW d, NEW x, NEW y, Preserves(d, x), Preserves(x, y)
    PROVE  Preserves(d, y)
BY DEF Preserves, Kept

LEMMA AllowsTrans ==
    ASSUME NEW d, NEW x, NEW y, Allows(d, x), Allows(x, y)
    PROVE  Allows(d, y)
BY DEF Allows, Kept

LEMMA PreservesTyped ==
    ASSUME NEW d, NEW x, Preserves(d, x) \/ Allows(d, x)
    PROVE  Typed(x)
BY DEF Preserves, Allows, Kept

(* Rules are retired or deleted, clients marked, found again or dropped:   *)
(* nobody becomes an owner.                                                *)
Shrinks(d, x) ==
    /\ x \in DB /\ x.next = d.next
    /\ \A r \in RuleId : Exists(x, r) =>
          /\ Exists(d, r) /\ x.rules[r].kind = d.rules[r].kind
          /\ x.rules[r].includeDisabled = d.rules[r].includeDisabled
          /\ x.rules[r].state = "active" => d.rules[r].state = "active"
    /\ \A r \in RuleId, t \in Traffic :
          Tracks(x, r, t) => /\ Tracks(d, r, t) /\ Exists(x, r)
                             /\ x.rc[r][t].email = d.rc[r][t].email

LEMMA ShrinksPreserves ==
    ASSUME NEW d, NEW x, Typed(d), Shrinks(d, x)
    PROVE  Preserves(d, x)
<1>1. \A r \in RuleId : Single(x, r) => Single(d, r) BY DEF Shrinks, Single
<1>2. \A r \in RuleId, t \in Traffic : Owns(x, r, t) => Owns(d, r, t) BY DEF Shrinks, Owns
<1>3. Typed(x)
  <2>1. x \in DB BY DEF Shrinks
  <2>2. \A r \in RuleId, t \in Traffic : Tracks(x, r, t) => Exists(x, r) BY DEF Shrinks
  <2>3. \A r \in RuleId : Exists(x, r) => r < x.next BY DEF Shrinks, Typed
  <2>4. \A r \in RuleId, t, u \in Traffic :
           Single(x, r) /\ Tracks(x, r, t) /\ Tracks(x, r, u) => t = u
    BY <1>1 DEF Shrinks, Typed
  <2>5. \A r \in RuleId : Single(x, r) => ~x.rules[r].includeDisabled
    BY <1>1 DEF Shrinks, Typed, Single
  <2> QED BY <2>1, <2>2, <2>3, <2>4, <2>5 DEF Typed
<1>4. Safe(d) => Safe(x)
  <2>1. Owned(d) => Owned(x) BY <1>2 DEF Owned
  <2>2. \A r \in RuleId, u \in Traffic : Returns(x, r, u) => Returns(d, r, u)
    BY <1>1 DEF Returns, Shrinks, Single
  <2>3. \A r \in RuleId, u \in Traffic : Owns(x, r, u) =>
           /\ x.rc[r][u].email = d.rc[r][u].email
           /\ Single(x, r) => Single(d, r)
    BY <1>1 DEF Owns, Shrinks
  <2>4. Clear(d) => Clear(x) BY <1>2, <2>2, <2>3 DEF Clear
  <2> QED BY <2>1, <2>4 DEF Safe
<1>5. Enabled(d) => Enabled(x) BY <1>1 DEF Enabled
<1>6. NoneLost(d) => NoneLost(x) BY <1>1 DEF NoneLost, Shrinks
<1> QED BY <1>3, <1>4, <1>5, <1>6 DEF Preserves, Kept

LEMMA RetireShrinks ==
    ASSUME NEW d \in DB, Typed(d), NEW r \in RuleId, Exists(d, r),
           NEW state \in States \ {"active"}
    PROVE  Shrinks(d, SetRule(d, r, state))
<1> DEFINE x == SetRule(d, r, state)
<1>0. state \in States OBVIOUS
<1>1. /\ x \in DB /\ x.rc = d.rc /\ x.next = d.next
      /\ \A q \in RuleId : q # r => x.rules[q] = d.rules[q]
      /\ Exists(x, r) /\ x.rules[r].state = state /\ x.rules[r].kind = d.rules[r].kind
      /\ x.rules[r].includeDisabled = d.rules[r].includeDisabled
  BY <1>0, SetRuleIs
<1> HIDE DEF x
<1>2. \A q \in RuleId : Exists(x, q) <=> Exists(d, q) BY <1>1 DEF Exists
<1>3. \A q \in RuleId, t \in Traffic : /\ Tracks(x, q, t) <=> Tracks(d, q, t)
                                       /\ x.rc[q][t].email = d.rc[q][t].email
  BY <1>1 DEF Tracks
<1>4. \A q \in RuleId, t \in Traffic : Tracks(d, q, t) => Exists(d, q) BY DEF Typed
<1>5. state # "active" OBVIOUS
<1>6. \A q \in RuleId : Exists(x, q) =>
          /\ Exists(d, q) /\ x.rules[q].kind = d.rules[q].kind
          /\ x.rules[q].includeDisabled = d.rules[q].includeDisabled
          /\ x.rules[q].state = "active" => d.rules[q].state = "active"
  <2> TAKE q \in RuleId
  <2>1. CASE q = r BY <1>1, <1>2, <1>5, <2>1
  <2>2. CASE q # r
    <3>1. x.rules[q] = d.rules[q] BY <1>1, <2>2
    <3> QED BY <1>2, <3>1
  <2> QED BY <2>1, <2>2
<1> QED BY <1>1, <1>2, <1>3, <1>4, <1>6 DEF Shrinks, x

(* The row of a client that is tracked is written again. *)
LEMMA RewriteShrinks ==
    ASSUME NEW d \in DB, Typed(d), NEW r \in RuleId, NEW t \in Traffic, Tracks(d, r, t),
           NEW c \in RuleClient, c.email = d.rc[r][t].email
    PROVE  Shrinks(d, Put(d, r, t, c))
<1> DEFINE x == Put(d, r, t, c)
<1>1. /\ x \in DB /\ x.rules = d.rules /\ x.next = d.next /\ x.rc[r][t] = c
      /\ \A u \in Traffic : u # t => x.rc[r][u] = d.rc[r][u]
      /\ \A q \in RuleId : q # r => x.rc[q] = d.rc[q]
  BY PutIs
<1> HIDE DEF x
<1>2. \A q \in RuleId : Exists(x, q) <=> Exists(d, q) BY <1>1 DEF Exists
<1>3. \A q \in RuleId, u \in Traffic :
         Tracks(x, q, u) => Tracks(d, q, u) /\ x.rc[q][u].email = d.rc[q][u].email
  <2> TAKE q \in RuleId, u \in Traffic
  <2>1. CASE q = r /\ u = t BY <1>1, <2>1
  <2>2. CASE ~(q = r /\ u = t)
    <3>1. x.rc[q][u] = d.rc[q][u] BY <1>1, <2>2
    <3> QED BY <3>1 DEF Tracks
  <2> QED BY <2>1, <2>2
<1>4. \A q \in RuleId, u \in Traffic : Tracks(d, q, u) => Exists(d, q) BY DEF Typed
<1> QED BY <1>1, <1>2, <1>3, <1>4 DEF Shrinks, x

-----------------------------------------------------------------------------
(* Reconciliation, enrolment and a tick leave scopes and their clients in  *)
(* place, and merge a rule only when a scope has its client.               *)
Scope(d, s) == Exists(d, s) /\ d.rules[s].kind = "scope"
Merged(d, r) == Exists(d, r) /\ d.rules[r].state = "merged"

InActiveScope(d, r, t) ==
    \E s \in RuleId : /\ Scope(d, s) /\ d.rules[s].state = "active"
                      /\ d.rules[s].factor = d.rules[r].factor /\ Covers(d, s, t)

Keeps(d, x) ==
    /\ \A s \in RuleId : Scope(d, s) =>
          /\ x.rules[s] = d.rules[s]
          /\ \A t \in Traffic : Tracks(d, s, t) =>
                Tracks(x, s, t) /\ x.rc[s][t].email = d.rc[s][t].email
    /\ \A r \in RuleId : Exists(d, r) => Exists(x, r) /\ x.rules[r].factor = d.rules[r].factor
    /\ \A r \in RuleId : Merged(d, r) =>
          Merged(x, r) /\ \A t \in Traffic : Tracks(x, r, t) => Tracks(d, r, t)
    /\ \A r \in RuleId : Exists(d, r) /\ ~Merged(d, r) /\ Merged(x, r) =>
          \A t \in Traffic : Tracks(x, r, t) => InActiveScope(x, r, t)

LEMMA KeepsSelf == ASSUME NEW d PROVE Keeps(d, d)
BY DEF Keeps

LEMMA KeepsTrans ==
    ASSUME NEW d, NEW x, NEW y, Keeps(d, x), Keeps(x, y)
    PROVE  Keeps(d, y)
<1>1. \A s \in RuleId : Scope(d, s) => Scope(x, s) BY DEF Keeps, Scope, Exists
<1>2. \A s \in RuleId : Scope(d, s) =>
         /\ y.rules[s] = d.rules[s]
         /\ \A t \in Traffic : Tracks(d, s, t) =>
               Tracks(y, s, t) /\ y.rc[s][t].email = d.rc[s][t].email
  BY <1>1 DEF Keeps
<1>3. \A r \in RuleId : Exists(d, r) => Exists(y, r) /\ y.rules[r].factor = d.rules[r].factor
  BY DEF Keeps
<1>4. \A r \in RuleId : Merged(d, r) =>
          Merged(y, r) /\ \A t \in Traffic : Tracks(y, r, t) => Tracks(d, r, t)
  BY DEF Keeps
<1>5. ASSUME NEW r \in RuleId, Exists(d, r), ~Merged(d, r), Merged(y, r),
             NEW t \in Traffic, Tracks(y, r, t)
      PROVE  InActiveScope(y, r, t)
  <2>1. Exists(x, r) BY <1>5 DEF Keeps
  <2>2. CASE ~Merged(x, r) BY <1>5, <2>1, <2>2 DEF Keeps
  <2>3. CASE Merged(x, r)
    <3>1. Tracks(x, r, t) BY <1>5, <2>3 DEF Keeps
    <3>2. InActiveScope(x, r, t) BY <1>5, <2>3, <3>1 DEF Keeps
    <3>3. PICK s \in RuleId : /\ Scope(x, s) /\ x.rules[s].state = "active"
                              /\ x.rules[s].factor = x.rules[r].factor /\ Covers(x, s, t)
      BY <3>2 DEF InActiveScope
    <3>4. y.rules[s] = x.rules[s] /\ y.rules[r].factor = x.rules[r].factor
      BY <2>1, <3>3 DEF Keeps
    <3>5. Tracks(y, s, t) /\ y.rc[s][t].email = x.rc[s][t].email
      BY <3>3 DEF Keeps, Covers, Tracks
    <3>6. Scope(y, s) BY <3>3, <3>4 DEF Scope, Exists
    <3>7. Covers(y, s, t) BY <3>3, <3>5 DEF Covers, Tracks
    <3> QED BY <3>3, <3>4, <3>6, <3>7 DEF InActiveScope
  <2> QED BY <2>2, <2>3
<1> QED BY <1>2, <1>3, <1>4, <1>5 DEF Keeps

(* The tables differ at most in a client row of the same email. *)
LEMMA RewriteKeeps ==
    ASSUME NEW d \in DB, NEW r \in RuleId, NEW t \in Traffic, Tracks(d, r, t),
           NEW c \in RuleClient, c.email = d.rc[r][t].email
    PROVE  Keeps(d, Put(d, r, t, c))
<1> DEFINE x == Put(d, r, t, c)
<1>1. /\ x \in DB /\ x.rules = d.rules /\ x.next = d.next /\ x.rc[r][t] = c
      /\ \A u \in Traffic : u # t => x.rc[r][u] = d.rc[r][u]
      /\ \A q \in RuleId : q # r => x.rc[q] = d.rc[q]
  BY PutIs
<1> HIDE DEF x
<1>2. c # NoRow BY ClientFields
<1>3. \A q \in RuleId, u \in Traffic :
         /\ Tracks(x, q, u) <=> Tracks(d, q, u)
         /\ Tracks(d, q, u) => x.rc[q][u].email = d.rc[q][u].email
  <2> TAKE q \in RuleId, u \in Traffic
  <2>1. CASE q = r /\ u = t BY <1>1, <1>2, <2>1 DEF Tracks
  <2>2. CASE ~(q = r /\ u = t)
    <3>1. x.rc[q][u] = d.rc[q][u] BY <1>1, <2>2
    <3> QED BY <3>1 DEF Tracks
  <2> QED BY <2>1, <2>2
<1>4. \A q \in RuleId : (Exists(x, q) <=> Exists(d, q)) /\ (Merged(x, q) <=> Merged(d, q))
  BY <1>1 DEF Exists, Merged
<1> QED BY <1>1, <1>3, <1>4 DEF Keeps, x

(* A single-user rule that is active or orphaned is not merged. *)
LEMMA RetireKeeps ==
    ASSUME NEW d \in DB, NEW r \in RuleId, Single(d, r), ~Merged(d, r),
           NEW state \in States \ {"merged"}
    PROVE  Keeps(d, SetRule(d, r, state))
<1> DEFINE x == SetRule(d, r, state)
<1>0. state \in States /\ state # "merged" /\ Exists(d, r) BY DEF Single
<1>1. /\ x \in DB /\ x.rc = d.rc /\ x.next = d.next
      /\ \A q \in RuleId : q # r => x.rules[q] = d.rules[q]
      /\ Exists(x, r) /\ x.rules[r].state = state /\ x.rules[r].kind = d.rules[r].kind
      /\ x.rules[r].factor = d.rules[r].factor
  BY <1>0, SetRuleIs
<1> HIDE DEF x
<1>2. ~Scope(d, r) BY DEF Scope, Single
<1>3. \A q \in RuleId, t \in Traffic : Tracks(x, q, t) <=> Tracks(d, q, t) BY <1>1 DEF Tracks
<1>4. \A q \in RuleId : (Exists(x, q) <=> Exists(d, q)) /\ (Merged(x, q) <=> Merged(d, q))
  <2> TAKE q \in RuleId
  <2>1. CASE q = r BY <1>0, <1>1, <2>1 DEF Exists, Merged
  <2>2. CASE q # r
    <3>1. x.rules[q] = d.rules[q] BY <1>1, <2>2
    <3> QED BY <3>1 DEF Exists, Merged
  <2> QED BY <2>1, <2>2
<1>5. \A s \in RuleId : Scope(d, s) => x.rules[s] = d.rules[s] BY <1>1, <1>2
<1>6. \A q \in RuleId : Exists(d, q) => x.rules[q].factor = d.rules[q].factor
  <2> TAKE q \in RuleId
  <2>1. CASE q = r BY <1>1, <2>1
  <2>2. CASE q # r
    <3>1. x.rules[q] = d.rules[q] BY <1>1, <2>2
    <3> QED BY <3>1
  <2> QED BY <2>1, <2>2
<1> QED BY <1>1, <1>3, <1>4, <1>5, <1>6 DEF Keeps, x

-----------------------------------------------------------------------------
(* Adoption: the scope gets the client's row, the rule is merged. *)
Adopted(d, s, r, t) == SetRule(Put(d, s, t, d.rc[r][t]), r, "merged")

Active(d, r) == Exists(d, r) /\ d.rules[r].state = "active"

LEMMA AdoptedIs ==
    ASSUME NEW d \in DB, NEW s \in RuleId, NEW r \in RuleId, NEW t \in Traffic,
           Exists(d, r), Tracks(d, r, t)
    PROVE  LET x == Adopted(d, s, r, t)
           IN  /\ x \in DB /\ x.next = d.next
               /\ \A q \in RuleId : q # r => x.rules[q] = d.rules[q]
               /\ Exists(x, r) /\ x.rules[r].state = "merged"
               /\ x.rules[r].kind = d.rules[r].kind
               /\ x.rules[r].factor = d.rules[r].factor
               /\ x.rules[r].includeDisabled = d.rules[r].includeDisabled
               /\ x.rc[s][t] = d.rc[r][t]
               /\ \A u \in Traffic : u # t => x.rc[s][u] = d.rc[s][u]
               /\ \A q \in RuleId : q # s => x.rc[q] = d.rc[q]
<1> DEFINE y == Put(d, s, t, d.rc[r][t])
           x == SetRule(y, r, "merged")
<1>0. d.rc[r][t] \in RuleClient \cup {NoRow} BY RowTypes
<1>1. /\ y \in DB /\ y.rules = d.rules /\ y.next = d.next /\ y.rc[s][t] = d.rc[r][t]
      /\ \A u \in Traffic : u # t => y.rc[s][u] = d.rc[s][u]
      /\ \A q \in RuleId : q # s => y.rc[q] = d.rc[q]
  BY <1>0, PutIs
<1> HIDE DEF y
<1>2. Exists(y, r) /\ "merged" \in States BY <1>1 DEF Exists, States, Retired
<1>3. /\ x \in DB /\ x.rc = y.rc /\ x.next = y.next
      /\ \A q \in RuleId : q # r => x.rules[q] = y.rules[q]
      /\ Exists(x, r) /\ x.rules[r].state = "merged" /\ x.rules[r].kind = y.rules[r].kind
      /\ x.rules[r].factor = y.rules[r].factor
      /\ x.rules[r].includeDisabled = y.rules[r].includeDisabled
  BY <1>1, <1>2, SetRuleIs
<1>4. Adopted(d, s, r, t) = x BY DEF Adopted, y
<1> HIDE DEF x
<1> QED BY <1>1, <1>3, <1>4

LEMMA AdoptedPreserves ==
    ASSUME NEW d \in DB, Typed(d), NEW s \in RuleId, NEW r \in RuleId, NEW t \in Traffic,
           Scope(d, s), Active(d, s), Single(d, r), Active(d, r),
           d.rules[r].factor = d.rules[s].factor,
           d.rc[r][t] = Tracked(traffics[t].email), traffics[t] \in Client, ~Tracks(d, s, t)
    PROVE  Preserves(d, Adopted(d, s, r, t)) /\ Keeps(d, Adopted(d, s, r, t))
<1> DEFINE x == Adopted(d, s, r, t)
           e == traffics[t].email
<1>0. /\ e \in Emails /\ Matches(t, e) /\ Tracked(e).email = e /\ Tracked(e) # NoRow
      /\ Tracks(d, r, t)
  BY NoRowAssumption, TrackedType DEF Client, Matches, Tracks
<1>1. /\ x \in DB /\ x.next = d.next
      /\ \A q \in RuleId : q # r => x.rules[q] = d.rules[q]
      /\ Exists(x, r) /\ x.rules[r].state = "merged"
      /\ x.rules[r].kind = d.rules[r].kind
      /\ x.rules[r].factor = d.rules[r].factor
      /\ x.rules[r].includeDisabled = d.rules[r].includeDisabled
      /\ x.rc[s][t] = d.rc[r][t]
      /\ \A u \in Traffic : u # t => x.rc[s][u] = d.rc[s][u]
      /\ \A q \in RuleId : q # s => x.rc[q] = d.rc[q]
  BY <1>0, AdoptedIs DEF Active
<1>s. s # r /\ Exists(d, r) /\ Exists(d, s) BY DEF Scope, Single
<1> HIDE DEF x, e
<1>2. \A q \in RuleId : (Exists(x, q) <=> Exists(d, q)) /\ (Single(x, q) <=> Single(d, q))
  <2> TAKE q \in RuleId
  <2>1. CASE q = r BY <1>1, <1>s, <2>1 DEF Exists, Single
  <2>2. CASE q # r
    <3>1. x.rules[q] = d.rules[q] BY <1>1, <2>2
    <3> QED BY <3>1 DEF Exists, Single
  <2> QED BY <2>1, <2>2
<1>3. \A q \in RuleId, u \in Traffic :
         ~(q = s /\ u = t) => x.rc[q][u] = d.rc[q][u] /\ (Tracks(x, q, u) <=> Tracks(d, q, u))
  <2> TAKE q \in RuleId, u \in Traffic
  <2>1. ~(q = s /\ u = t) => x.rc[q][u] = d.rc[q][u] BY <1>1
  <2> QED BY <2>1 DEF Tracks
<1>4. Tracks(x, s, t) /\ x.rc[s][t] = Tracked(e) BY <1>0, <1>1 DEF Tracks, e
<1>5. ~Single(d, s) BY DEF Single, Scope
<1>6. Typed(x)
  <2>1. \A q \in RuleId, u \in Traffic : Tracks(x, q, u) => Exists(x, q)
    BY <1>2, <1>3, <1>s DEF Typed
  <2>2. \A q \in RuleId : Exists(x, q) => q < x.next BY <1>1, <1>2 DEF Typed
  <2>3. \A q \in RuleId, u, v \in Traffic :
           Single(x, q) /\ Tracks(x, q, u) /\ Tracks(x, q, v) => u = v
    BY <1>2, <1>3, <1>5 DEF Typed
  <2>4. ASSUME NEW q \in RuleId, Single(x, q) PROVE ~x.rules[q].includeDisabled
    <3>1. ~d.rules[q].includeDisabled BY <1>2, <2>4 DEF Typed
    <3>2. CASE q = r BY <1>1, <3>1, <3>2
    <3>3. CASE q # r
      <4>1. x.rules[q] = d.rules[q] BY <1>1, <3>3
      <4> QED BY <3>1, <4>1
    <3> QED BY <3>2, <3>3
  <2> QED BY <1>1, <2>1, <2>2, <2>3, <2>4 DEF Typed
<1>7. Owned(d) => Owned(x)
  <2> SUFFICES ASSUME Owned(d), NEW u \in Traffic, NEW q \in RuleId, NEW p \in RuleId,
                      Owns(x, q, u), Owns(x, p, u)
               PROVE  q = p
    BY DEF Owned
  <2>1. q # r /\ p # r BY <1>1 DEF Owns
  <2>2. /\ q # s \/ u # t => Owns(d, q, u)
        /\ p # s \/ u # t => Owns(d, p, u)
    <3>1. \A k \in RuleId : k # r /\ Owns(x, k, u) /\ (k # s \/ u # t) => Owns(d, k, u)
      <4> TAKE k \in RuleId
      <4>1. k # r => x.rules[k] = d.rules[k] BY <1>1
      <4>2. k # s \/ u # t => (Tracks(x, k, u) <=> Tracks(d, k, u)) BY <1>3
      <4> QED BY <4>1, <4>2 DEF Owns, Exists
    <3> QED BY <2>1, <3>1
  <2>3. Owns(d, r, t) BY <1>0 DEF Owns, Active
  <2>4. \A k \in RuleId : Owns(d, k, t) => k = r BY <2>3 DEF Owned
  <2>5. CASE u = t BY <2>1, <2>2, <2>4, <2>5
  <2>6. CASE u # t BY <2>2, <2>6 DEF Owned
  <2> QED BY <2>5, <2>6
<1>8. NoneLost(d) => NoneLost(x) BY <1>2, <1>3, <1>5 DEF NoneLost
<1>9. Enabled(d) => Enabled(x) BY <1>2 DEF Enabled
<1>c. Clear(d) => Clear(x)
  <2>1. \A q \in RuleId : q # r /\ Active(x, q) => Active(d, q)
    <3> TAKE q \in RuleId
    <3>1. q # r => x.rules[q] = d.rules[q] BY <1>1
    <3> QED BY <3>1 DEF Active, Exists
  <2>2. ~Active(x, r) BY <1>1 DEF Active
  <2>3. \A q \in RuleId, u \in Traffic : Single(x, q) /\ Tracks(x, q, u) =>
           Single(d, q) /\ Tracks(d, q, u) /\ x.rc[q][u] = d.rc[q][u]
    BY <1>2, <1>3, <1>5
  <2>4. ASSUME NEW q \in RuleId, NEW u \in Traffic, Returns(x, q, u) PROVE Returns(d, q, u)
    <3>1. Active(x, q) /\ Single(x, q) BY <2>4 DEF Returns, Active, Single
    <3>2. Active(d, q) BY <2>1, <2>2, <3>1
    <3> QED BY <2>3, <2>4, <3>1, <3>2 DEF Returns, Active
  <2>5. ASSUME NEW q \in RuleId, NEW u \in Traffic, Owns(x, q, u), ~(q = s /\ u = t)
        PROVE  Owns(d, q, u) /\ x.rc[q][u] = d.rc[q][u]
    <3>1. Active(x, q) BY <2>5 DEF Owns, Active
    <3>2. Active(d, q) BY <2>1, <2>2, <3>1
    <3> QED BY <1>3, <2>5, <3>2 DEF Owns, Active
  <2>6. ~Single(x, s) /\ Matches(t, x.rc[s][t].email) BY <1>0, <1>2, <1>4, <1>5
  <2> QED BY <1>2, <2>4, <2>5, <2>6 DEF Clear
<1>10. Preserves(d, x) BY <1>6, <1>7, <1>8, <1>9, <1>c DEF Preserves, Kept, Safe
<1>11. Keeps(d, x)
  <2>0. \A q \in RuleId : Exists(d, q) => x.rules[q].factor = d.rules[q].factor
    <3> TAKE q \in RuleId
    <3>1. CASE q = r BY <1>1, <3>1
    <3>2. CASE q # r
      <4>1. x.rules[q] = d.rules[q] BY <1>1, <3>2
      <4> QED BY <4>1
    <3> QED BY <3>1, <3>2
  <2>1. ~Scope(d, r) BY DEF Scope, Single
  <2>2. \A k \in RuleId : Scope(d, k) =>
          /\ x.rules[k] = d.rules[k]
          /\ \A u \in Traffic : Tracks(d, k, u) =>
                Tracks(x, k, u) /\ x.rc[k][u].email = d.rc[k][u].email
    BY <1>1, <1>3, <2>1
  <2>3. \A q \in RuleId : q # r => (Merged(x, q) <=> Merged(d, q))
    <3> TAKE q \in RuleId
    <3>1. q # r => x.rules[q] = d.rules[q] BY <1>1
    <3> QED BY <3>1 DEF Merged, Exists
  <2>4. ~Merged(d, r) /\ ~Merged(d, s) BY DEF Active, Merged
  <2>5. \A q \in RuleId : Merged(d, q) =>
          Merged(x, q) /\ \A u \in Traffic : Tracks(x, q, u) => Tracks(d, q, u)
    BY <1>3, <2>3, <2>4
  <2>6. ASSUME NEW u \in Traffic, Tracks(x, r, u) PROVE InActiveScope(x, r, u)
    <3>1. Tracks(d, r, u) BY <1>3, <1>s, <2>6
    <3>2. u = t BY <1>0, <3>1 DEF Typed
    <3>3. x.rules[s] = d.rules[s] BY <1>1, <1>s
    <3>4. Scope(x, s) /\ x.rules[s].state = "active" BY <3>3 DEF Scope, Active, Exists
    <3>5. x.rules[s].factor = x.rules[r].factor BY <1>1, <3>3
    <3>6. Covers(x, s, t) BY <1>0, <1>4 DEF Covers, Tracks
    <3> QED BY <3>2, <3>4, <3>5, <3>6 DEF InActiveScope
  <2> QED BY <1>2, <2>0, <2>2, <2>3, <2>4, <2>5, <2>6 DEF Keeps
<1> QED BY <1>10, <1>11 DEF x

-----------------------------------------------------------------------------
(* The loops over rules.  The three bodies they have, by name, so that one *)
(* lemma says that the recursion of ForEachRule has a solution.            *)
Body(k, x, r) ==
    CASE k = "reconcile" -> ReconcileSingleRule(x, r)
      [] k = "enroll" -> Enroll(x, r)
      [] k = "resume" -> ResumeOne(x, r)

Solution(f, k, d, R) ==
    f = [r \in 0..MaxRules |->
            IF r = 0 THEN d ELSE IF r \in R THEN Body(k, f[r - 1], r) ELSE f[r - 1]]

LEMMA LoopExists == ASSUME NEW k, NEW d, NEW R PROVE \E f : Solution(f, k, d, R)
<1> DEFINE Step(f, r) ==
               IF r = 0 THEN d
               ELSE IF r \in R THEN Body(k, f[r - 1], r) ELSE f[r - 1]
           Solves(f, n) == f = [r \in 0..n |-> Step(f, r)]
           N == {n \in Nat : \E f : Solves(f, n)}
<1>1. 0 \in N
  <2> DEFINE f == [r \in 0..0 |-> d]
  <2>1. \A r \in 0..0 : r = 0 OBVIOUS
  <2>2. Solves(f, 0) BY <2>1, Zenon
  <2>3. \E h : Solves(h, 0) BY <2>2, Zenon
  <2> QED BY <2>3
<1>2. ASSUME NEW n \in N PROVE n + 1 \in N
  <2>1. PICK f : Solves(f, n) OBVIOUS
  <2> DEFINE g == [r \in 0..(n + 1) |-> Step(f, r)]
  <2>2. ASSUME NEW r \in 0..(n + 1) PROVE Step(f, r) = Step(g, r)
    <3>1. CASE r = 0 BY <3>1
    <3>2. CASE r # 0
      <4>1. r - 1 \in 0..n /\ r - 1 \in 0..(n + 1) BY <3>2
      <4>2. f[r - 1] = Step(f, r - 1) BY <2>1, <4>1, Zenon
      <4>3. g[r - 1] = Step(f, r - 1) BY <4>1, Zenon
      <4> QED BY <3>2, <4>2, <4>3, Zenon
    <3> QED BY <3>1, <3>2
  <2>3. Solves(g, n + 1) BY <2>2, Zenon
  <2>4. \E h : Solves(h, n + 1) BY <2>3, Zenon
  <2>5. n + 1 \in Nat OBVIOUS
  <2> QED BY <2>4, <2>5, Zenon
<1>3. N = Nat
  <2>1. N \in SUBSET Nat OBVIOUS
  <2> HIDE DEF N
  <2> QED BY <1>1, <1>2, <2>1, NatSetInduction, Zenon
<1>4. MaxRules \in N BY <1>3, BoundAssumption
<1> QED BY <1>4, Zenon DEF Solution

(* What a loop computes: f[r] are the tables after rule r. *)
Runs(f, k, d, R) ==
    /\ f[0] = d
    /\ \A r \in RuleId : f[r] = IF r \in R THEN Body(k, f[r - 1], r) ELSE f[r - 1]

LEMMA ReconcileLoop ==
    ASSUME NEW d, NEW R
    PROVE  \E f : /\ Runs(f, "reconcile", d, R)
                  /\ ForEachRule(d, R, ReconcileSingleRule) = f[MaxRules]
<1> DEFINE Step(f, r) ==
               IF r = 0 THEN d
               ELSE IF r \in R THEN ReconcileSingleRule(f[r - 1], r) ELSE f[r - 1]
           F == CHOOSE f : f = [r \in 0..MaxRules |-> Step(f, r)]
<1>1. \A x, r : Body("reconcile", x, r) = ReconcileSingleRule(x, r) BY Zenon DEF Body
<1>2. \E f : f = [r \in 0..MaxRules |-> Step(f, r)]
  <2>1. PICK f : Solution(f, "reconcile", d, R) BY LoopExists, Zenon
  <2>2. f = [r \in 0..MaxRules |-> Step(f, r)] BY <1>1, <2>1, Zenon DEF Solution
  <2> QED BY <2>2, Zenon
<1>3. F = [r \in 0..MaxRules |-> Step(F, r)] BY <1>2, Zenon
<1>4. ForEachRule(d, R, ReconcileSingleRule) = F[MaxRules] BY Zenon DEF ForEachRule
<1>5. \A r \in 0..MaxRules : F[r] = Step(F, r) BY <1>3, Zenon
<1> HIDE DEF F
<1>6. 0 \in 0..MaxRules /\ \A r \in RuleId : r \in 0..MaxRules /\ r # 0
  BY BoundAssumption DEF RuleId
<1>7. Runs(F, "reconcile", d, R) BY <1>1, <1>5, <1>6, Zenon DEF Runs
<1> QED BY <1>4, <1>7

LEMMA EnrollLoop ==
    ASSUME NEW d, NEW R
    PROVE  \E f : /\ Runs(f, "enroll", d, R)
                  /\ ForEachRule(d, R, Enroll) = f[MaxRules]
<1> DEFINE Step(f, r) ==
               IF r = 0 THEN d
               ELSE IF r \in R THEN Enroll(f[r - 1], r) ELSE f[r - 1]
           F == CHOOSE f : f = [r \in 0..MaxRules |-> Step(f, r)]
<1>1. \A x, r : Body("enroll", x, r) = Enroll(x, r) BY Zenon DEF Body
<1>2. \E f : f = [r \in 0..MaxRules |-> Step(f, r)]
  <2>1. PICK f : Solution(f, "enroll", d, R) BY LoopExists, Zenon
  <2>2. f = [r \in 0..MaxRules |-> Step(f, r)] BY <1>1, <2>1, Zenon DEF Solution
  <2> QED BY <2>2, Zenon
<1>3. F = [r \in 0..MaxRules |-> Step(F, r)] BY <1>2, Zenon
<1>4. ForEachRule(d, R, Enroll) = F[MaxRules] BY Zenon DEF ForEachRule
<1>5. \A r \in 0..MaxRules : F[r] = Step(F, r) BY <1>3, Zenon
<1> HIDE DEF F
<1>6. 0 \in 0..MaxRules /\ \A r \in RuleId : r \in 0..MaxRules /\ r # 0
  BY BoundAssumption DEF RuleId
<1>7. Runs(F, "enroll", d, R) BY <1>1, <1>5, <1>6, Zenon DEF Runs
<1> QED BY <1>4, <1>7

LEMMA ResumeLoop ==
    ASSUME NEW d, NEW R
    PROVE  \E f : /\ Runs(f, "resume", d, R)
                  /\ ForEachRule(d, R, ResumeOne) = f[MaxRules]
<1> DEFINE Step(f, r) ==
               IF r = 0 THEN d
               ELSE IF r \in R THEN ResumeOne(f[r - 1], r) ELSE f[r - 1]
           F == CHOOSE f : f = [r \in 0..MaxRules |-> Step(f, r)]
<1>1. \A x, r : Body("resume", x, r) = ResumeOne(x, r) BY Zenon DEF Body
<1>2. \E f : f = [r \in 0..MaxRules |-> Step(f, r)]
  <2>1. PICK f : Solution(f, "resume", d, R) BY LoopExists, Zenon
  <2>2. f = [r \in 0..MaxRules |-> Step(f, r)] BY <1>1, <2>1, Zenon DEF Solution
  <2> QED BY <2>2, Zenon
<1>3. F = [r \in 0..MaxRules |-> Step(F, r)] BY <1>2, Zenon
<1>4. ForEachRule(d, R, ResumeOne) = F[MaxRules] BY Zenon DEF ForEachRule
<1>5. \A r \in 0..MaxRules : F[r] = Step(F, r) BY <1>3, Zenon
<1> HIDE DEF F
<1>6. 0 \in 0..MaxRules /\ \A r \in RuleId : r \in 0..MaxRules /\ r # 0
  BY BoundAssumption DEF RuleId
<1>7. Runs(F, "resume", d, R) BY <1>1, <1>5, <1>6, Zenon DEF Runs
<1> QED BY <1>4, <1>7

(* A property of the tables after each rule, as a set of pairs, holds of   *)
(* the tables after the last one.                                          *)
LEMMA LoopInduction ==
    ASSUME NEW f, NEW I, <<0, f[0]>> \in I,
           \A r \in RuleId : <<r - 1, f[r - 1]>> \in I => <<r, f[r]>> \in I
    PROVE  <<MaxRules, f[MaxRules]>> \in I
<1> DEFINE N == {n \in Nat : n <= MaxRules => <<n, f[n]>> \in I}
<1>1. 0 \in N OBVIOUS
<1>2. ASSUME NEW n \in N PROVE n + 1 \in N
  <2> SUFFICES ASSUME n + 1 <= MaxRules PROVE <<n + 1, f[n + 1]>> \in I OBVIOUS
  <2>1. n + 1 \in RuleId /\ (n + 1) - 1 = n /\ n <= MaxRules BY BoundAssumption DEF RuleId
  <2>2. <<n, f[n]>> \in I BY <2>1
  <2> QED BY <2>1, <2>2
<1>3. N = Nat
  <2>1. N \in SUBSET Nat OBVIOUS
  <2> HIDE DEF N
  <2> QED BY <1>1, <1>2, <2>1, NatSetInduction, Zenon
<1> QED BY <1>3, BoundAssumption

-----------------------------------------------------------------------------
(* Reconciliation of one single-user rule. *)
PanelRows == traffics \in [Traffic -> Client \cup {NoRow}]

LEMMA FirstIn == ASSUME NEW S \in SUBSET Nat, S # {} PROVE First(S) \in S
BY NatLeast, Zenon DEF First

LEMMA ScopesAre ==
    ASSUME NEW d, NEW t, NEW r, NEW s
    PROVE  s \in ActiveScopesForTrafficExcept(d, t, r) <=>
              s \in RuleId /\ s # r /\ Owns(d, s, t) /\ d.rules[s].kind # "single"
BY OwnersAre DEF ActiveScopesForTrafficExcept

LEMMA PersistentAre ==
    ASSUME NEW d, NEW s
    PROVE  s \in ListActivePersistentScopes(d) <=>
              s \in RuleId /\ Scope(d, s) /\ Active(d, s)
BY DEF ListActivePersistentScopes, ListRulesInStates, Scope, Active, Exists

(* The rules a step leaves alone. *)
OnlyRule(d, x, r) ==
    /\ Exists(x, r) /\ x.rules[r].kind = d.rules[r].kind
    /\ \A q \in RuleId \ {r} :
          x.rules[q] = d.rules[q] /\ (Single(d, q) => x.rc[q] = d.rc[q])

(* No scope waits for the client of a single-user rule. *)
SettledAt(x, r, t) ==
    /\ traffics[t] \in Client /\ traffics[t].enabled
    /\ x.rc[r][t] = Tracked(traffics[t].email)
    /\ \A s \in RuleId :
          Scope(x, s) /\ Active(x, s) /\ x.rules[s].factor = x.rules[r].factor =>
             ~InScope(t, x.rules[s].inbound, x.rules[s].includeDisabled)

Settled(x, r) == Single(x, r) /\ Active(x, r) => \E t \in Traffic : SettledAt(x, r, t)

(* The step of rule r keeps everything, and settles the rule. *)
Reconciles(d, x, r) ==
    /\ Preserves(d, x) /\ OnlyRule(d, x, r)
    /\ Safe(d) => Keeps(d, x) /\ Settled(x, r)

LEMMA RetireReconciles ==
    ASSUME NEW d, Typed(d), NEW r \in RuleId, Single(d, r), Active(d, r),
           NEW state \in States \ {"active"}, state # "merged" \/ ~Safe(d)
    PROVE  Reconciles(d, SetRule(d, r, state), r)
<1> DEFINE x == SetRule(d, r, state)
<1>0. /\ d \in DB /\ Exists(d, r) /\ ~Merged(d, r) /\ state \in States /\ state # "active"
  BY DEF Typed, Single, Active, Merged
<1>1. Preserves(d, x) BY <1>0, RetireShrinks, ShrinksPreserves
<1>2. /\ x.rc = d.rc /\ Exists(x, r) /\ x.rules[r].kind = d.rules[r].kind
      /\ x.rules[r].state = state
      /\ \A q \in RuleId : q # r => x.rules[q] = d.rules[q]
  BY <1>0, SetRuleIs
<1>3. Safe(d) => Keeps(d, x) BY <1>0, RetireKeeps
<1> HIDE DEF x
<1>4. OnlyRule(d, x, r) BY <1>2 DEF OnlyRule
<1>5. Settled(x, r) BY <1>0, <1>2 DEF Settled, Active
<1> QED BY <1>1, <1>3, <1>4, <1>5 DEF Reconciles, x

LEMMA AdoptedReconciles ==
    ASSUME NEW d, Typed(d), NEW s \in RuleId, NEW r \in RuleId, NEW t \in Traffic,
           Scope(d, s), Active(d, s), Single(d, r), Active(d, r),
           d.rules[r].factor = d.rules[s].factor,
           d.rc[r][t] = Tracked(traffics[t].email), traffics[t] \in Client, ~Tracks(d, s, t)
    PROVE  Reconciles(d, Adopted(d, s, r, t), r)
<1> DEFINE x == Adopted(d, s, r, t)
<1>0. d \in DB /\ Exists(d, r) BY DEF Typed, Single
<1>1. Preserves(d, x) /\ Keeps(d, x) BY <1>0, AdoptedPreserves
<1>2. traffics[t].email \in Emails BY DEF Client
<1>3. Tracks(d, r, t) BY <1>2, TrackedType DEF Tracks
<1>4. /\ \A q \in RuleId : q # r => x.rules[q] = d.rules[q]
      /\ Exists(x, r) /\ x.rules[r].state = "merged"
      /\ x.rules[r].kind = d.rules[r].kind
      /\ \A q \in RuleId : q # s => x.rc[q] = d.rc[q]
  BY <1>0, <1>3, AdoptedIs
<1> HIDE DEF x
<1>5. ~Single(d, s) BY DEF Single, Scope
<1>6. OnlyRule(d, x, r) BY <1>4, <1>5 DEF OnlyRule
<1>7. Settled(x, r) BY <1>4 DEF Settled, Active
<1> QED BY <1>1, <1>6, <1>7 DEF Reconciles, x

LEMMA OwnerReconciles ==
    ASSUME PanelRows, NEW d, Typed(d), NEW r \in RuleId, NEW t \in Traffic,
           Single(d, r), Active(d, r), traffics[t] \in Client,
           d.rc[r][t] = Tracked(traffics[t].email)
    PROVE  Reconciles(d, ReconcileOwner(d, r, t), r)
<1> DEFINE scopes == CompatibleScopes(d, r, t)
<1>0. /\ d \in DB /\ Exists(d, r) /\ traffics[t].email \in Emails /\ traffics[t] # NoRow
      /\ d.rules[r].state = "active"
  BY NoRowAssumption DEF Typed, Single, Client, Active
<1>1. Tracks(d, r, t) /\ Owns(d, r, t) BY <1>0, TrackedType DEF Tracks, Owns
<1>2. RuleClients(d, r) = {t} BY <1>1, ClientsAre DEF Typed
<1>3. CASE scopes = {}
  <2>1. ReconcileOwner(d, r, t) =
          IF ~traffics[t].enabled \/ ActiveScopesForTrafficExcept(d, t, r) # {}
          THEN SetRule(d, r, "orphaned") ELSE d
    <3>1. d.rules[r].state # "merged" BY <1>0
    <3> QED BY <1>3, <3>1, Zenon DEF ReconcileOwner
  <2>2. CASE ~traffics[t].enabled \/ ActiveScopesForTrafficExcept(d, t, r) # {}
    <3>1. "orphaned" \in States \ {"active"} /\ "orphaned" # "merged" BY DEF States, Retired
    <3>2. Reconciles(d, SetRule(d, r, "orphaned"), r) BY <3>1, RetireReconciles
    <3> QED BY <2>1, <2>2, <3>2
  <2>3. CASE ~(~traffics[t].enabled \/ ActiveScopesForTrafficExcept(d, t, r) # {})
    <3>1. ASSUME Safe(d), NEW s \in RuleId, Scope(d, s), Active(d, s),
                 d.rules[s].factor = d.rules[r].factor,
                 InScope(t, d.rules[s].inbound, d.rules[s].includeDisabled)
          PROVE  FALSE
      <4>1. \A q \in RuleId : Owns(d, q, t) => q = r BY <1>1, <3>1 DEF Safe, Owned
      <4>2. ActiveScopesForTrafficExcept(d, t, s) = {} BY <4>1, ScopesAre DEF Single
      <4>3. s \in ListActivePersistentScopes(d) BY <3>1, PersistentAre
      <4>4. s \in scopes BY <3>1, <4>2, <4>3 DEF CompatibleScopes
      <4> QED BY <1>3, <4>4
    <3>2. Safe(d) => SettledAt(d, r, t) BY <2>3, <3>1 DEF SettledAt
    <3>3. Safe(d) => Settled(d, r) BY <3>2 DEF Settled
    <3>4. OnlyRule(d, d, r) BY <1>0 DEF OnlyRule
    <3>5. Reconciles(d, d, r) BY <3>3, <3>4, PreservesSelf, KeepsSelf DEF Reconciles
    <3> QED BY <2>1, <2>3, <3>5
  <2> QED BY <2>2, <2>3
<1>4. CASE scopes # {}
  <2> DEFINE s == First(scopes)
             settled == AdoptOrSupersede(d, s, r, t)
  <2>1. s \in scopes
    <3>1. scopes \in SUBSET Nat
      BY PersistentAre, BoundAssumption DEF CompatibleScopes, RuleId
    <3> HIDE DEF scopes
    <3> QED BY <1>4, <3>1, FirstIn
  <2>2. /\ s \in RuleId /\ Scope(d, s) /\ Active(d, s)
        /\ d.rules[s].factor = d.rules[r].factor
        /\ InScope(t, d.rules[s].inbound, d.rules[s].includeDisabled)
        /\ ActiveScopesForTrafficExcept(d, t, s) = {}
    BY <2>1, PersistentAre DEF CompatibleScopes
  <2> HIDE DEF s
  <2>3. settled.rules[r].state = "merged" /\ Reconciles(d, settled, r)
    <3>1. CASE d.rc[s][t] # NoRow
      <4>1. settled = SetRule(d, r, "merged") BY <3>1, Zenon DEF AdoptOrSupersede
      <4>2. ~Safe(d)
        <5>1. Owns(d, s, t) BY <2>2, <3>1 DEF Owns, Active, Tracks
        <5>2. s # r BY <2>2 DEF Scope, Single
        <5> QED BY <1>1, <2>2, <5>1, <5>2 DEF Safe, Owned
      <4>3. "merged" \in States \ {"active"} /\ "merged" \in States BY DEF States, Retired
      <4>4. Reconciles(d, SetRule(d, r, "merged"), r) BY <4>2, <4>3, RetireReconciles
      <4>5. SetRule(d, r, "merged").rules[r].state = "merged" BY <1>0, <4>3, SetRuleIs
      <4> QED BY <4>1, <4>4, <4>5
    <3>2. CASE d.rc[s][t] = NoRow
      <4>1. settled = AdoptSingleRuleIntoScope(d, s, r, t)
        BY <3>2, Zenon DEF AdoptOrSupersede
      <4>2. Adoptable(d, s, r, t) BY <2>2 DEF Adoptable, InScope
      <4>3. AdoptIdentity(d, r, t) BY <1>2 DEF AdoptIdentity
      <4>4. AdoptSingleRuleIntoScope(d, s, r, t) = Adopted(d, s, r, t)
        BY <1>2, <2>2, <4>2, <4>3, Zenon DEF AdoptSingleRuleIntoScope, Adopted, Put
      <4>5. Reconciles(d, Adopted(d, s, r, t), r)
        BY <2>2, <3>2, AdoptedReconciles DEF Tracks
      <4>6. Adopted(d, s, r, t).rules[r].state = "merged" BY <1>0, <1>1, <2>2, AdoptedIs
      <4> QED BY <4>1, <4>4, <4>5, <4>6
    <3> QED BY <3>1, <3>2
  <2>4. ReconcileOwner(d, r, t) = settled
    <3> HIDE DEF settled
    <3>1. CompatibleScopes(d, r, t) # {} BY <1>4
    <3>2. settled = AdoptOrSupersede(d, First(CompatibleScopes(d, r, t)), r, t)
      BY DEF settled, s
    <3> QED BY <2>3, <3>1, <3>2, Zenon DEF ReconcileOwner
  <2> QED BY <2>3, <2>4
<1> QED BY <1>3, <1>4

LEMMA FoundByEmail ==
    ASSUME NEW e, ClientTrafficByEmail(e) # NoRow
    PROVE  ClientTrafficByEmail(e) \in Traffic /\ Matches(ClientTrafficByEmail(e), e)
BY Zenon DEF ClientTrafficByEmail

LEMMA MatchesIs ==
    ASSUME PanelRows, NEW t \in Traffic, NEW e, Matches(t, e)
    PROVE  traffics[t] \in Client /\ traffics[t] # NoRow /\ traffics[t].email = e /\ e \in Emails
BY DEF PanelRows, Matches, Client

(* The row of the rule's client is written first. *)
LEMMA ReconcilesAfter ==
    ASSUME NEW d, NEW y, NEW x, NEW r \in RuleId, Preserves(d, y), y.rules = d.rules,
           \A q \in RuleId : q # r => y.rc[q] = d.rc[q],
           Safe(d) => Keeps(d, y), Reconciles(y, x, r)
    PROVE  Reconciles(d, x, r)
<1>1. Preserves(d, x) BY PreservesTrans DEF Reconciles
<1>2. Safe(d) => Safe(y) BY DEF Preserves, Kept
<1>3. Safe(d) => Keeps(d, x) /\ Settled(x, r) BY <1>2, KeepsTrans DEF Reconciles
<1>4. \A q \in RuleId : Single(d, q) <=> Single(y, q) BY DEF Single, Exists
<1>5. OnlyRule(d, x, r) BY <1>4 DEF Reconciles, OnlyRule
<1> QED BY <1>1, <1>3, <1>5 DEF Reconciles

(* The rule of a deleted client is relinked to the row of its email. *)
LEMMA RelinkIs ==
    ASSUME PanelRows, NEW d, Typed(d), NEW r \in RuleId, NEW t \in Traffic, NEW u \in Traffic,
           Single(d, r), Active(d, r), Tracks(d, r, t), traffics[t] = NoRow,
           Matches(u, d.rc[r][t].email)
    PROVE  LET y == Relink(d, r, t, u)
           IN  /\ Kept(d, y) /\ Keeps(d, y) /\ y.rules = d.rules
               /\ Returns(d, r, u) /\ \A v \in Traffic : Tracks(y, r, v) => v = u
               /\ \A q \in RuleId : q # r => y.rc[q] = d.rc[q]
               /\ y.rc[r][u] = Tracked(traffics[u].email)
<1> DEFINE e == d.rc[r][t].email
           m == [d.rc[r] EXCEPT ![t] = NoRow, ![u] = Tracked(e)]
           y == Relink(d, r, t, u)
<1>0. d \in DB /\ t # u /\ traffics[u].email = e /\ e \in Emails
  BY MatchesIs DEF Typed, Matches
<1>1. Tracked(e) \in RuleClient /\ Tracked(e) # NoRow BY <1>0, TrackedType
<1>2. d.rc[r] \in ClientRows BY <1>0, DBParts DEF ClientRows
<1>3. /\ m \in ClientRows /\ m[t] = NoRow /\ m[u] = Tracked(e)
      /\ \A v \in Traffic : v # t /\ v # u => m[v] = d.rc[r][v]
  BY <1>0, <1>1, <1>2 DEF ClientRows
<1>4. y = [d EXCEPT !.rc[r] = m] BY <1>0, DBParts DEF Relink
<1> HIDE DEF m, y
<1>5. /\ y \in DB /\ y.rules = d.rules /\ y.next = d.next
      /\ y.rc[r] = m /\ \A q \in RuleId : q # r => y.rc[q] = d.rc[q]
  BY <1>0, <1>3, <1>4, PutRowsIs
<1>6. \A q \in RuleId : (Exists(y, q) <=> Exists(d, q)) /\ (Single(y, q) <=> Single(d, q))
  BY <1>5 DEF Exists, Single
<1>7. \A v \in Traffic : Tracks(y, r, v) => v = u
  <2>1. \A v \in Traffic : Tracks(d, r, v) => v = t BY DEF Typed
  <2> QED BY <1>3, <1>5, <2>1 DEF Tracks
<1>8. \A q \in RuleId, v \in Traffic : q # r => (Tracks(y, q, v) <=> Tracks(d, q, v))
  BY <1>5 DEF Tracks
<1>9. Typed(y)
  <2>1. \A q \in RuleId, v \in Traffic : Tracks(y, q, v) => Exists(y, q)
    BY <1>6, <1>8 DEF Typed, Single
  <2>2. \A q \in RuleId, v, w \in Traffic :
           Single(y, q) /\ Tracks(y, q, v) /\ Tracks(y, q, w) => v = w
    BY <1>6, <1>7, <1>8 DEF Typed
  <2> QED BY <1>5, <1>6, <2>1, <2>2 DEF Typed
<1>10. ~NoneLost(d) BY DEF NoneLost
<1>11. Enabled(d) => Enabled(y) BY <1>6 DEF Enabled
<1>12. y.rc[r][u] = Tracked(traffics[u].email) BY <1>0, <1>3, <1>5
<1>13. Returns(d, r, u) BY DEF Returns, Active
<1>14. Keeps(d, y)
  <2>1. \A q \in RuleId : Scope(d, q) \/ Merged(d, q) => q # r
    BY DEF Scope, Single, Merged, Active
  <2>2. \A q \in RuleId : Merged(y, q) <=> Merged(d, q) BY <1>5 DEF Merged, Exists
  <2>3. \A q \in RuleId : q # r => y.rc[q] = d.rc[q] BY <1>5
  <2> QED BY <1>5, <1>6, <1>8, <2>1, <2>2, <2>3 DEF Keeps
<1> QED BY <1>5, <1>7, <1>9, <1>10, <1>11, <1>12, <1>13, <1>14 DEF Kept, y

(* On a row that nobody owns the relinked rule is safe. *)
LEMMA RelinkSafe ==
    ASSUME PanelRows, NEW d, NEW y, NEW r \in RuleId, NEW u \in Traffic,
           traffics[u] # NoRow, Returns(d, r, u), y.rules = d.rules,
           \A q \in RuleId : q # r => y.rc[q] = d.rc[q],
           \A v \in Traffic : Tracks(y, r, v) => v = u,
           \A q \in RuleId : Owns(d, q, u) => q = r,
           Safe(d)
    PROVE  Safe(y)
<1>1. \A q \in RuleId : q # r => \A v \in Traffic :
         /\ Owns(y, q, v) <=> Owns(d, q, v)
         /\ Returns(y, q, v) <=> Returns(d, q, v)
         /\ Single(y, q) <=> Single(d, q)
  <2> TAKE q \in RuleId
  <2>1. q # r => y.rc[q] = d.rc[q] OBVIOUS
  <2> QED BY <2>1 DEF Owns, Returns, Single, Exists, Tracks
<1>2. \A v \in Traffic : ~Returns(y, r, v) BY DEF Returns
<1>3. \A v \in Traffic : Owns(y, r, v) => v = u BY DEF Owns
<1>4. Owned(y) BY <1>1, <1>3 DEF Owned, Safe
<1>5. \A q \in RuleId : q # r => ~Returns(d, q, u) BY DEF Safe, Clear
<1>6. Clear(y)
  <2> SUFFICES ASSUME NEW v \in Traffic, NEW p \in RuleId, NEW q \in RuleId, p # q,
                      Returns(y, p, v)
               PROVE  /\ ~Returns(y, q, v)
                      /\ Owns(y, q, v) => ~Single(y, q) /\ Matches(v, y.rc[q][v].email)
    BY DEF Clear
  <2>1. p # r /\ Returns(d, p, v) BY <1>1, <1>2
  <2>2. CASE q = r BY <1>2, <1>3, <1>5, <2>1, <2>2
  <2>3. CASE q # r
    <3>1. y.rc[q] = d.rc[q] BY <2>3
    <3> QED BY <1>1, <2>1, <2>3, <3>1 DEF Safe, Clear
  <2> QED BY <2>2, <2>3
<1> QED BY <1>4, <1>6 DEF Safe

(* On a row that a scope or snapshot owns it is merged or orphaned. *)
LEMMA RelinkGivesWay ==
    ASSUME PanelRows, NEW d, Typed(d), Safe(d), NEW r \in RuleId, NEW u \in Traffic, NEW y,
           Single(d, r), Active(d, r), Returns(d, r, u), traffics[u] \in Client,
           Kept(d, y), Keeps(d, y), y.rules = d.rules,
           \A q \in RuleId : q # r => y.rc[q] = d.rc[q],
           \A v \in Traffic : Tracks(y, r, v) => v = u,
           NEW s \in RuleId, s # r, Owns(d, s, u)
    PROVE  Reconciles(d, ReconcileOwner(y, r, u), r)
<1> DEFINE scopes == CompatibleScopes(y, r, u)
<1>0. /\ d \in DB /\ Typed(y) /\ y \in DB /\ Exists(y, r) /\ y.rules[r].state = "active"
      /\ y.rules[r].kind = "single"
  BY DEF Kept, Typed, Single, Active, Exists
<1>1. ~Single(d, s) /\ Matches(u, d.rc[s][u].email) BY DEF Safe, Clear
<1>2. Owns(y, s, u) /\ y.rules[s].kind # "single" /\ y.rc[s] = d.rc[s]
  BY <1>1 DEF Owns, Single, Exists, Tracks
<1>3. \E state \in {"merged", "orphaned"} :
         /\ ReconcileOwner(y, r, u) = SetRule(y, r, state)
         /\ state = "merged" => Scope(d, s) /\ d.rules[s].factor = d.rules[r].factor
  <2>1. CASE scopes = {}
    <3>1. s \in ActiveScopesForTrafficExcept(y, u, r) BY <1>2, ScopesAre
    <3>2. y.rules[r].state # "merged" BY <1>0
    <3>3. ActiveScopesForTrafficExcept(y, u, r) # {} BY <3>1
    <3>4. ReconcileOwner(y, r, u) = SetRule(y, r, "orphaned")
      BY <2>1, <3>2, <3>3, Zenon DEF ReconcileOwner
    <3> QED BY <3>4
  <2>2. CASE scopes # {}
    <3> DEFINE p == First(scopes)
    <3>1. p \in scopes
      <4>1. scopes \in SUBSET Nat
        BY PersistentAre, BoundAssumption DEF CompatibleScopes, RuleId
      <4> HIDE DEF scopes
      <4> QED BY <2>2, <4>1, FirstIn
    <3>2. /\ p \in RuleId /\ Scope(y, p) /\ y.rules[p].factor = y.rules[r].factor
          /\ ActiveScopesForTrafficExcept(y, u, p) = {}
      BY <3>1, PersistentAre DEF CompatibleScopes
    <3>3. p = s
      <4> HIDE DEF p
      <4>1. s # p => s \in ActiveScopesForTrafficExcept(y, u, p) BY <1>2, ScopesAre
      <4> QED BY <3>2, <4>1
    <3>4. y.rc[s][u] # NoRow BY <1>2 DEF Owns, Tracks
    <3>5. AdoptOrSupersede(y, s, r, u) = SetRule(y, r, "merged")
      BY <3>4, Zenon DEF AdoptOrSupersede
    <3>6. SetRule(y, r, "merged").rules[r].state = "merged"
      <4>1. "merged" \in States BY DEF States, Retired
      <4> QED BY <1>0, <4>1, SetRuleIs
    <3>7. ReconcileOwner(y, r, u) = SetRule(y, r, "merged")
      BY <2>2, <3>3, <3>5, <3>6, Zenon DEF ReconcileOwner
    <3>8. Scope(d, s) /\ d.rules[s].factor = d.rules[r].factor
      <4> HIDE DEF p
      <4> QED BY <3>2, <3>3 DEF Scope, Exists
    <3> QED BY <3>7, <3>8
  <2> QED BY <2>1, <2>2
<1>4. PICK state \in {"merged", "orphaned"} :
         /\ ReconcileOwner(y, r, u) = SetRule(y, r, state)
         /\ state = "merged" => Scope(d, s) /\ d.rules[s].factor = d.rules[r].factor
  BY <1>3
<1> DEFINE x == SetRule(y, r, state)
<1>5. state \in States \ {"active"} /\ state \in States /\ state # "active"
  BY DEF States, Retired
<1>6. /\ x.rc = y.rc /\ x.next = y.next /\ Exists(x, r) /\ x.rules[r].state = state
      /\ x.rules[r].kind = y.rules[r].kind /\ x.rules[r].factor = y.rules[r].factor
      /\ \A q \in RuleId : q # r => x.rules[q] = y.rules[q]
  BY <1>0, <1>5, SetRuleIs
<1>7. Kept(d, x)
  <2>1. Kept(y, x) BY <1>0, <1>5, RetireShrinks, ShrinksPreserves DEF Preserves
  <2> HIDE DEF x
  <2> QED BY <2>1 DEF Kept
<1> HIDE DEF x
<1>8. ASSUME NEW q \in RuleId, q # r
      PROVE  /\ x.rules[q] = d.rules[q] /\ x.rc[q] = d.rc[q]
             /\ Merged(x, q) <=> Merged(d, q)
             /\ \A v \in Traffic : (Owns(x, q, v) <=> Owns(d, q, v))
                                   /\ (Returns(x, q, v) <=> Returns(d, q, v))
             /\ Single(x, q) <=> Single(d, q)
  <2>1. x.rules[q] = d.rules[q] /\ x.rc[q] = d.rc[q] BY <1>6, <1>8
  <2> QED BY <2>1 DEF Owns, Returns, Single, Exists, Tracks, Merged
<1>9. \A v \in Traffic : ~Owns(x, r, v) /\ ~Returns(x, r, v) BY <1>5, <1>6 DEF Owns, Returns
<1>10. Safe(x)
  <2>1. Owned(x) BY <1>8, <1>9 DEF Owned, Safe
  <2>2. Clear(x)
    <3> SUFFICES ASSUME NEW v \in Traffic, NEW p \in RuleId, NEW q \in RuleId, p # q,
                        Returns(x, p, v)
                 PROVE  /\ ~Returns(x, q, v)
                        /\ Owns(x, q, v) => ~Single(x, q) /\ Matches(v, x.rc[q][v].email)
      BY DEF Clear
    <3>1. p # r /\ Returns(d, p, v) BY <1>8, <1>9
    <3>2. CASE q = r BY <1>9, <3>2
    <3>3. CASE q # r
      <4>1. x.rc[q] = d.rc[q] BY <1>8, <3>3
      <4> QED BY <1>8, <3>1, <3>3, <4>1 DEF Safe, Clear
    <3> QED BY <3>2, <3>3
  <2> QED BY <2>1, <2>2 DEF Safe
<1>11. Settled(x, r) BY <1>5, <1>6 DEF Settled, Active
<1>12. OnlyRule(d, x, r) BY <1>6, <1>8 DEF OnlyRule
<1>13. Keeps(y, x)
  <2>1. CASE state = "orphaned"
    <3>1. Single(y, r) /\ ~Merged(y, r) /\ state \in States \ {"merged"}
      BY <1>0, <1>5, <2>1 DEF Single, Merged
    <3> QED BY <1>0, <3>1, RetireKeeps DEF x
  <2>2. CASE state = "merged"
    <3>1. \A q \in RuleId : Scope(y, q) => q # r BY <1>0 DEF Scope
    <3>2. \A q \in RuleId : Scope(y, q) => x.rules[q] = y.rules[q] BY <1>6, <3>1
    <3>3. \A q \in RuleId, v \in Traffic : Tracks(x, q, v) <=> Tracks(y, q, v)
      BY <1>6 DEF Tracks
    <3>4. ASSUME NEW q \in RuleId, Exists(y, q)
          PROVE  Exists(x, q) /\ x.rules[q].factor = y.rules[q].factor
      <4>1. CASE q = r BY <1>6, <4>1
      <4>2. CASE q # r
        <5>1. x.rules[q] = y.rules[q] BY <1>6, <4>2
        <5> QED BY <3>4, <5>1 DEF Exists
      <4> QED BY <4>1, <4>2
    <3>5. ~Merged(y, r) BY <1>0 DEF Merged
    <3>6. \A q \in RuleId : q # r => (Merged(x, q) <=> Merged(y, q))
      <4> TAKE q \in RuleId
      <4>1. q # r => x.rules[q] = y.rules[q] BY <1>6
      <4> QED BY <4>1 DEF Merged, Exists
    <3>7. ASSUME NEW v \in Traffic, Tracks(x, r, v) PROVE InActiveScope(x, r, v)
      <4>1. v = u BY <3>3, <3>7
      <4>2. x.rules[s] = d.rules[s] /\ x.rc[s] = d.rc[s] BY <1>8
      <4>3. Scope(x, s) /\ x.rules[s].state = "active"
        BY <1>4, <2>2, <4>2 DEF Scope, Exists, Owns
      <4>4. x.rules[s].factor = x.rules[r].factor BY <1>4, <1>6, <2>2, <4>2
      <4>5. Covers(x, s, u) BY <1>1, <4>2 DEF Covers, Owns, Tracks
      <4> QED BY <4>1, <4>3, <4>4, <4>5 DEF InActiveScope
    <3> QED BY <1>6, <3>2, <3>3, <3>4, <3>5, <3>6, <3>7 DEF Keeps
  <2> QED BY <2>1, <2>2
<1>14. Keeps(d, x) BY <1>13, KeepsTrans
<1>15. Preserves(d, x) BY <1>7, <1>10 DEF Preserves
<1> QED BY <1>4, <1>11, <1>12, <1>14, <1>15 DEF Reconciles, x

(* ReconcileTx for one rule, whatever has become of its client. *)
LEMMA RuleReconciles ==
    ASSUME PanelRows, NEW d, Typed(d), NEW r \in RuleId, Single(d, r), Active(d, r)
    PROVE  Reconciles(d, ReconcileSingleRule(d, r), r)
<1>0. d \in DB /\ Exists(d, r) BY DEF Typed, Single
<1>o. "orphaned" \in States \ {"active"} /\ "orphaned" # "merged" BY DEF States, Retired
<1>1. CASE Cardinality(RuleClients(d, r)) # 1
  <2>1. ReconcileSingleRule(d, r) = SetRule(d, r, "orphaned")
    BY <1>1, Zenon DEF ReconcileSingleRule
  <2> QED BY <1>o, <2>1, RetireReconciles
<1>2. CASE Cardinality(RuleClients(d, r)) = 1
  <2> DEFINE t == CHOOSE t \in Traffic : d.rc[r][t] # NoRow
             e == d.rc[r][t].email
             u == ClientTrafficByEmail(e)
  <2>1. \E v \in Traffic : d.rc[r][v] # NoRow
    <3>1. RuleClients(d, r) # {} BY <1>2, FS_EmptySet
    <3> QED BY <3>1 DEF RuleClients
  <2>2. t \in Traffic /\ Tracks(d, r, t) BY <2>1, Zenon DEF Tracks
  <2>3. ReconcileSingleRule(d, r) =
          CASE Matches(t, e) -> ReconcileOwner(Put(d, r, t, Tracked(e)), r, t)
            [] traffics[t] = NoRow /\ u # NoRow -> ReconcileOwner(Relink(d, r, t, u), r, u)
            [] OTHER -> SetRule(Put(d, r, t, MarkMissing(d.rc[r][t])), r, "orphaned")
    BY <1>2, Zenon DEF ReconcileSingleRule, Put
  <2> HIDE DEF t
  <2>4. d.rc[r][t] \in RuleClient BY <1>0, <2>2, RowTypes
  <2>5. e \in Emails BY <2>4, ClientFields
  <2>6. CASE Matches(t, e)
    <3> DEFINE c == Tracked(e)
               y == Put(d, r, t, c)
    <3>1. ReconcileSingleRule(d, r) = ReconcileOwner(y, r, t)
      <4>1. ~(traffics[t] = NoRow /\ u # NoRow) BY <2>6 DEF Matches
      <4> QED BY <2>3, <2>6, <4>1, Zenon
    <3>2. c \in RuleClient /\ c.email = e BY <2>5, TrackedType
    <3> HIDE DEF c
    <3>3. /\ y.rules = d.rules /\ y.rc[r][t] = c
          /\ \A q \in RuleId : q # r => y.rc[q] = d.rc[q]
      BY <1>0, <2>2, <3>2, PutIs
    <3>4. Preserves(d, y) BY <1>0, <2>2, <3>2, RewriteShrinks, ShrinksPreserves
    <3>5. Keeps(d, y) BY <1>0, <2>2, <3>2, RewriteKeeps
    <3> HIDE DEF y
    <3>6. Typed(y) /\ Single(y, r) /\ Active(y, r)
      BY <3>3, <3>4 DEF Preserves, Kept, Single, Active, Exists
    <3>7. traffics[t] \in Client /\ traffics[t].email = e BY <2>2, <2>6, MatchesIs
    <3>8. Reconciles(y, ReconcileOwner(y, r, t), r)
      BY <2>2, <3>3, <3>6, <3>7, OwnerReconciles DEF c
    <3> QED BY <3>1, <3>3, <3>4, <3>5, <3>8, ReconcilesAfter
  <2>7. CASE ~Matches(t, e) /\ traffics[t] = NoRow /\ u # NoRow
    <3> DEFINE y == Relink(d, r, t, u)
    <3>1. ReconcileSingleRule(d, r) = ReconcileOwner(y, r, u) BY <2>3, <2>7, Zenon
    <3>2. u \in Traffic /\ Matches(u, e) BY <2>7, FoundByEmail
    <3> HIDE DEF u
    <3>3. /\ Kept(d, y) /\ Keeps(d, y) /\ y.rules = d.rules
          /\ Returns(d, r, u) /\ \A v \in Traffic : Tracks(y, r, v) => v = u
          /\ \A q \in RuleId : q # r => y.rc[q] = d.rc[q]
          /\ y.rc[r][u] = Tracked(traffics[u].email)
      BY <2>2, <2>7, <3>2, RelinkIs
    <3> HIDE DEF y
    <3>4. Typed(y) /\ Single(y, r) /\ Active(y, r)
      BY <3>3 DEF Kept, Single, Active, Exists
    <3>5. traffics[u] \in Client /\ traffics[u] # NoRow BY <3>2, MatchesIs
    <3>6. CASE Safe(d) /\ \E s \in RuleId : s # r /\ Owns(d, s, u)
      <4>1. PICK s \in RuleId : s # r /\ Owns(d, s, u) BY <3>6
      <4> QED BY <3>1, <3>2, <3>3, <3>5, <3>6, <4>1, RelinkGivesWay
    <3>7. CASE ~(Safe(d) /\ \E s \in RuleId : s # r /\ Owns(d, s, u))
      <4>1. Safe(d) => Safe(y) BY <3>2, <3>3, <3>5, <3>7, RelinkSafe
      <4>2. Preserves(d, y) BY <3>3, <4>1 DEF Preserves
      <4>3. Reconciles(y, ReconcileOwner(y, r, u), r)
        BY <3>2, <3>3, <3>4, <3>5, OwnerReconciles
      <4> QED BY <3>1, <3>3, <4>2, <4>3, ReconcilesAfter
    <3> QED BY <3>6, <3>7
  <2>8. CASE ~Matches(t, e) /\ ~(traffics[t] = NoRow /\ u # NoRow)
    <3> DEFINE c == MarkMissing(d.rc[r][t])
               y == Put(d, r, t, c)
    <3>1. ReconcileSingleRule(d, r) = SetRule(y, r, "orphaned")
      BY <2>3, <2>8, Zenon
    <3>2. c \in RuleClient /\ c.email = e BY <2>4, ClientFields
    <3> HIDE DEF c
    <3>3. /\ y.rules = d.rules /\ \A q \in RuleId : q # r => y.rc[q] = d.rc[q]
      BY <1>0, <2>2, <3>2, PutIs
    <3>4. Preserves(d, y) BY <1>0, <2>2, <3>2, RewriteShrinks, ShrinksPreserves
    <3>5. Keeps(d, y) BY <1>0, <2>2, <3>2, RewriteKeeps
    <3> HIDE DEF y
    <3>6. Typed(y) /\ Single(y, r) /\ Active(y, r)
      BY <3>3, <3>4 DEF Preserves, Kept, Single, Active, Exists
    <3>7. Reconciles(y, SetRule(y, r, "orphaned"), r) BY <1>o, <3>6, RetireReconciles
    <3> QED BY <3>1, <3>3, <3>4, <3>5, <3>7, ReconcilesAfter
  <2> QED BY <2>6, <2>7, <2>8
<1> QED BY <1>1, <1>2

(* The steps of other rules leave a settled rule settled. *)
LEMMA SettledStays ==
    ASSUME NEW x, NEW y, NEW r \in RuleId, NEW q \in RuleId, q # r,
           Single(x, r), OnlyRule(x, y, r), Settled(x, q)
    PROVE  Settled(y, q)
<1> SUFFICES ASSUME Single(y, q), Active(y, q) PROVE \E t \in Traffic : SettledAt(y, q, t)
  BY DEF Settled
<1>1. y.rules[q] = x.rules[q] BY DEF OnlyRule
<1>2. Single(x, q) /\ Active(x, q) BY <1>1 DEF Single, Active, Exists
<1>3. PICK t \in Traffic : SettledAt(x, q, t) BY <1>2 DEF Settled
<1>4. y.rc[q] = x.rc[q] BY <1>2 DEF OnlyRule
<1>5. ASSUME NEW s \in RuleId, Scope(y, s), Active(y, s)
      PROVE  /\ y.rules[s] = x.rules[s] /\ Scope(x, s) /\ Active(x, s)
  <2>1. s # r BY <1>5 DEF OnlyRule, Scope, Single
  <2>2. y.rules[s] = x.rules[s] BY <2>1 DEF OnlyRule
  <2> QED BY <1>5, <2>2 DEF Scope, Active, Exists
<1>6. SettledAt(y, q, t) BY <1>1, <1>3, <1>4, <1>5 DEF SettledAt
<1> QED BY <1>6

(* After the rules up to n, of those in R, have been reconciled. *)
ReconciledUpTo(d, R, n, x) ==
    /\ Preserves(d, x)
    /\ \A q \in RuleId : q > n \/ q \notin R => x.rules[q] = d.rules[q]
    /\ Safe(d) => Keeps(d, x) /\ \A q \in R : q <= n => Settled(x, q)

LEMMA ReconcileTxIs ==
    ASSUME PanelRows, NEW d, Typed(d), NEW i
    PROVE  LET x == ReconcileTx(d, i)
           IN  /\ Preserves(d, x)
               /\ Safe(d) => Keeps(d, x)
               /\ Safe(d) /\ i = NoRow => \A r \in RuleId : Settled(x, r)
<1> DEFINE R == {r \in ListRulesInStates(d, i, {"active"}) : d.rules[r].kind = "single"}
<1>1. \A r \in R : r \in RuleId /\ Single(d, r) /\ Active(d, r)
  BY DEF ListRulesInStates, Single, Active, Exists
<1>2. i = NoRow => \A r \in RuleId : Single(d, r) /\ Active(d, r) => r \in R
  BY DEF ListRulesInStates, Single, Active, Exists
<1> HIDE DEF R
<1>3. PICK f : /\ Runs(f, "reconcile", d, R)
               /\ ForEachRule(d, R, ReconcileSingleRule) = f[MaxRules]
  BY ReconcileLoop
<1>4. ReconcileTx(d, i) = f[MaxRules] BY <1>3 DEF ReconcileTx, R
<1> DEFINE Ok(n, x) == ReconciledUpTo(d, R, n, x)
           Values == {f[n] : n \in 0..MaxRules}
           I == {p \in (0..MaxRules) \X Values : Ok(p[1], p[2])}
<1>5. \A n \in 0..MaxRules : <<n, f[n]>> \in I <=> Ok(n, f[n]) OBVIOUS
<1>6. 0 \in 0..MaxRules /\ MaxRules \in 0..MaxRules /\ \A r \in RuleId :
          /\ r \in 0..MaxRules /\ r - 1 \in 0..MaxRules
          /\ r > r - 1 /\ r > 0 /\ r <= MaxRules
  BY BoundAssumption DEF RuleId
<1> HIDE DEF I
<1>7. <<0, f[0]>> \in I
  <2>1. f[0] = d BY <1>3 DEF Runs
  <2>2. ASSUME NEW q \in R, q <= 0 PROVE FALSE
    BY <1>1, <1>6, <2>2, BoundAssumption DEF RuleId
  <2>3. Ok(0, d) BY <2>2, PreservesSelf, KeepsSelf DEF ReconciledUpTo
  <2> QED BY <1>5, <1>6, <2>1, <2>3
<1>8. ASSUME NEW r \in RuleId, <<r - 1, f[r - 1]>> \in I PROVE <<r, f[r]>> \in I
  <2> DEFINE x == f[r - 1]
             y == f[r]
  <2>1. Ok(r - 1, x) BY <1>5, <1>6, <1>8
  <2>2. y = IF r \in R THEN ReconcileSingleRule(x, r) ELSE x
    <3>1. Body("reconcile", x, r) = ReconcileSingleRule(x, r) BY Zenon DEF Body
    <3> QED BY <1>3, <3>1 DEF Runs
  <2> HIDE DEF x, y
  <2>3. Ok(r, y)
    <3>1. \A q \in RuleId : q <= r => q = r \/ q <= r - 1 BY DEF RuleId
    <3>2. \A q \in RuleId : q > r => q > r - 1 /\ q # r BY DEF RuleId
    <3>3. r > r - 1 BY <1>6
    <3>4. CASE r \notin R
      <4>1. y = x BY <2>2, <3>4
      <4>2. \A q \in R : q <= r => q <= r - 1 BY <1>1, <3>1, <3>4
      <4> QED BY <2>1, <3>2, <4>1, <4>2 DEF ReconciledUpTo
    <3>5. CASE r \in R
      <4>1. x.rules[r] = d.rules[r] BY <2>1, <3>3 DEF ReconciledUpTo
      <4>2. Typed(x) /\ Single(x, r) /\ Active(x, r)
        BY <1>1, <2>1, <3>5, <4>1 DEF ReconciledUpTo, Preserves, Kept, Single, Active, Exists
      <4>3. Reconciles(x, y, r) BY <2>2, <3>5, <4>2, RuleReconciles
      <4>4. Preserves(d, y) BY <2>1, <4>3, PreservesTrans DEF ReconciledUpTo, Reconciles
      <4>5. ASSUME NEW q \in RuleId, q > r \/ q \notin R PROVE y.rules[q] = d.rules[q]
        <5>1. q # r /\ (q > r - 1 \/ q \notin R) BY <3>2, <3>5, <4>5
        <5>2. y.rules[q] = x.rules[q] BY <4>3, <5>1 DEF Reconciles, OnlyRule
        <5> QED BY <2>1, <5>1, <5>2 DEF ReconciledUpTo
      <4>6. ASSUME Safe(d) PROVE Keeps(d, y) /\ \A q \in R : q <= r => Settled(y, q)
        <5>1. Safe(x) /\ Keeps(d, x) /\ \A q \in R : q <= r - 1 => Settled(x, q)
          BY <2>1, <4>6 DEF ReconciledUpTo, Preserves, Kept
        <5>2. Keeps(d, y) BY <4>3, <5>1, KeepsTrans DEF Reconciles
        <5>3. ASSUME NEW q \in R, q <= r PROVE Settled(y, q)
          <6>1. CASE q = r BY <4>3, <5>1, <6>1 DEF Reconciles
          <6>2. CASE q # r
            <7>1. q \in RuleId /\ Settled(x, q) BY <1>1, <3>1, <5>1, <5>3, <6>2
            <7> QED BY <4>2, <4>3, <6>2, <7>1, SettledStays DEF Reconciles
          <6> QED BY <6>1, <6>2
        <5> QED BY <5>2, <5>3
      <4> QED BY <4>4, <4>5, <4>6 DEF ReconciledUpTo
    <3> QED BY <3>4, <3>5
  <2> QED BY <1>5, <1>6, <2>3 DEF y
<1>9. <<MaxRules, f[MaxRules]>> \in I BY <1>7, <1>8, LoopInduction
<1> DEFINE x == f[MaxRules]
<1>10. Ok(MaxRules, x) BY <1>5, <1>6, <1>9
<1> HIDE DEF x
<1>11. ASSUME Safe(d), i = NoRow, NEW r \in RuleId PROVE Settled(x, r)
  <2>1. CASE r \in R BY <1>6, <1>10, <1>11, <2>1 DEF ReconciledUpTo
  <2>2. CASE r \notin R
    <3>1. x.rules[r] = d.rules[r] BY <1>10, <2>2 DEF ReconciledUpTo
    <3>2. ~(Single(x, r) /\ Active(x, r))
      BY <1>2, <1>11, <2>2, <3>1 DEF Single, Active, Exists
    <3> QED BY <3>2 DEF Settled
  <2> QED BY <2>1, <2>2
<1> QED BY <1>4, <1>10, <1>11 DEF ReconciledUpTo, x

-----------------------------------------------------------------------------
(* Rule r gets clients nobody else owns. *)
Grows(d, x, r) ==
    /\ x \in DB /\ x.rules = d.rules /\ x.next = d.next
    /\ \A q \in RuleId : q # r => x.rc[q] = d.rc[q]
    /\ \A t \in Traffic : Tracks(d, r, t) => x.rc[r][t] = d.rc[r][t]
    /\ \A t \in Traffic : Tracks(x, r, t) /\ ~Tracks(d, r, t) =>
          /\ Matches(t, x.rc[r][t].email)
          /\ \A q \in RuleId : Owns(d, q, t) => q = r

LEMMA GrowsPreserves ==
    ASSUME NEW d, Typed(d), NEW r \in RuleId, NEW x, Grows(d, x, r), Exists(d, r),
           ~Merged(d, r),
           Single(d, r) => \A t, u \in Traffic :
              Tracks(x, r, t) /\ Tracks(x, r, u) => t = u /\ traffics[t] # NoRow
    PROVE  /\ Allows(d, x) /\ Keeps(d, x) /\ (~Single(d, r) => Preserves(d, x))
           /\ \A q \in RuleId, t \in Traffic : Tracks(d, q, t) => x.rc[q][t] = d.rc[q][t]
<1>1. /\ x \in DB /\ x.rules = d.rules /\ x.next = d.next
      /\ \A q \in RuleId : q # r => x.rc[q] = d.rc[q]
  BY DEF Grows
<1>2. \A q \in RuleId, t \in Traffic : Tracks(d, q, t) => x.rc[q][t] = d.rc[q][t]
  <2> TAKE q \in RuleId, t \in Traffic
  <2>1. CASE q = r BY <2>1 DEF Grows
  <2>2. CASE q # r
    <3>1. x.rc[q] = d.rc[q] BY <1>1, <2>2
    <3> QED BY <3>1
  <2> QED BY <2>1, <2>2
<1>3. \A q \in RuleId, t \in Traffic : Tracks(d, q, t) => Tracks(x, q, t) BY <1>2 DEF Tracks
<1>4. \A q \in RuleId, t \in Traffic : q # r => (Tracks(x, q, t) <=> Tracks(d, q, t))
  BY <1>1 DEF Tracks
<1>5. \A q \in RuleId : /\ Exists(x, q) <=> Exists(d, q)
                        /\ Single(x, q) <=> Single(d, q)
                        /\ Merged(x, q) <=> Merged(d, q)
  BY <1>1 DEF Exists, Single, Merged
<1>6. Typed(x)
  <2>1. \A q \in RuleId, t \in Traffic : Tracks(x, q, t) => Exists(x, q)
    BY <1>4, <1>5 DEF Typed
  <2>2. \A q \in RuleId, t, u \in Traffic :
           Single(x, q) /\ Tracks(x, q, t) /\ Tracks(x, q, u) => t = u
    BY <1>4, <1>5 DEF Typed
  <2>3. \A q \in RuleId : Single(x, q) => ~x.rules[q].includeDisabled
    BY <1>1, <1>5 DEF Typed
  <2>4. \A q \in RuleId : Exists(x, q) => q < x.next BY <1>1, <1>5 DEF Typed
  <2> QED BY <1>1, <2>1, <2>2, <2>3, <2>4 DEF Typed
<1>7. \A q \in RuleId, t \in Traffic :
         Owns(x, q, t) => Owns(d, q, t) \/ (q = r /\ Tracks(x, r, t) /\ ~Tracks(d, r, t))
  BY <1>1, <1>4, <1>5 DEF Owns
<1>8. Owned(d) => Owned(x)
  <2> SUFFICES ASSUME Owned(d), NEW t \in Traffic, NEW p \in RuleId, NEW q \in RuleId,
                      Owns(x, p, t), Owns(x, q, t)
               PROVE  p = q
    BY DEF Owned
  <2>1. CASE Tracks(x, r, t) /\ ~Tracks(d, r, t)
    <3>1. \A k \in RuleId : Owns(d, k, t) => k = r BY <2>1 DEF Grows
    <3> QED BY <1>7, <3>1
  <2>2. CASE ~(Tracks(x, r, t) /\ ~Tracks(d, r, t))
    <3>1. Owns(d, p, t) /\ Owns(d, q, t) BY <1>7, <2>2
    <3> QED BY <3>1 DEF Owned
  <2> QED BY <2>1, <2>2
<1>9. NoneLost(d) => NoneLost(x) BY <1>4, <1>5 DEF NoneLost
<1>k. Kept(d, x) BY <1>5, <1>6, <1>9 DEF Kept, Enabled
<1>c. ~Single(d, r) /\ Clear(d) => Clear(x)
  <2> SUFFICES ASSUME ~Single(d, r), Clear(d) PROVE Clear(x) OBVIOUS
  <2>1. \A q \in RuleId, t \in Traffic : Single(x, q) /\ Tracks(x, q, t) =>
           q # r /\ Tracks(d, q, t) /\ x.rc[q][t] = d.rc[q][t]
    BY <1>2, <1>4, <1>5
  <2>2. \A q \in RuleId, u \in Traffic : Returns(x, q, u) => Returns(d, q, u)
    BY <1>1, <1>5, <2>1 DEF Returns
  <2>3. ASSUME NEW q \in RuleId, NEW t \in Traffic, Owns(x, q, t)
        PROVE  \/ Owns(d, q, t) /\ x.rc[q][t] = d.rc[q][t]
               \/ q = r /\ Matches(t, x.rc[q][t].email)
    <3>1. CASE Tracks(d, q, t) BY <1>1, <1>2, <1>5, <2>3, <3>1 DEF Owns
    <3>2. CASE ~Tracks(d, q, t) BY <1>4, <2>3, <3>2 DEF Owns, Grows
    <3> QED BY <3>1, <3>2
  <2> QED BY <1>5, <2>2, <2>3 DEF Clear
<1>10. Allows(d, x) /\ (~Single(d, r) => Preserves(d, x))
  BY <1>8, <1>k, <1>c DEF Preserves, Allows, Safe
<1>11. Keeps(d, x)
  <2>1. \A q \in RuleId : Merged(d, q) => \A t \in Traffic : Tracks(x, q, t) => Tracks(d, q, t)
    BY <1>4
  <2> QED BY <1>1, <1>2, <1>3, <1>5, <2>1 DEF Keeps
<1> QED BY <1>2, <1>10, <1>11

-----------------------------------------------------------------------------
(* Enrolment: what is written for scope s, and when. *)
Joins(d, s, t) ==
    /\ InScope(t, d.rules[s].inbound, d.rules[s].includeDisabled)
    /\ d.rc[s][t] = NoRow
    /\ Owners(d, t) \ {s} = {}

(* Every client of the scope has an owner. *)
Full(x, s) ==
    \A t \in Traffic : InScope(t, x.rules[s].inbound, x.rules[s].includeDisabled) =>
        \E q \in RuleId : Owns(x, q, t)

LEMMA EnrollIs ==
    ASSUME PanelRows, NEW d \in DB, NEW s \in RuleId
    PROVE  LET x == Enroll(d, s)
           IN  /\ x \in DB /\ x.rules = d.rules /\ x.next = d.next
               /\ \A q \in RuleId : q # s => x.rc[q] = d.rc[q]
               /\ \A t \in Traffic :
                     /\ Joins(d, s, t) => /\ x.rc[s][t] = Tracked(traffics[t].email)
                                          /\ Tracks(x, s, t) /\ ~Tracks(d, s, t)
                     /\ ~Joins(d, s, t) => x.rc[s][t] = d.rc[s][t]
<1> DEFINE m == [t \in Traffic |->
                    IF Joins(d, s, t) THEN Tracked(traffics[t].email) ELSE d.rc[s][t]]
           x == Enroll(d, s)
<1>1. ASSUME NEW t \in Traffic, Joins(d, s, t)
      PROVE  /\ Tracked(traffics[t].email) \in RuleClient
             /\ Tracked(traffics[t].email) # NoRow /\ ~Tracks(d, s, t)
  <2>1. traffics[t] \in Client BY <1>1 DEF Joins, InScope, PanelRows
  <2>2. traffics[t].email \in Emails BY <2>1 DEF Client
  <2> QED BY <1>1, <2>2, TrackedType DEF Joins, Tracks
<1>2. d.rc[s] \in ClientRows BY DBParts DEF ClientRows
<1>3. m \in ClientRows BY <1>1, <1>2 DEF ClientRows
<1>4. x = [d EXCEPT !.rc[s] = m]
  <2>1. m = [t \in Traffic |->
               IF /\ InScope(t, d.rules[s].inbound, d.rules[s].includeDisabled)
                  /\ d.rc[s][t] = NoRow
                  /\ Owners(d, t) \ {s} = {}
               THEN Tracked(traffics[t].email) ELSE d.rc[s][t]]
    BY Zenon DEF Joins
  <2> QED BY <2>1, Zenon DEF Enroll
<1>5. \A t \in Traffic : m[t] = IF Joins(d, s, t) THEN Tracked(traffics[t].email)
                                ELSE d.rc[s][t]
  BY Zenon
<1> HIDE DEF m, x
<1>6. /\ x \in DB /\ x.rules = d.rules /\ x.next = d.next
      /\ x.rc[s] = m /\ \A q \in RuleId : q # s => x.rc[q] = d.rc[q]
  BY <1>3, <1>4, PutRowsIs
<1>7. \A t \in Traffic : Joins(d, s, t) =>
         /\ x.rc[s][t] = Tracked(traffics[t].email) /\ Tracks(x, s, t) /\ ~Tracks(d, s, t)
  BY <1>1, <1>5, <1>6 DEF Tracks
<1>8. \A t \in Traffic : ~Joins(d, s, t) => x.rc[s][t] = d.rc[s][t] BY <1>5, <1>6
<1> QED BY <1>6, <1>7, <1>8 DEF x

LEMMA EnrollPreserves ==
    ASSUME PanelRows, NEW d, Typed(d), NEW s \in RuleId, Scope(d, s), Active(d, s)
    PROVE  LET x == Enroll(d, s)
           IN  /\ Preserves(d, x) /\ Keeps(d, x) /\ Full(x, s)
               /\ x.rules = d.rules
               /\ \A q \in RuleId : q # s => x.rc[q] = d.rc[q]
               /\ \A q \in RuleId, t \in Traffic : Tracks(d, q, t) => x.rc[q][t] = d.rc[q][t]
<1> DEFINE x == Enroll(d, s)
<1>0. d \in DB BY DEF Typed
<1>1. /\ x \in DB /\ x.rules = d.rules /\ x.next = d.next
      /\ \A q \in RuleId : q # s => x.rc[q] = d.rc[q]
      /\ \A t \in Traffic :
            /\ Joins(d, s, t) => /\ x.rc[s][t] = Tracked(traffics[t].email)
                                 /\ Tracks(x, s, t) /\ ~Tracks(d, s, t)
            /\ ~Joins(d, s, t) => x.rc[s][t] = d.rc[s][t]
  BY <1>0, EnrollIs
<1> HIDE DEF x
<1>2. Grows(d, x, s)
  <2>1. ASSUME NEW t \in Traffic, Tracks(x, s, t), ~Tracks(d, s, t)
        PROVE  /\ Matches(t, x.rc[s][t].email)
               /\ \A q \in RuleId : Owns(d, q, t) => q = s
    <3>1. Joins(d, s, t) BY <1>1, <2>1 DEF Tracks
    <3>2. traffics[t] \in Client BY <3>1 DEF Joins, InScope, PanelRows
    <3>3. x.rc[s][t].email = traffics[t].email BY <1>1, <3>1, <3>2, TrackedType DEF Client
    <3> QED BY <3>1, <3>2, <3>3, OwnersAre, NoRowAssumption DEF Joins, InScope, Matches
  <2> QED BY <1>1, <2>1 DEF Grows
<1>3. ~Single(d, s) /\ ~Merged(d, s) /\ Exists(d, s) BY DEF Single, Scope, Merged, Active
<1>4. /\ Preserves(d, x) /\ Keeps(d, x)
      /\ \A q \in RuleId, t \in Traffic : Tracks(d, q, t) => x.rc[q][t] = d.rc[q][t]
  BY <1>2, <1>3, GrowsPreserves
<1>5. \A q \in RuleId, t \in Traffic :
         /\ Active(d, q) /\ Tracks(x, q, t) => Owns(x, q, t)
         /\ Owns(d, q, t) => Owns(x, q, t)
  BY <1>1, <1>4 DEF Owns, Active, Exists, Tracks
<1>6. Full(x, s)
  <2> SUFFICES ASSUME NEW t \in Traffic,
                      InScope(t, x.rules[s].inbound, x.rules[s].includeDisabled)
               PROVE  \E q \in RuleId : Owns(x, q, t)
    BY DEF Full
  <2>1. CASE Tracks(x, s, t) BY <1>5, <2>1
  <2>2. CASE ~Tracks(x, s, t)
    <3>1. ~Joins(d, s, t) /\ ~Tracks(d, s, t) BY <1>1, <2>2 DEF Tracks
    <3>2. PICK q \in Owners(d, t) : q # s BY <1>1, <3>1 DEF Joins, Tracks
    <3>3. q \in RuleId /\ Owns(d, q, t) BY <3>2, OwnersAre
    <3> QED BY <1>5, <3>3
  <2> QED BY <2>1, <2>2
<1> QED BY <1>1, <1>4, <1>6 DEF x

(* After the scopes up to n, of those in R, have enrolled. *)
EnrolledUpTo(d, R, n, x) ==
    /\ Preserves(d, x) /\ Keeps(d, x) /\ x.rules = d.rules
    /\ \A q \in RuleId : q \notin R => x.rc[q] = d.rc[q]
    /\ \A s \in R : s <= n => Full(x, s)

LEMMA ReconcileScopesIs ==
    ASSUME PanelRows, NEW d, Typed(d)
    PROVE  LET x == ReconcileScopes(d)
           IN  /\ Preserves(d, x) /\ Keeps(d, x) /\ x.rules = d.rules
               /\ \A q \in RuleId : ~Scope(d, q) => x.rc[q] = d.rc[q]
               /\ \A s \in RuleId : Scope(x, s) /\ Active(x, s) => Full(x, s)
<1> DEFINE R == ListActivePersistentScopes(d)
<1>1. \A s : s \in R <=> s \in RuleId /\ Scope(d, s) /\ Active(d, s) BY PersistentAre
<1> HIDE DEF R
<1>3. PICK f : Runs(f, "enroll", d, R) /\ ForEachRule(d, R, Enroll) = f[MaxRules]
  BY EnrollLoop
<1>4. ReconcileScopes(d) = f[MaxRules] BY <1>3 DEF ReconcileScopes, R
<1> DEFINE Ok(n, x) == EnrolledUpTo(d, R, n, x)
           Values == {f[n] : n \in 0..MaxRules}
           I == {p \in (0..MaxRules) \X Values : Ok(p[1], p[2])}
<1>5. \A n \in 0..MaxRules : <<n, f[n]>> \in I <=> Ok(n, f[n]) OBVIOUS
<1>6. 0 \in 0..MaxRules /\ MaxRules \in 0..MaxRules /\ \A r \in RuleId :
          /\ r \in 0..MaxRules /\ r - 1 \in 0..MaxRules
          /\ r > r - 1 /\ r > 0 /\ r <= MaxRules
  BY BoundAssumption DEF RuleId
<1> HIDE DEF I
<1>7. <<0, f[0]>> \in I
  <2>1. f[0] = d BY <1>3 DEF Runs
  <2>2. ASSUME NEW q \in R, q <= 0 PROVE FALSE
    BY <1>1, <1>6, <2>2, BoundAssumption DEF RuleId
  <2>3. Ok(0, d) BY <2>2, PreservesSelf, KeepsSelf DEF EnrolledUpTo
  <2> QED BY <1>5, <1>6, <2>1, <2>3
<1>8. ASSUME NEW r \in RuleId, <<r - 1, f[r - 1]>> \in I PROVE <<r, f[r]>> \in I
  <2> DEFINE x == f[r - 1]
             y == f[r]
  <2>1. Ok(r - 1, x) BY <1>5, <1>6, <1>8
  <2>2. y = IF r \in R THEN Enroll(x, r) ELSE x
    <3>1. Body("enroll", x, r) = Enroll(x, r) BY Zenon DEF Body
    <3> QED BY <1>3, <3>1 DEF Runs
  <2> HIDE DEF x, y
  <2>3. Ok(r, y)
    <3>1. \A q \in RuleId : q <= r => q = r \/ q <= r - 1 BY DEF RuleId
    <3>4. CASE r \notin R
      <4>1. y = x BY <2>2, <3>4
      <4>2. \A q \in R : q <= r => q <= r - 1 BY <1>1, <3>1, <3>4
      <4> QED BY <2>1, <4>1, <4>2 DEF EnrolledUpTo
    <3>5. CASE r \in R
      <4>1. x.rules = d.rules /\ Typed(x) BY <2>1 DEF EnrolledUpTo, Preserves, Kept
      <4>2. Scope(x, r) /\ Active(x, r) BY <1>1, <3>5, <4>1 DEF Scope, Active, Exists
      <4>3. /\ Preserves(x, y) /\ Keeps(x, y) /\ Full(y, r) /\ y.rules = x.rules
            /\ \A q \in RuleId : q # r => y.rc[q] = x.rc[q]
            /\ \A q \in RuleId, t \in Traffic : Tracks(x, q, t) => y.rc[q][t] = x.rc[q][t]
        BY <2>2, <3>5, <4>1, <4>2, EnrollPreserves
      <4>4. Preserves(d, y) /\ Keeps(d, y)
        BY <2>1, <4>3, PreservesTrans, KeepsTrans DEF EnrolledUpTo
      <4>5. \A q \in RuleId : q \notin R => y.rc[q] = d.rc[q]
        BY <2>1, <3>5, <4>3 DEF EnrolledUpTo
      <4>6. \A q \in RuleId, t \in Traffic : Owns(x, q, t) => Owns(y, q, t)
        BY <4>3 DEF Owns, Tracks, Exists
      <4>7. \A s \in RuleId : Full(x, s) => Full(y, s) BY <4>3, <4>6 DEF Full
      <4>8. ASSUME NEW s \in R, s <= r PROVE Full(y, s)
        <5>1. s \in RuleId BY <1>1
        <5>2. CASE s = r BY <4>3, <5>2
        <5>3. CASE s # r
          <6>1. s <= r - 1 BY <3>1, <4>8, <5>1, <5>3
          <6> QED BY <2>1, <4>7, <5>1, <6>1 DEF EnrolledUpTo
        <5> QED BY <5>2, <5>3
      <4> QED BY <4>1, <4>3, <4>4, <4>5, <4>8 DEF EnrolledUpTo
    <3> QED BY <3>4, <3>5
  <2> QED BY <1>5, <1>6, <2>3 DEF y
<1>9. <<MaxRules, f[MaxRules]>> \in I BY <1>7, <1>8, LoopInduction
<1> DEFINE x == f[MaxRules]
<1>10. Ok(MaxRules, x) BY <1>5, <1>6, <1>9
<1> HIDE DEF x
<1>11. x.rules = d.rules BY <1>10 DEF EnrolledUpTo
<1>12. \A s \in RuleId : Scope(x, s) /\ Active(x, s) => Full(x, s)
  <2> TAKE s \in RuleId
  <2>1. Scope(x, s) /\ Active(x, s) => s \in R BY <1>1, <1>11 DEF Scope, Active, Exists
  <2> QED BY <1>6, <1>10, <2>1 DEF EnrolledUpTo
<1>13. \A q \in RuleId : ~Scope(d, q) => x.rc[q] = d.rc[q] BY <1>1, <1>10 DEF EnrolledUpTo
<1> QED BY <1>4, <1>10, <1>12, <1>13 DEF EnrolledUpTo, x

-----------------------------------------------------------------------------
(* A tick: members, decision, marks. *)
LEMMA DBEqual ==
    ASSUME NEW d \in DB, NEW x \in DB, x.rules = d.rules, x.next = d.next,
           \A q \in RuleId, t \in Traffic : x.rc[q][t] = d.rc[q][t]
    PROVE  x = d
<1>1. /\ x.rc \in [RuleId -> [Traffic -> RuleClient \cup {NoRow}]]
      /\ d.rc \in [RuleId -> [Traffic -> RuleClient \cup {NoRow}]]
      /\ d = [rules |-> d.rules, rc |-> d.rc, next |-> d.next]
      /\ x = [rules |-> x.rules, rc |-> x.rc, next |-> x.next]
  BY DBParts
<1>2. \A q \in RuleId : x.rc[q] = d.rc[q]
  <2> TAKE q \in RuleId
  <2>1. /\ x.rc[q] \in [Traffic -> RuleClient \cup {NoRow}]
        /\ d.rc[q] \in [Traffic -> RuleClient \cup {NoRow}]
    BY <1>1
  <2> QED BY <2>1
<1>3. x.rc = d.rc BY <1>1, <1>2
<1> QED BY <1>1, <1>3

LEMMA SettledSame ==
    ASSUME NEW d, NEW x, x.rules = d.rules, NEW r \in RuleId,
           Single(d, r) => x.rc[r] = d.rc[r], Settled(d, r)
    PROVE  Settled(x, r)
<1>1. \A s \in RuleId : /\ Scope(x, s) <=> Scope(d, s)
                        /\ Active(x, s) <=> Active(d, s)
                        /\ Single(x, s) <=> Single(d, s)
  BY DEF Scope, Active, Single, Exists
<1>2. \A t \in Traffic : Single(d, r) /\ SettledAt(d, r, t) => SettledAt(x, r, t)
  BY <1>1 DEF SettledAt
<1> QED BY <1>1, <1>2 DEF Settled

LEMMA TickMembersIs ==
    ASSUME PanelRows, NEW d, Typed(d)
    PROVE  LET x == TickMembers(d)
           IN  /\ Preserves(d, x)
               /\ Safe(d) => Keeps(d, x) /\ \A r \in RuleId : Settled(x, r)
               /\ \A s \in RuleId : Scope(x, s) /\ Active(x, s) => Full(x, s)
<1> DEFINE y == ReconcileTx(d, NoRow)
           x == ReconcileScopes(y)
<1>1. /\ Preserves(d, y)
      /\ Safe(d) => Keeps(d, y) /\ \A r \in RuleId : Settled(y, r)
  BY ReconcileTxIs
<1> HIDE DEF y
<1>2. Typed(y) BY <1>1 DEF Preserves, Kept
<1>3. /\ Preserves(y, x) /\ Keeps(y, x) /\ x.rules = y.rules
      /\ \A q \in RuleId : ~Scope(y, q) => x.rc[q] = y.rc[q]
      /\ \A s \in RuleId : Scope(x, s) /\ Active(x, s) => Full(x, s)
  BY <1>2, ReconcileScopesIs
<1>4. TickMembers(d) = x BY DEF TickMembers, y
<1> HIDE DEF x
<1>5. Preserves(d, x) BY <1>1, <1>3, PreservesTrans
<1>6. ASSUME Safe(d) PROVE Keeps(d, x) /\ \A r \in RuleId : Settled(x, r)
  <2>1. Keeps(d, x) BY <1>1, <1>3, <1>6, KeepsTrans
  <2>2. ASSUME NEW r \in RuleId PROVE Settled(x, r)
    <3>1. Single(y, r) => x.rc[r] = y.rc[r] BY <1>3 DEF Single, Scope
    <3> QED BY <1>1, <1>3, <1>6, <3>1, SettledSame
  <2> QED BY <2>1, <2>2
<1> QED BY <1>3, <1>4, <1>5, <1>6

(* tickTarget: the rows of owners are found again or marked. *)
TargetRow(d, r, t) ==
    IF Matches(t, d.rc[r][t].email) THEN Tracked(d.rc[r][t].email)
    ELSE MarkMissing(d.rc[r][t])

LEMMA TargetsAre ==
    ASSUME NEW d, Typed(d)
    PROVE  LET x == TickTargets(d)
           IN  /\ x \in DB /\ x.rules = d.rules /\ x.next = d.next
               /\ \A r \in RuleId, t \in Traffic :
                     /\ Owns(d, r, t) => /\ x.rc[r][t] = TargetRow(d, r, t)
                                         /\ x.rc[r][t] \in RuleClient
                                         /\ x.rc[r][t].email = d.rc[r][t].email
                                         /\ x.rc[r][t].missing = "no" <=>
                                               Matches(t, d.rc[r][t].email)
                     /\ ~Owns(d, r, t) => x.rc[r][t] = d.rc[r][t]
<1> DEFINE n == [r \in RuleId |-> [t \in Traffic |->
                    IF r \notin Owners(d, t) THEN d.rc[r][t] ELSE TargetRow(d, r, t)]]
           x == TickTargets(d)
<1>0. d \in DB BY DEF Typed
<1>1. ASSUME NEW r \in RuleId, NEW t \in Traffic, Owns(d, r, t)
      PROVE  /\ TargetRow(d, r, t) \in RuleClient
             /\ TargetRow(d, r, t).email = d.rc[r][t].email
             /\ TargetRow(d, r, t).missing = "no" <=> Matches(t, d.rc[r][t].email)
  <2>1. d.rc[r][t] \in RuleClient BY <1>0, <1>1, RowTypes DEF Owns
  <2> DEFINE c == d.rc[r][t]
  <2> HIDE DEF c
  <2>2. /\ c.email \in Emails
        /\ MarkMissing(c) \in RuleClient /\ MarkMissing(c).email = c.email
        /\ MarkMissing(c).missing # "no"
    BY <2>1, ClientFields DEF c
  <2>3. /\ Tracked(c.email) \in RuleClient /\ Tracked(c.email).email = c.email
        /\ Tracked(c.email).missing = "no"
    BY <2>2, TrackedType
  <2>4. TargetRow(d, r, t) = IF Matches(t, c.email) THEN Tracked(c.email) ELSE MarkMissing(c)
    BY DEF TargetRow, c
  <2>5. CASE Matches(t, c.email) BY <2>3, <2>4, <2>5 DEF c
  <2>6. CASE ~Matches(t, c.email) BY <2>2, <2>4, <2>6 DEF c
  <2> QED BY <2>5, <2>6
<1>2. \A r \in RuleId, t \in Traffic :
         n[r][t] = IF Owns(d, r, t) THEN TargetRow(d, r, t) ELSE d.rc[r][t]
  BY OwnersAre
<1>3. n \in [RuleId -> ClientRows]
  <2>1. \A r \in RuleId, t \in Traffic : n[r][t] \in RuleClient \cup {NoRow}
    <3> TAKE r \in RuleId, t \in Traffic
    <3>1. d.rc[r][t] \in RuleClient \cup {NoRow} BY <1>0, DBParts
    <3> QED BY <1>1, <1>2, <3>1
  <2> QED BY <2>1 DEF ClientRows
<1>4. x = [d EXCEPT !.rc = n] BY Zenon DEF TickTargets, TargetRow
<1> HIDE DEF n, x
<1>5. x \in DB /\ x.rules = d.rules /\ x.next = d.next /\ x.rc = n
  BY <1>0, <1>3, <1>4, PutAllIs
<1>6. \A r \in RuleId, t \in Traffic :
         /\ Owns(d, r, t) => x.rc[r][t] = TargetRow(d, r, t)
         /\ ~Owns(d, r, t) => x.rc[r][t] = d.rc[r][t]
  BY <1>2, <1>5
<1> QED BY <1>1, <1>5, <1>6 DEF x

LEMMA TargetsKeep ==
    ASSUME NEW d, Typed(d)
    PROVE  LET x == TickTargets(d)
           IN  /\ Preserves(d, x) /\ Keeps(d, x) /\ x.rules = d.rules
               /\ \A r \in RuleId, t \in Traffic :
                     /\ Owns(x, r, t) <=> Owns(d, r, t)
                     /\ Tracks(x, r, t) <=> Tracks(d, r, t)
                     /\ Tracks(d, r, t) => x.rc[r][t].email = d.rc[r][t].email
<1> DEFINE x == TickTargets(d)
<1>1. /\ x \in DB /\ x.rules = d.rules /\ x.next = d.next
      /\ \A r \in RuleId, t \in Traffic :
            /\ Owns(d, r, t) => /\ x.rc[r][t] \in RuleClient
                                /\ x.rc[r][t].email = d.rc[r][t].email
            /\ ~Owns(d, r, t) => x.rc[r][t] = d.rc[r][t]
  BY TargetsAre
<1> HIDE DEF x
<1>2. ASSUME NEW r \in RuleId, NEW t \in Traffic
      PROVE  /\ Tracks(x, r, t) <=> Tracks(d, r, t)
             /\ Tracks(d, r, t) => x.rc[r][t].email = d.rc[r][t].email
  <2>1. CASE Owns(d, r, t)
    <3>1. x.rc[r][t] # NoRow /\ x.rc[r][t].email = d.rc[r][t].email BY <1>1, <2>1, ClientFields
    <3> QED BY <2>1, <3>1 DEF Tracks, Owns
  <2>2. CASE ~Owns(d, r, t)
    <3>1. x.rc[r][t] = d.rc[r][t] BY <1>1, <2>2
    <3> QED BY <3>1 DEF Tracks
  <2> QED BY <2>1, <2>2
<1>3. \A r \in RuleId : (Exists(x, r) <=> Exists(d, r)) /\ (Merged(x, r) <=> Merged(d, r))
  BY <1>1 DEF Exists, Merged
<1>4. \A r \in RuleId, t \in Traffic : Owns(x, r, t) <=> Owns(d, r, t)
  BY <1>1, <1>2, <1>3 DEF Owns
<1>5. Shrinks(d, x) BY <1>1, <1>2, <1>3 DEF Shrinks, Typed
<1>6. Preserves(d, x) BY <1>5, ShrinksPreserves
<1>7. Keeps(d, x) BY <1>1, <1>2, <1>3 DEF Keeps
<1> QED BY <1>1, <1>2, <1>4, <1>6, <1>7 DEF x

(* One owner, no ambiguous decision. *)
LEMMA OwnedDecides == ASSUME NEW d, Owned(d) PROVE ~Ambiguous(d)
BY OwnersAre DEF Owned, Ambiguous

LEMMA TickedIs ==
    ASSUME PanelRows, NEW d, Typed(d), Safe(d)
    PROVE  /\ ~Ambiguous(TickMembers(d))
           /\ Ticked(d) = TickTargets(TickMembers(d))
<1>1. Preserves(d, TickMembers(d)) BY TickMembersIs
<1>2. ~Ambiguous(TickMembers(d)) BY <1>1, OwnedDecides DEF Preserves, Kept, Safe
<1> QED BY <1>2, Zenon DEF Ticked

-----------------------------------------------------------------------------
(* A tick settles: the next one finds nothing to do. *)
LEMMA ReconcileIdle ==
    ASSUME PanelRows, NEW d, Typed(d), Owned(d), NEW r \in RuleId,
           Single(d, r), Active(d, r), Settled(d, r)
    PROVE  ReconcileSingleRule(d, r) = d
<1>0. d \in DB BY DEF Typed
<1>1. PICK t \in Traffic : SettledAt(d, r, t) BY DEF Settled
<1> DEFINE e == traffics[t].email
<1>2. /\ traffics[t] \in Client /\ traffics[t].enabled /\ traffics[t] # NoRow
      /\ d.rc[r][t] = Tracked(e) /\ e \in Emails
  BY <1>1, NoRowAssumption DEF SettledAt, Client
<1>3. Tracked(e) # NoRow /\ Tracked(e).email = e BY <1>2, TrackedType
<1>4. Tracks(d, r, t) /\ Owns(d, r, t) BY <1>2, <1>3 DEF Tracks, Owns, Active
<1>5. \A u \in Traffic : d.rc[r][u] # NoRow => u = t BY <1>4 DEF Typed, Tracks
<1>6. RuleClients(d, r) = {t} BY <1>4, <1>5 DEF RuleClients, Tracks
<1>7. Cardinality(RuleClients(d, r)) = 1 BY <1>6, FS_Singleton
<1>8. (CHOOSE u \in Traffic : d.rc[r][u] # NoRow) = t BY <1>4, <1>5 DEF Tracks
<1>9. d.rc[r][t].email = e /\ Matches(t, e) BY <1>2, <1>3 DEF Matches
<1>10. [d EXCEPT !.rc[r][t] = Tracked(e)] = d
  <2>1. [d.rc[r] EXCEPT ![t] = Tracked(e)] = d.rc[r]
    <3>1. d.rc[r] \in [Traffic -> RuleClient \cup {NoRow}] BY <1>0, DBParts
    <3> QED BY <1>2, <3>1
  <2>2. [d.rc EXCEPT ![r] = d.rc[r]] = d.rc
    <3>1. d.rc \in [RuleId -> [Traffic -> RuleClient \cup {NoRow}]] BY <1>0, DBParts
    <3> QED BY <3>1
  <2>3. [d EXCEPT !.rc = d.rc] = d BY <1>0, DBParts
  <2> QED BY <2>1, <2>2, <2>3
<1>11. ReconcileSingleRule(d, r) = ReconcileOwner(d, r, t)
  <2> DEFINE v == CHOOSE u \in Traffic : d.rc[r][u] # NoRow
             k == d.rc[r][v].email
             w == ClientTrafficByEmail(k)
  <2>1. ReconcileSingleRule(d, r) =
          CASE Matches(v, k) -> ReconcileOwner([d EXCEPT !.rc[r][v] = Tracked(k)], r, v)
            [] traffics[v] = NoRow /\ w # NoRow -> ReconcileOwner(Relink(d, r, v, w), r, w)
            [] OTHER -> SetRule([d EXCEPT !.rc[r][v] = MarkMissing(@)], r, "orphaned")
    BY <1>7, Zenon DEF ReconcileSingleRule
  <2>2. v = t BY <1>8
  <2> HIDE DEF v
  <2>3. Matches(v, k) /\ ~(traffics[v] = NoRow /\ w # NoRow) BY <1>2, <1>9, <2>2
  <2>4. ReconcileSingleRule(d, r) = ReconcileOwner([d EXCEPT !.rc[r][v] = Tracked(k)], r, v)
    BY <2>1, <2>3, Zenon
  <2>5. k = e BY <1>9, <2>2
  <2> QED BY <1>10, <2>2, <2>4, <2>5, Zenon
<1>12. CompatibleScopes(d, r, t) = {} BY <1>1, PersistentAre DEF CompatibleScopes, SettledAt
<1>13. ActiveScopesForTrafficExcept(d, t, r) = {}
  <2>1. \A q \in RuleId : Owns(d, q, t) => q = r BY <1>4 DEF Owned
  <2> QED BY <2>1, ScopesAre
<1>14. d.rules[r].state # "merged" BY DEF Active
<1> QED BY <1>2, <1>11, <1>12, <1>13, <1>14, Zenon DEF ReconcileOwner

LEMMA EnrollIdle ==
    ASSUME PanelRows, NEW d, Typed(d), NEW s \in RuleId, Full(d, s)
    PROVE  Enroll(d, s) = d
<1> DEFINE x == Enroll(d, s)
<1>0. d \in DB BY DEF Typed
<1>1. ASSUME NEW t \in Traffic, Joins(d, s, t) PROVE FALSE
  <2>1. PICK q \in RuleId : Owns(d, q, t) BY <1>1 DEF Full, Joins
  <2>2. q # s BY <1>1, <2>1 DEF Joins, Owns, Tracks
  <2> QED BY <1>1, <2>1, <2>2, OwnersAre DEF Joins
<1>2. /\ x \in DB /\ x.rules = d.rules /\ x.next = d.next
      /\ \A q \in RuleId : q # s => x.rc[q] = d.rc[q]
      /\ \A t \in Traffic : ~Joins(d, s, t) => x.rc[s][t] = d.rc[s][t]
  BY <1>0, EnrollIs
<1> HIDE DEF x
<1>3. \A q \in RuleId, t \in Traffic : x.rc[q][t] = d.rc[q][t]
  <2> TAKE q \in RuleId, t \in Traffic
  <2>1. CASE q = s BY <1>1, <1>2, <2>1
  <2>2. CASE q # s
    <3>1. x.rc[q] = d.rc[q] BY <1>2, <2>2
    <3> QED BY <3>1
  <2> QED BY <2>1, <2>2
<1> QED BY <1>0, <1>2, <1>3, DBEqual DEF x

(* A loop whose bodies change nothing changes nothing. *)
LEMMA IdleRun ==
    ASSUME NEW f, NEW k, NEW d, NEW R, Runs(f, k, d, R),
           \A r \in RuleId : r \in R => Body(k, d, r) = d
    PROVE  f[MaxRules] = d
<1> DEFINE I == {p \in (0..MaxRules) \X {d} : TRUE}
<1>0. 0 \in 0..MaxRules /\ \A r \in RuleId : r \in 0..MaxRules BY BoundAssumption DEF RuleId
<1>1. \A n, x : <<n, x>> \in I <=> n \in 0..MaxRules /\ x = d OBVIOUS
<1> HIDE DEF I
<1>2. <<0, f[0]>> \in I BY <1>0, <1>1 DEF Runs
<1>3. ASSUME NEW r \in RuleId, <<r - 1, f[r - 1]>> \in I PROVE <<r, f[r]>> \in I
  <2>1. f[r - 1] = d BY <1>1, <1>3
  <2>2. f[r] = d BY <2>1 DEF Runs
  <2> QED BY <1>0, <1>1, <2>2
<1>4. <<MaxRules, f[MaxRules]>> \in I BY <1>2, <1>3, LoopInduction
<1> QED BY <1>1, <1>4

LEMMA MembersIdle ==
    ASSUME PanelRows, NEW d, Typed(d), Owned(d), \A r \in RuleId : Settled(d, r),
           \A s \in RuleId : Scope(d, s) /\ Active(d, s) => Full(d, s)
    PROVE  TickMembers(d) = d
<1>1. ReconcileTx(d, NoRow) = d
  <2> DEFINE R == {r \in ListRulesInStates(d, NoRow, {"active"}) : d.rules[r].kind = "single"}
  <2>1. \A r \in R : r \in RuleId /\ Single(d, r) /\ Active(d, r)
    BY DEF ListRulesInStates, Single, Active, Exists
  <2> HIDE DEF R
  <2>2. PICK f : /\ Runs(f, "reconcile", d, R)
                 /\ ForEachRule(d, R, ReconcileSingleRule) = f[MaxRules]
    BY ReconcileLoop
  <2>3. ASSUME NEW r \in RuleId, r \in R PROVE Body("reconcile", d, r) = d
    <3>1. ReconcileSingleRule(d, r) = d BY <2>1, <2>3, ReconcileIdle
    <3>2. Body("reconcile", d, r) = ReconcileSingleRule(d, r) BY Zenon DEF Body
    <3> QED BY <3>1, <3>2
  <2>4. f[MaxRules] = d BY <2>2, <2>3, IdleRun
  <2> QED BY <2>2, <2>4 DEF ReconcileTx, R
<1>2. ReconcileScopes(d) = d
  <2> DEFINE R == ListActivePersistentScopes(d)
  <2>1. \A s \in R : s \in RuleId /\ Scope(d, s) /\ Active(d, s) BY PersistentAre
  <2> HIDE DEF R
  <2>2. PICK f : Runs(f, "enroll", d, R) /\ ForEachRule(d, R, Enroll) = f[MaxRules]
    BY EnrollLoop
  <2>3. ASSUME NEW r \in RuleId, r \in R PROVE Body("enroll", d, r) = d
    <3>1. Enroll(d, r) = d BY <2>1, <2>3, EnrollIdle
    <3>2. Body("enroll", d, r) = Enroll(d, r) BY Zenon DEF Body
    <3> QED BY <3>1, <3>2
  <2>4. f[MaxRules] = d BY <2>2, <2>3, IdleRun
  <2> QED BY <2>2, <2>4 DEF ReconcileScopes, R
<1> QED BY <1>1, <1>2 DEF TickMembers

(* The marks a tick has left are those it would leave. *)
Marked(d) ==
    \A r \in RuleId, t \in Traffic : Owns(d, r, t) =>
        /\ d.rc[r][t] \in RuleClient
        /\ Matches(t, d.rc[r][t].email) <=> d.rc[r][t].missing = "no"

LEMMA TargetsIdle ==
    ASSUME NEW d, Typed(d), Marked(d)
    PROVE  TickTargets(d) = d
<1> DEFINE x == TickTargets(d)
<1>0. d \in DB BY DEF Typed
<1>1. /\ x \in DB /\ x.rules = d.rules /\ x.next = d.next
      /\ \A r \in RuleId, t \in Traffic :
            /\ Owns(d, r, t) => x.rc[r][t] = TargetRow(d, r, t)
            /\ ~Owns(d, r, t) => x.rc[r][t] = d.rc[r][t]
  BY TargetsAre
<1> HIDE DEF x
<1>2. ASSUME NEW r \in RuleId, NEW t \in Traffic PROVE x.rc[r][t] = d.rc[r][t]
  <2>1. CASE ~Owns(d, r, t) BY <1>1, <2>1
  <2>2. CASE Owns(d, r, t)
    <3> DEFINE c == d.rc[r][t]
    <3>1. c \in RuleClient /\ (Matches(t, c.email) <=> c.missing = "no")
      BY <2>2 DEF Marked
    <3>2. x.rc[r][t] = IF Matches(t, c.email) THEN Tracked(c.email) ELSE MarkMissing(c)
      BY <1>1, <2>2 DEF TargetRow
    <3> HIDE DEF c
    <3>3. c.missing = "no" => Tracked(c.email) = c BY <3>1 DEF Tracked, RuleClient
    <3>4. c.missing # "no" => MarkMissing(c) = c BY <3>1, ClientFields
    <3>5. x.rc[r][t] = c BY <3>1, <3>2, <3>3, <3>4
    <3> QED BY <3>5 DEF c
  <2> QED BY <2>1, <2>2
<1> QED BY <1>0, <1>1, <1>2, DBEqual DEF x

(* What a tick leaves behind. *)
LEMMA TickLeaves ==
    ASSUME PanelRows, NEW d, Typed(d), Safe(d)
    PROVE  LET x == Ticked(d)
           IN  /\ Typed(x) /\ Safe(x) /\ Marked(x)
               /\ \A r \in RuleId : Settled(x, r)
               /\ \A s \in RuleId : Scope(x, s) /\ Active(x, s) => Full(x, s)
<1> DEFINE m == TickMembers(d)
           x == TickTargets(m)
<1>1. /\ Typed(m) /\ Safe(m) /\ \A r \in RuleId : Settled(m, r)
      /\ \A s \in RuleId : Scope(m, s) /\ Active(m, s) => Full(m, s)
  BY TickMembersIs DEF Preserves, Kept
<1>2. Ticked(d) = x BY TickedIs
<1> HIDE DEF m
<1>3. /\ Preserves(m, x) /\ x.rules = m.rules
      /\ \A r \in RuleId, t \in Traffic :
            /\ Owns(x, r, t) <=> Owns(m, r, t)
            /\ Tracks(x, r, t) <=> Tracks(m, r, t)
  BY <1>1, TargetsKeep
<1>4. \A r \in RuleId, t \in Traffic :
         Owns(m, r, t) => /\ x.rc[r][t] = TargetRow(m, r, t)
                          /\ x.rc[r][t] \in RuleClient
                          /\ x.rc[r][t].email = m.rc[r][t].email
                          /\ x.rc[r][t].missing = "no" <=> Matches(t, m.rc[r][t].email)
  BY <1>1, TargetsAre
<1> HIDE DEF x
<1>5. Typed(x) /\ Safe(x) BY <1>1, <1>3 DEF Preserves, Kept
<1>6. Marked(x)
  <2> SUFFICES ASSUME NEW r \in RuleId, NEW t \in Traffic, Owns(x, r, t)
               PROVE  /\ x.rc[r][t] \in RuleClient
                      /\ Matches(t, x.rc[r][t].email) <=> x.rc[r][t].missing = "no"
    BY DEF Marked
  <2>1. Owns(m, r, t) BY <1>3
  <2>2. x.rc[r][t] \in RuleClient /\ x.rc[r][t].email = m.rc[r][t].email BY <1>4, <2>1
  <2>3. x.rc[r][t].missing = "no" <=> Matches(t, m.rc[r][t].email) BY <1>4, <2>1
  <2> QED BY <2>2, <2>3
<1>7. \A s \in RuleId : /\ Scope(x, s) <=> Scope(m, s)
                        /\ Active(x, s) <=> Active(m, s)
                        /\ Single(x, s) <=> Single(m, s)
  BY <1>3 DEF Scope, Active, Single, Exists
<1>8. ASSUME NEW r \in RuleId PROVE Settled(x, r)
  <2> SUFFICES ASSUME Single(x, r), Active(x, r) PROVE \E t \in Traffic : SettledAt(x, r, t)
    BY DEF Settled
  <2>1. PICK t \in Traffic : SettledAt(m, r, t) BY <1>1, <1>7 DEF Settled
  <2> DEFINE e == traffics[t].email
  <2>2. /\ m.rc[r][t] = Tracked(e) /\ e \in Emails /\ Matches(t, e)
    BY <2>1, NoRowAssumption DEF SettledAt, Client, Matches
  <2>3. m.rc[r][t].email = e /\ Tracks(m, r, t) BY <2>2, TrackedType DEF Tracks
  <2>4. Owns(m, r, t) BY <1>7, <2>3 DEF Owns, Active
  <2>5. x.rc[r][t] = Tracked(e) BY <1>4, <2>2, <2>3, <2>4 DEF TargetRow
  <2>6. SettledAt(x, r, t) BY <1>3, <1>7, <2>1, <2>5 DEF SettledAt
  <2> QED BY <2>6
<1>9. \A s \in RuleId : Full(m, s) => Full(x, s) BY <1>3 DEF Full
<1> QED BY <1>1, <1>2, <1>5, <1>6, <1>7, <1>8, <1>9

LEMMA TickSettlesAt ==
    ASSUME PanelRows, NEW d, Typed(d), Safe(d)
    PROVE  Ticked(Ticked(d)) = Ticked(d)
<1> DEFINE x == Ticked(d)
<1>1. /\ Typed(x) /\ Safe(x) /\ Marked(x) /\ \A r \in RuleId : Settled(x, r)
      /\ \A s \in RuleId : Scope(x, s) /\ Active(x, s) => Full(x, s)
  BY TickLeaves
<1> HIDE DEF x
<1>2. TickMembers(x) = x BY <1>1, MembersIdle DEF Safe
<1>3. TickTargets(x) = x BY <1>1, TargetsIdle
<1>4. Ticked(x) = TickTargets(TickMembers(x)) BY <1>1, TickedIs
<1> QED BY <1>2, <1>3, <1>4 DEF x

-----------------------------------------------------------------------------
(* What every transaction does: it keeps the invariant and one owner, and  *)
(* a rule it merges has its client in a scope.                             *)
MergeKept(d, x) ==
    \A r \in RuleId : Exists(d, r) /\ ~Merged(d, r) /\ Merged(x, r) =>
        \A t \in Traffic : Tracks(x, r, t) => InActiveScope(x, r, t)

Transacts(d, x) == Kept(d, x) /\ (Safe(d) => Owned(x) /\ MergeKept(d, x))

LEMMA KeepsTransacts ==
    ASSUME NEW d, NEW x, Preserves(d, x) \/ Allows(d, x), Safe(d) => Keeps(d, x)
    PROVE  Transacts(d, x)
BY DEF Transacts, MergeKept, Keeps, Preserves, Allows, Safe

LEMMA UnmergedTransacts ==
    ASSUME NEW d, NEW x, Preserves(d, x) \/ Allows(d, x),
           \A r \in RuleId : Merged(x, r) => Merged(d, r)
    PROVE  Transacts(d, x)
BY DEF Transacts, MergeKept, Preserves, Allows, Safe

LEMMA TickTransacts ==
    ASSUME PanelRows, NEW d, Typed(d)
    PROVE  Transacts(d, TickTargets(TickMembers(d)))
<1> DEFINE m == TickMembers(d)
           x == TickTargets(m)
<1>1. Preserves(d, m) /\ (Safe(d) => Keeps(d, m)) BY TickMembersIs
<1> HIDE DEF m
<1>2. Preserves(m, x) /\ Keeps(m, x) BY <1>1, TargetsKeep DEF Preserves, Kept
<1> HIDE DEF x
<1>3. Preserves(d, x) /\ (Safe(d) => Keeps(d, x)) BY <1>1, <1>2, PreservesTrans, KeepsTrans
<1> QED BY <1>3, KeepsTransacts DEF x, m

-----------------------------------------------------------------------------
(* Creating rules. *)
LEMMA CreateRuleIs ==
    ASSUME NEW d, Typed(d), d.next <= MaxRules, NEW rule \in Rule,
           rule.state = "active",
           rule.kind = "single" => ~rule.includeDisabled /\ "enable" \in Commands
    PROVE  LET x == CreateRule(d, rule)
           IN  /\ d.next \in RuleId /\ ~Exists(d, d.next)
               /\ \A t \in Traffic : ~Tracks(d, d.next, t)
               /\ Preserves(d, x) /\ Allows(d, x) /\ Keeps(d, x)
               /\ x.rc = d.rc /\ x.rules[d.next] = rule
               /\ \A q \in RuleId : q # d.next => x.rules[q] = d.rules[q]
<1> DEFINE n == d.next
           x == CreateRule(d, rule)
<1>0. /\ d \in DB /\ n \in RuleId /\ n + 1 \in 1..(MaxRules + 1)
  <2>1. d \in DB /\ n \in 1..(MaxRules + 1) BY DBParts DEF Typed
  <2> QED BY <2>1, BoundAssumption DEF RuleId
<1>1. ~Exists(d, n) /\ \A t \in Traffic : ~Tracks(d, n, t)
  <2>1. ~(n < d.next) BY <1>0, BoundAssumption DEF RuleId
  <2> QED BY <1>0, <2>1 DEF Typed
<1> DEFINE R == [d.rules EXCEPT ![n] = rule]
<1>3. /\ R \in [RuleId -> Rule \cup {NoRow}] /\ R[n] = rule
      /\ \A q \in RuleId : q # n => R[q] = d.rules[q]
  BY <1>0, DBParts
<1> DEFINE k == n + 1
<1>2. x = [rules |-> R, rc |-> d.rc, next |-> k]
  <2> DEFINE y == [d EXCEPT !.rules = R]
  <2>1. x = [y EXCEPT !.next = k] BY Zenon DEF CreateRule
  <2> HIDE DEF R, k, x
  <2>2. y = [rules |-> R, rc |-> d.rc, next |-> d.next] BY <1>0, DBParts
  <2> HIDE DEF y
  <2> QED BY <2>1, <2>2
<1> HIDE DEF R, k
<1>4. x \in DB
  <2>1. k \in 1..(MaxRules + 1) /\ d.rc \in [RuleId -> [Traffic -> RuleClient \cup {NoRow}]]
    BY <1>0, DBParts DEF k
  <2> QED BY <1>2, <1>3, <2>1, DBMake
<1>5. /\ x.rc = d.rc /\ x.next = n + 1 /\ x.rules[n] = rule
      /\ \A q \in RuleId : q # n => x.rules[q] = d.rules[q]
  BY <1>2, <1>3 DEF k
<1> HIDE DEF x
<1>6. \A q \in RuleId, t \in Traffic : Tracks(x, q, t) <=> Tracks(d, q, t) BY <1>5 DEF Tracks
<1>7. \A q \in RuleId : q # n => /\ Exists(x, q) <=> Exists(d, q)
                                 /\ Single(x, q) <=> Single(d, q)
                                 /\ Merged(x, q) <=> Merged(d, q)
                                 /\ x.rules[q] = d.rules[q]
  <2> TAKE q \in RuleId
  <2>1. q # n => x.rules[q] = d.rules[q] BY <1>5
  <2> QED BY <2>1 DEF Exists, Single, Merged
<1>8. Exists(x, n) /\ ~Merged(x, n) BY <1>0, <1>4, <1>5, RowTypes DEF Merged
<1>9. Typed(x)
  <2>1. \A q \in RuleId, t \in Traffic : Tracks(x, q, t) => Exists(x, q)
    BY <1>6, <1>7, <1>8 DEF Typed
  <2>2. \A q \in RuleId : Exists(x, q) => q < x.next
    <3>1. \A q \in RuleId : Exists(d, q) => q < n BY DEF Typed
    <3>2. \A q \in RuleId : q < n \/ q = n => q < x.next
      BY <1>0, <1>5, BoundAssumption DEF RuleId
    <3> QED BY <1>7, <3>1, <3>2
  <2>3. \A q \in RuleId, t, u \in Traffic :
           Single(x, q) /\ Tracks(x, q, t) /\ Tracks(x, q, u) => t = u
    BY <1>1, <1>6, <1>7 DEF Typed
  <2>4. \A q \in RuleId : Single(x, q) => ~x.rules[q].includeDisabled
    <3> TAKE q \in RuleId
    <3>1. CASE q = n BY <1>5, <3>1 DEF Single
    <3>2. CASE q # n BY <1>7, <3>2 DEF Typed
    <3> QED BY <3>1, <3>2
  <2> QED BY <1>4, <2>1, <2>2, <2>3, <2>4 DEF Typed
<1>10. (Owned(d) => Owned(x)) /\ (Clear(d) => Clear(x))
  <2>1. \A q \in RuleId, t \in Traffic : Owns(x, q, t) => Owns(d, q, t) /\ q # n
    <3> TAKE q \in RuleId, t \in Traffic
    <3>1. CASE q = n BY <1>1, <1>6, <3>1 DEF Owns
    <3>2. CASE q # n BY <1>6, <1>7, <3>2 DEF Owns
    <3> QED BY <3>1, <3>2
  <2>2. \A q \in RuleId, t \in Traffic : Returns(x, q, t) => Returns(d, q, t)
    <3> TAKE q \in RuleId, t \in Traffic
    <3>1. CASE q = n BY <1>1, <1>6, <3>1 DEF Returns
    <3>2. CASE q # n BY <1>5, <1>6, <1>7, <3>2 DEF Returns
    <3> QED BY <3>1, <3>2
  <2>3. Owned(d) => Owned(x) BY <2>1 DEF Owned
  <2>4. Clear(d) => Clear(x) BY <1>5, <1>7, <2>1, <2>2 DEF Clear
  <2> QED BY <2>3, <2>4
<1>11. NoneLost(d) => NoneLost(x) BY <1>1, <1>6, <1>7 DEF NoneLost
<1>12. Enabled(d) => Enabled(x) BY <1>5, <1>7 DEF Enabled, Single
<1>13. Preserves(d, x) /\ Allows(d, x)
  BY <1>9, <1>10, <1>11, <1>12 DEF Preserves, Allows, Kept, Safe
<1>14. Keeps(d, x)
  <2>1. \A q \in RuleId : Exists(d, q) => q # n BY <1>1
  <2> QED BY <1>5, <1>6, <1>7, <2>1 DEF Keeps, Scope, Merged
<1> QED BY <1>0, <1>1, <1>5, <1>13, <1>14 DEF x

LEMMA NewRuleIs ==
    ASSUME NEW kind \in {"single", "scope", "snapshot"}, NEW e \in Emails \cup {NoRow},
           NEW i \in MaybeInbound, NEW f \in Factors, NEW b \in BOOLEAN
    PROVE  LET rule == NewRule(kind, e, i, f, b)
           IN  /\ rule \in Rule /\ rule.state = "active" /\ rule.kind = kind
               /\ rule.includeDisabled = b
<1> DEFINE rule == NewRule(kind, e, i, f, b)
<1>1. rule \in Rule
  <2>1. "active" \in {"active", "paused"} \cup Retired /\ FALSE \in BOOLEAN OBVIOUS
  <2> QED BY <2>1 DEF NewRule, Rule
<1> QED BY <1>1 DEF NewRule

(* The first client row of t in rule r. *)
LEMMA PutNewIs ==
    ASSUME PanelRows, NEW d, Typed(d), NEW r \in RuleId, NEW t \in Traffic,
           traffics[t] # NoRow, Exists(d, r), ~Merged(d, r), ~Tracks(d, r, t),
           Single(d, r) => \A u \in Traffic : ~Tracks(d, r, u),
           \A q \in RuleId : ~Owns(d, q, t)
    PROVE  LET x == CreateRuleClient(d, r, t)
           IN  Allows(d, x) /\ Keeps(d, x) /\ (~Single(d, r) => Preserves(d, x))
<1> DEFINE c == Tracked(traffics[t].email)
           x == Put(d, r, t, c)
<1>0. d \in DB /\ traffics[t] \in Client BY DEF Typed, PanelRows
<1>1. traffics[t].email \in Emails BY <1>0 DEF Client
<1>2. c \in RuleClient /\ Matches(t, c.email) BY <1>1, TrackedType DEF Matches
<1>3. CreateRuleClient(d, r, t) = x BY DEF CreateRuleClient, Put
<1> HIDE DEF c
<1>4. /\ x \in DB /\ x.rules = d.rules /\ x.next = d.next /\ x.rc[r][t] = c
      /\ \A u \in Traffic : u # t => x.rc[r][u] = d.rc[r][u]
      /\ \A q \in RuleId : q # r => x.rc[q] = d.rc[q]
  BY <1>0, <1>2, PutIs
<1> HIDE DEF x
<1>5. \A u \in Traffic : u # t => (Tracks(x, r, u) <=> Tracks(d, r, u)) BY <1>4 DEF Tracks
<1>6. Grows(d, x, r)
  <2>1. \A u \in Traffic : Tracks(d, r, u) => x.rc[r][u] = d.rc[r][u] BY <1>4
  <2>2. \A u \in Traffic : Tracks(x, r, u) /\ ~Tracks(d, r, u) =>
          /\ Matches(u, x.rc[r][u].email)
          /\ \A q \in RuleId : Owns(d, q, u) => q = r
    BY <1>2, <1>4, <1>5
  <2> QED BY <1>4, <2>1, <2>2 DEF Grows
<1>7. Single(d, r) => \A u, v \in Traffic :
              Tracks(x, r, u) /\ Tracks(x, r, v) => u = v /\ traffics[u] # NoRow
  BY <1>5
<1>8. Allows(d, x) /\ Keeps(d, x) /\ (~Single(d, r) => Preserves(d, x))
  BY <1>6, <1>7, GrowsPreserves
<1> QED BY <1>3, <1>8

LEMMA EnableTransacts ==
    ASSUME PanelRows, NEW d, Typed(d), d.next <= MaxRules, "enable" \in Commands,
           NEW e \in Emails, NEW i \in MaybeInbound, NEW f \in Factors,
           NEW t \in Traffic, traffics[t] # NoRow, Owners(d, t) = {}
    PROVE  Transacts(d, CreateRuleClient(CreateRule(d, NewRule("single", e, i, f, FALSE)),
                                         d.next, t))
<1> DEFINE rule == NewRule("single", e, i, f, FALSE)
           n == d.next
           y == CreateRule(d, rule)
           x == CreateRuleClient(y, n, t)
<1>1. rule \in Rule /\ rule.state = "active" /\ rule.kind = "single" /\ ~rule.includeDisabled
  <2> DEFINE b == FALSE
             new == NewRule("single", e, i, f, b)
  <2>1. b \in BOOLEAN /\ ~b OBVIOUS
  <2> HIDE DEF b
  <2>2. new \in Rule /\ new.state = "active" /\ new.kind = "single" /\ new.includeDisabled = b
    BY <2>1, NewRuleIs
  <2> HIDE DEF new
  <2>3. rule = new BY DEF new, b
  <2> HIDE DEF rule
  <2> QED BY <2>1, <2>2, <2>3
<1> HIDE DEF rule
<1>2. /\ n \in RuleId /\ \A u \in Traffic : ~Tracks(d, n, u)
      /\ Allows(d, y) /\ Keeps(d, y) /\ y.rc = d.rc /\ y.rules[n] = rule
      /\ \A q \in RuleId : q # n => y.rules[q] = d.rules[q]
  BY <1>1, CreateRuleIs
<1> HIDE DEF n, y
<1>3. Typed(y) BY <1>2, PreservesTyped
<1>4. Exists(y, n) /\ ~Merged(y, n) BY <1>1, <1>2, NoRowAssumption DEF Exists, Merged
<1>5. \A u \in Traffic : ~Tracks(y, n, u) BY <1>2 DEF Tracks
<1>6. ASSUME NEW q \in RuleId PROVE ~Owns(y, q, t)
  <2>1. CASE q = n BY <1>5, <2>1 DEF Owns
  <2>2. CASE q # n
    <3>1. ~Owns(d, q, t) BY OwnersAre
    <3>2. y.rules[q] = d.rules[q] /\ y.rc[q] = d.rc[q] BY <1>2, <2>2
    <3> QED BY <3>1, <3>2 DEF Owns, Exists, Tracks
  <2> QED BY <2>1, <2>2
<1>7. Allows(y, x) /\ Keeps(y, x) BY <1>2, <1>3, <1>4, <1>5, <1>6, PutNewIs
<1> HIDE DEF x
<1>8. Allows(d, x) /\ Keeps(d, x) BY <1>2, <1>7, AllowsTrans, KeepsTrans
<1> QED BY <1>8, KeepsTransacts DEF x, y, n, rule

(* enable-all --once. *)
LEMMA SnapshotTransacts ==
    ASSUME PanelRows, NEW d, Typed(d), d.next <= MaxRules,
           NEW i \in MaybeInbound, NEW f \in Factors, NEW b \in BOOLEAN,
           NEW targets \in SUBSET Traffic,
           \A t \in targets : traffics[t] # NoRow /\ ActiveOrPaused(d, t) = {}
    PROVE  Transacts(d, [CreateRule(d, NewRule("snapshot", NoRow, i, f, b))
                            EXCEPT !.rc[d.next] = [t \in Traffic |->
                               IF t \in targets THEN Tracked(traffics[t].email) ELSE NoRow]])
<1> DEFINE rule == NewRule("snapshot", NoRow, i, f, b)
           n == d.next
           y == CreateRule(d, rule)
           m == [t \in Traffic |->
                    IF t \in targets THEN Tracked(traffics[t].email) ELSE NoRow]
           x == [y EXCEPT !.rc[n] = m]
<1>1. rule \in Rule /\ rule.state = "active" /\ rule.kind = "snapshot" BY NewRuleIs
<1> HIDE DEF rule
<1>2. /\ n \in RuleId /\ \A u \in Traffic : ~Tracks(d, n, u)
      /\ Preserves(d, y) /\ Keeps(d, y) /\ y.rc = d.rc /\ y.rules[n] = rule
      /\ \A q \in RuleId : q # n => y.rules[q] = d.rules[q]
  BY <1>1, CreateRuleIs
<1> HIDE DEF n, y
<1>3. Typed(y) /\ y \in DB BY <1>2 DEF Preserves, Kept, Typed
<1>4. Exists(y, n) /\ ~Merged(y, n) /\ ~Single(y, n)
  BY <1>1, <1>2, NoRowAssumption DEF Exists, Merged, Single
<1>5. \A u \in Traffic : ~Tracks(y, n, u) BY <1>2 DEF Tracks
<1>6. m \in ClientRows
  <2>1. ASSUME NEW t \in targets PROVE Tracked(traffics[t].email) \in RuleClient
    <3>1. traffics[t] \in Client BY DEF PanelRows
    <3>2. traffics[t].email \in Emails BY <3>1 DEF Client
    <3> QED BY <3>2, TrackedType
  <2> QED BY <2>1 DEF ClientRows
<1>7. ASSUME NEW t \in Traffic, m[t] # NoRow PROVE t \in targets /\ Matches(t, m[t].email)
  <2>1. t \in targets BY <1>7
  <2>2. traffics[t] \in Client /\ traffics[t] # NoRow BY <2>1 DEF PanelRows
  <2>3. traffics[t].email \in Emails BY <2>2 DEF Client
  <2>4. m[t] = Tracked(traffics[t].email) BY <2>1
  <2>5. m[t].email = traffics[t].email BY <2>3, <2>4, TrackedType
  <2> QED BY <2>1, <2>2, <2>5 DEF Matches
<1> HIDE DEF m
<1>8. /\ x \in DB /\ x.rules = y.rules /\ x.next = y.next
      /\ x.rc[n] = m /\ \A q \in RuleId : q # n => x.rc[q] = y.rc[q]
  BY <1>2, <1>3, <1>6, PutRowsIs
<1> HIDE DEF x
<1>9. Grows(y, x, n)
  <2>1. ASSUME NEW t \in Traffic, Tracks(x, n, t), NEW q \in RuleId, Owns(y, q, t)
        PROVE  q = n
    <3>1. t \in targets BY <1>7, <1>8, <2>1 DEF Tracks
    <3>2. q \notin ActiveOrPaused(d, t) BY <3>1
    <3>3. SUFFICES ASSUME q # n PROVE FALSE OBVIOUS
    <3>4. y.rules[q] = d.rules[q] /\ y.rc[q] = d.rc[q] BY <1>2, <3>3
    <3>5. Owns(d, q, t) BY <2>1, <3>4 DEF Owns, Exists, Tracks
    <3> QED BY <3>2, <3>5
        DEF ActiveOrPaused, RulesForTraffic, ListRulesInStates, Owns, Exists, Tracks
  <2>2. \A t \in Traffic : Tracks(x, n, t) => Matches(t, x.rc[n][t].email)
    BY <1>7, <1>8 DEF Tracks
  <2> QED BY <1>5, <1>8, <2>1, <2>2 DEF Grows
<1>10. Preserves(y, x) /\ Keeps(y, x) BY <1>2, <1>3, <1>4, <1>9, GrowsPreserves
<1>11. Preserves(d, x) /\ Keeps(d, x) BY <1>2, <1>10, PreservesTrans, KeepsTrans
<1> QED BY <1>11, KeepsTransacts DEF x, y, m, n, rule

(* enable-all for one candidate: it joins the scope, is adopted, or stays. *)
LEMMA EnableInScopeIs ==
    ASSUME PanelRows, NEW d, Typed(d), NEW s \in RuleId, Scope(d, s), Active(d, s),
           NEW t \in Traffic, traffics[t] # NoRow
    PROVE  LET x == EnableInScope(d, s, t)
           IN  Preserves(d, x) /\ Keeps(d, x)
<1> DEFINE x == EnableInScope(d, s, t)
           rules == ActiveOrPaused(d, t)
           r == First(rules)
<1>0. d \in DB /\ traffics[t] \in Client BY DEF Typed, PanelRows
<1>1. CASE d.rc[s][t] # NoRow
  <2>1. x = d BY <1>1, Zenon DEF EnableInScope
  <2> QED BY <2>1, PreservesSelf, KeepsSelf
<1>2. CASE d.rc[s][t] = NoRow /\ rules = {}
  <2>1. x = CreateRuleClient(d, s, t) BY <1>2, Zenon DEF EnableInScope
  <2>2. \A q \in RuleId : ~Owns(d, q, t)
    BY <1>2 DEF ActiveOrPaused, RulesForTraffic, ListRulesInStates, Owns, Exists, Tracks
  <2>3. Exists(d, s) /\ ~Merged(d, s) /\ ~Single(d, s) /\ ~Tracks(d, s, t)
    BY <1>2 DEF Scope, Active, Merged, Single, Tracks
  <2> QED BY <2>1, <2>2, <2>3, PutNewIs
<1>3. CASE d.rc[s][t] = NoRow /\ rules # {}
  <2>1. r \in rules
    <3>1. rules \in SUBSET Nat
      BY BoundAssumption DEF ActiveOrPaused, RulesForTraffic, ListRulesInStates, RuleId
    <3> HIDE DEF rules
    <3> QED BY <1>3, <3>1, FirstIn
  <2>2. r \in RuleId /\ Exists(d, r) /\ Tracks(d, r, t)
    BY <2>1 DEF ActiveOrPaused, RulesForTraffic, ListRulesInStates, Exists, Tracks
  <2>3. x = IF d.rules[r].kind = "single" /\ d.rules[r].state = "active"
            THEN AdoptSingleRuleIntoScope(d, s, r, t) ELSE d
    BY <1>3, Zenon DEF EnableInScope
  <2> HIDE DEF r
  <2>4. CASE ~(d.rules[r].kind = "single" /\ d.rules[r].state = "active")
    BY <2>3, <2>4, PreservesSelf, KeepsSelf
  <2>5. CASE d.rules[r].kind = "single" /\ d.rules[r].state = "active"
    <3>0. Single(d, r) /\ Active(d, r) BY <2>2, <2>5 DEF Single, Active
    <3>1. x = AdoptSingleRuleIntoScope(d, s, r, t) BY <2>3, <2>5, Zenon
    <3>2. CASE ~Adoptable(d, s, r, t) \/ RuleClients(d, r) # {t}
      <4>1. x = d BY <3>1, <3>2, Zenon DEF AdoptSingleRuleIntoScope
      <4> QED BY <4>1, PreservesSelf, KeepsSelf
    <3>3. CASE /\ ~(~Adoptable(d, s, r, t) \/ RuleClients(d, r) # {t})
               /\ ~AdoptIdentity(d, r, t)
      <4> DEFINE c == MarkMissing(d.rc[r][t])
      <4>1. x = Put(d, r, t, c) BY <3>1, <3>3, Zenon DEF AdoptSingleRuleIntoScope, Put
      <4>2. d.rc[r][t] \in RuleClient BY <1>0, <2>2, RowTypes
      <4>3. c \in RuleClient /\ c.email = d.rc[r][t].email BY <4>2, ClientFields
      <4> HIDE DEF c
      <4>4. Preserves(d, Put(d, r, t, c))
        BY <1>0, <2>2, <4>3, RewriteShrinks, ShrinksPreserves
      <4>5. Keeps(d, Put(d, r, t, c)) BY <1>0, <2>2, <4>3, RewriteKeeps
      <4> QED BY <4>1, <4>4, <4>5
    <3>4. CASE /\ ~(~Adoptable(d, s, r, t) \/ RuleClients(d, r) # {t})
               /\ AdoptIdentity(d, r, t)
               /\ ActiveScopesForTrafficExcept(d, t, s) # {}
      <4>1. x = d BY <3>1, <3>4, Zenon DEF AdoptSingleRuleIntoScope
      <4> QED BY <4>1, PreservesSelf, KeepsSelf
    <3>5. CASE /\ ~(~Adoptable(d, s, r, t) \/ RuleClients(d, r) # {t})
               /\ AdoptIdentity(d, r, t)
               /\ ActiveScopesForTrafficExcept(d, t, s) = {}
      <4>1. x = Adopted(d, s, r, t)
        BY <3>1, <3>5, Zenon DEF AdoptSingleRuleIntoScope, Adopted, Put
      <4>2. d.rules[r].factor = d.rules[s].factor BY <3>5 DEF Adoptable
      <4>3. d.rc[r][t] = Tracked(traffics[t].email) BY <3>5 DEF AdoptIdentity
      <4>4. ~Tracks(d, s, t) BY <1>3 DEF Tracks
      <4> QED BY <1>0, <2>2, <3>0, <4>1, <4>2, <4>3, <4>4, AdoptedPreserves
    <3> QED BY <3>2, <3>3, <3>4, <3>5
  <2> QED BY <2>4, <2>5
<1> QED BY <1>1, <1>2, <1>3

(* The recursion over the candidates has a solution: they are finitely     *)
(* many, and First takes one of them.                                      *)
RunsOver(f, d, s, C) ==
    /\ f[{}] = d
    /\ \A S \in SUBSET C : S # {} =>
          f[S] = EnableInScope(f[S \ {First(S)}], s, First(S))

LEMMA CandidatesLoop ==
    ASSUME NEW d, NEW s, NEW C \in SUBSET Traffic
    PROVE  \E f : EnableAllInScope(d, s, C) = f[C] /\ RunsOver(f, d, s, C)
<1> DEFINE Step(f, S) ==
               IF S = {} THEN d ELSE EnableInScope(f[S \ {First(S)}], s, First(S))
           Upto(n) == {S \in SUBSET C : Cardinality(S) <= n}
           Solves(f, n) == f = [S \in Upto(n) |-> Step(f, S)]
           N == {n \in Nat : \E f : Solves(f, n)}
           F == CHOOSE f : f = [S \in SUBSET C |-> Step(f, S)]
<1>0. IsFiniteSet(C) BY TrafficAssumption, FS_Subset
<1>1. \A S \in SUBSET C : /\ IsFiniteSet(S) /\ Cardinality(S) \in Nat
                          /\ Cardinality(S) <= Cardinality(C)
  BY <1>0, FS_Subset, FS_CardinalityType
<1>2. ASSUME NEW S \in SUBSET C, S # {}
      PROVE  /\ S \ {First(S)} \in SUBSET C
             /\ Cardinality(S \ {First(S)}) = Cardinality(S) - 1
  <2>1. S \in SUBSET Nat BY TrafficAssumption
  <2>2. First(S) \in S BY <1>2, <2>1, FirstIn
  <2>3. Cardinality(S \ {First(S)}) = Cardinality(S) - 1 BY <1>1, <2>2, FS_RemoveElement
  <2> QED BY <2>3
<1>3. 0 \in N
  <2> DEFINE f == [S \in Upto(0) |-> d]
  <2>1. \A S \in Upto(0) : S = {} BY <1>1, FS_EmptySet
  <2>2. Solves(f, 0) BY <2>1, Zenon
  <2>3. \E h : Solves(h, 0) BY <2>2, Zenon
  <2> QED BY <2>3
<1>4. ASSUME NEW n \in N PROVE n + 1 \in N
  <2>1. PICK f : Solves(f, n) OBVIOUS
  <2> DEFINE g == [S \in Upto(n + 1) |-> Step(f, S)]
  <2>2. ASSUME NEW S \in Upto(n + 1) PROVE Step(f, S) = Step(g, S)
    <3>1. CASE S = {} BY <3>1
    <3>2. CASE S # {}
      <4> DEFINE T == S \ {First(S)}
      <4>1. Cardinality(T) = Cardinality(S) - 1 /\ T \in SUBSET C BY <1>2, <3>2
      <4>2. T \in Upto(n) /\ T \in Upto(n + 1) BY <1>1, <4>1
      <4>3. f[T] = Step(f, T) BY <2>1, <4>2, Zenon
      <4>4. g[T] = Step(f, T) BY <4>2, Zenon
      <4> QED BY <3>2, <4>3, <4>4, Zenon
    <3> QED BY <3>1, <3>2
  <2>3. Solves(g, n + 1) BY <2>2, Zenon
  <2>4. \E h : Solves(h, n + 1) BY <2>3, Zenon
  <2>5. n + 1 \in Nat OBVIOUS
  <2> QED BY <2>4, <2>5, Zenon
<1>5. N = Nat
  <2>1. N \in SUBSET Nat OBVIOUS
  <2> HIDE DEF N
  <2> QED BY <1>3, <1>4, <2>1, NatSetInduction, Zenon
<1>6. Cardinality(C) \in N BY <1>1, <1>5
<1>7. Upto(Cardinality(C)) = SUBSET C BY <1>1
<1>8. \E f : f = [S \in SUBSET C |-> Step(f, S)]
  <2>1. PICK f : Solves(f, Cardinality(C)) BY <1>6
  <2> QED BY <2>1, <1>7, Zenon
<1>9. F = [S \in SUBSET C |-> Step(F, S)] BY <1>8, Zenon
<1>10. EnableAllInScope(d, s, C) = F[C] BY Zenon DEF EnableAllInScope
<1> HIDE DEF F
<1>11. \A S \in SUBSET C : F[S] = Step(F, S) BY <1>9, Zenon
<1>12. {} \in SUBSET C OBVIOUS
<1>13. F[{}] = d BY <1>11, <1>12, Zenon
<1>14. \A S \in SUBSET C : S # {} =>
          F[S] = EnableInScope(F[S \ {First(S)}], s, First(S))
  BY <1>11, Zenon
<1> QED BY <1>10, <1>13, <1>14, Zenon DEF RunsOver

LEMMA EnableAllInScopeIs ==
    ASSUME PanelRows, NEW d, Typed(d), NEW s \in RuleId, Scope(d, s), Active(d, s),
           NEW C \in SUBSET Traffic, \A t \in C : traffics[t] # NoRow
    PROVE  LET x == EnableAllInScope(d, s, C)
           IN  Preserves(d, x) /\ Keeps(d, x)
<1>1. PICK f : EnableAllInScope(d, s, C) = f[C] /\ RunsOver(f, d, s, C)
  BY CandidatesLoop
<1> DEFINE P == {S \in SUBSET C : Preserves(d, f[S]) /\ Keeps(d, f[S])}
<1>2. {} \in P BY <1>1, PreservesSelf, KeepsSelf DEF RunsOver
<1>3. ASSUME NEW S \in SUBSET C, S # {}, \A t \in S : S \ {t} \in P
      PROVE  S \in P
  <2> DEFINE t == First(S)
             y == f[S \ {t}]
             x == f[S]
  <2>1. t \in S
    <3>1. S \in SUBSET Nat BY TrafficAssumption
    <3> QED BY <1>3, <3>1, FirstIn
  <2>2. x = EnableInScope(y, s, t) BY <1>1, <1>3 DEF RunsOver
  <2>3. Preserves(d, y) /\ Keeps(d, y) BY <1>3, <2>1
  <2>4. t \in Traffic /\ traffics[t] # NoRow BY <2>1
  <2> HIDE DEF t, y, x
  <2>5. y.rules[s] = d.rules[s] BY <2>3 DEF Keeps
  <2>6. Typed(y) /\ Scope(y, s) /\ Active(y, s)
    BY <2>3, <2>5 DEF Preserves, Kept, Scope, Active, Exists
  <2>7. Preserves(y, x) /\ Keeps(y, x) BY <2>2, <2>4, <2>6, EnableInScopeIs
  <2>8. Preserves(d, x) /\ Keeps(d, x) BY <2>3, <2>7, PreservesTrans, KeepsTrans
  <2> QED BY <2>8 DEF x
<1>4. P \in SUBSET (SUBSET C) OBVIOUS
<1>5. IsFiniteSet(C) BY TrafficAssumption, FS_Subset
<1>6. P = SUBSET C
  <2> HIDE DEF P
  <2> QED BY <1>2, <1>3, <1>4, <1>5, SubsetInduction
<1>7. C \in P BY <1>6
<1> QED BY <1>1, <1>7

(* enable-all: a scope that is there or new, its candidates, the rules. *)
LEMMA EnableAllTransacts ==
    ASSUME PanelRows, Typed(db), NEW i \in MaybeInbound, NEW f \in Factors, NEW b \in BOOLEAN,
           EnableAll(i, b, f)
    PROVE  Transacts(db, db')
<1> DEFINE C == ListClientCandidates(i, b)
           same == SameScopes(i, b, f)
           rule == NewRule("scope", NoRow, i, f, b)
           s == IF same = {} THEN db.next ELSE First(same)
           y == IF same = {} THEN CreateRule(db, rule) ELSE db
           z == EnableAllInScope(y, s, C)
<1>1. db' = ReconcileTx(z, i) /\ (same = {} => db.next <= MaxRules)
  BY DEF EnableAll
<1>2. C \in SUBSET Traffic /\ \A t \in C : traffics[t] # NoRow
  BY DEF ListClientCandidates, InScope
<1>3. rule \in Rule /\ rule.state = "active" /\ rule.kind = "scope" BY NewRuleIs
<1> HIDE DEF C, rule
<1>4. s \in RuleId /\ Scope(y, s) /\ Active(y, s) /\ Preserves(db, y) /\ Keeps(db, y)
  <2>1. CASE same = {}
    <3> DEFINE x == CreateRule(db, rule)
    <3>1. db.next <= MaxRules /\ s = db.next /\ y = x BY <1>1, <2>1
    <3>2. /\ db.next \in RuleId /\ Preserves(db, x) /\ Keeps(db, x)
          /\ x.rules[db.next] = rule
      BY <1>3, <3>1, CreateRuleIs
    <3>3. rule # NoRow BY <1>3, NoRowAssumption
    <3> HIDE DEF x, y, s
    <3>4. y.rules[s] = rule BY <3>1, <3>2
    <3> QED BY <1>3, <3>1, <3>2, <3>3, <3>4 DEF Scope, Active, Exists
  <2>2. CASE same # {}
    <3>1. s = First(same) /\ y = db BY <2>2
    <3>2. same \in SUBSET Nat
      BY PersistentAre, BoundAssumption DEF SameScopes, RuleId
    <3>3. First(same) \in same
      <4> HIDE DEF same
      <4> QED BY <2>2, <3>2, FirstIn
    <3>4. First(same) \in ListActivePersistentScopes(db) BY <3>3 DEF SameScopes
    <3> HIDE DEF y, s
    <3>5. s \in RuleId /\ Scope(db, s) /\ Active(db, s) BY <3>1, <3>4, PersistentAre
    <3> QED BY <3>1, <3>5, PreservesSelf, KeepsSelf
  <2> QED BY <2>1, <2>2
<1> HIDE DEF s, y
<1>5. Typed(y) BY <1>4 DEF Preserves, Kept
<1>6. Preserves(y, z) /\ Keeps(y, z) BY <1>2, <1>4, <1>5, EnableAllInScopeIs
<1> HIDE DEF z
<1>7. Preserves(db, z) /\ Keeps(db, z) BY <1>4, <1>6, PreservesTrans, KeepsTrans
<1> DEFINE x == ReconcileTx(z, i)
<1>8. Preserves(z, x) /\ (Safe(z) => Keeps(z, x)) BY <1>7, ReconcileTxIs DEF Preserves, Kept
<1> HIDE DEF x
<1>9. Preserves(db, x) /\ (Safe(db) => Keeps(db, x))
  BY <1>7, <1>8, PreservesTrans, KeepsTrans DEF Preserves, Kept
<1>10. Transacts(db, x) BY <1>9, KeepsTransacts
<1> QED BY <1>1, <1>10 DEF x

-----------------------------------------------------------------------------
(* Resuming a rule none of whose clients has another owner. *)
ResumedRow(d, r, t) ==
    IF t \in Present(d, r) THEN Tracked(d.rc[r][t].email) ELSE d.rc[r][t]

LEMMA ResumedIs ==
    ASSUME NEW d, Typed(d), NEW r \in RuleId, Exists(d, r), ~Conflict(d, r)
    PROVE  LET x == Resumed(d, r)
           IN  /\ Allows(d, x)
               /\ \A q \in RuleId : Exists(x, q) <=> Exists(d, q)
               /\ \A q \in RuleId : Merged(x, q) => Merged(d, q)
<1> DEFINE m == [t \in Traffic |-> ResumedRow(d, r, t)]
           y == [d EXCEPT !.rc[r] = m]
           x == SetRule(y, r, "active")
<1>0. d \in DB BY DEF Typed
<1>1. ASSUME NEW t \in Traffic
      PROVE  /\ ResumedRow(d, r, t) \in RuleClient \cup {NoRow}
             /\ ResumedRow(d, r, t) # NoRow <=> Tracks(d, r, t)
  <2>1. CASE t \in Present(d, r)
    <3>1. Tracks(d, r, t) BY <2>1, ClientsAre DEF Present
    <3>2. d.rc[r][t] \in RuleClient BY <1>0, <3>1, RowTypes
    <3>3. d.rc[r][t].email \in Emails BY <3>2, ClientFields
    <3>4. /\ Tracked(d.rc[r][t].email) \in RuleClient /\ Tracked(d.rc[r][t].email) # NoRow
      BY <3>3, TrackedType
    <3> QED BY <2>1, <3>1, <3>4 DEF ResumedRow
  <2>2. CASE t \notin Present(d, r)
    <3>1. d.rc[r][t] \in RuleClient \cup {NoRow} BY <1>0, DBParts
    <3> QED BY <2>2, <3>1 DEF ResumedRow, Tracks
  <2> QED BY <2>1, <2>2
<1>2. m \in ClientRows /\ \A t \in Traffic : m[t] # NoRow <=> Tracks(d, r, t)
  BY <1>1 DEF ClientRows
<1>3. Resumed(d, r) = x BY Zenon DEF Resumed, ResumedRow
<1> HIDE DEF m
<1>4. /\ y \in DB /\ y.rules = d.rules /\ y.next = d.next
      /\ y.rc[r] = m /\ \A q \in RuleId : q # r => y.rc[q] = d.rc[q]
  BY <1>0, <1>2, PutRowsIs
<1> HIDE DEF y
<1>5. \A q \in RuleId : Exists(y, q) <=> Exists(d, q) BY <1>4 DEF Exists
<1>6. "active" \in States BY DEF States
<1>7. /\ x \in DB /\ x.rc = y.rc /\ x.next = y.next
      /\ \A q \in RuleId : q # r => x.rules[q] = y.rules[q]
      /\ Exists(x, r)
      /\ x.rules[r].state = "active" /\ x.rules[r].kind = y.rules[r].kind
      /\ x.rules[r].includeDisabled = y.rules[r].includeDisabled
  BY <1>4, <1>5, <1>6, SetRuleIs
<1> HIDE DEF x
<1>8. \A q \in RuleId, t \in Traffic : Tracks(x, q, t) <=> Tracks(d, q, t)
  <2> TAKE q \in RuleId, t \in Traffic
  <2>1. CASE q = r BY <1>2, <1>4, <1>7, <2>1 DEF Tracks
  <2>2. CASE q # r
    <3>1. x.rc[q] = d.rc[q] BY <1>4, <1>7, <2>2
    <3> QED BY <3>1 DEF Tracks
  <2> QED BY <2>1, <2>2
<1>9. ASSUME NEW q \in RuleId
      PROVE  /\ Exists(x, q) <=> Exists(d, q)
             /\ Single(x, q) <=> Single(d, q)
             /\ Merged(x, q) => Merged(d, q)
             /\ Single(x, q) => x.rules[q].includeDisabled = d.rules[q].includeDisabled
             /\ q # r => x.rules[q] = d.rules[q]
  <2>1. CASE q = r BY <1>4, <1>7, <2>1 DEF Single, Merged
  <2>2. CASE q # r
    <3>1. x.rules[q] = d.rules[q] BY <1>4, <1>7, <2>2
    <3> QED BY <2>2, <3>1 DEF Exists, Single, Merged
  <2> QED BY <2>1, <2>2
<1>10. Typed(x)
  <2>1. \A q \in RuleId, t \in Traffic : Tracks(x, q, t) => Exists(x, q)
    BY <1>8, <1>9 DEF Typed
  <2>2. \A q \in RuleId : Exists(x, q) => q < x.next BY <1>4, <1>7, <1>9 DEF Typed
  <2>3. \A q \in RuleId, t, u \in Traffic :
           Single(x, q) /\ Tracks(x, q, t) /\ Tracks(x, q, u) => t = u
    BY <1>8, <1>9 DEF Typed
  <2>4. \A q \in RuleId : Single(x, q) => ~x.rules[q].includeDisabled BY <1>9 DEF Typed
  <2> QED BY <1>7, <2>1, <2>2, <2>3, <2>4 DEF Typed
<1>11. Owned(d) => Owned(x)
  <2> SUFFICES ASSUME Owned(d), NEW t \in Traffic, NEW p \in RuleId, NEW q \in RuleId,
                      Owns(x, p, t), Owns(x, q, t)
               PROVE  p = q
    BY DEF Owned
  <2>1. \A k \in RuleId : k # r /\ Owns(x, k, t) => Owns(d, k, t)
    BY <1>8, <1>9 DEF Owns
  <2>2. \A k \in RuleId : Tracks(d, r, t) /\ Owns(d, k, t) => k = r
    <3> SUFFICES ASSUME NEW k \in RuleId, Tracks(d, r, t), Owns(d, k, t), k # r PROVE FALSE
      OBVIOUS
    <3>1. k \in Owners(d, t) \ {r} BY OwnersAre
    <3>2. t \in RuleClients(d, r) BY ClientsAre
    <3> QED BY <3>1, <3>2 DEF Conflict
  <2>3. \A k \in RuleId : Owns(x, k, t) => Tracks(d, k, t) BY <1>8 DEF Owns
  <2>4. CASE p = r BY <2>1, <2>2, <2>3, <2>4
  <2>5. CASE q = r BY <2>1, <2>2, <2>3, <2>5
  <2>6. CASE p # r /\ q # r BY <2>1, <2>6 DEF Owned
  <2> QED BY <2>4, <2>5, <2>6
<1>12. NoneLost(d) => NoneLost(x) BY <1>8, <1>9 DEF NoneLost
<1>13. Enabled(d) => Enabled(x) BY <1>9 DEF Enabled
<1>14. Allows(d, x) BY <1>10, <1>11, <1>12, <1>13 DEF Allows, Kept
<1> QED BY <1>3, <1>9, <1>14

LEMMA ResumeOneIs ==
    ASSUME NEW d, Typed(d), NEW r \in RuleId, Exists(d, r)
    PROVE  LET x == ResumeOne(d, r)
           IN  /\ Allows(d, x)
               /\ \A q \in RuleId : Exists(x, q) <=> Exists(d, q)
               /\ \A q \in RuleId : Merged(x, q) => Merged(d, q)
<1>1. CASE Conflict(d, r) \/ (Present(d, r) = {} /\ d.rules[r].kind = "single")
  <2>1. ResumeOne(d, r) = d BY <1>1, Zenon DEF ResumeOne
  <2> QED BY <2>1, PreservesSelf
<1>2. CASE ~(Conflict(d, r) \/ (Present(d, r) = {} /\ d.rules[r].kind = "single"))
  <2>1. ResumeOne(d, r) = Resumed(d, r) BY <1>2, Zenon DEF ResumeOne
  <2> QED BY <1>2, <2>1, ResumedIs
<1> QED BY <1>1, <1>2

LEMMA ResumeAllTransacts ==
    ASSUME NEW d, Typed(d), NEW R, \A r \in R : r \in RuleId /\ Exists(d, r)
    PROVE  Transacts(d, ForEachRule(d, R, ResumeOne))
<1>1. PICK f : Runs(f, "resume", d, R) /\ ForEachRule(d, R, ResumeOne) = f[MaxRules]
  BY ResumeLoop
<1> DEFINE Ok(x) == /\ Allows(d, x)
                    /\ \A q \in RuleId : Exists(x, q) <=> Exists(d, q)
                    /\ \A q \in RuleId : Merged(x, q) => Merged(d, q)
           Values == {f[n] : n \in 0..MaxRules}
           I == {p \in (0..MaxRules) \X Values : Ok(p[2])}
<1>2. \A n \in 0..MaxRules : <<n, f[n]>> \in I <=> Ok(f[n]) OBVIOUS
<1>3. 0 \in 0..MaxRules /\ MaxRules \in 0..MaxRules /\ \A r \in RuleId :
          r \in 0..MaxRules /\ r - 1 \in 0..MaxRules
  BY BoundAssumption DEF RuleId
<1> HIDE DEF I
<1>4. <<0, f[0]>> \in I
  <2>1. f[0] = d BY <1>1 DEF Runs
  <2>2. Ok(d) BY PreservesSelf
  <2> QED BY <1>2, <1>3, <2>1, <2>2
<1>5. ASSUME NEW r \in RuleId, <<r - 1, f[r - 1]>> \in I PROVE <<r, f[r]>> \in I
  <2> DEFINE x == f[r - 1]
             y == f[r]
  <2>1. Ok(x) BY <1>2, <1>3, <1>5
  <2>2. y = IF r \in R THEN ResumeOne(x, r) ELSE x
    <3>1. Body("resume", x, r) = ResumeOne(x, r) BY Zenon DEF Body
    <3> QED BY <1>1, <3>1 DEF Runs
  <2> HIDE DEF x, y
  <2>3. Ok(y)
    <3>1. CASE r \notin R BY <2>1, <2>2, <3>1
    <3>2. CASE r \in R
      <4>1. Typed(x) /\ Exists(x, r) BY <2>1, <3>2 DEF Allows, Kept
      <4>2. /\ Allows(x, y)
            /\ \A q \in RuleId : Exists(y, q) <=> Exists(x, q)
            /\ \A q \in RuleId : Merged(y, q) => Merged(x, q)
        BY <2>2, <3>2, <4>1, ResumeOneIs
      <4>3. Allows(d, y) BY <2>1, <4>2, AllowsTrans
      <4> QED BY <2>1, <4>2, <4>3
    <3> QED BY <3>1, <3>2
  <2> QED BY <1>2, <1>3, <2>3 DEF y
<1>6. <<MaxRules, f[MaxRules]>> \in I BY <1>4, <1>5, LoopInduction
<1>7. Ok(f[MaxRules]) BY <1>2, <1>3, <1>6
<1> QED BY <1>1, <1>7, UnmergedTransacts

-----------------------------------------------------------------------------
(* Steps after which nobody owns more than before. *)
LEMMA ShrinksTransacts ==
    ASSUME NEW d, NEW x, Typed(d), Shrinks(d, x),
           \A r \in RuleId : Merged(x, r) => Merged(d, r)
    PROVE  Transacts(d, x)
BY ShrinksPreserves, UnmergedTransacts

LEMMA CleanedIs ==
    ASSUME NEW c \in RuleClient \cup {NoRow}, NEW t
    PROVE  /\ CleanedClient(c, t) \in RuleClient \cup {NoRow}
           /\ CleanedClient(c, t) # NoRow => c # NoRow /\ CleanedClient(c, t).email = c.email
<1>1. CASE c = NoRow
  <2>1. CleanedClient(c, t) = NoRow BY <1>1 DEF CleanedClient
  <2> QED BY <2>1
<1>2. CASE c # NoRow /\ c.missing = "expired"
  <2>1. CleanedClient(c, t) = NoRow BY <1>2 DEF CleanedClient
  <2> QED BY <2>1
<1>3. CASE c # NoRow /\ c.missing # "expired"
  <2>1. CleanedClient(c, t) = IF Matches(t, c.email) THEN c ELSE MarkMissing(c)
    BY <1>3 DEF CleanedClient
  <2>2. /\ c \in RuleClient /\ MarkMissing(c) \in RuleClient
        /\ MarkMissing(c).email = c.email
    BY <1>3, ClientFields
  <2> QED BY <1>3, <2>1, <2>2
<1> QED BY <1>1, <1>2, <1>3

LEMMA CleanupTransacts == ASSUME Typed(db), Cleanup PROVE Transacts(db, db')
<1> DEFINE R == [r \in RuleId |-> IF Aged(r) THEN NoRow ELSE db.rules[r]]
           C == [r \in RuleId |-> [t \in Traffic |->
                    IF Aged(r) THEN NoRow ELSE CleanedClient(db.rc[r][t], t)]]
           x == [rules |-> R, rc |-> C, next |-> db.next]
<1>0. db \in DB BY DEF Typed
<1>1. db' = x
  <2>1. db' = [db EXCEPT !.rules = R, !.rc = C] BY Zenon DEF Cleanup
  <2> DEFINE y == [db EXCEPT !.rules = R]
  <2>2. db' = [y EXCEPT !.rc = C] BY <2>1
  <2> HIDE DEF R, C
  <2>3. y = [rules |-> R, rc |-> db.rc, next |-> db.next] BY <1>0, DBParts
  <2> HIDE DEF y
  <2> QED BY <2>2, <2>3
<1>2. R \in [RuleId -> Rule \cup {NoRow}] /\ \A r \in RuleId : R[r] \in {NoRow, db.rules[r]}
  BY <1>0, DBParts
<1>3. \A r \in RuleId, t \in Traffic :
         /\ C[r][t] \in RuleClient \cup {NoRow}
         /\ C[r][t] # NoRow => /\ db.rc[r][t] # NoRow /\ R[r] = db.rules[r]
                               /\ C[r][t].email = db.rc[r][t].email
  <2> TAKE r \in RuleId, t \in Traffic
  <2>1. db.rc[r][t] \in RuleClient \cup {NoRow} BY <1>0, DBParts
  <2>2. /\ CleanedClient(db.rc[r][t], t) \in RuleClient \cup {NoRow}
        /\ CleanedClient(db.rc[r][t], t) # NoRow =>
              db.rc[r][t] # NoRow /\ CleanedClient(db.rc[r][t], t).email = db.rc[r][t].email
    BY <2>1, CleanedIs
  <2> QED BY <2>2
<1>4. C \in [RuleId -> [Traffic -> RuleClient \cup {NoRow}]] BY <1>3
<1> HIDE DEF R, C
<1>5. x \in DB BY <1>0, <1>2, <1>4, DBParts, DBMake
<1>6. \A r \in RuleId : Exists(x, r) => x.rules[r] = db.rules[r] /\ Exists(db, r)
  BY <1>2 DEF Exists
<1>7. \A r \in RuleId, t \in Traffic :
         Tracks(x, r, t) => /\ Tracks(db, r, t) /\ Exists(x, r)
                            /\ x.rc[r][t].email = db.rc[r][t].email
  BY <1>3 DEF Tracks, Exists, Typed
<1>8. Shrinks(db, x) BY <1>5, <1>6, <1>7 DEF Shrinks
<1>9. \A r \in RuleId : Merged(x, r) => Merged(db, r) BY <1>6 DEF Merged
<1>10. Transacts(db, x)
  <2> HIDE DEF x
  <2> QED BY <1>8, <1>9, ShrinksTransacts
<1> QED BY <1>1, <1>10

LEMMA AgeClientTransacts ==
    ASSUME Typed(db), NEW r \in RuleId, NEW t \in Traffic, AgeClient(r, t)
    PROVE  Transacts(db, db')
<1> DEFINE c == [db.rc[r][t] EXCEPT !.missing = "expired"]
           x == Put(db, r, t, c)
<1>0. db \in DB /\ Tracks(db, r, t) BY DEF Typed, AgeClient, Tracks
<1>1. db.rc[r][t] \in RuleClient BY <1>0, RowTypes
<1>2. c \in RuleClient /\ c.email = db.rc[r][t].email BY <1>1 DEF RuleClient
<1>3. db' = x BY Zenon DEF AgeClient, Put
<1> HIDE DEF c
<1>4. Shrinks(db, x) BY <1>0, <1>2, RewriteShrinks
<1>5. x.rules = db.rules BY <1>0, <1>2, PutIs
<1> HIDE DEF x
<1>6. \A q \in RuleId : Merged(x, q) => Merged(db, q) BY <1>5 DEF Merged, Exists
<1>7. Transacts(db, x) BY <1>4, <1>6, ShrinksTransacts
<1> QED BY <1>3, <1>7

(* Some rules are written again, none of them active or merged by it. *)
LEMMA RulesTransact ==
    ASSUME NEW d, Typed(d), NEW R \in [RuleId -> Rule \cup {NoRow}],
           \A r \in RuleId : Exists(d, r) <=> R[r] # NoRow,
           \A r \in RuleId : Exists(d, r) =>
              /\ R[r].kind = d.rules[r].kind
              /\ R[r].includeDisabled = d.rules[r].includeDisabled
              /\ R[r].state \in {"active", "merged"} => d.rules[r].state = R[r].state
    PROVE  Transacts(d, [d EXCEPT !.rules = R])
<1> DEFINE x == [rules |-> R, rc |-> d.rc, next |-> d.next]
<1>0. d \in DB BY DEF Typed
<1>1. [d EXCEPT !.rules = R] = x BY <1>0, DBParts
<1>2. x \in DB BY <1>0, DBParts, DBMake
<1>3. x.rules = R /\ x.rc = d.rc /\ x.next = d.next OBVIOUS
<1> HIDE DEF x
<1>4. \A r \in RuleId : Exists(x, r) <=> Exists(d, r) BY <1>3 DEF Exists
<1>5. \A r \in RuleId, t \in Traffic : /\ Tracks(x, r, t) <=> Tracks(d, r, t)
                                       /\ x.rc[r][t].email = d.rc[r][t].email
  BY <1>3 DEF Tracks
<1>6. Shrinks(d, x) BY <1>2, <1>3, <1>4, <1>5 DEF Shrinks, Typed
<1>7. \A r \in RuleId : Merged(x, r) => Merged(d, r) BY <1>3, <1>4 DEF Merged
<1>8. Transacts(d, x) BY <1>6, <1>7, ShrinksTransacts
<1> QED BY <1>1, <1>8

LEMMA AgeRuleTransacts ==
    ASSUME Typed(db), NEW r \in RuleId, AgeRule(r) PROVE Transacts(db, db')
<1> DEFINE y == [db.rules[r] EXCEPT !.aged = TRUE]
           R == [db.rules EXCEPT ![r] = y]
<1>0. db \in DB /\ Exists(db, r) BY DEF Typed, AgeRule, Exists
<1>1. db.rules[r] \in Rule BY <1>0, RowTypes
<1>2. /\ y \in Rule /\ y.kind = db.rules[r].kind /\ y.state = db.rules[r].state
      /\ y.includeDisabled = db.rules[r].includeDisabled
  BY <1>1 DEF Rule
<1>3. db' = [db EXCEPT !.rules = R] BY Zenon DEF AgeRule
<1>4. y # NoRow BY <1>2, NoRowAssumption
<1> HIDE DEF y
<1>5. /\ R \in [RuleId -> Rule \cup {NoRow}] /\ R[r] = y
      /\ \A q \in RuleId : q # r => R[q] = db.rules[q]
  BY <1>0, <1>2, DBParts
<1> HIDE DEF R
<1>6. \A q \in RuleId : Exists(db, q) <=> R[q] # NoRow BY <1>0, <1>4, <1>5 DEF Exists
<1>7. \A q \in RuleId : Exists(db, q) =>
         /\ R[q].kind = db.rules[q].kind
         /\ R[q].includeDisabled = db.rules[q].includeDisabled
         /\ R[q].state \in {"active", "merged"} => db.rules[q].state = R[q].state
  BY <1>2, <1>5
<1>8. Transacts(db, [db EXCEPT !.rules = R]) BY <1>5, <1>6, <1>7, RulesTransact
<1> QED BY <1>3, <1>8

LEMMA BulkTransacts ==
    ASSUME Typed(db), NEW i, NEW from, NEW to \in {"disabled", "paused"},
           BulkTransition(i, from, to)
    PROVE  Transacts(db, db')
<1> DEFINE S == ListRulesInStates(db, i, from)
           R == [r \in RuleId |->
                   IF r \in S THEN [db.rules[r] EXCEPT !.state = to] ELSE db.rules[r]]
<1>0. db \in DB BY DEF Typed
<1>1. db' = [db EXCEPT !.rules = R] BY Zenon DEF BulkTransition
<1>2. \A r \in S : Exists(db, r) BY DEF ListRulesInStates, Exists
<1> HIDE DEF S
<1>3. ASSUME NEW r \in RuleId
      PROVE  /\ R[r] \in Rule \cup {NoRow}
             /\ Exists(db, r) <=> R[r] # NoRow
             /\ Exists(db, r) =>
                   /\ R[r].kind = db.rules[r].kind
                   /\ R[r].includeDisabled = db.rules[r].includeDisabled
                   /\ R[r].state \in {"active", "merged"} => db.rules[r].state = R[r].state
  <2>1. CASE r \notin S
    <3>1. R[r] = db.rules[r] BY <2>1
    <3>2. db.rules[r] \in Rule \cup {NoRow} BY <1>0, DBParts
    <3> QED BY <3>1, <3>2 DEF Exists
  <2>2. CASE r \in S
    <3> DEFINE y == [db.rules[r] EXCEPT !.state = to]
    <3>1. R[r] = y BY <2>2
    <3>2. db.rules[r] \in Rule BY <1>0, <1>2, <2>2, RowTypes
    <3>3. /\ y \in Rule /\ y.kind = db.rules[r].kind /\ y.state = to
          /\ y.includeDisabled = db.rules[r].includeDisabled
      BY <3>2 DEF Rule, Retired
    <3>4. y # NoRow BY <3>3, NoRowAssumption
    <3> HIDE DEF y, R
    <3> QED BY <1>2, <2>2, <3>1, <3>3, <3>4
  <2> QED BY <2>1, <2>2
<1>4. R \in [RuleId -> Rule \cup {NoRow}] BY <1>3
<1> HIDE DEF R
<1>5. Transacts(db, [db EXCEPT !.rules = R]) BY <1>3, <1>4, RulesTransact
<1> QED BY <1>1, <1>5

LEMMA TransitionTransacts ==
    ASSUME Typed(db), NEW e, NEW i, NEW from, NEW to \in {"disabled", "paused"},
           Transition(e, i, from, to)
    PROVE  Transacts(db, db')
<1>1. PICK r \in RuleId : Selected(e, i, from) = {r} /\ db' = SetRule(db, r, to)
  BY DEF Transition
<1> DEFINE x == SetRule(db, r, to)
<1>2. db \in DB /\ Exists(db, r)
  BY <1>1 DEF Typed, Selected, ListRulesInStates, Exists
<1>3. to \in States \ {"active"} /\ to \in States /\ to # "merged" BY DEF States, Retired
<1>4. Shrinks(db, x) BY <1>2, <1>3, RetireShrinks
<1>5. /\ \A q \in RuleId : q # r => x.rules[q] = db.rules[q]
      /\ x.rules[r].state = to
  BY <1>2, <1>3, SetRuleIs
<1> HIDE DEF x
<1>6. \A q \in RuleId : Merged(x, q) => Merged(db, q)
  <2> TAKE q \in RuleId
  <2>1. CASE q = r BY <1>3, <1>5, <2>1 DEF Merged
  <2>2. CASE q # r
    <3>1. x.rules[q] = db.rules[q] BY <1>5, <2>2
    <3> QED BY <3>1 DEF Merged, Exists
  <2> QED BY <2>1, <2>2
<1>7. Transacts(db, x) BY <1>4, <1>6, ShrinksTransacts
<1> QED BY <1>1, <1>7 DEF x

-----------------------------------------------------------------------------
(* The invariant.  Where a client is deleted and recreated and `enable` is *)
(* given between that and the next reconciliation, a client can get two    *)
(* owners: what is said about owners is said of behaviours in which the    *)
(* rows that rules return to are Clear.  In a system without deletions or  *)
(* without `enable` they always are.                                       *)
Separate == "delete" \notin PanelOps \/ "enable" \notin Commands

PanelOK ==
    /\ PanelRows
    /\ {t \in Traffic : traffics[t] # NoRow} \subseteq used /\ used \subseteq Traffic
    /\ attached \in [Emails -> SUBSET Inbounds]

IInv == /\ PanelOK /\ Typed(db) /\ Enabled(db)
        /\ Separate => NoneLost(db)

LEMMA InitIInv == Init => IInv /\ Owned(db)
<1> SUFFICES ASSUME Init PROVE IInv /\ Owned(db) OBVIOUS
<1>1. PanelOK
  <2>1. traffics \in [Traffic -> {NoRow} \cup [email : Emails, enabled : {TRUE}]]
    BY DEF Init
  <2>2. PanelRows
    <3>1. [email : Emails, enabled : {TRUE}] \subseteq Client BY DEF Client
    <3> QED BY <2>1, <3>1 DEF PanelRows
  <2> QED BY <2>2 DEF Init, PanelOK
<1> DEFINE R == [r \in RuleId |-> NoRow]
           C == [r \in RuleId |-> [t \in Traffic |-> NoRow]]
<1>2. /\ R \in [RuleId -> Rule \cup {NoRow}]
      /\ C \in [RuleId -> [Traffic -> RuleClient \cup {NoRow}]]
      /\ 1 \in 1..(MaxRules + 1)
      /\ \A r \in RuleId : R[r] = NoRow /\ \A t \in Traffic : C[r][t] = NoRow
  BY BoundAssumption
<1>3. db = [rules |-> R, rc |-> C, next |-> 1] BY DEF Init
<1> HIDE DEF R, C
<1>4. db \in DB BY <1>2, <1>3, DBMake
<1>5. \A r \in RuleId : ~Exists(db, r) /\ \A t \in Traffic : ~Tracks(db, r, t)
  BY <1>2, <1>3 DEF Exists, Tracks
<1>6. Typed(db) BY <1>4, <1>5 DEF Typed, Single
<1>7. Enabled(db) /\ NoneLost(db) /\ Owned(db)
  BY <1>5 DEF Enabled, Owned, NoneLost, Owns, Single
<1> QED BY <1>1, <1>6, <1>7 DEF IInv

(* The daemon's and the operator's transactions. *)
Transaction == Operator \/ Tick \/ Cleanup \/ Age

LEMMA TransactionIs ==
    ASSUME IInv, Transaction
    PROVE  Transacts(db, db') /\ UNCHANGED <<traffics, used, attached>>
<1>0. PanelRows /\ Typed(db) BY DEF IInv, PanelOK
<1>1. CASE Tick
  <2>1. /\ db' = TickTargets(TickMembers(db)) /\ UNCHANGED <<traffics, used, attached>>
    BY <1>1 DEF Tick
  <2> QED BY <1>0, <2>1, TickTransacts
<1>2. CASE Cleanup
  <2>1. UNCHANGED <<traffics, used, attached>> BY <1>2 DEF Cleanup
  <2> QED BY <1>0, <1>2, <2>1, CleanupTransacts
<1>3. CASE Age
  <2>1. PICK r \in RuleId : AgeRule(r) \/ \E t \in Traffic : AgeClient(r, t)
    BY <1>3 DEF Age
  <2>2. CASE AgeRule(r)
    <3>1. UNCHANGED <<traffics, used, attached>> BY <2>2 DEF AgeRule
    <3> QED BY <1>0, <2>2, <3>1, AgeRuleTransacts
  <2>3. CASE \E t \in Traffic : AgeClient(r, t)
    <3>1. PICK t \in Traffic : AgeClient(r, t) BY <2>3
    <3>2. UNCHANGED <<traffics, used, attached>> BY <3>1 DEF AgeClient
    <3> QED BY <1>0, <3>1, <3>2, AgeClientTransacts
  <2> QED BY <2>1, <2>2, <2>3
<1>4. ASSUME NEW e \in Emails, NEW i \in MaybeInbound, NEW f \in Factors, Enable(e, i, f)
      PROVE  Transacts(db, db') /\ UNCHANGED <<traffics, used, attached>>
  <2> DEFINE t == ClientTrafficByEmail(e)
  <2>1. /\ "enable" \in Commands /\ UNCHANGED <<traffics, used, attached>>
        /\ db.next <= MaxRules /\ t # NoRow /\ Owners(db, t) = {}
        /\ db' = CreateRuleClient(CreateRule(db, NewRule("single", e, i, f, FALSE)),
                                  db.next, t)
    BY <1>4, Zenon DEF Enable, Command
  <2>2. t \in Traffic /\ traffics[t] # NoRow BY <2>1, FoundByEmail DEF Matches
  <2> HIDE DEF t
  <2> QED BY <1>0, <2>1, <2>2, EnableTransacts
<1>5. ASSUME NEW e \in Emails, NEW i \in MaybeInbound, Disable(e, i) \/ Pause(e, i)
      PROVE  Transacts(db, db') /\ UNCHANGED <<traffics, used, attached>>
  <2>1. UNCHANGED <<traffics, used, attached>> BY <1>5 DEF Disable, Pause, Command
  <2>2. CASE Disable(e, i)
    <3>1. Transition(e, i, {"active", "paused"}, "disabled") BY <2>2 DEF Disable
    <3>2. "disabled" \in {"disabled", "paused"} OBVIOUS
    <3> QED BY <1>0, <2>1, <3>1, <3>2, TransitionTransacts
  <2>3. CASE Pause(e, i)
    <3>1. Transition(e, i, {"active"}, "paused") BY <2>3 DEF Pause
    <3>2. "paused" \in {"disabled", "paused"} OBVIOUS
    <3> QED BY <1>0, <2>1, <3>1, <3>2, TransitionTransacts
  <2> QED BY <1>5, <2>2, <2>3
<1>6. ASSUME NEW e \in Emails, NEW i \in MaybeInbound, Resume(e, i)
      PROVE  Transacts(db, db') /\ UNCHANGED <<traffics, used, attached>>
  <2>1. UNCHANGED <<traffics, used, attached>> BY <1>6 DEF Resume, Command
  <2>2. PICK r \in RuleId : /\ Selected(e, i, {"paused"}) = {r} /\ ~Conflict(db, r)
                            /\ db' = Resumed(db, r)
    BY <1>6 DEF Resume
  <2>3. Exists(db, r) BY <2>2 DEF Selected, ListRulesInStates, Exists
  <2>4. /\ Allows(db, Resumed(db, r))
        /\ \A q \in RuleId : Merged(Resumed(db, r), q) => Merged(db, q)
    BY <1>0, <2>2, <2>3, ResumedIs
  <2>5. Transacts(db, Resumed(db, r)) BY <2>4, UnmergedTransacts
  <2> QED BY <2>1, <2>2, <2>5
<1>7. ASSUME NEW i \in MaybeInbound, NEW b \in BOOLEAN, NEW f \in Factors, EnableAll(i, b, f)
      PROVE  Transacts(db, db') /\ UNCHANGED <<traffics, used, attached>>
  <2>1. UNCHANGED <<traffics, used, attached>> BY <1>7 DEF EnableAll, Command
  <2> QED BY <1>0, <1>7, <2>1, EnableAllTransacts
<1>8. ASSUME NEW i \in MaybeInbound, NEW b \in BOOLEAN, NEW f \in Factors,
             EnableAllSnapshot(i, b, f)
      PROVE  Transacts(db, db') /\ UNCHANGED <<traffics, used, attached>>
  <2> DEFINE candidates == ListClientCandidates(i, b)
             targets == {t \in candidates : ActiveOrPaused(db, t) = {}}
             x == [CreateRule(db, NewRule("snapshot", NoRow, i, f, b))
                     EXCEPT !.rc[db.next] = [t \in Traffic |->
                        IF t \in targets THEN Tracked(traffics[t].email) ELSE NoRow]]
  <2>1. /\ UNCHANGED <<traffics, used, attached>> /\ db.next <= MaxRules
        /\ db' = IF targets = {} THEN db ELSE x
    BY <1>8, Zenon DEF EnableAllSnapshot, Command
  <2>2. targets \in SUBSET Traffic
        /\ \A t \in targets : traffics[t] # NoRow /\ ActiveOrPaused(db, t) = {}
    BY DEF ListClientCandidates, InScope
  <2> HIDE DEF targets
  <2>3. Transacts(db, x) BY <1>0, <2>1, <2>2, SnapshotTransacts
  <2>4. Transacts(db, db) BY <1>0, PreservesSelf, KeepsSelf, KeepsTransacts
  <2> HIDE DEF x
  <2> QED BY <2>1, <2>3, <2>4
<1>9. ASSUME NEW i \in MaybeInbound, DisableAll(i) \/ PauseAll(i)
      PROVE  Transacts(db, db') /\ UNCHANGED <<traffics, used, attached>>
  <2>1. UNCHANGED <<traffics, used, attached>> BY <1>9 DEF DisableAll, PauseAll, Command
  <2>2. CASE DisableAll(i)
    <3>1. BulkTransition(i, {"active", "paused"}, "disabled") BY <2>2 DEF DisableAll
    <3>2. "disabled" \in {"disabled", "paused"} OBVIOUS
    <3> QED BY <1>0, <2>1, <3>1, <3>2, BulkTransacts
  <2>3. CASE PauseAll(i)
    <3>1. BulkTransition(i, {"active"}, "paused") BY <2>3 DEF PauseAll
    <3>2. "paused" \in {"disabled", "paused"} OBVIOUS
    <3> QED BY <1>0, <2>1, <3>1, <3>2, BulkTransacts
  <2> QED BY <1>9, <2>2, <2>3
<1>10. ASSUME NEW i \in MaybeInbound, ResumeAll(i)
       PROVE  Transacts(db, db') /\ UNCHANGED <<traffics, used, attached>>
  <2> DEFINE R == ListRulesInStates(db, i, {"paused"})
  <2>1. UNCHANGED <<traffics, used, attached>> /\ db' = ForEachRule(db, R, ResumeOne)
    BY <1>10 DEF ResumeAll, Command
  <2>2. \A r \in R : r \in RuleId /\ Exists(db, r) BY DEF ListRulesInStates, Exists
  <2> HIDE DEF R
  <2> QED BY <1>0, <2>1, <2>2, ResumeAllTransacts
<1>11. ASSUME NEW i \in MaybeInbound, Reconcile(i)
       PROVE  Transacts(db, db') /\ UNCHANGED <<traffics, used, attached>>
  <2>1. UNCHANGED <<traffics, used, attached>> /\ db' = ReconcileTx(db, i)
    BY <1>11 DEF Reconcile, Command
  <2>2. Preserves(db, ReconcileTx(db, i)) /\ (Safe(db) => Keeps(db, ReconcileTx(db, i)))
    BY <1>0, ReconcileTxIs
  <2>3. Transacts(db, ReconcileTx(db, i)) BY <2>2, KeepsTransacts
  <2> QED BY <2>1, <2>3
<1>12. CASE Operator
  BY <1>4, <1>5, <1>6, <1>7, <1>8, <1>9, <1>10, <1>11, <1>12 DEF Operator
<1> QED BY <1>1, <1>2, <1>3, <1>12 DEF Transaction


(* The panel changes only its own rows; without deletions a row it has     *)
(* given out stays.                                                        *)
LEMMA PanelIs ==
    ASSUME IInv, Panel
    PROVE  /\ db' = db /\ PanelOK'
           /\ "delete" \notin PanelOps =>
                \A t \in Traffic : traffics[t] # NoRow => traffics'[t] # NoRow
<1>0. /\ traffics \in [Traffic -> Client \cup {NoRow}]
      /\ {t \in Traffic : traffics[t] # NoRow} \subseteq used /\ used \subseteq Traffic
      /\ attached \in [Emails -> SUBSET Inbounds]
  BY DEF IInv, PanelOK, PanelRows
<1>1. ASSUME NEW t \in Traffic, NEW c \in Client, traffics' = [traffics EXCEPT ![t] = c],
             used' \in {used, used \cup {t}}, traffics[t] # NoRow \/ used' = used \cup {t},
             attached' = attached
      PROVE  PanelOK' /\ \A u \in Traffic : traffics[u] # NoRow => traffics'[u] # NoRow
  <2>1. traffics' \in [Traffic -> Client \cup {NoRow}] BY <1>0, <1>1
  <2>2. \A u \in Traffic : traffics'[u] = IF u = t THEN c ELSE traffics[u] BY <1>0, <1>1
  <2>3. c # NoRow BY NoRowAssumption
  <2>4. \A u \in Traffic : traffics'[u] # NoRow => u \in used'
    BY <1>0, <1>1, <2>2
  <2>5. used' \subseteq Traffic BY <1>0, <1>1
  <2> QED BY <1>0, <1>1, <2>1, <2>2, <2>3, <2>4, <2>5 DEF PanelOK, PanelRows
<1>2. ASSUME NEW t \in Traffic, NEW e \in Emails, PanelCreate(t, e)
      PROVE  db' = db /\ PanelOK' /\ \A u \in Traffic : traffics[u] # NoRow => traffics'[u] # NoRow
  <2> DEFINE c == [email |-> e, enabled |-> TRUE]
  <2>1. c \in Client BY DEF Client
  <2>2. /\ traffics' = [traffics EXCEPT ![t] = c] /\ used' = used \cup {t}
        /\ attached' = attached /\ db' = db
    BY <1>2 DEF PanelCreate, PanelOp
  <2> HIDE DEF c
  <2> QED BY <1>1, <2>1, <2>2
<1>3. ASSUME NEW t \in Traffic, NEW e \in Emails, PanelRename(t, e)
      PROVE  db' = db /\ PanelOK' /\ \A u \in Traffic : traffics[u] # NoRow => traffics'[u] # NoRow
  <2> DEFINE c == [traffics[t] EXCEPT !.email = e]
  <2>1. /\ traffics[t] # NoRow /\ used' = used /\ attached' = attached /\ db' = db
        /\ traffics' = [traffics EXCEPT ![t].email = e]
    BY <1>3 DEF PanelRename, PanelOp
  <2>2. traffics[t] \in Client BY <1>0, <2>1
  <2>3. c \in Client BY <2>2 DEF Client
  <2>4. traffics' = [traffics EXCEPT ![t] = c] BY <2>1
  <2> HIDE DEF c
  <2> QED BY <1>1, <2>1, <2>3, <2>4
<1>4. ASSUME NEW t \in Traffic, PanelToggle(t)
      PROVE  db' = db /\ PanelOK' /\ \A u \in Traffic : traffics[u] # NoRow => traffics'[u] # NoRow
  <2> DEFINE c == [traffics[t] EXCEPT !.enabled = ~@]
  <2>1. /\ traffics[t] # NoRow /\ used' = used /\ attached' = attached /\ db' = db
        /\ traffics' = [traffics EXCEPT ![t].enabled = ~@]
    BY <1>4 DEF PanelToggle, PanelOp
  <2>2. traffics[t] \in Client BY <1>0, <2>1
  <2>3. c \in Client BY <2>2 DEF Client
  <2>4. traffics' = [traffics EXCEPT ![t] = c] BY <2>1
  <2> HIDE DEF c
  <2> QED BY <1>1, <2>1, <2>3, <2>4
<1>5. ASSUME NEW t \in Traffic, PanelDelete(t)
      PROVE  "delete" \in PanelOps /\ db' = db /\ PanelOK'
  <2>1. /\ "delete" \in PanelOps /\ db' = db /\ used' = used /\ attached' = attached
        /\ traffics' = [traffics EXCEPT ![t] = NoRow]
    BY <1>5 DEF PanelDelete, PanelOp
  <2>2. traffics' \in [Traffic -> Client \cup {NoRow}] BY <1>0, <2>1
  <2>3. \A u \in Traffic : traffics'[u] # NoRow => u \in used' BY <1>0, <2>1
  <2> QED BY <1>0, <2>1, <2>2, <2>3 DEF PanelOK, PanelRows
<1>6. ASSUME NEW e \in Emails, NEW S \in SUBSET Inbounds, PanelAttach(e, S)
      PROVE  db' = db /\ PanelOK' /\ \A u \in Traffic : traffics[u] # NoRow => traffics'[u] # NoRow
  <2>1. /\ db' = db /\ traffics' = traffics /\ used' = used
        /\ attached' = [attached EXCEPT ![e] = S]
    BY <1>6 DEF PanelAttach, PanelOp
  <2>2. attached' \in [Emails -> SUBSET Inbounds] BY <1>0, <2>1
  <2> QED BY <1>0, <2>1, <2>2 DEF PanelOK, PanelRows
<1> QED BY <1>2, <1>3, <1>4, <1>5, <1>6 DEF Panel

LEMMA NextIInv == IInv /\ [Next]_vars => IInv'
<1> SUFFICES ASSUME IInv, [Next]_vars PROVE IInv' OBVIOUS
<1>1. ASSUME UNCHANGED vars PROVE IInv'
  BY <1>1 DEF vars, IInv, PanelOK, PanelRows, Typed, Enabled, NoneLost, Tracks, Exists, Single
<1>2. CASE Transaction
  <2>1. Transacts(db, db') /\ UNCHANGED <<traffics, used, attached>> BY <1>2, TransactionIs
  <2>2. Typed(db') /\ (NoneLost(db) => NoneLost(db')) /\ Enabled(db')
    BY <2>1 DEF Transacts, Kept, IInv
  <2>3. PanelOK' BY <2>1 DEF IInv, PanelOK, PanelRows
  <2>4. NoneLost(db') => NoneLost(db)' BY <2>1 DEF NoneLost, Single, Exists, Tracks
  <2>5. Typed(db)' /\ Enabled(db)'
    BY <2>2 DEF Typed, Enabled, Single, Exists, Tracks
  <2> QED BY <2>2, <2>3, <2>4, <2>5 DEF IInv, Separate
<1>3. CASE Panel
  <2>1. /\ db' = db /\ PanelOK'
        /\ "delete" \notin PanelOps =>
             \A t \in Traffic : traffics[t] # NoRow => traffics'[t] # NoRow
    BY <1>3, PanelIs
  <2>2. Typed(db)' /\ Enabled(db)'
    BY <2>1 DEF IInv, Typed, Enabled, Single, Exists, Tracks
  <2>3. ASSUME Separate PROVE NoneLost(db)'
    <3>1. NoneLost(db) BY <2>3 DEF IInv
    <3>2. CASE "delete" \notin PanelOps
      BY <2>1, <3>1, <3>2 DEF NoneLost, Single, Exists, Tracks
    <3>3. CASE "enable" \notin Commands
      BY <2>2, <3>3 DEF Enabled, NoneLost
    <3> QED BY <2>3, <3>2, <3>3 DEF Separate
  <2> QED BY <2>1, <2>2, <2>3 DEF IInv, Separate
<1> QED BY <1>1, <1>2, <1>3 DEF Next, Transaction

(* The inductive invariant holds throughout. *)
LEMMA RulesIInv == Spec => []IInv
BY InitIInv, NextIInv, PTL DEF Spec

(* While the rows that rules return to are clear, no step gives a client a *)
(* second owner.                                                           *)
LEMMA NextOwned == IInv /\ Clear(db) /\ Owned(db) /\ [Next]_vars => Owned(db)'
<1> SUFFICES ASSUME IInv, Safe(db), [Next]_vars PROVE Owned(db)' BY DEF Safe
<1>1. ASSUME UNCHANGED vars PROVE Owned(db)'
  BY <1>1 DEF vars, Safe, Owned, Owns, Tracks, Exists
<1>2. CASE Transaction
  <2>1. Transacts(db, db') BY <1>2, TransactionIs
  <2>2. Owned(db') BY <2>1 DEF Transacts
  <2> QED BY <2>2 DEF Owned, Owns, Tracks, Exists
<1>3. CASE Panel
  <2>1. db' = db BY <1>3, PanelIs
  <2> QED BY <2>1 DEF Safe, Owned, Owns, Tracks, Exists
<1> QED BY <1>1, <1>2, <1>3 DEF Next, Transaction

LEMMA RulesOwned == Spec /\ []Clear(db) => []Safe(db)
<1>1. Clear(db) /\ Owned(db) <=> Safe(db) BY DEF Safe
<1> QED BY <1>1, InitIInv, NextOwned, RulesIInv, PTL DEF Spec

-----------------------------------------------------------------------------
LEMMA AtMostOne ==
    ASSUME NEW S, \A x, y \in S : x = y
    PROVE  Cardinality(S) <= 1
<1>1. CASE S = {} BY <1>1, FS_EmptySet
<1>2. CASE S # {}
  <2>1. PICK x : x \in S BY <1>2
  <2>2. S = {x} BY <2>1
  <2> QED BY <2>2, FS_Singleton
<1> QED BY <1>1, <1>2

(* The panel's rows and the tables keep their types; clients belong to     *)
(* existing rules, a single-user rule has at most one client, and an id is *)
(* not given out twice, whatever the commands and the panel do.            *)
THEOREM RulesTypeOK == Spec => []TypeOK
<1>1. IInv => TypeOK
  <2> SUFFICES ASSUME IInv PROVE TypeOK OBVIOUS
  <2>1. PanelOK /\ Typed(db) BY DEF IInv
  <2>2. ASSUME NEW r \in RuleId
        PROVE  /\ RuleClients(db, r) # {} => db.rules[r] # NoRow
               /\ db.rules[r] # NoRow => r < db.next
               /\ db.rules[r] # NoRow /\ db.rules[r].kind = "single" =>
                     Cardinality(RuleClients(db, r)) <= 1
    <3>1. \A t : t \in RuleClients(db, r) <=> t \in Traffic /\ Tracks(db, r, t)
      BY ClientsAre
    <3>2. RuleClients(db, r) # {} => Exists(db, r) BY <2>1, <3>1 DEF Typed
    <3>3. Exists(db, r) => r < db.next BY <2>1 DEF Typed
    <3>4. ASSUME Single(db, r) PROVE Cardinality(RuleClients(db, r)) <= 1
      <4>1. \A t, u \in RuleClients(db, r) : t = u BY <2>1, <3>1, <3>4 DEF Typed
      <4> QED BY <4>1, AtMostOne
    <3> QED BY <3>2, <3>3, <3>4 DEF Exists, Single
  <2> QED BY <2>1, <2>2 DEF TypeOK, PanelOK, PanelRows, Typed
<1> QED BY <1>1, RulesIInv, PTL

(* Two owners of a client are two rules in Owners. *)
LEMMA OneOwnerIs == OneOwner <=> Owned(db)
<1>1. ASSUME Owned(db), NEW t \in Traffic PROVE Cardinality(Owners(db, t)) <= 1
  <2>1. \A r, q \in Owners(db, t) : r = q BY <1>1, OwnersAre DEF Owned
  <2> QED BY <2>1, AtMostOne
<1>2. ASSUME OneOwner, NEW t \in Traffic, NEW r \in RuleId, NEW q \in RuleId,
             Owns(db, r, t), Owns(db, q, t), r # q
      PROVE  FALSE
  <2> DEFINE S == Owners(db, t)
             P == {r, q}
  <2>1. P \subseteq S BY <1>2, OwnersAre
  <2>2. S \subseteq 1..MaxRules BY OwnersAre DEF RuleId
  <2>3. IsFiniteSet(S)
    <3>1. IsFiniteSet(1..MaxRules) BY BoundAssumption, FS_Interval
    <3> QED BY <2>2, <3>1, FS_Subset
  <2>4. Cardinality(S) <= 1 BY <1>2 DEF OneOwner
  <2>5. Cardinality(P) = 2
    <3>1. Cardinality({r}) = 1 /\ IsFiniteSet({r}) BY FS_Singleton
    <3>2. Cardinality({r} \cup {q}) = Cardinality({r}) + 1
      BY <1>2, <3>1, FS_AddElement
    <3>3. P = {r} \cup {q} OBVIOUS
    <3> QED BY <3>1, <3>2, <3>3
  <2> HIDE DEF S, P
  <2>6. Cardinality(P) <= Cardinality(S) /\ Cardinality(S) \in Nat
    BY <2>1, <2>3, FS_Subset, FS_CardinalityType
  <2> QED BY <2>4, <2>5, <2>6
<1> QED BY <1>1, <1>2 DEF OneOwner, Owned

(* Whatever the commands and the panel have done before, a client gets a   *)
(* second owner only in a step of a state in which some active single-user *)
(* rule has lost its client and the row with the client's email is not     *)
(* free for it: another single-user rule owns it or waits for it too, or a *)
(* scope or snapshot owns it under an earlier email.                       *)
THEOREM RulesRelinkOnly == Spec => [][Clear(db) /\ OneOwner => OneOwner']_vars
<1>1. IInv /\ [Next]_vars => [Clear(db) /\ OneOwner => OneOwner']_vars
  <2>1. OneOwner <=> Owned(db) BY OneOwnerIs
  <2>2. OneOwner' <=> Owned(db)' BY OneOwnerIs, PTL
  <2> QED BY <2>1, <2>2, NextOwned
<1> QED BY <1>1, RulesIInv, PTL DEF Spec

(* As long as the row that a rule returns to is free for it, also with     *)
(* deleted and recreated clients no command, tick or reconciliation leaves *)
(* a client two owners.                                                    *)
THEOREM RulesOneOwner == Spec /\ []Clear(db) => []OneOwner
<1>1. Safe(db) => OneOwner BY OneOwnerIs DEF Safe
<1> QED BY <1>1, RulesOwned, PTL

(* Then the decision of the next tick never fails for an ambiguity: after  *)
(* its own reconciliation and enrolment every client has one owner.        *)
THEOREM RulesTickCanDecide == Spec /\ []Clear(db) => []TickCanDecide
<1>1. IInv /\ Safe(db) => TickCanDecide BY TickedIs DEF IInv, PanelOK, TickCanDecide
<1> QED BY <1>1, RulesIInv, RulesOwned, PTL

(* Then one tick settles the membership: a second one on the same panel    *)
(* changes nothing.                                                        *)
THEOREM RulesTickSettles == Spec /\ []Clear(db) => []TickSettles
<1>1. IInv /\ Safe(db) => TickSettles BY TickSettlesAt DEF IInv, PanelOK, TickSettles
<1> QED BY <1>1, RulesIInv, RulesOwned, PTL

(* Then a rule that is merged leaves its client with an active scope of    *)
(* the same factor.                                                        *)
THEOREM RulesMergeKeepsCoverage == Spec /\ []Clear(db) => MergeKeepsCoverage
<1>1. IInv /\ Safe(db) /\ [Next]_vars => [MergeKeepsCoverageStep]_vars
  <2> SUFFICES ASSUME IInv, Safe(db), Next PROVE [MergeKeepsCoverageStep]_vars OBVIOUS
  <2>1. CASE Panel BY <2>1, PanelIs DEF MergeKeepsCoverageStep
  <2>2. CASE Transaction
    <3>1. MergeKept(db, db') BY <2>2, TransactionIs DEF Transacts, IInv
    <3> SUFFICES ASSUME NEW r \in RuleId,
                        db'.rules[r] # NoRow, db'.rules[r].state = "merged",
                        db.rules[r] # NoRow, db.rules[r].state # "merged",
                        NEW t \in RuleClients(db', r)
                 PROVE  \E s \in ListActivePersistentScopes(db') :
                           db'.rules[s].factor = db'.rules[r].factor /\ Covers(db', s, t)
      BY DEF MergeKeepsCoverageStep
    <3>2. t \in Traffic /\ Tracks(db', r, t) BY ClientsAre
    <3>3. InActiveScope(db', r, t) BY <3>1, <3>2 DEF MergeKept, Merged, Exists
    <3>4. PICK s \in RuleId : /\ Scope(db', s) /\ db'.rules[s].state = "active"
                              /\ db'.rules[s].factor = db'.rules[r].factor
                              /\ Covers(db', s, t)
      BY <3>3 DEF InActiveScope
    <3>5. s \in ListActivePersistentScopes(db')
      BY <3>4, PersistentAre DEF Active, Scope
    <3> QED BY <3>4, <3>5
  <2> QED BY <2>1, <2>2 DEF Next, Transaction
<1> QED BY <1>1, RulesIInv, RulesOwned, PTL DEF Spec, MergeKeepsCoverage


-----------------------------------------------------------------------------
(* The decision for a client with one owner. *)
LEMMA CandidateFields ==
    ASSUME NEW source, NEW target, NEW factor
    PROVE  /\ Candidate(source, target, factor).source = source
           /\ Candidate(source, target, factor).target = target
           /\ Candidate(source, target, factor).factor = factor
BY DEF Candidate

LEMMA DecideNone == DecideOne({}) = None
<1> DEFINE S == {c \in {} : \A k \in {} : k.source <= c.source}
<1>1. S = {} OBVIOUS
<1>2. Cardinality(S) # 1 /\ ~(Cardinality(S) > 1) BY <1>1, FS_EmptySet
<1>3. DecideOne({}) = CASE {} = {} -> None
                        [] Cardinality(S) = 1 -> CHOOSE c \in S : TRUE
                        [] Cardinality(S) > 1 -> Undecided
  BY Zenon DEF DecideOne
<1> HIDE DEF S
<1> QED BY <1>2, <1>3

LEMMA DecideWinner ==
    ASSUME NEW C, NEW c \in C, c.source \in Int,
           \A k \in C : k = c \/ (k.source \in Int /\ k.source < c.source)
    PROVE  DecideOne(C) = c
<1> DEFINE S == {x \in C : \A k \in C : k.source <= x.source}
<1>1. c \in S OBVIOUS
<1>2. \A x \in S : x = c OBVIOUS
<1>3. S = {c} BY <1>1, <1>2
<1>4. Cardinality(S) = 1 /\ ~(Cardinality(S) > 1)
  <2> HIDE DEF S
  <2>1. Cardinality(S) = 1 BY <1>3, FS_Singleton
  <2> QED BY <2>1
<1>5. (CHOOSE x \in S : TRUE) = c BY <1>3
<1>6. DecideOne(C) = CASE C = {} -> None
                       [] Cardinality(S) = 1 -> CHOOSE x \in S : TRUE
                       [] Cardinality(S) > 1 -> Undecided
  BY Zenon DEF DecideOne
<1>7. C # {} OBVIOUS
<1> HIDE DEF S
<1> QED BY <1>4, <1>5, <1>6, <1>7

(* The strongest claim on a client of rule r: exclude, override, rule. *)
Decision(d, r, p) ==
    IF p.exclude THEN Candidate(100, NoRow, NoRow)
    ELSE IF p.override # NoRow THEN Candidate(90, r, p.override)
    ELSE Candidate(Precedence(d.rules[r]), r, d.rules[r].factor)

LEMMA PrecedenceIs ==
    ASSUME NEW rule \in Rule PROVE Precedence(rule) \in {60, 65, 70, 80}
BY RuleFields DEF Precedence

LEMMA CandidatesAre ==
    ASSUME NEW d, NEW t, NEW p, NEW r \in RuleId
    PROVE  /\ ActiveRuleCandidates(d, {r})
                 = {Candidate(Precedence(d.rules[r]), r, d.rules[r].factor)}
           /\ OverrideCandidates(d, t, p, {r})
                 = IF p.override # NoRow /\ Matches(t, d.rc[r][t].email)
                   THEN {Candidate(90, r, p.override)} ELSE {}
           /\ ExcludeCandidates(d, t, p, {r})
                 = IF p.exclude /\ Matches(t, d.rc[r][t].email)
                   THEN {Candidate(100, NoRow, NoRow)} ELSE {}
<1>1. r <= r BY DEF RuleId
<1>2. ActiveRuleCandidates(d, {r})
        = {Candidate(Precedence(d.rules[r]), r, d.rules[r].factor)}
  BY DEF ActiveRuleCandidates
<1>3. OverrideCandidates(d, t, p, {r})
        = IF p.override # NoRow /\ Matches(t, d.rc[r][t].email)
          THEN {Candidate(90, r, p.override)} ELSE {}
  BY <1>1 DEF OverrideCandidates
<1>4. ExcludeCandidates(d, t, p, {r})
        = IF p.exclude /\ Matches(t, d.rc[r][t].email)
          THEN {Candidate(100, NoRow, NoRow)} ELSE {}
  BY DEF ExcludeCandidates
<1> QED BY <1>2, <1>3, <1>4

LEMMA NoCandidates ==
    ASSUME NEW d, NEW t, NEW p
    PROVE  /\ ActiveRuleCandidates(d, {}) = {} /\ OverrideCandidates(d, t, p, {}) = {}
           /\ ExcludeCandidates(d, t, p, {}) = {}
BY DEF ActiveRuleCandidates, OverrideCandidates, ExcludeCandidates

AllCandidates(d, t, p, targets) ==
    ActiveRuleCandidates(d, targets) \cup OverrideCandidates(d, t, p, targets)
        \cup ExcludeCandidates(d, t, p, targets)

LEMMA OwnerDecides ==
    ASSUME NEW d, NEW t, NEW p \in Policy, NEW r \in RuleId, d.rules[r] \in Rule,
           Matches(t, d.rc[r][t].email)
    PROVE  DecideOne(AllCandidates(d, t, p, {r})) = Decision(d, r, p)
<1> DEFINE C == AllCandidates(d, t, p, {r})
           rule == Candidate(Precedence(d.rules[r]), r, d.rules[r].factor)
           over == Candidate(90, r, p.override)
           excl == Candidate(100, NoRow, NoRow)
<1>1. /\ rule.source \in {60, 65, 70, 80} /\ over.source = 90 /\ excl.source = 100
  BY CandidateFields, PrecedenceIs
<1>2. \A c : c \in C <=> \/ c = rule
                         \/ p.override # NoRow /\ c = over
                         \/ p.exclude /\ c = excl
  <2>1. /\ ActiveRuleCandidates(d, {r}) = {rule}
        /\ OverrideCandidates(d, t, p, {r}) = IF p.override # NoRow THEN {over} ELSE {}
        /\ ExcludeCandidates(d, t, p, {r}) = IF p.exclude THEN {excl} ELSE {}
    BY CandidatesAre
  <2> HIDE DEF rule, over, excl
  <2> QED BY <2>1 DEF AllCandidates
<1>3. Decision(d, r, p) = IF p.exclude THEN excl
                          ELSE IF p.override # NoRow THEN over ELSE rule
  BY Zenon DEF Decision
<1> HIDE DEF C, rule, over, excl
<1>4. CASE p.exclude
  <2>1. excl \in C /\ \A k \in C : k = excl \/ (k.source \in Int /\ k.source < excl.source)
    BY <1>1, <1>2, <1>4
  <2>2. DecideOne(C) = excl BY <1>1, <2>1, DecideWinner
  <2> QED BY <1>3, <1>4, <2>2 DEF C
<1>5. CASE ~p.exclude /\ p.override # NoRow
  <2>1. over \in C /\ \A k \in C : k = over \/ (k.source \in Int /\ k.source < over.source)
    BY <1>1, <1>2, <1>5
  <2>2. DecideOne(C) = over BY <1>1, <2>1, DecideWinner
  <2> QED BY <1>3, <1>5, <2>2 DEF C
<1>6. CASE ~p.exclude /\ p.override = NoRow
  <2>1. rule \in C /\ \A k \in C : k = rule BY <1>2, <1>6
  <2>2. DecideOne(C) = rule BY <1>1, <2>1, DecideWinner
  <2> QED BY <1>3, <1>6, <2>2 DEF C
<1> QED BY <1>4, <1>5, <1>6


LEMMA ExplainOwned ==
    ASSUME NEW d, NEW t, NEW p \in Policy, NEW r \in RuleId, d.rules[r] \in Rule,
           ValidTargets(d, t) = {r}
    PROVE  Explain(d, t, p) = Decision(d, r, p)
<1>1. Matches(t, d.rc[r][t].email) BY DEF ValidTargets
<1>2. /\ OverrideCandidates(d, t, p, {r})
           = IF p.override # NoRow THEN {Candidate(90, r, p.override)} ELSE {}
      /\ ExcludeCandidates(d, t, p, {r})
           = IF p.exclude THEN {Candidate(100, NoRow, NoRow)} ELSE {}
  BY <1>1, CandidatesAre
<1>3. ClientCandidates(d, t, p) = AllCandidates(d, t, p, {r})
  BY <1>2 DEF ClientCandidates, AllCandidates
<1> QED BY <1>1, <1>3, OwnerDecides DEF Explain

LEMMA ExplainUnowned ==
    ASSUME NEW d, NEW t, NEW p \in Policy, ValidTargets(d, t) = {}
    PROVE  Explain(d, t, p).target = NoRow
<1> DEFINE excl == Candidate(100, NoRow, NoRow)
           over == Candidate(90, NoRow, p.override)
           C == ClientCandidates(d, t, p)
<1>1. /\ excl.source = 100 /\ excl.target = NoRow /\ over.source = 90 /\ over.target = NoRow
      /\ None.target = NoRow
  BY CandidateFields DEF None
<1>2. \A c : c \in C <=> (p.exclude /\ c = excl) \/ (p.override # NoRow /\ c = over)
  BY NoCandidates DEF ClientCandidates
<1> HIDE DEF C, excl, over
<1>3. CASE p.exclude
  <2>1. excl \in C /\ \A k \in C : k = excl \/ (k.source \in Int /\ k.source < excl.source)
    BY <1>1, <1>2, <1>3
  <2>2. DecideOne(C) = excl BY <1>1, <2>1, DecideWinner
  <2> QED BY <1>1, <2>2 DEF Explain, C
<1>4. CASE ~p.exclude /\ p.override # NoRow
  <2>1. over \in C /\ \A k \in C : k = over BY <1>2, <1>4
  <2>2. DecideOne(C) = over BY <1>1, <2>1, DecideWinner
  <2> QED BY <1>1, <2>2 DEF Explain, C
<1>5. CASE ~p.exclude /\ p.override = NoRow
  <2>1. C = {} BY <1>2, <1>5
  <2> QED BY <1>1, <2>1, DecideNone DEF Explain, C
<1> QED BY <1>3, <1>4, <1>5

LEMMA DecisionIs ==
    ASSUME NEW d, NEW r \in RuleId, NEW p \in Policy, d.rules[r] \in Rule
    PROVE  LET decision == Decision(d, r, p)
           IN  /\ decision.target = IF p.exclude THEN NoRow ELSE r
               /\ decision.source \in {60, 65, 70, 80, 90, 100}
               /\ decision.source = 100 <=> p.exclude
               /\ decision.source = 90 <=> ~p.exclude /\ p.override # NoRow
BY CandidateFields, PrecedenceIs DEF Decision

(* The valid targets of a client: none, or its one owner. *)
LEMMA ValidAre ==
    ASSUME NEW d, Typed(d), Owned(d), NEW t \in Traffic
    PROVE  /\ ValidTargets(d, t) \subseteq Owners(d, t)
           /\ \A r \in Owners(d, t) : r \in RuleId /\ d.rules[r] \in Rule /\ Owners(d, t) = {r}
<1>1. \A r \in Owners(d, t) : r \in RuleId /\ Owns(d, r, t) BY OwnersAre
<1>2. \A r, q \in Owners(d, t) : r = q BY <1>1 DEF Owned
<1>3. \A r \in Owners(d, t) : d.rules[r] \in Rule BY <1>1, RowTypes DEF Typed, Owns
<1> QED BY <1>1, <1>2, <1>3 DEF ValidTargets

LEMMA SafeStatus == IInv /\ Safe(db) => StatusAgrees
<1> SUFFICES ASSUME IInv, Safe(db), NEW t \in Traffic, NEW p \in Policy, IsClient(t)
             PROVE  LET active   == ListRulesInStates(db, NoRow, {"active"})
                        decision == Explain(db, t, p)
                    IN  /\ \A r \in active :
                              EffectiveValid(r, t, p) <=>
                                 decision.target = r /\ decision.source # 90
                        /\ CountedFactored(t, p) <=>
                              \/ \E r \in active : EffectiveValid(r, t, p)
                              \/ ~p.exclude /\ p.override # NoRow /\ ValidTargets(db, t) # {}
  BY DEF StatusAgrees
<1> DEFINE active == ListRulesInStates(db, NoRow, {"active"})
           decision == Explain(db, t, p)
           valid == ValidTargets(db, t)
<1>0. p.exclude \in BOOLEAN BY DEF Policy
<1>1. /\ Typed(db) /\ Owned(db) BY DEF IInv, Safe
<1>2. /\ valid \subseteq Owners(db, t)
      /\ \A r \in Owners(db, t) : r \in RuleId /\ db.rules[r] \in Rule /\ Owners(db, t) = {r}
  BY <1>1, ValidAre
<1>3. ASSUME NEW r \in active PROVE BaseValid(r, t) <=> r \in valid
  <2>1. r \in RuleId /\ Exists(db, r) /\ db.rules[r].state = "active"
    BY DEF ListRulesInStates, Exists
  <2>2. r \in Owners(db, t) <=> db.rc[r][t] # NoRow BY <2>1, OwnersAre DEF Owns, Tracks
  <2>3. r \in Owners(db, t) => ActiveScopesForTrafficExcept(db, t, r) = {}
    BY <1>2 DEF ActiveScopesForTrafficExcept
  <2> QED BY <2>2, <2>3 DEF BaseValid, ValidTargets
<1>4. valid \subseteq active
  BY <1>2 DEF Owners, RulesForTraffic
<1>5. NoRow \notin active BY NoRowAssumption DEF ListRulesInStates
<1>6. /\ \A r \in active : EffectiveValid(r, t, p) <=>
                             r \in valid /\ ~p.exclude /\ p.override = NoRow
      /\ CountedFactored(t, p) <=>
           decision.source \in {60, 65, 70, 80, 90} /\ decision.target # NoRow
  BY <1>3, Zenon DEF EffectiveValid, CountedFactored
<1>7. CASE valid = {}
  <2>1. decision.target = NoRow BY <1>7, ExplainUnowned
  <2> HIDE DEF decision, valid, active
  <2> QED BY <1>5, <1>6, <1>7, <2>1 DEF decision, valid, active
<1>8. CASE valid # {}
  <2>1. PICK r : r \in valid BY <1>8
  <2>2. /\ valid = {r} /\ r \in RuleId /\ db.rules[r] \in Rule /\ r \in active
    BY <1>2, <1>4, <2>1
  <2>3. decision = Decision(db, r, p) BY <2>2, ExplainOwned
  <2>4. /\ decision.target = IF p.exclude THEN NoRow ELSE r
        /\ decision.source \in {60, 65, 70, 80, 90, 100}
        /\ decision.source = 100 <=> p.exclude
        /\ decision.source = 90 <=> ~p.exclude /\ p.override # NoRow
    BY <2>2, <2>3, DecisionIs
  <2> HIDE DEF decision, valid, active
  <2>5. \A q \in active : EffectiveValid(q, t, p) <=>
                            decision.target = q /\ decision.source # 90
    BY <1>0, <1>5, <1>6, <2>2, <2>4
  <2>6. CountedFactored(t, p) <=> ~p.exclude
    BY <1>0, <1>5, <1>6, <2>2, <2>4
  <2>7. (\E q \in active : EffectiveValid(q, t, p)) <=> ~p.exclude /\ p.override = NoRow
    BY <1>6, <2>2
  <2> QED BY <1>0, <1>8, <2>5, <2>6, <2>7 DEF decision, valid, active
<1> QED BY <1>7, <1>8

(* Then the rule list, explain and status describe the same clients, also  *)
(* before a tick has repaired anything.                                    *)
THEOREM RulesStatusAgrees == Spec /\ []Clear(db) => []StatusAgrees
BY SafeStatus, RulesIInv, RulesOwned, PTL

LEMMA SafeExplain == IInv /\ Safe(db) => ExplainAgrees
<1> DEFINE d == Ticked(db)
<1> SUFFICES ASSUME IInv, Safe(db), NEW t \in Traffic, NEW p \in Policy, IsClient(t),
                    traffics[t].enabled
                       \/ \A r \in Owners(d, t) : d.rules[r].includeDisabled
             PROVE  TickFactor(d, t, p) = ExplainedFactor(d, t, p)
  BY DEF ExplainAgrees
<1>1. /\ Typed(d) /\ Owned(d) /\ Marked(d)
  BY TickLeaves DEF IInv, PanelOK, Safe
<1> HIDE DEF d
<1> DEFINE decision == TickDecision(d, t, p)
<1>2. /\ ValidTargets(d, t) \subseteq Owners(d, t)
      /\ \A r \in Owners(d, t) : r \in RuleId /\ d.rules[r] \in Rule /\ Owners(d, t) = {r}
  BY <1>1, ValidAre
<1>3. decision = DecideOne(AllCandidates(d, t, p, Owners(d, t)))
  BY Zenon DEF TickDecision, AllCandidates
<1>4. ValidTargets(d, t) = {} => ExplainedFactor(d, t, p) = NoRow
  BY ExplainUnowned DEF ExplainedFactor
<1>5. CASE Owners(d, t) = {}
  <2>1. AllCandidates(d, t, p, {}) = {} BY NoCandidates DEF AllCandidates
  <2>2. decision = None BY <1>3, <1>5, <2>1, DecideNone
  <2>3. decision.target = NoRow BY <2>2, CandidateFields DEF None
  <2>4. TickFactor(d, t, p) = NoRow BY <2>3 DEF TickFactor
  <2> QED BY <1>2, <1>4, <1>5, <2>4
<1>6. CASE Owners(d, t) # {}
  <2>1. PICK r : r \in Owners(d, t) BY <1>6
  <2>2. r \in RuleId /\ d.rules[r] \in Rule /\ Owners(d, t) = {r} /\ Owns(d, r, t)
    BY <1>2, <2>1, OwnersAre
  <2>3. decision = DecideOne(AllCandidates(d, t, p, {r})) BY <1>3, <2>2
  <2>4. Matches(t, d.rc[r][t].email) <=> d.rc[r][t].missing = "no"
    BY <1>1, <2>2 DEF Marked
  <2>5. CASE ~Matches(t, d.rc[r][t].email)
    <3> DEFINE c == Candidate(Precedence(d.rules[r]), r, d.rules[r].factor)
               C == AllCandidates(d, t, p, {r})
    <3>1. ValidTargets(d, t) = {} BY <2>2, <2>5 DEF ValidTargets
    <3>2. C = {c}
      BY <2>2, <2>5, CandidatesAre DEF AllCandidates
    <3>3. c.source \in Int /\ c.target = r BY <2>2, CandidateFields, PrecedenceIs
    <3> HIDE DEF c, C
    <3>4. DecideOne(C) = c
      <4>1. c \in C /\ \A k \in C : k = c BY <3>2
      <4> QED BY <3>3, <4>1, DecideWinner
    <3>5. decision.target = r BY <2>3, <3>3, <3>4 DEF C
    <3>6. TickFactor(d, t, p) = NoRow BY <2>5, <3>5 DEF TickFactor
    <3> QED BY <1>4, <3>1, <3>6
  <2>6. CASE Matches(t, d.rc[r][t].email)
    <3>1. TargetAllowsClient(d.rules[r], t)
      BY <1>1, <2>2 DEF TargetAllowsClient, Typed, Single, Owns
    <3>2. ValidTargets(d, t) = {r} BY <2>2, <2>4, <2>6, <3>1 DEF ValidTargets
    <3>3. decision = Decision(d, r, p) BY <2>2, <2>3, <2>6, OwnerDecides
    <3>4. Explain(d, t, p) = decision BY <2>2, <3>2, <3>3, ExplainOwned
    <3>5. decision.target \in {NoRow, r} BY <2>2, <3>3, DecisionIs
    <3> QED BY <2>6, <3>4, <3>5 DEF TickFactor, ExplainedFactor
  <2> QED BY <2>5, <2>6
<1> QED BY <1>5, <1>6

(* Then explain promises a client exactly the factor that a tick just      *)
(* before it applied, whatever the client's policies; as in ExplainAgrees, *)
(* of the disabled clients only those of rules that include them.          *)
THEOREM RulesExplainAgrees == Spec /\ []Clear(db) => []ExplainAgrees
BY SafeExplain, RulesIInv, RulesOwned, PTL

(* Whatever has happened before, a client with two owners included: from   *)
(* the moment that every client has one owner and the rows that rules      *)
(* return to are free for them, the next tick decides and settles, and     *)
(* explain, status and the rule list agree with it again.                  *)
THEOREM RulesRecovered ==
    Spec => [](OneOwner /\ Clear(db) => /\ TickCanDecide /\ TickSettles
                                       /\ StatusAgrees /\ ExplainAgrees)
<1>1. IInv /\ OneOwner /\ Clear(db) => IInv /\ Safe(db) BY OneOwnerIs DEF Safe
<1>2. IInv /\ Safe(db) => TickCanDecide BY TickedIs DEF IInv, PanelOK, TickCanDecide
<1>3. IInv /\ Safe(db) => TickSettles BY TickSettlesAt DEF IInv, PanelOK, TickSettles
<1>4. IInv => (OneOwner /\ Clear(db) => /\ TickCanDecide /\ TickSettles
                                       /\ StatusAgrees /\ ExplainAgrees)
  BY <1>1, <1>2, <1>3, SafeStatus, SafeExplain
<1> QED BY <1>4, RulesIInv, PTL

-----------------------------------------------------------------------------
(* Where no client is lost, no rule returns. *)
LEMMA NoneLostClear == ASSUME NEW d, NoneLost(d) PROVE Clear(d)
BY DEF NoneLost, Clear, Returns

(* Without deletions in the panel, or without rules of `enable`, the rows  *)
(* that rules return to are always clear, because no rule returns.         *)
THEOREM RulesClear == ASSUME Separate PROVE Spec => []Clear(db)
<1>1. IInv => Clear(db) BY Separate, NoneLostClear DEF IInv
<1> QED BY <1>1, RulesIInv, PTL

(* In such a system a client has one owner, a tick decides and settles,    *)
(* explain and status agree with it, and a merge keeps the coverage,       *)
(* without a further hypothesis on the behaviour.                          *)
THEOREM RulesSeparate ==
    ASSUME Separate
    PROVE  Spec => /\ [](OneOwner /\ TickCanDecide /\ TickSettles)
                   /\ [](StatusAgrees /\ ExplainAgrees)
                   /\ MergeKeepsCoverage
<1>1. Spec => []Clear(db) BY Separate, RulesClear
<1> QED BY <1>1, RulesOneOwner, RulesTickCanDecide, RulesTickSettles, RulesStatusAgrees,
           RulesExplainAgrees, RulesMergeKeepsCoverage, PTL
=============================================================================
