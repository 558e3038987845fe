--------------------------- MODULE PoliciesProofs ---------------------------
(***************************************************************************)
(* Theorems about a policy table, for every number of clients, emails,     *)
(* inbounds, factors and rows, those of older releases included.           *)
(***************************************************************************)
EXTENDS Policies, BasicFacts, TLAPS

(* The panel's emails are unique. *)
EmailsDistinct ==
    \A t, u \in Traffic :
        /\ traffics[t] # NoRow /\ traffics[u] # NoRow
        /\ traffics[t].email = traffics[u].email
        => t = u

(* OneActivePerClient without a cardinality. *)
OneActive ==
    migrated => \A r, q \in ListActive(policies) :
        policies[r].traffic = policies[q].traffic /\ policies[r].email = policies[q].email
        => r = q

IInv == TypeOK /\ EmailsDistinct /\ OneActive

(* What TypeOK says about a policy table. *)
Table == [PolicyId -> Policy \cup {NoRow}]

-----------------------------------------------------------------------------
(* Rows. *)
LEMMA RowType ==
    ASSUME NEW p \in Table, NEW r \in PolicyId
    PROVE  /\ Row(p, r) <=> p[r] \in Policy
           /\ Row(p, r) => /\ p[r].traffic \in Traffic /\ p[r].inbound \in Inbounds
                           /\ p[r].email \in Emails /\ p[r].factor \in Factors
                           /\ p[r].active \in BOOLEAN /\ p[r].aged \in BOOLEAN
BY NoRowAssumption DEF Table, Row, Policy

(* UNIQUE, as a statement about two rows. *)
LEMMA UniquePairs ==
    ASSUME NEW p \in Table
    PROVE  Unique(p) <=>
             \A r, q \in PolicyId :
                 /\ Row(p, r) /\ Row(p, q) /\ p[r].traffic = p[q].traffic
                 /\ p[r].inbound = p[q].inbound /\ p[r].email = p[q].email
                 => r = q
<1>1. ASSUME Unique(p), NEW r \in PolicyId, NEW q \in PolicyId, Row(p, r), Row(p, q),
             p[r].traffic = p[q].traffic, p[r].inbound = p[q].inbound,
             p[r].email = p[q].email
      PROVE  r = q
  <2>1. Holders(p, p[r].traffic, p[r].inbound, p[r].email) = {r} BY <1>1 DEF Unique
  <2>2. q \in Holders(p, p[r].traffic, p[r].inbound, p[r].email) BY <1>1 DEF Holders
  <2> QED BY <2>1, <2>2
<1>2. ASSUME \A r, q \in PolicyId :
                 /\ Row(p, r) /\ Row(p, q) /\ p[r].traffic = p[q].traffic
                 /\ p[r].inbound = p[q].inbound /\ p[r].email = p[q].email
                 => r = q
      PROVE  Unique(p)
  BY <1>2, Zenon DEF Unique, Holders
<1> QED BY <1>1, <1>2

(* ORDER BY id DESC LIMIT 1 finds a row of any that there are. *)
LEMMA NewestIn ==
    ASSUME NEW R \in SUBSET PolicyId, R # {}
    PROVE  Newest(R) \in R
<1> DEFINE D == {MaxPolicies - r : r \in R}
<1>0. \A r \in R : MaxPolicies - r \in Nat BY BoundsAssumption DEF PolicyId
<1>1. D \in SUBSET Nat /\ D # {} BY <1>0, Zenon
<1>2. PICK d \in D : \A c \in D : d <= c BY <1>1, NatLeast, Zenon
<1>3. PICK r \in R : d = MaxPolicies - r OBVIOUS
<1>4. \A q \in R : q <= r
  <2> TAKE q \in R
  <2>1. MaxPolicies - q \in D OBVIOUS
  <2>2. MaxPolicies - r <= MaxPolicies - q BY <1>2, <1>3, <2>1
  <2> QED BY <2>2, BoundsAssumption DEF PolicyId
<1> QED BY <1>4, Zenon DEF Newest

LEMMA ByEmail ==
    ASSUME NEW e
    PROVE  /\ ClientTrafficByEmail(e) \in Traffic \cup {NoRow}
           /\ ClientTrafficByEmail(e) # NoRow => Matches(ClientTrafficByEmail(e), e)
           /\ ClientTrafficByEmail(e) = NoRow => \A t \in Traffic : ~Matches(t, e)
BY NoRowAssumption, Zenon DEF ClientTrafficByEmail

-----------------------------------------------------------------------------
(* The repair of one email goes through a list of rows.  Last is the row   *)
(* of R that it comes to last, Repaired[R] the table when it has gone      *)
(* through R.                                                              *)
Last(p, R) == CHOOSE r \in R : \A q \in R \ {r} : Precedes(p[q], p[r])

Repaired(p, L) ==
    CHOOSE f : f = [R \in SUBSET L |->
        IF R = {} THEN p ELSE RepairRow(f[R \ {Last(p, R)}], Last(p, R))]

LEMMA RepairEmailIs ==
    ASSUME NEW p, NEW e
    PROVE  RepairEmail(p, e) = Repaired(p, RepairList(p, e))[RepairList(p, e)]
BY Zenon DEF RepairEmail, Repaired, Last

(* The list's order is total: rows of one email differ in traffic id or    *)
(* inbound.                                                                *)
LEMMA LastIn ==
    ASSUME NEW p \in Table, Unique(p), NEW e, NEW R \in SUBSET FindByEmail(p, e), R # {}
    PROVE  Last(p, R) \in R
<1> DEFINE L == FindByEmail(p, e)
           Ends(S, r) == \A q \in S \ {r} : Precedes(p[q], p[r])
           P == {S \in SUBSET L : S = {} \/ \E r \in S : Ends(S, r)}
<1>1. L \in SUBSET PolicyId BY DEF FindByEmail
<1>2. IsFiniteSet(L)
  <2>1. IsFiniteSet(PolicyId) BY BoundsAssumption, FS_Interval DEF PolicyId
  <2> QED BY <1>1, <2>1, FS_Subset
<1>3. \A r \in L : /\ p[r].traffic \in Nat /\ p[r].inbound \in Nat /\ p[r].email = e
                   /\ Row(p, r) /\ r \in PolicyId
  BY <1>1, RowType, IdsAssumption DEF FindByEmail
<1>4. ASSUME NEW r \in L, NEW q \in L, r # q
      PROVE  Precedes(p[r], p[q]) \/ Precedes(p[q], p[r])
  <2>1. p[r].traffic # p[q].traffic \/ p[r].inbound # p[q].inbound
    BY <1>3, <1>4, UniquePairs
  <2>2. /\ p[r].traffic \in Nat /\ p[r].inbound \in Nat
        /\ p[q].traffic \in Nat /\ p[q].inbound \in Nat
    BY <1>3
  <2> QED BY <2>1, <2>2 DEF Precedes
<1>5. ASSUME NEW r \in L, NEW q \in L, NEW s \in L, Precedes(p[r], p[q]), Precedes(p[q], p[s])
      PROVE  Precedes(p[r], p[s])
  BY <1>3, <1>5 DEF Precedes
<1>6. ASSUME NEW S \in SUBSET L, S # {}, \A r \in S : S \ {r} \in P
      PROVE  S \in P
  <2>1. PICK r \in S : TRUE BY <1>6
  <2>2. CASE S \ {r} = {} BY <2>1, <2>2
  <2>3. CASE S \ {r} # {}
    <3>1. PICK m \in S \ {r} : Ends(S \ {r}, m) BY <1>6, <2>3
    <3>2. CASE Precedes(p[m], p[r])
      <4>1. Ends(S, r) BY <1>5, <3>1, <3>2
      <4> QED BY <4>1
    <3>3. CASE Precedes(p[r], p[m])
      <4>1. Ends(S, m) BY <3>1, <3>3
      <4> QED BY <4>1
    <3> QED BY <3>2, <3>3, <1>4
  <2> QED BY <2>2, <2>3
<1>7. {} \in P /\ P \in SUBSET (SUBSET L) OBVIOUS
<1>8. P = SUBSET L
  <2> HIDE DEF P, L
  <2> QED BY <1>2, <1>6, <1>7, SubsetInduction
<1>9. \E r \in R : Ends(R, r) BY <1>8
<1> QED BY <1>9, Zenon DEF Last

(* The recursion over the list is well-founded, so Repaired is what its    *)
(* definition says.                                                        *)
LEMMA RepairedIs ==
    ASSUME NEW p, NEW L, IsFiniteSet(L), \A R \in SUBSET L : R # {} => Last(p, R) \in R
    PROVE  /\ Repaired(p, L)[{}] = p
           /\ \A R \in SUBSET L : R # {} =>
                 Repaired(p, L)[R] =
                     RepairRow(Repaired(p, L)[R \ {Last(p, R)}], Last(p, R))
<1> DEFINE Step(f, R) ==
               IF R = {} THEN p ELSE RepairRow(f[R \ {Last(p, R)}], Last(p, R))
           Upto(n) == {R \in SUBSET L : Cardinality(R) <= n}
           Solves(f, n) == f = [R \in Upto(n) |-> Step(f, R)]
           N == {n \in Nat : \E f : Solves(f, n)}
<1>1. \A R \in SUBSET L : IsFiniteSet(R) /\ Cardinality(R) \in Nat
                          /\ Cardinality(R) <= Cardinality(L)
  BY FS_Subset, FS_CardinalityType
<1>2. \A R \in SUBSET L : R # {} =>
          /\ R \ {Last(p, R)} \in SUBSET L
          /\ Cardinality(R \ {Last(p, R)}) = Cardinality(R) - 1
  BY <1>1, FS_RemoveElement
<1>3. 0 \in N
  <2> DEFINE f == [R \in Upto(0) |-> p]
  <2>1. \A R \in Upto(0) : R = {} BY <1>1, FS_EmptySet
  <2>2. Solves(f, 0) BY <2>1
  <2> QED BY <2>2
<1>4. ASSUME NEW n \in N PROVE n + 1 \in N
  <2>1. PICK f : Solves(f, n) OBVIOUS
  <2> DEFINE g == [R \in Upto(n + 1) |-> Step(f, R)]
  <2>2. ASSUME NEW R \in Upto(n + 1) PROVE Step(f, R) = Step(g, R)
    <3>1. CASE R = {} BY <3>1
    <3>2. CASE R # {}
      <4> DEFINE S == R \ {Last(p, R)}
      <4>1. Cardinality(S) = Cardinality(R) - 1 /\ S \in SUBSET L BY <1>2, <3>2
      <4>2. S \in Upto(n) /\ S \in Upto(n + 1) BY <1>1, <4>1
      <4>3. f[S] = Step(f, S) BY <2>1, <4>2, Zenon
      <4>4. g[S] = Step(f, S) BY <4>2, Zenon
      <4> QED BY <3>2, <4>3, <4>4, Zenon
    <3> QED BY <3>1, <3>2
  <2>3. Solves(g, n + 1) BY <2>2, Zenon
  <2>4. \E h : Solves(h, n + 1) BY <2>3, Zenon
  <2>5. n + 1 \in Nat OBVIOUS
  <2> QED BY <2>4, <2>5, Zenon
<1>5. N = Nat
  <2>1. N \in SUBSET Nat OBVIOUS
  <2> HIDE DEF N
  <2> QED BY <1>3, <1>4, <2>1, NatSetInduction, Zenon
<1>6. Cardinality(L) \in N BY <1>1, <1>5
<1>7. Upto(Cardinality(L)) = SUBSET L BY <1>1
<1>8. \E f : f = [R \in SUBSET L |-> Step(f, R)]
  <2>1. PICK f : Solves(f, Cardinality(L)) BY <1>6
  <2> QED BY <2>1, <1>7, Zenon
<1>9. Repaired(p, L) = [R \in SUBSET L |-> Step(Repaired(p, L), R)]
  BY <1>8, Zenon DEF Repaired
<1>10. \A R \in SUBSET L : Repaired(p, L)[R] = Step(Repaired(p, L), R) BY <1>9, Zenon
<1>11. Repaired(p, L)[{}] = p BY <1>10, Zenon
<1> QED BY <1>10, <1>11, Zenon

(* Row r is on the triple of the panel's row t. *)
At(x, r, t) == x[r].traffic = t /\ x[r].inbound = traffics[t].inbound

SameEmails(p, x) ==
    \A r \in PolicyId : (Row(x, r) <=> Row(p, r)) /\ (Row(p, r) => x[r].email = p[r].email)

(* What relinking row r does: it is moved to a free triple, or gives way   *)
(* to the row q that holds the triple, which is active afterwards.         *)
Moved(x, r, t, y) ==
    /\ \A q \in PolicyId : q # r /\ Row(x, q) /\ x[q].email = x[r].email => ~At(x, q, t)
    /\ y = [x EXCEPT ![r] = [x[r] EXCEPT !.traffic = t, !.inbound = traffics[t].inbound]]

Yields(x, r, q, t, y) ==
    /\ q # r /\ Row(x, q) /\ At(x, q, t) /\ x[q].email = x[r].email
    /\ \/ /\ x[q].active
          /\ y = [x EXCEPT ![r] = [x[r] EXCEPT !.active = FALSE, !.aged = FALSE]]
       \/ /\ ~x[q].active
          /\ y = [x EXCEPT ![r] = [x[r] EXCEPT !.active = FALSE, !.aged = FALSE],
                           ![q] = [x[q] EXCEPT !.active = TRUE, !.aged = FALSE,
                                               !.factor = x[r].factor]]

LEMMA RelinkEffect ==
    ASSUME NEW x \in Table, NEW r \in PolicyId, Row(x, r),
           NEW t \in Traffic, traffics[t] \in Client
    PROVE  \/ Moved(x, r, t, RelinkRow(x, r, t))
           \/ \E q \in PolicyId : Yields(x, r, q, t, RelinkRow(x, r, t))
<1> DEFINE occupants == Holders(x, t, traffics[t].inbound, x[r].email) \ {r}
           q == Newest(occupants)
<1>1. CASE occupants = {}
  <2>1. \A k \in PolicyId : k # r /\ Row(x, k) /\ x[k].email = x[r].email => ~At(x, k, t)
    BY <1>1 DEF Holders, At
  <2>2. RelinkRow(x, r, t) = [x EXCEPT ![r].traffic = t, ![r].inbound = traffics[t].inbound]
    BY <1>1, Zenon DEF RelinkRow
  <2>3. x[r] \in Policy BY RowType
  <2> QED BY <2>1, <2>2, <2>3 DEF Table, Moved
<1>2. CASE occupants # {}
  <2>1. q \in occupants
    <3>1. occupants \in SUBSET PolicyId BY DEF Holders
    <3> HIDE DEF occupants
    <3> QED BY <1>2, <3>1, NewestIn
  <2>2. q \in PolicyId /\ q # r /\ Row(x, q) /\ At(x, q, t) /\ x[q].email = x[r].email
    BY <2>1 DEF Holders, At
  <2>3. RelinkRow(x, r, t) =
          IF x[q].active THEN Disable(x, r)
          ELSE Disable([x EXCEPT ![q].active = TRUE, ![q].aged = FALSE,
                                 ![q].factor = x[r].factor], r)
    BY <1>2, Zenon DEF RelinkRow
  <2> HIDE DEF q
  <2>4. x[r] \in Policy /\ x[q] \in Policy BY <2>2, RowType
  <2>5. CASE x[q].active
    <3>1. RelinkRow(x, r, t) = [x EXCEPT ![r] = [x[r] EXCEPT !.active = FALSE, !.aged = FALSE]]
      BY <2>3, <2>4, <2>5 DEF Disable, Table
    <3> QED BY <2>2, <2>5, <3>1, Zenon DEF Yields
  <2>6. CASE ~x[q].active
    <3>1. RelinkRow(x, r, t) =
            [x EXCEPT ![r] = [x[r] EXCEPT !.active = FALSE, !.aged = FALSE],
                      ![q] = [x[q] EXCEPT !.active = TRUE, !.aged = FALSE,
                                          !.factor = x[r].factor]]
      BY <2>2, <2>3, <2>4, <2>6 DEF Disable, Table
    <3> QED BY <2>2, <2>6, <3>1, Zenon DEF Yields
  <2> QED BY <2>5, <2>6
<1> QED BY <1>1, <1>2

(* When the repair of email e, whose client the panel counts on t, has     *)
(* gone through R of its list, the table x differs from the table p it     *)
(* began with in rows of e only; rows of the list not reached yet are as   *)
(* they were; every other active row of e is on t; and there is one on t   *)
(* as soon as there was anything to go through.                            *)
Repairing(p, e, t, R, x) ==
    /\ x \in Table /\ Unique(x) /\ SameEmails(p, x)
    /\ \A r \in PolicyId : ~Row(p, r) \/ p[r].email # e => x[r] = p[r]
    /\ \A r \in RepairList(p, e) \ R : x[r] = p[r]
    /\ \A r \in FindActiveByEmail(x, e) : r \notin RepairList(p, e) \ R => At(x, r, t)
    /\ \A r \in FindActiveByEmail(x, e) :
          \E q \in RepairList(p, e) : x[r].factor = p[q].factor
    /\ R # {} => \E r \in FindActiveByEmail(x, e) : At(x, r, t)

LEMMA RepairingStarts ==
    ASSUME NEW p \in Table, Unique(p), NEW e, NEW t
    PROVE  Repairing(p, e, t, {}, p)
BY DEF Repairing, SameEmails, RepairList

LEMMA ActiveIs ==
    ASSUME NEW x, NEW e, NEW r
    PROVE  r \in FindActiveByEmail(x, e) <=>
             r \in PolicyId /\ Row(x, r) /\ x[r].email = e /\ x[r].active
BY DEF FindActiveByEmail, FindByEmail, ListActive

LEMMA RepairingStep ==
    ASSUME NEW p \in Table, Unique(p), NEW e,
           NEW t \in Traffic, traffics[t] \in Client,
           NEW R \in SUBSET RepairList(p, e), NEW r \in R, NEW x,
           Repairing(p, e, t, R \ {r}, x),
           ResolvePolicyTraffic(x[r].traffic, x[r].email) = t
    PROVE  Repairing(p, e, t, R, RepairRow(x, r))
<1> DEFINE L == RepairList(p, e)
           y == RepairRow(x, r)
<1>1. /\ x \in Table /\ Unique(x) /\ SameEmails(p, x)
      /\ \A k \in PolicyId : ~Row(p, k) \/ p[k].email # e => x[k] = p[k]
      /\ \A k \in L \ (R \ {r}) : x[k] = p[k]
      /\ \A k \in FindActiveByEmail(x, e) : k \notin L \ (R \ {r}) => At(x, k, t)
      /\ \A k \in FindActiveByEmail(x, e) : \E q \in L : x[k].factor = p[q].factor
      /\ R \ {r} # {} => \E k \in FindActiveByEmail(x, e) : At(x, k, t)
  BY DEF Repairing
<1>2. /\ r \in L /\ r \in PolicyId /\ x[r] = p[r] /\ Row(x, r)
      /\ x[r].email = e /\ x[r].active /\ Row(p, r)
  BY <1>1, ActiveIs DEF RepairList, Row
<1>3. t # NoRow BY NoRowAssumption
<1>4. y = IF At(x, r, t) THEN x ELSE RelinkRow(x, r, t)
  BY <1>3 DEF RepairRow, At
<1>5. \A k \in L : k \in PolicyId /\ Row(p, k) /\ p[k].email = e /\ p[k].active
  BY ActiveIs DEF RepairList
<1>6. x[r] \in Policy BY <1>1, <1>2, RowType
<1>t. x \in Table BY <1>1
<1>r. r \in PolicyId /\ x[r].email = e BY <1>2
<1> SUFFICES Repairing(p, e, t, R, y) BY DEF y
<1> HIDE DEF L, y
<1>7. CASE At(x, r, t)
  <2>1. y = x BY <1>4, <1>7
  <2>2. r \in FindActiveByEmail(x, e) BY <1>2, ActiveIs
  <2>3. \A k \in L \ R : x[k] = p[k] BY <1>1
  <2>4. \A k \in FindActiveByEmail(x, e) : k \notin L \ R => At(x, k, t)
    BY <1>1, <1>7
  <2> QED BY <1>1, <1>7, <2>1, <2>2, <2>3, <2>4, Zenon DEF Repairing, L, y
<1>8. CASE ~At(x, r, t)
  <2>0. y = RelinkRow(x, r, t) BY <1>4, <1>8
  <2>1. CASE Moved(x, r, t, y)
    <3>0. /\ \A q \in PolicyId : q # r /\ Row(x, q) /\ x[q].email = e => ~At(x, q, t)
          /\ y = [x EXCEPT ![r] = [x[r] EXCEPT !.traffic = t,
                                               !.inbound = traffics[t].inbound]]
      BY <1>r, <2>1, Zenon DEF Moved
    <3>1. y \in Table BY <1>1, <1>6, <3>0 DEF Table, Policy, Client
    <3>2. /\ \A k \in PolicyId : k # r => y[k] = x[k]
          /\ y[r] = [x[r] EXCEPT !.traffic = t, !.inbound = traffics[t].inbound]
      BY <1>t, <1>r, <3>0 DEF Table
    <3>3. /\ y[r] \in Policy /\ y[r].traffic = t /\ y[r].inbound = traffics[t].inbound
          /\ y[r].email = e /\ y[r].active /\ y[r].factor = x[r].factor
      <4>1. traffics[t].inbound \in Inbounds BY DEF Client
      <4>2. x[r].active /\ x[r].email = e BY <1>2
      <4>3. /\ y[r] \in Policy /\ y[r].traffic = t /\ y[r].inbound = traffics[t].inbound
        BY <1>6, <3>2, <4>1 DEF Policy
      <4>4. /\ y[r].email = x[r].email /\ y[r].active = x[r].active
            /\ y[r].factor = x[r].factor
        BY <1>6, <3>2 DEF Policy
      <4> QED BY <4>2, <4>3, <4>4
    <3>4. Row(y, r) BY <1>2, <3>1, <3>3, RowType
    <3>5. \A k \in PolicyId : k # r => (Row(y, k) <=> Row(x, k)) BY <3>2 DEF Row
    <3>6. SameEmails(p, y) BY <1>1, <1>2, <3>2, <3>3, <3>4, <3>5 DEF SameEmails
    <3>7. Unique(y)
      <4> SUFFICES ASSUME NEW k \in PolicyId, NEW q \in PolicyId, Row(y, k), Row(y, q),
                          y[k].traffic = y[q].traffic, y[k].inbound = y[q].inbound,
                          y[k].email = y[q].email, k # q
                   PROVE  FALSE
        BY <3>1, UniquePairs
      <4>1. CASE k # r /\ q # r BY <1>1, <3>2, <3>5, <4>1, UniquePairs
      <4>a. \A m \in PolicyId : m # r /\ Row(y, m) /\ y[m].email = e => ~At(y, m, t)
        <5>1. TAKE m \in PolicyId
        <5>2. m # r => y[m] = x[m] /\ (Row(y, m) <=> Row(x, m)) BY <3>2, <3>5
        <5>3. m # r /\ Row(x, m) /\ x[m].email = e => ~At(x, m, t) BY <3>0
        <5> QED BY <5>2, <5>3 DEF At
      <4>b. At(y, r, t) /\ y[r].email = e BY <3>3 DEF At
      <4>2. CASE k = r BY <4>a, <4>b, <4>2 DEF At
      <4>3. CASE q = r BY <4>a, <4>b, <4>3 DEF At
      <4> QED BY <4>1, <4>2, <4>3
    <3>8. \A k \in PolicyId : ~Row(p, k) \/ p[k].email # e => y[k] = p[k]
      BY <1>1, <1>2, <3>2
    <3>9. \A k \in L \ R : y[k] = p[k] BY <1>1, <1>5, <3>2
    <3>10. At(y, r, t) /\ r \in FindActiveByEmail(y, e)
      BY <1>2, <3>3, <3>4, ActiveIs DEF At
    <3>11. \A k \in FindActiveByEmail(y, e) : k # r => k \in FindActiveByEmail(x, e)
      BY <3>2, <3>5, ActiveIs
    <3>12. \A k \in FindActiveByEmail(y, e) : k \notin L \ R => At(y, k, t)
      <4>1. SUFFICES ASSUME NEW k \in FindActiveByEmail(y, e), k \notin L \ R, k # r
                     PROVE  At(y, k, t)
        BY <3>10
      <4>2. k \in FindActiveByEmail(x, e) /\ k \in PolicyId BY <3>11, <4>1, ActiveIs
      <4>3. k \notin L \ (R \ {r}) BY <4>1
      <4>4. At(x, k, t) BY <1>1, <4>2, <4>3
      <4> QED BY <3>2, <4>1, <4>2, <4>4 DEF At
    <3>13. \A k \in FindActiveByEmail(y, e) : \E q \in L : y[k].factor = p[q].factor
      <4>1. TAKE k \in FindActiveByEmail(y, e)
      <4>2. CASE k = r BY <1>2, <3>3, <4>2
      <4>3. CASE k # r
        <5>1. k \in FindActiveByEmail(x, e) /\ k \in PolicyId BY <3>11, <4>3, ActiveIs
        <5>2. PICK q \in L : x[k].factor = p[q].factor BY <1>1, <5>1
        <5> QED BY <3>2, <4>3, <5>1, <5>2
      <4> QED BY <4>2, <4>3
    <3> QED BY <3>1, <3>6, <3>7, <3>8, <3>9, <3>10, <3>12, <3>13, Zenon DEF Repairing, L, y
  <2>2. ASSUME NEW q \in PolicyId, Yields(x, r, q, t, y)
        PROVE  Repairing(p, e, t, R, y)
    <3>y. /\ q # r /\ Row(x, q) /\ At(x, q, t) /\ x[q].email = e
          /\ \/ /\ x[q].active
                /\ y = [x EXCEPT ![r] = [x[r] EXCEPT !.active = FALSE, !.aged = FALSE]]
             \/ /\ ~x[q].active
                /\ y = [x EXCEPT ![r] = [x[r] EXCEPT !.active = FALSE, !.aged = FALSE],
                                 ![q] = [x[q] EXCEPT !.active = TRUE, !.aged = FALSE,
                                                     !.factor = x[r].factor]]
      BY <1>r, <2>2, Zenon DEF Yields
    <3>0. x[q] \in Policy BY <1>1, <3>y, RowType
    <3>a. [x[r] EXCEPT !.active = FALSE, !.aged = FALSE] \in Policy BY <1>6 DEF Policy
    <3>b. [x[q] EXCEPT !.active = TRUE, !.aged = FALSE, !.factor = x[r].factor] \in Policy
      BY <1>6, <3>0 DEF Policy
    <3>1. y \in Table BY <1>t, <1>r, <3>y, <3>a, <3>b DEF Table
    <3>2. /\ \A k \in PolicyId : k # r /\ k # q => y[k] = x[k]
          /\ y[r] = [x[r] EXCEPT !.active = FALSE, !.aged = FALSE]
          /\ \/ x[q].active /\ y[q] = x[q]
             \/ ~x[q].active /\ y[q] = [x[q] EXCEPT !.active = TRUE, !.aged = FALSE,
                                                    !.factor = x[r].factor]
      BY <1>t, <1>r, <3>y DEF Table
    <3>3. /\ y[r] \in Policy /\ y[r].traffic = x[r].traffic /\ y[r].inbound = x[r].inbound
          /\ y[r].email = e /\ ~y[r].active
      BY <1>2, <1>6, <3>2 DEF Policy
    <3>4. /\ y[q] \in Policy /\ y[q].traffic = x[q].traffic /\ y[q].inbound = x[q].inbound
          /\ y[q].email = e /\ y[q].active
          /\ (y[q].factor = x[q].factor /\ x[q].active) \/ y[q].factor = x[r].factor
      <4>1. x[q].email = e BY <1>r, <3>y
      <4>2. CASE x[q].active BY <3>0, <3>2, <4>1, <4>2
      <4>3. CASE ~x[q].active BY <1>6, <3>0, <3>2, <4>1, <4>3 DEF Policy
      <4> QED BY <4>2, <4>3
    <3>5. Row(y, r) /\ Row(y, q) BY <1>2, <3>1, <3>3, <3>4, RowType
    <3>6. \A k \in PolicyId : (Row(y, k) <=> Row(x, k)) BY <1>2, <3>y, <3>2, <3>5 DEF Row
    <3>7. \A k \in PolicyId : Row(x, k) =>
             /\ y[k].email = x[k].email /\ y[k].traffic = x[k].traffic
             /\ y[k].inbound = x[k].inbound
      <4> TAKE k \in PolicyId
      <4>1. CASE k = r BY <1>2, <3>3, <4>1
      <4>2. CASE k = q BY <1>r, <3>y, <3>4, <4>2
      <4>3. CASE k # r /\ k # q BY <3>2, <4>3
      <4> QED BY <4>1, <4>2, <4>3
    <3>8. SameEmails(p, y) BY <1>1, <3>6, <3>7 DEF SameEmails
    <3>9. Unique(y) BY <1>1, <3>1, <3>6, <3>7, UniquePairs
    <3>10. Row(p, q) /\ p[q].email = e BY <1>1, <1>2, <3>y DEF SameEmails
    <3>11. \A k \in PolicyId : ~Row(p, k) \/ p[k].email # e => y[k] = p[k]
      BY <1>1, <1>2, <3>2, <3>10
    <3>12. \A k \in L \ R : y[k] = p[k]
      <4>1. \A k \in L \ R : x[k] = p[k] /\ k # r BY <1>1
      <4>2. q \in L \ R => x[q].active BY <4>1, <1>5
      <4> QED BY <1>5, <3>2, <4>1, <4>2
    <3>13. At(y, q, t) /\ q \in FindActiveByEmail(y, e)
      BY <3>y, <3>4, <3>5, ActiveIs DEF At
    <3>14. \A k \in FindActiveByEmail(y, e) :
              k # r /\ (k # q => k \in FindActiveByEmail(x, e) /\ y[k] = x[k])
      <4>1. TAKE k \in FindActiveByEmail(y, e)
      <4>2. k \in PolicyId /\ Row(y, k) /\ y[k].email = e /\ y[k].active BY ActiveIs
      <4>3. k # r BY <3>3, <4>2
      <4>4. k # q => y[k] = x[k] BY <3>2, <4>2, <4>3
      <4>5. Row(x, k) BY <3>6, <4>2
      <4> QED BY <4>2, <4>3, <4>4, <4>5, ActiveIs
    <3>15. \A k \in FindActiveByEmail(y, e) : k \notin L \ R => At(y, k, t)
      <4>1. SUFFICES ASSUME NEW k \in FindActiveByEmail(y, e), k \notin L \ R, k # q
                     PROVE  At(y, k, t)
        BY <3>13
      <4>2. k # r /\ k \in FindActiveByEmail(x, e) /\ y[k] = x[k] BY <3>14, <4>1
      <4>3. k \notin L \ (R \ {r}) BY <4>1, <4>2
      <4>4. At(x, k, t) BY <1>1, <4>2, <4>3
      <4> QED BY <4>2, <4>4 DEF At
    <3>16. \A k \in FindActiveByEmail(y, e) : \E m \in L : y[k].factor = p[m].factor
      <4>1. x[q].active => q \in FindActiveByEmail(x, e) BY <1>2, <3>y, ActiveIs
      <4>2. \A k \in FindActiveByEmail(x, e) : \E m \in L : x[k].factor = p[m].factor BY <1>1
      <4>3. x[r].factor = p[r].factor /\ r \in L BY <1>2
      <4>4. \E m \in L : y[q].factor = p[m].factor BY <3>4, <4>1, <4>2, <4>3
      <4> QED BY <3>14, <4>2, <4>4
    <3> QED BY <3>1, <3>8, <3>9, <3>11, <3>12, <3>13, <3>15, <3>16, Zenon DEF Repairing, L, y
  <2>3. Moved(x, r, t, y) \/ \E q \in PolicyId : Yields(x, r, q, t, y)
    BY <1>t, <1>r, <1>2, <2>0, RelinkEffect, Zenon
  <2> QED BY <2>1, <2>2, <2>3, Zenon
<1> QED BY <1>7, <1>8

(* resolvePolicyTraffic finds the panel's one row with the email. *)
LEMMA ResolveIs ==
    ASSUME EmailsDistinct, NEW t \in Traffic, NEW e
    PROVE  ResolvePolicyTraffic(t, e) = ClientTrafficByEmail(e)
<1>1. CASE Matches(t, e)
  <2>1. ClientTrafficByEmail(e) \in Traffic /\ Matches(ClientTrafficByEmail(e), e)
    BY <1>1, ByEmail
  <2> QED BY <1>1, <2>1 DEF EmailsDistinct, Matches, ResolvePolicyTraffic
<1>2. CASE ~Matches(t, e) BY <1>2 DEF ResolvePolicyTraffic
<1> QED BY <1>1, <1>2

(* The whole repair of one email. *)
LEMMA RepairEmailEffect ==
    ASSUME NEW p \in Table, Unique(p), EmailsDistinct,
           traffics \in [Traffic -> Client \cup {NoRow}], NEW e
    PROVE  LET t == ClientTrafficByEmail(e)
           IN  /\ t = NoRow => RepairEmail(p, e) = p
               /\ t # NoRow => Repairing(p, e, t, RepairList(p, e), RepairEmail(p, e))
<1> DEFINE L == RepairList(p, e)
           f == Repaired(p, L)
           t == ClientTrafficByEmail(e)
           Good(R) == /\ t = NoRow => f[R] = p
                      /\ t # NoRow => Repairing(p, e, t, R, f[R])
           P == {R \in SUBSET L : Good(R)}
<1>1. L \in SUBSET FindByEmail(p, e) /\ L \in SUBSET PolicyId
  BY DEF RepairList, FindActiveByEmail, FindByEmail
<1>2. IsFiniteSet(L)
  <2>1. IsFiniteSet(PolicyId) BY BoundsAssumption, FS_Interval DEF PolicyId
  <2> HIDE DEF L
  <2> QED BY <1>1, <2>1, FS_Subset
<1>3. \A R \in SUBSET L : R # {} => Last(p, R) \in R
  <2> TAKE R \in SUBSET L
  <2>1. R \in SUBSET FindByEmail(p, e) BY <1>1
  <2> QED BY <2>1, LastIn
<1>4. /\ f[{}] = p
      /\ \A R \in SUBSET L : R # {} => f[R] = RepairRow(f[R \ {Last(p, R)}], Last(p, R))
  <2> HIDE DEF L
  <2> QED BY <1>2, <1>3, RepairedIs
<1>5. t # NoRow => t \in Traffic /\ traffics[t] \in Client
  BY ByEmail DEF Matches
<1>6. RepairEmail(p, e) = f[L] BY RepairEmailIs
<1>7. \A r \in L : p[r].traffic \in Traffic /\ p[r].email = e
  <2> TAKE r \in L
  <2>1. r \in PolicyId /\ Row(p, r) /\ p[r].email = e BY ActiveIs DEF RepairList
  <2> QED BY <2>1, RowType
<1>8. \A r \in L : ResolvePolicyTraffic(p[r].traffic, p[r].email) = t BY <1>7, ResolveIs
<1>r. \A R \in SUBSET L : \A r \in R : t # NoRow =>
         (Repairing(p, e, t, R \ {r}, f[R \ {r}]) => f[R \ {r}][r] = p[r])
  BY DEF Repairing
<1> HIDE DEF L, f, t
<1>9. {} \in P BY <1>4, RepairingStarts
<1>10. ASSUME NEW R \in SUBSET L, R # {}, \A r \in R : R \ {r} \in P
       PROVE  R \in P
  <2> DEFINE r == Last(p, R)
             x == f[R \ {r}]
  <2>1. r \in R /\ r \in L /\ f[R] = RepairRow(x, r) BY <1>3, <1>4, <1>10
  <2>2. Good(R \ {r}) BY <1>10, <2>1
  <2> HIDE DEF r
  <2>3. CASE t = NoRow
    <3>1. x = p BY <2>2, <2>3
    <3>2. RepairRow(p, r) = p BY <1>8, <2>1, <2>3 DEF RepairRow
    <3> QED BY <2>1, <2>3, <3>1, <3>2
  <2>4. CASE t # NoRow
    <3>1. Repairing(p, e, t, R \ {r}, x) BY <2>2, <2>4
    <3>2. x[r] = p[r] BY <1>r, <2>1, <2>4, <3>1
    <3>3. ResolvePolicyTraffic(x[r].traffic, x[r].email) = t BY <1>8, <2>1, <3>2
    <3>4. t \in Traffic /\ traffics[t] \in Client BY <1>5, <2>4
    <3>5. Repairing(p, e, t, R, RepairRow(x, r))
      <4> HIDE DEF x
      <4>1. R \in SUBSET RepairList(p, e) BY DEF L
      <4> QED BY <2>1, <3>1, <3>3, <3>4, <4>1, RepairingStep
    <3> QED BY <2>1, <2>4, <3>5
  <2> QED BY <2>3, <2>4
<1>11. P = SUBSET L
  <2>1. P \in SUBSET (SUBSET L) OBVIOUS
  <2> HIDE DEF P
  <2> QED BY <1>2, <1>9, <1>10, <2>1, SubsetInduction
<1>12. Good(L) BY <1>11
<1> QED BY <1>6, <1>12, Zenon DEF L, t

(* The repair of all members, email by email. *)
LEMMA ReconcileEffect ==
    ASSUME NEW p \in Table, Unique(p), EmailsDistinct,
           traffics \in [Traffic -> Client \cup {NoRow}], NEW members
    PROVE  LET x == ReconcilePolicies(p, members)
           IN  /\ x \in Table /\ Unique(x) /\ SameEmails(p, x)
               /\ \A e \in members : ClientTrafficByEmail(e) # NoRow =>
                     /\ \A r \in FindActiveByEmail(x, e) :
                           /\ At(x, r, ClientTrafficByEmail(e))
                           /\ \E q \in FindActiveByEmail(p, e) : x[r].factor = p[q].factor
                     /\ FindActiveByEmail(p, e) # {} => FindActiveByEmail(x, e) # {}
               /\ \A r \in PolicyId :
                     Row(p, r) /\ (\/ p[r].email \notin members
                                   \/ ClientTrafficByEmail(p[r].email) = NoRow)
                     => x[r] = p[r]
<1> DEFINE x == ReconcilePolicies(p, members)
           F(e) == RepairEmail(p, e)
           T(e) == ClientTrafficByEmail(e)
<1>1. \A e : /\ T(e) = NoRow => F(e) = p
             /\ T(e) # NoRow => Repairing(p, e, T(e), RepairList(p, e), F(e))
  BY RepairEmailEffect
<1>2. \A e : F(e) \in Table /\ Unique(F(e)) /\ SameEmails(p, F(e))
  <2> TAKE e
  <2>1. CASE T(e) = NoRow
    <3>1. F(e) = p BY <1>1, <2>1
    <3> QED BY <3>1 DEF SameEmails
  <2>2. CASE T(e) # NoRow
    <3>1. Repairing(p, e, T(e), RepairList(p, e), F(e)) BY <1>1, <2>2
    <3> QED BY <3>1 DEF Repairing
  <2> QED BY <2>1, <2>2
<1>3. x = [r \in PolicyId |-> IF Row(p, r) /\ p[r].email \in members
                              THEN F(p[r].email)[r] ELSE p[r]]
  BY DEF ReconcilePolicies
<1> HIDE DEF x, F, T
<1>4. \A r \in PolicyId : x[r] = IF Row(p, r) /\ p[r].email \in members
                                 THEN F(p[r].email)[r] ELSE p[r]
  BY <1>3
<1>5. x \in Table
  <2>1. \A r \in PolicyId : x[r] \in Policy \cup {NoRow} BY <1>2, <1>4 DEF Table
  <2> QED BY <1>3, <2>1 DEF Table
<1>6. SameEmails(p, x)
  <2> SUFFICES ASSUME NEW r \in PolicyId
               PROVE  (Row(x, r) <=> Row(p, r)) /\ (Row(p, r) => x[r].email = p[r].email)
    BY DEF SameEmails
  <2>1. CASE Row(p, r) /\ p[r].email \in members
    <3>1. x[r] = F(p[r].email)[r] BY <1>4, <2>1
    <3>2. Row(F(p[r].email), r) /\ F(p[r].email)[r].email = p[r].email
      BY <1>2, <2>1 DEF SameEmails
    <3> QED BY <2>1, <3>1, <3>2 DEF Row
  <2>2. CASE ~(Row(p, r) /\ p[r].email \in members)
    <3>1. x[r] = p[r] BY <1>4, <2>2
    <3> QED BY <3>1 DEF Row
  <2> QED BY <2>1, <2>2
<1>7. ASSUME NEW e \in members, NEW r \in PolicyId, Row(x, r) \/ Row(F(e), r),
             x[r].email = e \/ F(e)[r].email = e
      PROVE  x[r] = F(e)[r] /\ Row(x, r) /\ Row(F(e), r)
  <2>1. Row(p, r) /\ Row(x, r) /\ Row(F(e), r) BY <1>2, <1>6, <1>7 DEF SameEmails
  <2>2. p[r].email = e BY <1>2, <1>6, <1>7, <2>1 DEF SameEmails
  <2> QED BY <1>4, <2>1, <2>2
<1>8. Unique(x)
  <2> SUFFICES ASSUME NEW r \in PolicyId, NEW q \in PolicyId, Row(x, r), Row(x, q),
                      x[r].traffic = x[q].traffic, x[r].inbound = x[q].inbound,
                      x[r].email = x[q].email
               PROVE  r = q
    BY <1>5, UniquePairs
  <2>1. CASE x[r].email \in members
    <3> DEFINE e == x[r].email
    <3>1. x[r] = F(e)[r] /\ Row(F(e), r) BY <1>7, <2>1
    <3>2. x[q] = F(e)[q] /\ Row(F(e), q) BY <1>7, <2>1
    <3>3. F(e) \in Table /\ Unique(F(e)) BY <1>2
    <3> HIDE DEF e
    <3> QED BY <3>1, <3>2, <3>3, UniquePairs
  <2>2. CASE x[r].email \notin members
    <3>1. /\ Row(p, r) /\ p[r].email = x[r].email /\ Row(p, q) /\ p[q].email = x[q].email
      BY <1>6 DEF SameEmails
    <3>2. x[r] = p[r] /\ x[q] = p[q] BY <1>4, <2>2, <3>1
    <3> QED BY <3>1, <3>2, UniquePairs
  <2> QED BY <2>1, <2>2
<1>9. ASSUME NEW e \in members, T(e) # NoRow
      PROVE  /\ \A r \in FindActiveByEmail(x, e) :
                   /\ At(x, r, T(e))
                   /\ \E q \in FindActiveByEmail(p, e) : x[r].factor = p[q].factor
             /\ FindActiveByEmail(p, e) # {} => FindActiveByEmail(x, e) # {}
  <2>1. Repairing(p, e, T(e), RepairList(p, e), F(e)) BY <1>1, <1>9
  <2>2. \A r : r \in FindActiveByEmail(x, e) <=> r \in FindActiveByEmail(F(e), e)
    <3> TAKE r
    <3>1. ASSUME r \in FindActiveByEmail(x, e) PROVE r \in FindActiveByEmail(F(e), e)
      <4>1. r \in PolicyId /\ Row(x, r) /\ x[r].email = e /\ x[r].active BY <3>1, ActiveIs
      <4>2. x[r] = F(e)[r] /\ Row(F(e), r) BY <1>7, <4>1
      <4> QED BY <4>1, <4>2, ActiveIs
    <3>2. ASSUME r \in FindActiveByEmail(F(e), e) PROVE r \in FindActiveByEmail(x, e)
      <4>1. r \in PolicyId /\ Row(F(e), r) /\ F(e)[r].email = e /\ F(e)[r].active
        BY <3>2, ActiveIs
      <4>2. x[r] = F(e)[r] /\ Row(x, r) BY <1>7, <4>1
      <4> QED BY <4>1, <4>2, ActiveIs
    <3> QED BY <3>1, <3>2
  <2>3. \A r \in FindActiveByEmail(x, e) : x[r] = F(e)[r]
    <3> TAKE r \in FindActiveByEmail(x, e)
    <3>1. r \in PolicyId /\ Row(x, r) /\ x[r].email = e BY ActiveIs
    <3> QED BY <1>7, <3>1
  <2>4. /\ \A r \in FindActiveByEmail(F(e), e) : At(F(e), r, T(e))
        /\ \A r \in FindActiveByEmail(F(e), e) :
              \E q \in FindActiveByEmail(p, e) : F(e)[r].factor = p[q].factor
        /\ FindActiveByEmail(p, e) # {} => FindActiveByEmail(F(e), e) # {}
    BY <2>1 DEF Repairing, RepairList
  <2> QED BY <2>2, <2>3, <2>4, Zenon DEF At
<1>10. ASSUME NEW r \in PolicyId, Row(p, r), p[r].email \notin members \/ T(p[r].email) = NoRow
       PROVE  x[r] = p[r]
  BY <1>1, <1>4, <1>10
<1> QED BY <1>5, <1>6, <1>8, <1>9, <1>10, Zenon DEF x, T

-----------------------------------------------------------------------------
LEMMA PoliciesInit == Init => IInv
<1> SUFFICES ASSUME Init PROVE IInv OBVIOUS
<1>1. PICK legacy \in [1..(next - 1) -> {x \in Policy : x.traffic \in used /\ ~x.aged}] :
          policies = [r \in PolicyId |-> IF r < next THEN legacy[r] ELSE NoRow]
  BY DEF Init
<1>2. next \in Nat /\ next \in 1..(MaxPolicies + 1) BY BoundsAssumption DEF Init
<1>3. \A r \in PolicyId : r \in Nat /\ 1 <= r BY BoundsAssumption DEF PolicyId
<1>4. \A r \in PolicyId : r < next => legacy[r] \in Policy BY <1>1, <1>2, <1>3
<1>5. policies \in Table BY <1>1, <1>4 DEF Table
<1>6. \A r \in PolicyId : Row(policies, r) => r < next BY <1>1 DEF Row
<1>7. TypeOK BY <1>2, <1>5, <1>6 DEF Init, TypeOK, Table
<1>8. EmailsDistinct BY DEF Init, EmailsDistinct
<1>9. OneActive BY DEF Init, OneActive
<1> QED BY <1>7, <1>8, <1>9 DEF IInv

(* The panel does not touch the table. *)
LEMMA PanelStep ==
    ASSUME IInv, Panel
    PROVE  IInv' /\ UNCHANGED policies
<1>0. /\ traffics \in [Traffic -> Client \cup {NoRow}] /\ used \in SUBSET Traffic
      /\ EmailsDistinct
  BY DEF IInv, TypeOK
<1> DEFINE Kept == /\ UNCHANGED <<policies, next, migrated>>
                   /\ traffics' \in [Traffic -> Client \cup {NoRow}]
                   /\ used' \in SUBSET Traffic
                   /\ EmailsDistinct'
<1>1. Kept
  <2>1. ASSUME NEW t \in Traffic, NEW e \in Emails, NEW i \in Inbounds, PanelCreate(t, e, i)
        PROVE  Kept
    <3>1. [email |-> e, inbound |-> i] \in Client BY DEF Client
    <3>2. /\ UNCHANGED <<policies, next, migrated>> /\ used' = used \cup {t}
          /\ traffics' = [traffics EXCEPT ![t] = [email |-> e, inbound |-> i]]
          /\ \A u \in Traffic : ~Matches(u, e)
      BY <2>1, ByEmail DEF PanelCreate
    <3>3. EmailsDistinct' BY <1>0, <3>2 DEF EmailsDistinct, Matches
    <3> QED BY <1>0, <3>1, <3>2, <3>3
  <2>2. ASSUME NEW t \in Traffic, PanelDelete(t) PROVE Kept
    BY <1>0, <2>2 DEF PanelDelete, EmailsDistinct
  <2>3. ASSUME NEW t \in Traffic, NEW i \in Inbounds, PanelMove(t, i) PROVE Kept
    <3>1. /\ UNCHANGED <<policies, next, migrated, used>> /\ traffics[t] \in Client
          /\ traffics' = [traffics EXCEPT ![t] = [traffics[t] EXCEPT !.inbound = i]]
      BY <1>0, <2>3 DEF PanelMove
    <3>2. /\ [traffics[t] EXCEPT !.inbound = i] \in Client
          /\ [traffics[t] EXCEPT !.inbound = i].email = traffics[t].email
      BY <3>1 DEF Client
    <3>3. EmailsDistinct' BY <1>0, <2>3, <3>1, <3>2 DEF EmailsDistinct, PanelMove
    <3> QED BY <1>0, <3>1, <3>2, <3>3
  <2>4. ASSUME NEW t \in Traffic, NEW e \in Emails, PanelRename(t, e) PROVE Kept
    <3>1. /\ UNCHANGED <<policies, next, migrated, used>> /\ traffics[t] \in Client
          /\ traffics' = [traffics EXCEPT ![t] = [traffics[t] EXCEPT !.email = e]]
          /\ \A u \in Traffic : ~Matches(u, e)
      BY <1>0, <2>4, ByEmail DEF PanelRename
    <3>2. /\ [traffics[t] EXCEPT !.email = e] \in Client
          /\ [traffics[t] EXCEPT !.email = e].email = e
      BY <3>1 DEF Client
    <3>3. EmailsDistinct' BY <1>0, <3>1, <3>2 DEF EmailsDistinct, Matches
    <3> QED BY <1>0, <3>1, <3>2, <3>3
  <2> HIDE DEF Kept
  <2> QED BY <2>1, <2>2, <2>3, <2>4, Zenon DEF Panel
<1>2. TypeOK'
  BY <1>1 DEF IInv, TypeOK, Row, Unique, Holders
<1>3. OneActive' BY <1>1 DEF IInv, OneActive, ListActive, Row
<1> QED BY <1>1, <1>2, <1>3 DEF IInv

(* A table that a transaction of XuiFactor leaves is sound. *)
Sound(p) ==
    /\ p \in Table /\ Unique(p)
    /\ \A r, q \in ListActive(p) :
          p[r].traffic = p[q].traffic /\ p[r].email = p[q].email => r = q

LEMMA ActiveRow ==
    ASSUME NEW p, NEW r
    PROVE  r \in ListActive(p) <=> r \in PolicyId /\ Row(p, r) /\ p[r].active
BY DEF ListActive

LEMMA ForClient ==
    ASSUME NEW p, NEW t, NEW e, NEW r
    PROVE  r \in FindActiveForClient(p, t, e) <=>
             r \in ListActive(p) /\ p[r].traffic = t /\ p[r].email = e
BY DEF FindActiveForClient, FindForClient, ListActive

(* A step of XuiFactor leaves the panel alone. *)
LEMMA TableStep ==
    ASSUME IInv, UNCHANGED <<traffics, used>>, migrated' \in BOOLEAN,
           policies' \in Table, Unique(policies'),
           next' \in 1..(MaxPolicies + 1),
           \A r \in PolicyId : Row(policies', r) => r < next',
           migrated' => Sound(policies')
    PROVE  IInv'
<1>1. TypeOK' BY DEF IInv, TypeOK, Table, Unique, Holders, Row
<1>2. EmailsDistinct' BY DEF IInv, EmailsDistinct
<1>3. OneActive' BY DEF Sound, OneActive
<1> QED BY <1>1, <1>2, <1>3 DEF IInv

(* The transactions that only deactivate rows, age them or delete them. *)
Weakens(p, x) ==
    \A r \in PolicyId : Row(x, r) =>
        /\ Row(p, r) /\ x[r].traffic = p[r].traffic /\ x[r].inbound = p[r].inbound
        /\ x[r].email = p[r].email /\ (x[r].active => p[r].active)

LEMMA WeakensSound ==
    ASSUME NEW p \in Table, NEW x \in Table, Weakens(p, x)
    PROVE  /\ Unique(p) => Unique(x)
           /\ Sound(p) => Sound(x)
<1>1. Unique(p) => Unique(x)
  <2> SUFFICES ASSUME Unique(p), NEW r \in PolicyId, NEW q \in PolicyId, Row(x, r), Row(x, q),
                      x[r].traffic = x[q].traffic, x[r].inbound = x[q].inbound,
                      x[r].email = x[q].email
               PROVE  r = q
    BY UniquePairs
  <2>1. /\ Row(p, r) /\ Row(p, q) /\ p[r].traffic = p[q].traffic
        /\ p[r].inbound = p[q].inbound /\ p[r].email = p[q].email
    BY DEF Weakens
  <2> QED BY <2>1, UniquePairs
<1>2. ASSUME Sound(p), NEW r \in ListActive(x), NEW q \in ListActive(x),
             x[r].traffic = x[q].traffic, x[r].email = x[q].email
      PROVE  r = q
  <2>1. /\ r \in PolicyId /\ q \in PolicyId /\ Row(x, r) /\ Row(x, q)
        /\ x[r].active /\ x[q].active
    BY ActiveRow
  <2>2. /\ Row(p, r) /\ Row(p, q) /\ p[r].active /\ p[q].active
        /\ p[r].traffic = p[q].traffic /\ p[r].email = p[q].email
    BY <1>2, <2>1 DEF Weakens
  <2>3. r \in ListActive(p) /\ q \in ListActive(p) BY <2>1, <2>2, ActiveRow
  <2> QED BY <1>2, <2>2, <2>3 DEF Sound
<1> QED BY <1>1, <1>2 DEF Sound

LEMMA WeakeningStep ==
    ASSUME IInv, UNCHANGED <<traffics, used, next, migrated>>,
           policies' \in Table, Weakens(policies, policies')
    PROVE  IInv'
<1>1. policies \in Table /\ Unique(policies) /\ next \in 1..(MaxPolicies + 1)
      /\ migrated \in BOOLEAN /\ \A r \in PolicyId : Row(policies, r) => r < next
  BY DEF IInv, TypeOK, Table
<1>2. migrated => Sound(policies) BY <1>1 DEF IInv, OneActive, Sound
<1>3. Unique(policies') /\ (migrated => Sound(policies')) BY <1>1, <1>2, WeakensSound
<1>4. \A r \in PolicyId : Row(policies', r) => r < next BY <1>1 DEF Weakens
<1> QED BY <1>1, <1>3, <1>4, TableStep

LEMMA TableNow ==
    ASSUME IInv
    PROVE  /\ policies \in Table /\ Unique(policies) /\ EmailsDistinct
           /\ traffics \in [Traffic -> Client \cup {NoRow}]
           /\ next \in 1..(MaxPolicies + 1) /\ migrated \in BOOLEAN
           /\ \A r \in PolicyId : Row(policies, r) => r < next
           /\ migrated => Sound(policies)
BY DEF IInv, TypeOK, Table, OneActive, Sound

(* A row that is written anew, or deactivated. *)
LEMMA Deactivated ==
    ASSUME NEW x \in Policy
    PROVE  LET y == [x EXCEPT !.active = FALSE]
               z == [x EXCEPT !.active = FALSE, !.aged = FALSE]
               a == [x EXCEPT !.aged = TRUE]
           IN  /\ y \in Policy /\ z \in Policy /\ a \in Policy
               /\ ~y.active /\ ~z.active /\ a.active = x.active
               /\ y.traffic = x.traffic /\ y.inbound = x.inbound /\ y.email = x.email
               /\ z.traffic = x.traffic /\ z.inbound = x.inbound /\ z.email = x.email
               /\ a.traffic = x.traffic /\ a.inbound = x.inbound /\ a.email = x.email
BY DEF Policy

(* The migration leaves one active row to each client, whatever duplicates *)
(* an older release has left.                                              *)
LEMMA MigrateStep ==
    ASSUME IInv, Migrate
    PROVE  IInv' /\ Weakens(policies, policies')
<1> DEFINE p == policies
           Kept(r) == Newest(FindActiveForClient(p, p[r].traffic, p[r].email))
<1>1. /\ migrated' = TRUE /\ UNCHANGED <<traffics, used, next>>
      /\ policies' = [r \in PolicyId |->
            IF r \in ListActive(p) /\ r # Kept(r) THEN [p[r] EXCEPT !.active = FALSE] ELSE p[r]]
  BY DEF Migrate
<1>2. p \in Table /\ Unique(p) /\ next \in 1..(MaxPolicies + 1)
      /\ \A r \in PolicyId : Row(p, r) => r < next
  BY TableNow
<1> HIDE DEF Kept
<1>3. \A r \in PolicyId :
        /\ r \in ListActive(p) /\ r # Kept(r) => policies'[r] = [p[r] EXCEPT !.active = FALSE]
        /\ ~(r \in ListActive(p) /\ r # Kept(r)) => policies'[r] = p[r]
  BY <1>1
<1>4. \A r \in PolicyId : r \in ListActive(p) => p[r] \in Policy
  BY <1>2, RowType, ActiveRow
<1>a. ASSUME NEW r \in PolicyId, r \in ListActive(p), r # Kept(r)
      PROVE  /\ policies'[r] \in Policy /\ ~policies'[r].active
             /\ policies'[r].traffic = p[r].traffic /\ policies'[r].inbound = p[r].inbound
             /\ policies'[r].email = p[r].email
  <2>1. policies'[r] = [p[r] EXCEPT !.active = FALSE] BY <1>3, <1>a
  <2>2. p[r] \in Policy BY <1>4, <1>a
  <2> QED BY <2>1, <2>2 DEF Policy
<1>5. \A r \in PolicyId : policies'[r] \in Policy \cup {NoRow}
  BY <1>2, <1>3, <1>a DEF Table
<1>6. policies' \in Table BY <1>1, <1>5 DEF Table
<1>7. Weakens(p, policies')
  <2> SUFFICES ASSUME NEW r \in PolicyId, Row(policies', r)
               PROVE  /\ Row(p, r) /\ policies'[r].traffic = p[r].traffic
                      /\ policies'[r].inbound = p[r].inbound
                      /\ policies'[r].email = p[r].email
                      /\ (policies'[r].active => p[r].active)
    BY DEF Weakens
  <2>1. CASE r \in ListActive(p) /\ r # Kept(r)
    <3>1. p[r] \in Policy /\ Row(p, r) BY <1>4, <2>1, ActiveRow
    <3> QED BY <1>a, <2>1, <3>1
  <2>2. CASE ~(r \in ListActive(p) /\ r # Kept(r)) BY <1>3, <2>2 DEF Row
  <2> QED BY <2>1, <2>2
<1>8. \A r \in ListActive(policies') : r \in ListActive(p) /\ r = Kept(r)
  <2> TAKE r \in ListActive(policies')
  <2>1. r \in PolicyId /\ Row(policies', r) /\ policies'[r].active BY ActiveRow
  <2>2. r \in ListActive(p) BY <1>7, <2>1, ActiveRow DEF Weakens
  <2>3. ASSUME r # Kept(r) PROVE FALSE
    BY <1>a, <2>1, <2>2, <2>3
  <2> QED BY <2>2, <2>3
<1>9. Sound(policies')
  <2>1. Unique(policies') BY <1>2, <1>6, <1>7, WeakensSound
  <2>2. ASSUME NEW r \in ListActive(policies'), NEW q \in ListActive(policies'),
               policies'[r].traffic = policies'[q].traffic,
               policies'[r].email = policies'[q].email
        PROVE  r = q
    <3>1. p[r].traffic = p[q].traffic /\ p[r].email = p[q].email
      BY <1>7, <2>2, ActiveRow DEF Weakens
    <3>2. Kept(r) = Kept(q) BY <3>1 DEF Kept
    <3> QED BY <1>8, <3>2
  <2> QED BY <1>6, <2>1, <2>2 DEF Sound
<1>10. \A r \in PolicyId : Row(policies', r) => r < next BY <1>2, <1>7 DEF Weakens
<1>11. IInv'
  <2>1. Unique(policies') BY <1>9 DEF Sound
  <2> QED BY <1>1, <1>2, <1>6, <1>9, <1>10, <2>1, TableStep
<1> QED BY <1>7, <1>11

(* Row r, and no other, is rewritten by a transaction that only weakens. *)
LEMMA RewriteWeakens ==
    ASSUME NEW p \in Table, NEW r \in PolicyId, p[r] \in Policy, NEW y \in Policy,
           y.traffic = p[r].traffic, y.inbound = p[r].inbound, y.email = p[r].email,
           y.active => p[r].active
    PROVE  [p EXCEPT ![r] = y] \in Table /\ Weakens(p, [p EXCEPT ![r] = y])
<1> DEFINE x == [p EXCEPT ![r] = y]
<1>1. x \in Table BY DEF Table
<1>2. \A k \in PolicyId : x[k] = IF k = r THEN y ELSE p[k] BY DEF Table
<1>3. Row(p, r) BY RowType
<1> HIDE DEF x
<1>4. Weakens(p, x) BY <1>2, <1>3 DEF Weakens, Row
<1> QED BY <1>1, <1>4 DEF x

LEMMA RemoveStep ==
    ASSUME IInv, NEW e, RemovePolicy(e)
    PROVE  IInv' /\ Weakens(policies, policies')
<1> DEFINE t == ClientTrafficByEmail(e)
           A == FindActiveForClient(policies, t, e)
           B == FindActiveByEmail(policies, e)
           r == FirstFound(A, FirstFound(B, NoRow))
<1>1. /\ UNCHANGED <<traffics, used, next, migrated>> /\ r # NoRow
      /\ policies' = Disable(policies, r)
  BY Zenon DEF RemovePolicy, Process
<1>2. A \in SUBSET PolicyId /\ B \in SUBSET PolicyId
      /\ \A q \in A \cup B : Row(policies, q)
  BY ForClient, ActiveIs, ActiveRow
<1> HIDE DEF A, B
<1>3. r \in A \cup B BY <1>1, <1>2, NewestIn DEF FirstFound
<1> HIDE DEF r
<1>4. r \in PolicyId /\ policies[r] \in Policy /\ policies \in Table
  BY <1>2, <1>3, TableNow, RowType
<1>5. policies' = [policies EXCEPT ![r] = [policies[r] EXCEPT !.active = FALSE, !.aged = FALSE]]
  BY <1>1, <1>4 DEF Disable, Table
<1>6. policies' \in Table /\ Weakens(policies, policies')
  <2> DEFINE y == [policies[r] EXCEPT !.active = FALSE, !.aged = FALSE]
  <2>1. /\ y \in Policy /\ ~y.active /\ y.traffic = policies[r].traffic
        /\ y.inbound = policies[r].inbound /\ y.email = policies[r].email
    BY <1>4, Deactivated
  <2> HIDE DEF y
  <2>2. policies' = [policies EXCEPT ![r] = y] BY <1>5 DEF y
  <2> QED BY <1>4, <2>1, <2>2, RewriteWeakens
<1> QED BY <1>1, <1>6, WeakeningStep

LEMMA AgeStep ==
    ASSUME IInv, NEW r \in PolicyId, Age(r)
    PROVE  IInv' /\ Weakens(policies, policies')
<1>1. /\ UNCHANGED <<traffics, used, next, migrated>> /\ Row(policies, r)
      /\ policies' = [policies EXCEPT ![r] = [policies[r] EXCEPT !.aged = TRUE]]
  BY DEF Age
<1>2. policies[r] \in Policy /\ policies \in Table BY <1>1, TableNow, RowType
<1>3. policies' \in Table /\ Weakens(policies, policies')
  <2> DEFINE y == [policies[r] EXCEPT !.aged = TRUE]
  <2>1. /\ y \in Policy /\ y.active = policies[r].active /\ y.traffic = policies[r].traffic
        /\ y.inbound = policies[r].inbound /\ y.email = policies[r].email
    BY <1>2, Deactivated
  <2> HIDE DEF y
  <2>2. policies' = [policies EXCEPT ![r] = y] BY <1>1 DEF y
  <2> QED BY <1>2, <2>1, <2>2, RewriteWeakens
<1> QED BY <1>1, <1>3, WeakeningStep

LEMMA CleanupStep ==
    ASSUME IInv, Cleanup
    PROVE  IInv' /\ Weakens(policies, policies')
<1>1. /\ UNCHANGED <<traffics, used, next, migrated>>
      /\ policies' = [r \in PolicyId |->
            IF Row(policies, r) /\ ~policies[r].active /\ policies[r].aged
            THEN NoRow ELSE policies[r]]
  BY DEF Cleanup, Process
<1>2. policies \in Table BY TableNow
<1>3. policies' \in Table BY <1>1, <1>2 DEF Table
<1>4. Weakens(policies, policies') BY <1>1 DEF Weakens, Row
<1> QED BY <1>1, <1>3, <1>4, WeakeningStep

(* Row r is the only one a command on email e writes, and it is the newest *)
(* of those that name the client.                                          *)
LEMMA SetStep ==
    ASSUME IInv, NEW e \in Emails, NEW f \in Factors, SetPolicy(e, f)
    PROVE  /\ IInv'
           /\ \A k \in PolicyId : Row(policies', k) /\ policies'[k].email # e
                                     => policies'[k] = policies[k]
<1> DEFINE p == policies
           t == ClientTrafficByEmail(e)
           A == FindActiveForClient(p, t, e)
           B == FindForClient(p, t, e)
           C == FindByEmail(p, e)
           r == FindForUpsert(p, t, e)
           a == Active(t, e, f)
<1>1. /\ UNCHANGED <<traffics, used, migrated>> /\ migrated /\ t # NoRow
      /\ \/ /\ r = NoRow /\ next <= MaxPolicies
            /\ policies' = [p EXCEPT ![next] = a] /\ next' = next + 1
         \/ /\ r # NoRow /\ ~UpsertCollides(e)
            /\ policies' = [p EXCEPT ![r] = a] /\ UNCHANGED next
  BY Zenon DEF SetPolicy, Process
<1>2. /\ p \in Table /\ Unique(p) /\ next \in 1..(MaxPolicies + 1) /\ Sound(p)
      /\ \A k \in PolicyId : Row(p, k) => k < next
  BY <1>1, TableNow
<1>3. t \in Traffic /\ traffics[t] \in Client
  BY <1>1, TableNow, ByEmail DEF Matches
<1>4. /\ a \in Policy /\ a.traffic = t /\ a.inbound = traffics[t].inbound
      /\ a.email = e /\ a.active
  <2>1. traffics[t].inbound \in Inbounds BY <1>3 DEF Client
  <2> HIDE DEF t
  <2> QED BY <1>3, <2>1 DEF Active, Policy
<1>5. /\ A \in SUBSET B /\ B \in SUBSET C /\ C \in SUBSET PolicyId
      /\ \A k \in C : Row(p, k) /\ p[k].email = e
      /\ \A k \in PolicyId : Row(p, k) /\ p[k].email = e => k \in C
      /\ \A k \in PolicyId : k \in A <=> k \in ListActive(p) /\ p[k].traffic = t /\ p[k].email = e
  BY DEF FindActiveForClient, FindForClient, FindByEmail, ListActive
<1>6. r = FirstFound(A, FirstFound(B, FirstFound(C, NoRow))) BY DEF FindForUpsert
<1>u. UpsertCollides(e) <=> r # NoRow /\ Holders(p, t, traffics[t].inbound, e) \ {r} # {}
  BY Zenon DEF UpsertCollides
<1> HIDE DEF A, B, C, a
<1>7. /\ r \in C \cup {NoRow} /\ (r = NoRow => C = {})
      /\ A # {} => r \in A
  <2>1. NoRow \notin PolicyId BY NoRowAssumption
  <2>2. CASE A # {}
    <3>1. r = Newest(A) BY <1>6, <2>2 DEF FirstFound
    <3>2. r \in A BY <1>5, <2>2, <3>1, NewestIn
    <3> QED BY <1>5, <2>1, <3>2
  <2>3. CASE A = {} /\ B # {}
    <3>1. r = Newest(B) BY <1>6, <2>3 DEF FirstFound
    <3>2. r \in B BY <1>5, <2>3, <3>1, NewestIn
    <3> QED BY <1>5, <2>1, <2>3, <3>2
  <2>4. CASE A = {} /\ B = {} /\ C # {}
    <3>1. r = Newest(C) BY <1>6, <2>4 DEF FirstFound
    <3>2. r \in C BY <1>5, <2>4, <3>1, NewestIn
    <3> QED BY <1>5, <2>1, <2>4, <3>2
  <2>5. CASE A = {} /\ B = {} /\ C = {} BY <1>6, <2>5 DEF FirstFound
  <2> QED BY <2>2, <2>3, <2>4, <2>5
<1> HIDE DEF t, r
(* w is the row that is written. *)
<1>8. PICK w \in PolicyId :
        /\ policies' = [p EXCEPT ![w] = a]
        /\ Row(p, w) => p[w].email = e
        /\ \A k \in PolicyId : k # w /\ Row(p, k) /\ p[k].email = e
                                  => ~(p[k].traffic = t /\ p[k].inbound = traffics[t].inbound)
        /\ \A k \in PolicyId : k # w => k \notin A
        /\ next' \in 1..(MaxPolicies + 1) /\ w < next' /\ next <= next'
  <2>1. CASE /\ r = NoRow /\ next <= MaxPolicies
             /\ policies' = [p EXCEPT ![next] = a] /\ next' = next + 1
    <3>1. next \in PolicyId /\ next \in Nat BY <1>2, <2>1, BoundsAssumption DEF PolicyId
    <3>2. ~Row(p, next) BY <1>2, <3>1
    <3>3. next' \in 1..(MaxPolicies + 1) /\ next < next'
      BY <2>1, <3>1, BoundsAssumption DEF PolicyId
    <3>4. C = {} /\ A = {} BY <1>5, <1>7, <2>1
    <3>5. \A k \in PolicyId : ~(Row(p, k) /\ p[k].email = e) BY <1>5, <3>4
    <3>6. next <= next' BY <3>1, <2>1
    <3>7. policies' = [p EXCEPT ![next] = a] BY <2>1
    <3> QED BY <3>1, <3>2, <3>3, <3>4, <3>5, <3>6, <3>7, Zenon
  <2>2. CASE /\ r # NoRow /\ ~UpsertCollides(e)
             /\ policies' = [p EXCEPT ![r] = a] /\ UNCHANGED next
    <3>1. r \in C /\ r \in PolicyId /\ Row(p, r) /\ p[r].email = e BY <1>5, <1>7, <2>2
    <3>2. Holders(p, t, traffics[t].inbound, e) \ {r} = {} BY <1>u, <2>2
    <3>3. \A k \in PolicyId : k # r /\ Row(p, k) /\ p[k].email = e
             => ~(p[k].traffic = t /\ p[k].inbound = traffics[t].inbound)
      BY <3>2 DEF Holders
    <3>4. \A k \in PolicyId : k # r => k \notin A
      <4>1. SUFFICES ASSUME NEW k \in PolicyId, k # r, k \in A PROVE FALSE OBVIOUS
      <4>2. r \in A BY <1>7, <4>1
      <4> QED BY <1>2, <1>5, <3>1, <4>1, <4>2 DEF Sound
    <3>5. r < next /\ next <= next BY <1>2, <3>1
    <3> QED BY <1>2, <2>2, <3>1, <3>3, <3>4, <3>5
  <2> QED BY <1>1, <2>1, <2>2
<1>9. policies' \in Table BY <1>2, <1>4, <1>8 DEF Table
<1>10. policies'[w] = a /\ \A k \in PolicyId : k # w => policies'[k] = p[k]
  BY <1>2, <1>8 DEF Table
<1>11. Row(policies', w) BY <1>4, <1>9, <1>10, RowType
<1>12. \A k \in PolicyId : k # w => (Row(policies', k) <=> Row(p, k)) BY <1>10 DEF Row
<1>13. Unique(policies')
  <2>1. SUFFICES ASSUME NEW k \in PolicyId, NEW q \in PolicyId, Row(policies', k),
                      Row(policies', q), policies'[k].traffic = policies'[q].traffic,
                      policies'[k].inbound = policies'[q].inbound,
                      policies'[k].email = policies'[q].email, k # q
               PROVE  FALSE
    BY <1>9, UniquePairs
  <2>2. ASSUME NEW m \in PolicyId, m # w, Row(policies', m), policies'[m].traffic = t,
               policies'[m].inbound = traffics[t].inbound, policies'[m].email = e
        PROVE  FALSE
    BY <1>8, <1>10, <1>12, <2>2
  <2>3. CASE k # w /\ q # w BY <1>2, <1>10, <1>12, <2>1, <2>3, UniquePairs
  <2>4. CASE k = w BY <1>4, <1>10, <2>1, <2>2, <2>4
  <2>5. CASE q = w BY <1>4, <1>10, <2>1, <2>2, <2>5
  <2> QED BY <2>3, <2>4, <2>5
<1>14. Sound(policies')
  <2>1. SUFFICES ASSUME NEW k \in ListActive(policies'), NEW q \in ListActive(policies'),
                        policies'[k].traffic = policies'[q].traffic,
                        policies'[k].email = policies'[q].email, k # q
                 PROVE  FALSE
    BY <1>9, <1>13 DEF Sound
  <2>0. k \in PolicyId /\ q \in PolicyId BY ActiveRow
  <2>2. \A m \in PolicyId : m # w /\ m \in ListActive(policies') => m \in ListActive(p)
    BY <1>10, <1>12, ActiveRow
  <2>3. ASSUME NEW m \in PolicyId, m # w, m \in ListActive(policies'),
               policies'[m].traffic = t, policies'[m].email = e
        PROVE  FALSE
    <3>1. m \in ListActive(p) /\ policies'[m] = p[m] BY <1>10, <2>2, <2>3
    <3>2. m \in A BY <1>5, <2>3, <3>1
    <3> QED BY <1>8, <2>3, <3>2
  <2>4. CASE k # w /\ q # w
    <3>1. k \in ListActive(p) /\ q \in ListActive(p) BY <2>0, <2>2, <2>4
    <3>2. policies'[k] = p[k] /\ policies'[q] = p[q] BY <1>10, <2>0, <2>4
    <3> QED BY <1>2, <2>1, <3>1, <3>2 DEF Sound
  <2>5. CASE k = w BY <1>4, <1>10, <2>0, <2>1, <2>3, <2>5
  <2>6. CASE q = w BY <1>4, <1>10, <2>0, <2>1, <2>3, <2>6
  <2> QED BY <2>4, <2>5, <2>6
<1>15. \A k \in PolicyId : Row(policies', k) => k < next'
  <2> SUFFICES ASSUME NEW k \in PolicyId, Row(policies', k) PROVE k < next' OBVIOUS
  <2>1. CASE k = w BY <1>8, <2>1
  <2>2. CASE k # w
    <3>1. k < next BY <1>2, <1>12, <2>2
    <3>2. k \in Int /\ next \in Int /\ next' \in Int /\ next <= next'
      BY <1>2, <1>8, BoundsAssumption DEF PolicyId
    <3> QED BY <3>1, <3>2
  <2> QED BY <2>1, <2>2
<1>16. IInv'
  <2>1. next' \in 1..(MaxPolicies + 1) BY <1>8
  <2>2. migrated' \in BOOLEAN BY <1>1, TableNow
  <2>3. UNCHANGED <<traffics, used>> BY <1>1
  <2> QED BY <1>9, <1>13, <1>14, <1>15, <2>1, <2>2, <2>3, TableStep
<1>17. \A k \in PolicyId : Row(policies', k) /\ policies'[k].email # e
                              => policies'[k] = policies[k]
  BY <1>4, <1>10
<1> QED BY <1>16, <1>17

(* Repair moves policies with their clients, and ends with one per client. *)
LEMMA ReconcileStep ==
    ASSUME IInv, NEW members, Reconcile(members)
    PROVE  /\ IInv'
           /\ \A e : FindActiveByEmail(policies', e) # {} => FindActiveByEmail(policies, e) # {}
<1> DEFINE p == policies
           x == ReconcilePolicies(p, members)
<1>1. UNCHANGED <<traffics, used, next, migrated>> /\ migrated /\ policies' = x
  BY DEF Reconcile, Process
<1>2. /\ p \in Table /\ Unique(p) /\ next \in 1..(MaxPolicies + 1) /\ Sound(p)
      /\ EmailsDistinct /\ traffics \in [Traffic -> Client \cup {NoRow}]
      /\ \A k \in PolicyId : Row(p, k) => k < next
  BY <1>1, TableNow
<1>3. /\ x \in Table /\ Unique(x) /\ SameEmails(p, x)
      /\ \A e \in members : ClientTrafficByEmail(e) # NoRow =>
            \A r \in FindActiveByEmail(x, e) :
                  /\ At(x, r, ClientTrafficByEmail(e))
                  /\ \E q \in FindActiveByEmail(p, e) : x[r].factor = p[q].factor
      /\ \A r \in PolicyId :
            Row(p, r) /\ (p[r].email \notin members \/ ClientTrafficByEmail(p[r].email) = NoRow)
            => x[r] = p[r]
  BY <1>2, ReconcileEffect
<1> HIDE DEF x
<1>4. Sound(x)
  <2>1. SUFFICES ASSUME NEW r \in ListActive(x), NEW q \in ListActive(x),
                        x[r].traffic = x[q].traffic, x[r].email = x[q].email
                 PROVE  r = q
    BY <1>3 DEF Sound
  <2> DEFINE e == x[r].email
  <2>2. /\ r \in PolicyId /\ q \in PolicyId /\ Row(x, r) /\ Row(x, q)
        /\ x[r].active /\ x[q].active
    BY ActiveRow
  <2>3. Row(p, r) /\ Row(p, q) /\ p[r].email = e /\ p[q].email = e
    BY <1>3, <2>1, <2>2 DEF SameEmails
  <2>4. r \in FindActiveByEmail(x, e) /\ q \in FindActiveByEmail(x, e)
    BY <2>1, <2>2, ActiveIs
  <2> HIDE DEF e
  <2>5. CASE e \in members /\ ClientTrafficByEmail(e) # NoRow
    <3>1. At(x, r, ClientTrafficByEmail(e)) /\ At(x, q, ClientTrafficByEmail(e))
      BY <1>3, <2>4, <2>5
    <3>2. x[r].inbound = x[q].inbound BY <3>1 DEF At
    <3> QED BY <1>3, <2>1, <2>2, <3>2, UniquePairs
  <2>6. CASE ~(e \in members /\ ClientTrafficByEmail(e) # NoRow)
    <3>1. x[r] = p[r] /\ x[q] = p[q] BY <1>3, <2>2, <2>3, <2>6
    <3>2. r \in ListActive(p) /\ q \in ListActive(p) BY <2>2, <2>3, <3>1, ActiveRow
    <3> QED BY <1>2, <2>1, <3>1, <3>2 DEF Sound
  <2> QED BY <2>5, <2>6
<1>5. \A k \in PolicyId : Row(x, k) => k < next BY <1>2, <1>3 DEF SameEmails
<1>6. IInv'
  <2>1. migrated' \in BOOLEAN /\ policies' \in Table /\ Unique(policies') /\ Sound(policies')
        /\ next' \in 1..(MaxPolicies + 1) /\ UNCHANGED <<traffics, used>>
        /\ \A r \in PolicyId : Row(policies', r) => r < next'
    BY <1>1, <1>2, <1>3, <1>4, <1>5, TableNow
  <2> QED BY <2>1, TableStep
<1>7. ASSUME NEW e, NEW r \in FindActiveByEmail(x, e)
      PROVE  FindActiveByEmail(p, e) # {}
  <2>1. r \in PolicyId /\ Row(x, r) /\ x[r].email = e /\ x[r].active BY <1>7, ActiveIs
  <2>2. Row(p, r) /\ p[r].email = e BY <1>3, <2>1 DEF SameEmails
  <2>3. CASE e \in members /\ ClientTrafficByEmail(e) # NoRow BY <1>3, <1>7, <2>3
  <2>4. CASE ~(e \in members /\ ClientTrafficByEmail(e) # NoRow)
    <3>1. x[r] = p[r] BY <1>3, <2>1, <2>2, <2>4
    <3> QED BY <2>1, <2>2, <3>1, ActiveIs
  <2> QED BY <2>3, <2>4
<1> QED BY <1>1, <1>6, <1>7

LEMMA WeakensActive ==
    ASSUME Weakens(policies, policies'), NEW e, FindActiveByEmail(policies', e) # {}
    PROVE  FindActiveByEmail(policies, e) # {}
<1>1. PICK r : r \in FindActiveByEmail(policies', e) OBVIOUS
<1>2. r \in PolicyId /\ Row(policies', r) /\ policies'[r].email = e /\ policies'[r].active
  BY <1>1, ActiveIs
<1>3. r \in FindActiveByEmail(policies, e) BY <1>2, ActiveIs DEF Weakens
<1> QED BY <1>3

(* Every step keeps the invariant and resurrects no policy. *)
LEMMA PoliciesStep == IInv /\ [Next]_vars => IInv' /\ [NoResurrectionStep]_vars
<1> SUFFICES ASSUME IInv, [Next]_vars PROVE IInv' /\ [NoResurrectionStep]_vars OBVIOUS
<1>1. ASSUME IInv', Weakens(policies, policies') PROVE IInv' /\ [NoResurrectionStep]_vars
  BY <1>1, WeakensActive DEF NoResurrectionStep
<1>2. CASE Migrate BY <1>1, <1>2, MigrateStep
<1>3. ASSUME NEW e \in Emails, NEW f \in Factors, SetPolicy(e, f)
      PROVE  IInv' /\ [NoResurrectionStep]_vars
  <2>1. IInv' /\ \A k \in PolicyId : Row(policies', k) /\ policies'[k].email # e
                                        => policies'[k] = policies[k]
    BY <1>3, SetStep
  <2>2. ASSUME NEW d \in Emails, d # e, FindActiveByEmail(policies', d) # {}
        PROVE  FindActiveByEmail(policies, d) # {}
    <3>1. PICK k : k \in FindActiveByEmail(policies', d) BY <2>2
    <3>2. k \in PolicyId /\ Row(policies', k) /\ policies'[k].email = d /\ policies'[k].active
      BY <3>1, ActiveIs
    <3>3. policies'[k] = policies[k] BY <2>1, <2>2, <3>2
    <3>4. k \in FindActiveByEmail(policies, d) BY <3>2, <3>3, ActiveIs DEF Row
    <3> QED BY <3>4
  <2>3. NoResurrectionStep BY <1>3, <2>2, Zenon DEF NoResurrectionStep
  <2> QED BY <2>1, <2>3
<1>4. ASSUME NEW e \in Emails, RemovePolicy(e) PROVE IInv' /\ [NoResurrectionStep]_vars
  BY <1>1, <1>4, RemoveStep
<1>5. ASSUME NEW members \in SUBSET Emails, Reconcile(members)
      PROVE  IInv' /\ [NoResurrectionStep]_vars
  BY <1>5, ReconcileStep DEF NoResurrectionStep
<1>6. CASE Cleanup BY <1>1, <1>6, CleanupStep
<1>7. ASSUME NEW r \in PolicyId, Age(r) PROVE IInv' /\ [NoResurrectionStep]_vars
  BY <1>1, <1>7, AgeStep
<1>8. CASE Panel
  <2>1. IInv' /\ UNCHANGED policies BY <1>8, PanelStep
  <2>2. NoResurrectionStep
    BY <2>1 DEF NoResurrectionStep, FindActiveByEmail, FindByEmail, ListActive, Row
  <2> QED BY <2>1, <2>2
<1>9. CASE UNCHANGED vars
  <2>1. IInv'
    BY <1>9 DEF vars, IInv, TypeOK, EmailsDistinct, OneActive, ListActive, Unique, Holders, Row
  <2> QED BY <1>9, <2>1
<1> QED BY <1>2, <1>3, <1>4, <1>5, <1>6, <1>7, <1>8, <1>9, Zenon DEF Next

LEMMA InvOneActive == IInv => OneActivePerClient
<1> SUFFICES ASSUME IInv, migrated, NEW t \in Traffic, NEW e \in Emails
             PROVE  Cardinality(FindActiveForClient(policies, t, e)) <= 1
  BY DEF OneActivePerClient
<1> DEFINE A == FindActiveForClient(policies, t, e)
<1>1. \A r, q \in A : r = q BY TableNow, ForClient DEF Sound
<1> HIDE DEF A
<1>2. CASE A = {} BY <1>2, FS_EmptySet DEF A
<1>3. CASE A # {}
  <2>1. PICK r : r \in A BY <1>3
  <2>2. A = {r} BY <1>1, <2>1
  <2>3. Cardinality(A) = 1 BY <2>2, FS_Singleton
  <2> QED BY <2>3 DEF A
<1> QED BY <1>2, <1>3

LEMMA InvRepairFollows == IInv => RepairFollows
<1> SUFFICES ASSUME IInv, migrated, NEW e \in Emails, ClientTrafficByEmail(e) # NoRow
             PROVE  LET t     == ClientTrafficByEmail(e)
                        after == ReconcilePolicies(policies, Emails)
                    IN  IF FindActiveByEmail(policies, e) = {}
                        THEN FindActiveByEmail(after, e) = {}
                        ELSE \E r \in PolicyId :
                                /\ FindActiveByEmail(after, e) = {r}
                                /\ after[r].traffic = t
                                /\ after[r].inbound = traffics[t].inbound
                                /\ \E q \in FindActiveByEmail(policies, e) :
                                      after[r].factor = policies[q].factor
  BY DEF RepairFollows
<1> DEFINE t == ClientTrafficByEmail(e)
           x == ReconcilePolicies(policies, Emails)
<1>1. /\ x \in Table /\ Unique(x)
      /\ \A r \in FindActiveByEmail(x, e) :
            /\ At(x, r, t)
            /\ \E q \in FindActiveByEmail(policies, e) : x[r].factor = policies[q].factor
      /\ FindActiveByEmail(policies, e) # {} => FindActiveByEmail(x, e) # {}
  BY TableNow, ReconcileEffect
<1> HIDE DEF t, x
<1>2. CASE FindActiveByEmail(policies, e) = {}
  <2>1. FindActiveByEmail(x, e) = {} BY <1>1, <1>2
  <2> QED BY <1>2, <2>1 DEF x
<1>3. CASE FindActiveByEmail(policies, e) # {}
  <2>1. PICK r : r \in FindActiveByEmail(x, e) BY <1>1, <1>3
  <2>2. \A q \in FindActiveByEmail(x, e) : q = r
    <3> TAKE q \in FindActiveByEmail(x, e)
    <3>1. r \in PolicyId /\ Row(x, r) /\ x[r].email = e
          /\ q \in PolicyId /\ Row(x, q) /\ x[q].email = e
      BY <2>1, ActiveIs
    <3>2. x[r].traffic = x[q].traffic /\ x[r].inbound = x[q].inbound BY <1>1, <2>1 DEF At
    <3> QED BY <1>1, <3>1, <3>2, UniquePairs
  <2>3. FindActiveByEmail(x, e) = {r} BY <2>1, <2>2
  <2>4. /\ x[r].traffic = t /\ x[r].inbound = traffics[t].inbound
        /\ \E q \in FindActiveByEmail(policies, e) : x[r].factor = policies[q].factor
    BY <1>1, <2>1 DEF At
  <2>5. r \in PolicyId BY <2>1, ActiveIs
  <2> QED BY <1>3, <2>3, <2>4, <2>5, Zenon DEF x, t
<1> QED BY <1>2, <1>3

(***************************************************************************)
(* The types of the table, and the UNIQUE index: neither the repair of a   *)
(* tick, which looks at no index, nor a command, a migration or a cleanup  *)
(* leaves two rows for one triple.                                         *)
(***************************************************************************)
THEOREM PoliciesTypeOK == Spec => []TypeOK
<1>1. IInv => TypeOK BY DEF IInv
<1> QED BY <1>1, PoliciesInit, PoliciesStep, PTL DEF Spec

(* Once some process has opened the database (migrationPolicyDedupe), a    *)
(* traffic id and email have one active row at most, so decideOne is never *)
(* given two.                                                              *)
THEOREM PoliciesOneActive == Spec => []OneActivePerClient
BY PoliciesInit, PoliciesStep, InvOneActive, PTL DEF Spec

(* The repair at the start of a tick leaves every present client that had  *)
(* an active policy exactly one, on the row the panel counts on, with a    *)
(* factor that was in force; in whatever order the list is sorted, and     *)
(* whatever rows an older release has left.                                *)
THEOREM PoliciesRepairFollows == Spec => []RepairFollows
BY PoliciesInit, PoliciesStep, InvRepairFollows, PTL DEF Spec

(* Nothing but exclude or override puts an email under a policy. *)
THEOREM PoliciesNoResurrection == Spec => NoResurrection
BY PoliciesInit, PoliciesStep, PTL DEF Spec, NoResurrection
=============================================================================
