------------------------------ MODULE Policies ------------------------------
(***************************************************************************)
(* The table of exact-client policies.  xui_factor_excludes and            *)
(* xui_factor_overrides have the same columns, the same commands and the   *)
(* same repair (src/internal/store/excludes.go, overrides.go); an exclude  *)
(* is an override whose factor nobody reads.                               *)
(*                                                                         *)
(* A policy is stored under traffic id, inbound and email, and a UNIQUE    *)
(* index is on the three, but a client is its traffic id and email: the    *)
(* inbound is a pointer the panel moves.  Releases before v0.5.0 kept one  *)
(* row per triple, so an upgraded table may have several for one client.   *)
(*                                                                         *)
(* Every operation is one transaction, and one step.                       *)
(***************************************************************************)
EXTENDS Integers, FiniteSets

CONSTANTS
    Traffic,        \* client_traffics ids
    Emails,         \* client emails
    Inbounds,       \* inbound ids: listings are sorted by them
    Factors,        \* factor_ppm values of commands
    NoRow,          \* an absent row
    MaxPolicies,    \* bound: policy ids given out
    LegacyRows      \* bound: rows an older release has left

ASSUME IdsAssumption == Traffic \subseteq Nat /\ Inbounds \subseteq Nat
ASSUME BoundsAssumption == MaxPolicies \in Nat /\ LegacyRows \in 0..MaxPolicies

VARIABLES
    traffics,       \* client_traffics: email and inbound pointer of a client
    used,           \* traffic ids the panel has given out
    policies,       \* the policy table
    next,           \* its next id
    migrated        \* some process has opened the database

vars == <<traffics, used, policies, next, migrated>>

PolicyId == 1..MaxPolicies

Client == [email : Emails, inbound : Inbounds]
Policy == [traffic : Traffic, inbound : Inbounds, email : Emails,
           factor : Factors, active : BOOLEAN,
           aged : BOOLEAN]          \* inactive for longer than the retention

ASSUME NoRowAssumption == NoRow \notin Traffic \cup PolicyId \cup Client \cup Policy

Row(p, r) == p[r] # NoRow

(* UNIQUE(traffic_id, inbound_id, email). *)
Holders(p, t, i, e) ==
    {r \in PolicyId : Row(p, r) /\ p[r].traffic = t /\ p[r].inbound = i
                                /\ p[r].email = e}

Unique(p) ==
    \A r \in PolicyId : Row(p, r) =>
        Holders(p, p[r].traffic, p[r].inbound, p[r].email) = {r}

Init ==
    /\ traffics \in [Traffic -> Client \cup {NoRow}]
    /\ \A t, u \in Traffic :
          t # u /\ traffics[t] # NoRow /\ traffics[u] # NoRow =>
              traffics[t].email # traffics[u].email
    /\ used \in SUBSET Traffic
    /\ \A t \in used, u \in Traffic : u < t => u \in used
    /\ {t \in Traffic : traffics[t] # NoRow} \subseteq used
    /\ next \in 1..(LegacyRows + 1)
    /\ \E legacy \in [1..(next - 1) -> {x \in Policy : x.traffic \in used /\ ~x.aged}] :
          policies = [r \in PolicyId |-> IF r < next THEN legacy[r] ELSE NoRow]
    /\ Unique(policies)
    /\ migrated = FALSE

-----------------------------------------------------------------------------
(* Queries. *)
Matches(t, e) == traffics[t] # NoRow /\ traffics[t].email = e

(* FindClient and ClientTrafficByEmail: the panel's emails are unique. *)
ClientTrafficByEmail(e) ==
    IF \E t \in Traffic : Matches(t, e)
    THEN CHOOSE t \in Traffic : Matches(t, e) ELSE NoRow

ListActive(p) == {r \in PolicyId : Row(p, r) /\ p[r].active}

FindForClient(p, t, e) ==
    {r \in PolicyId : Row(p, r) /\ p[r].traffic = t /\ p[r].email = e}

FindByEmail(p, e) == {r \in PolicyId : Row(p, r) /\ p[r].email = e}

FindActiveForClient(p, t, e) == FindForClient(p, t, e) \cap ListActive(p)
FindActiveByEmail(p, e) == FindByEmail(p, e) \cap ListActive(p)

(* ORDER BY id DESC LIMIT 1. *)
Newest(R) == CHOOSE r \in R : \A q \in R : q <= r

FirstFound(R, otherwise) == IF R # {} THEN Newest(R) ELSE otherwise

Disable(p, r) == [p EXCEPT ![r].active = FALSE, ![r].aged = FALSE]

-----------------------------------------------------------------------------
(* Mutant: rows of one client are told apart by their inbounds. *)
MigrateByInbound ==
    /\ migrated' = TRUE
    /\ policies' = [r \in PolicyId |->
          IF /\ r \in ListActive(policies)
             /\ r # Newest(Holders(policies, policies[r].traffic,
                                   policies[r].inbound, policies[r].email))
          THEN [policies[r] EXCEPT !.active = FALSE] ELSE policies[r]]
    /\ UNCHANGED <<traffics, used, next>>

(* migrationPolicyDedupeStatements, whenever a process opens the database: *)
(* the newest active row of each traffic id and email stays active.        *)
Migrate ==
    /\ migrated' = TRUE
    /\ policies' = [r \in PolicyId |->
          IF /\ r \in ListActive(policies)
             /\ r # Newest(FindActiveForClient(policies, policies[r].traffic,
                                               policies[r].email))
          THEN [policies[r] EXCEPT !.active = FALSE] ELSE policies[r]]
    /\ UNCHANGED <<traffics, used, next>>

Process == migrated /\ UNCHANGED <<traffics, used, migrated>>

(* findExcludeForUpsert, findOverrideForUpsert: NoRow for not found. *)
FindForUpsert(p, t, e) ==
    FirstFound(FindActiveForClient(p, t, e),
        FirstFound(FindForClient(p, t, e),
            FirstFound(FindByEmail(p, e), NoRow)))

Active(t, e, f) ==
    [traffic |-> t, inbound |-> traffics[t].inbound, email |-> e, factor |-> f,
     active |-> TRUE, aged |-> FALSE]

(* The UPDATE of an upsert meets another row with the same triple. *)
UpsertCollides(e) ==
    LET t == ClientTrafficByEmail(e)
        r == FindForUpsert(policies, t, e)
    IN  r # NoRow /\ Holders(policies, t, traffics[t].inbound, e) \ {r} # {}

(* exclude, override: UpsertExclude and UpsertOverride. *)
SetPolicy(e, f) ==
    LET t == ClientTrafficByEmail(e)
        r == FindForUpsert(policies, t, e)
    IN  /\ Process
        /\ t # NoRow
        /\ \/ /\ r = NoRow /\ next <= MaxPolicies
              /\ policies' = [policies EXCEPT ![next] = Active(t, e, f)]
              /\ next' = next + 1
           \/ /\ r # NoRow /\ ~UpsertCollides(e)
              /\ policies' = [policies EXCEPT ![r] = Active(t, e, f)]
              /\ UNCHANGED next

(* unexclude, remove-override: the client's row, or the email's newest. *)
RemovePolicy(e) ==
    LET t == ClientTrafficByEmail(e)
        r == FirstFound(FindActiveForClient(policies, t, e),
                 FirstFound(FindActiveByEmail(policies, e), NoRow))
    IN  /\ Process
        /\ t # NoRow /\ r # NoRow
        /\ policies' = Disable(policies, r)
        /\ UNCHANGED next

-----------------------------------------------------------------------------
(* Mutant: an email found on its old row only is not looked for again. *)
ResolvePolicyTrafficById(t, e) == IF traffics[t] # NoRow THEN t ELSE NoRow

(* resolvePolicyTraffic: the row that now has the email, if there is one. *)
ResolvePolicyTraffic(t, e) ==
    IF Matches(t, e) THEN t ELSE ClientTrafficByEmail(e)

(* Mutant: the row is moved without a look at who holds the triple. *)
RelinkRowBlind(p, r, t) ==
    [p EXCEPT ![r].traffic = t, ![r].inbound = traffics[t].inbound]

(* RelinkExcludeRow, RelinkOverrideRow. *)
RelinkRow(p, r, t) ==
    LET occupants == Holders(p, t, traffics[t].inbound, p[r].email) \ {r}
        q         == Newest(occupants)
    IN  IF occupants = {}
        THEN [p EXCEPT ![r].traffic = t, ![r].inbound = traffics[t].inbound]
        ELSE IF p[q].active THEN Disable(p, r)
        ELSE Disable([p EXCEPT ![q].active = TRUE, ![q].aged = FALSE,
                               ![q].factor = p[r].factor], r)

(* One round of reconcilePolicies. *)
RepairRow(p, r) ==
    LET t == ResolvePolicyTraffic(p[r].traffic, p[r].email)
    IN  IF \/ t = NoRow
           \/ t = p[r].traffic /\ traffics[t].inbound = p[r].inbound
        THEN p ELSE RelinkRow(p, r, t)

(* Mutant: rows that are not active are repaired as well. *)
RepairListAll(p, e) == FindByEmail(p, e)

(* ListActiveExcludes, ListActiveOverrides, for one email. *)
RepairList(p, e) == FindActiveByEmail(p, e)

(* ORDER BY inbound_id, email, traffic_id. *)
Precedes(x, y) ==
    x.inbound < y.inbound \/ (x.inbound = y.inbound /\ x.traffic < y.traffic)

(* The list is read before the loop; repairing a row of it changes no      *)
(* other row of it, and no row of another email.                           *)
RepairEmail(p, e) ==
    LET repaired[R \in SUBSET RepairList(p, e)] ==
            IF R = {} THEN p
            ELSE LET last == CHOOSE r \in R : \A q \in R \ {r} : Precedes(p[q], p[r])
                 IN  RepairRow(repaired[R \ {last}], last)
    IN  repaired[RepairList(p, e)]

ReconcilePolicies(p, members) ==
    [r \in PolicyId |->
        IF Row(p, r) /\ p[r].email \in members
        THEN RepairEmail(p, p[r].email)[r] ELSE p[r]]

(* A tick, or `reconcile`, on all emails; `reconcile --inbound-id` on the  *)
(* emails attached to the inbound, which may be any.                       *)
Reconcile(members) ==
    /\ Process
    /\ policies' = ReconcilePolicies(policies, members)
    /\ UNCHANGED next

(* pruneInactiveExcludes, pruneInactiveOverrides. *)
Cleanup ==
    /\ Process
    /\ policies' = [r \in PolicyId |->
          IF Row(policies, r) /\ ~policies[r].active /\ policies[r].aged
          THEN NoRow ELSE policies[r]]
    /\ UNCHANGED next

(* disabled_rule_retention passes for an inactive policy. *)
Age(r) ==
    /\ Row(policies, r) /\ ~policies[r].active /\ ~policies[r].aged
    /\ policies' = [policies EXCEPT ![r].aged = TRUE]
    /\ UNCHANGED <<traffics, used, next, migrated>>

-----------------------------------------------------------------------------
(* The panel (external).  Ids grow; an email has one traffic row. *)
PanelCreate(t, e, i) ==
    /\ t \notin used /\ \A u \in Traffic : u < t <=> u \in used
    /\ ClientTrafficByEmail(e) = NoRow
    /\ used' = used \cup {t}
    /\ traffics' = [traffics EXCEPT ![t] = [email |-> e, inbound |-> i]]
    /\ UNCHANGED <<policies, next, migrated>>

PanelDelete(t) ==
    /\ traffics[t] # NoRow
    /\ traffics' = [traffics EXCEPT ![t] = NoRow]
    /\ UNCHANGED <<used, policies, next, migrated>>

PanelRename(t, e) ==
    /\ traffics[t] # NoRow /\ ClientTrafficByEmail(e) = NoRow
    /\ traffics' = [traffics EXCEPT ![t].email = e]
    /\ UNCHANGED <<used, policies, next, migrated>>

PanelMove(t, i) ==
    /\ traffics[t] # NoRow /\ traffics[t].inbound # i
    /\ traffics' = [traffics EXCEPT ![t].inbound = i]
    /\ UNCHANGED <<used, policies, next, migrated>>

-----------------------------------------------------------------------------
Panel ==
    \/ \E t \in Traffic, e \in Emails, i \in Inbounds : PanelCreate(t, e, i)
    \/ \E t \in Traffic : PanelDelete(t) \/ \E i \in Inbounds : PanelMove(t, i)
    \/ \E t \in Traffic, e \in Emails : PanelRename(t, e)

Next ==
    \/ Migrate
    \/ \E e \in Emails, f \in Factors : SetPolicy(e, f)
    \/ \E e \in Emails : RemovePolicy(e)
    \/ \E members \in SUBSET Emails : Reconcile(members)
    \/ Cleanup
    \/ \E r \in PolicyId : Age(r)
    \/ Panel

Spec == Init /\ [][Next]_vars

-----------------------------------------------------------------------------
(* Types, and the UNIQUE index: the repair never moves a policy onto the   *)
(* triple of another, which would fail every tick.                         *)
TypeOK ==
    /\ traffics \in [Traffic -> Client \cup {NoRow}]
    /\ used \in SUBSET Traffic
    /\ policies \in [PolicyId -> Policy \cup {NoRow}]
    /\ next \in 1..(MaxPolicies + 1)
    /\ migrated \in BOOLEAN
    /\ \A r \in PolicyId : Row(policies, r) => r < next
    /\ Unique(policies)

(* "Policy decisions require at most one active exclude and override per   *)
(* client" (store/migrations.go): two would make decideOne ambiguous and   *)
(* abort the tick of every client.                                         *)
OneActivePerClient ==
    migrated => \A t \in Traffic, e \in Emails :
        Cardinality(FindActiveForClient(policies, t, e)) <= 1

(* Policies follow their client: the reconciliation that starts a tick     *)
(* leaves exactly one active row to every present client that had any, on  *)
(* the row the panel counts on, whatever duplicates, drifted inbounds and  *)
(* replaced rows it starts from, with the factor of a row that was active; *)
(* and none to a client that had none.                                     *)
RepairFollows ==
    migrated => \A e \in Emails : ClientTrafficByEmail(e) # NoRow =>
        LET t     == ClientTrafficByEmail(e)
            after == ReconcilePolicies(policies, Emails)
        IN  IF FindActiveByEmail(policies, e) = {}
            THEN FindActiveByEmail(after, e) = {}
            ELSE \E r \in PolicyId :
                    /\ FindActiveByEmail(after, e) = {r}
                    /\ after[r].traffic = t /\ after[r].inbound = traffics[t].inbound
                    /\ \E q \in FindActiveByEmail(policies, e) :
                          after[r].factor = policies[q].factor

(* Only the operator puts a client under a policy: no repair, migration,   *)
(* cleanup or change in the panel activates one for an email without.      *)
NoResurrectionStep ==
    \A e \in Emails :
        FindActiveByEmail(policies, e) = {} /\ FindActiveByEmail(policies', e) # {} =>
            \E f \in Factors : SetPolicy(e, f)

NoResurrection == [][NoResurrectionStep]_vars
=============================================================================
