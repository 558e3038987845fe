-------------------------------- MODULE Rules --------------------------------
(***************************************************************************)
(* Who owns a client: single-user rules, persistent scopes and snapshots,  *)
(* the commands that create, pause, resume and disable them, and the       *)
(* reconciliation, enrolment and cleanup of the daemon                     *)
(* (src/internal/engine, src/internal/daemon/tick.go, src/internal/store). *)
(*                                                                         *)
(* Every operation is one WithImmediateTx transaction, so one step here.   *)
(* Counters, excludes and overrides are TickTx's; limited_only, a filter   *)
(* of the same shape as include_disabled_clients, is left out.             *)
(***************************************************************************)
EXTENDS Integers, FiniteSets

CONSTANTS
    Traffic,            \* client_traffics ids
    Emails,             \* client emails
    Inbounds,           \* panel inbounds
    Factors,            \* factor_ppm values of commands
    NoRow,              \* an absent row, email or inbound
    MaxRules,           \* bound: rules created in a behaviour
    Commands,           \* operator commands given in this instance
    PanelOps            \* what the panel does in this instance

ASSUME TrafficAssumption == Traffic \subseteq Nat /\ IsFiniteSet(Traffic)
ASSUME BoundAssumption == MaxRules \in Nat
ASSUME CommandsAssumption ==
    Commands \subseteq {"enable", "disable", "pause", "resume", "enable-all",
        "snapshot", "disable-all", "pause-all", "resume-all", "reconcile"}
ASSUME PanelOpsAssumption ==
    PanelOps \subseteq {"create", "delete", "rename", "toggle", "attach"}

VARIABLES
    traffics,       \* client_traffics: the panel's clients
    used,           \* traffic ids the panel has given out
    attached,       \* client_inbounds: the inbounds of each email
    db              \* xui_factor_rules (with _scopes) and _rule_clients

vars == <<traffics, used, attached, db>>

-----------------------------------------------------------------------------
RuleId == 1..MaxRules
Retired == {"disabled", "merged", "orphaned"}
MaybeInbound == Inbounds \cup {NoRow}

Client == [email : Emails, enabled : BOOLEAN]
(* A rule and its scope row: kind says which of the two tables it is in.   *)
Rule == [kind : {"single", "scope", "snapshot"},
         state : {"active", "paused"} \cup Retired,
         email : Emails \cup {NoRow}, inbound : MaybeInbound,
         factor : Factors, includeDisabled : BOOLEAN,
         aged : BOOLEAN]            \* retired for longer than the retention
RuleClient == [email : Emails, missing : {"no", "grace", "expired"}]

ASSUME NoRowAssumption ==
    NoRow \notin Traffic \cup RuleId \cup Emails \cup Inbounds \cup Client \cup Rule
                 \cup RuleClient

DB == [rules : [RuleId -> Rule \cup {NoRow}],
       rc : [RuleId -> [Traffic -> RuleClient \cup {NoRow}]],
       next : 1..(MaxRules + 1)]    \* AUTOINCREMENT: ids are not used again

Init ==
    /\ traffics \in [Traffic -> {NoRow} \cup [email : Emails, enabled : {TRUE}]]
    /\ \A t, u \in Traffic :
          /\ t < u /\ traffics[u] # NoRow => traffics[t] # NoRow
          /\ t # u /\ traffics[t] # NoRow => traffics[t] # traffics[u]
    /\ used = {t \in Traffic : traffics[t] # NoRow}
    /\ attached \in [Emails -> SUBSET Inbounds]
    /\ db = [rules |-> [r \in RuleId |-> NoRow],
             rc |-> [r \in RuleId |-> [t \in Traffic |-> NoRow]],
             next |-> 1]

-----------------------------------------------------------------------------
(* Queries.  d is the database as the open transaction sees it. *)
Matches(t, email) == traffics[t] # NoRow /\ traffics[t].email = email

(* The panel keeps one traffic row per email: FindClient is not ambiguous. *)
ClientTrafficByEmail(email) ==
    IF \E t \in Traffic : Matches(t, email)
    THEN CHOOSE t \in Traffic : Matches(t, email) ELSE NoRow

(* Membership is client_inbounds, never the traffic row's own inbound. *)
InScope(t, inbound, includeDisabled) ==
    /\ traffics[t] # NoRow
    /\ includeDisabled \/ traffics[t].enabled
    /\ inbound = NoRow \/ inbound \in attached[traffics[t].email]

ListClientCandidates(inbound, includeDisabled) ==
    {t \in Traffic : InScope(t, inbound, includeDisabled)}

ListRulesInStates(d, inbound, states) ==
    {r \in RuleId : /\ d.rules[r] # NoRow
                    /\ d.rules[r].state \in states
                    /\ inbound = NoRow \/ d.rules[r].inbound = inbound}

ListActivePersistentScopes(d) ==
    {s \in ListRulesInStates(d, NoRow, {"active"}) : d.rules[s].kind = "scope"}

RulesForTraffic(d, t, states) ==
    {r \in ListRulesInStates(d, NoRow, states) : d.rc[r][t] # NoRow}

(* ActiveRuleForTraffic, ...Except: by traffic id, whatever the email. *)
Owners(d, t) == RulesForTraffic(d, t, {"active"})

ActiveScopesForTrafficExcept(d, t, r) ==
    {s \in Owners(d, t) \ {r} : d.rules[s].kind # "single"}

RuleClients(d, r) == {t \in Traffic : d.rc[r][t] # NoRow}

First(S) == CHOOSE x \in S : \A y \in S : x <= y

-----------------------------------------------------------------------------
(* Updates. *)
SetRule(d, r, state) == [d EXCEPT !.rules[r].state = state]

(* Mutant: every mark starts the grace period again. *)
MarkMissingAgain(rc) == [rc EXCEPT !.missing = "grace"]

(* Mutant: a client marked already is taken for one that came back. *)
MarkMissingToggles(rc) ==
    [rc EXCEPT !.missing = IF @ = "no" THEN "grace" ELSE "no"]

(* MarkRuleClientMissing keeps the first mark. *)
MarkMissing(rc) == [rc EXCEPT !.missing = IF @ = "no" THEN "grace" ELSE @]

Tracked(email) == [email |-> email, missing |-> "no"]

CreateRuleClient(d, r, t) == [d EXCEPT !.rc[r][t] = Tracked(traffics[t].email)]

CreateRule(d, rule) ==
    [d EXCEPT !.rules[d.next] = rule, !.next = @ + 1]

NewRule(kind, email, inbound, factor, includeDisabled) ==
    [kind |-> kind, state |-> "active", email |-> email, inbound |-> inbound,
     factor |-> factor, includeDisabled |-> includeDisabled, aged |-> FALSE]

(* A loop over rules ORDER BY id: those of R, each step seeing the last. *)
ForEachRule(d, R, Step(_, _)) ==
    LET after[r \in 0..MaxRules] ==
            IF r = 0 THEN d
            ELSE IF r \in R THEN Step(after[r - 1], r) ELSE after[r - 1]
    IN  after[MaxRules]

-----------------------------------------------------------------------------
(* adoptSingleRuleIntoScope. *)
AdoptIdentity(d, r, t) ==
    /\ RuleClients(d, r) = {t}
    /\ d.rc[r][t] = Tracked(traffics[t].email)

Adoptable(d, s, r, t) ==
    /\ d.rules[r].factor = d.rules[s].factor
    /\ d.rules[s].includeDisabled \/ traffics[t].enabled

AdoptSingleRuleIntoScope(d, s, r, t) ==
    IF ~Adoptable(d, s, r, t) \/ RuleClients(d, r) # {t} THEN d
    ELSE IF ~AdoptIdentity(d, r, t) THEN [d EXCEPT !.rc[r][t] = MarkMissing(@)]
    ELSE IF ActiveScopesForTrafficExcept(d, t, s) # {} THEN d
    ELSE SetRule([d EXCEPT !.rc[s][t] = d.rc[r][t]], r, "merged")

-----------------------------------------------------------------------------
(* ReconcileTx: each active single-user rule follows its client.  First    *)
(* the identity: relinked by email when its row is gone, else revived.     *)
Relink(d, r, t, u) ==
    [d EXCEPT !.rc[r] = [@ EXCEPT ![t] = NoRow, ![u] = Tracked(d.rc[r][t].email)]]

(* Then the owner: compatibleScopeForClient and adoptOrSupersede, or the   *)
(* rule is orphaned, or it stays.                                          *)
CompatibleScopes(d, r, t) ==
    {s \in ListActivePersistentScopes(d) :
        /\ d.rules[s].factor = d.rules[r].factor
        /\ InScope(t, d.rules[s].inbound, d.rules[s].includeDisabled)
        /\ ActiveScopesForTrafficExcept(d, t, s) = {}}

AdoptOrSupersede(d, s, r, t) ==
    IF d.rc[s][t] # NoRow THEN SetRule(d, r, "merged")
                          ELSE AdoptSingleRuleIntoScope(d, s, r, t)

ReconcileOwner(d, r, t) ==
    LET scopes  == CompatibleScopes(d, r, t)
        settled == IF scopes = {} THEN d
                   ELSE AdoptOrSupersede(d, First(scopes), r, t)
    IN  IF settled.rules[r].state = "merged" THEN settled
        ELSE IF \/ ~traffics[t].enabled
                \/ ActiveScopesForTrafficExcept(settled, t, r) # {}
        THEN SetRule(settled, r, "orphaned")
        ELSE settled

ReconcileSingleRule(d, r) ==
    IF Cardinality(RuleClients(d, r)) # 1 THEN SetRule(d, r, "orphaned")
    ELSE
    LET t     == CHOOSE t \in Traffic : d.rc[r][t] # NoRow
        email == d.rc[r][t].email
        u     == ClientTrafficByEmail(email)
    IN  CASE Matches(t, email) ->
               ReconcileOwner([d EXCEPT !.rc[r][t] = Tracked(email)], r, t)
          [] traffics[t] = NoRow /\ u # NoRow ->
               ReconcileOwner(Relink(d, r, t, u), r, u)
          [] OTHER ->
               SetRule([d EXCEPT !.rc[r][t] = MarkMissing(@)], r, "orphaned")

ReconcileTx(d, inbound) ==
    ForEachRule(d, {r \in ListRulesInStates(d, inbound, {"active"}) :
                        d.rules[r].kind = "single"}, ReconcileSingleRule)

-----------------------------------------------------------------------------
(* Mutant: a scope enrolls clients another rule owns. *)
EnrollStealing(d, s) ==
    [d EXCEPT !.rc[s] = [t \in Traffic |->
        IF /\ InScope(t, d.rules[s].inbound, d.rules[s].includeDisabled)
           /\ @[t] = NoRow
        THEN Tracked(traffics[t].email) ELSE @[t]]]

(* reconcileScopes: candidates nobody owns join the first scope. *)
Enroll(d, s) ==
    [d EXCEPT !.rc[s] = [t \in Traffic |->
        IF /\ InScope(t, d.rules[s].inbound, d.rules[s].includeDisabled)
           /\ @[t] = NoRow
           /\ Owners(d, t) \ {s} = {}
        THEN Tracked(traffics[t].email) ELSE @[t]]]

ReconcileScopes(d) == ForEachRule(d, ListActivePersistentScopes(d), Enroll)

(* policy.Decide: the two strongest rules of a client must differ in rank. *)
Precedence(rule) ==
    CASE rule.kind = "single" -> 80
      [] rule.kind = "scope" /\ rule.inbound # NoRow -> 70
      [] rule.kind = "snapshot" -> 65
      [] rule.kind = "scope" /\ rule.inbound = NoRow -> 60

Ambiguous(d) ==
    \E t \in Traffic : \E r, s \in Owners(d, t) :
        /\ r # s
        /\ Precedence(d.rules[r]) = Precedence(d.rules[s])
        /\ \A q \in Owners(d, t) : Precedence(d.rules[q]) <= Precedence(d.rules[r])

(* tickTarget and refreshSuppressedBaseline: present or missing. *)
TickTargets(d) ==
    [d EXCEPT !.rc = [r \in RuleId |-> [t \in Traffic |->
        IF r \notin Owners(d, t) THEN @[r][t]
        ELSE IF Matches(t, @[r][t].email) THEN Tracked(@[r][t].email)
        ELSE MarkMissing(@[r][t])]]]

(* Mutant: scopes enroll before the rules are reconciled. *)
TickMembersSwapped(d) == ReconcileTx(ReconcileScopes(d), NoRow)

(* The membership a tick decides on. *)
TickMembers(d) == ReconcileScopes(ReconcileTx(d, NoRow))

(* An ambiguous decision aborts the tick and its transaction rolls back:   *)
(* nothing changes and nobody is factored.                                 *)
Tick ==
    LET members == TickMembers(db)
    IN  /\ ~Ambiguous(members)
        /\ db' = TickTargets(members)
        /\ UNCHANGED <<traffics, used, attached>>

-----------------------------------------------------------------------------
(* Cleanup: mark, prune after the grace period, prune after retention. *)
CleanedClient(rc, t) ==
    CASE rc = NoRow -> NoRow
      [] rc # NoRow /\ rc.missing = "expired" -> NoRow
      [] rc # NoRow /\ rc.missing # "expired" ->
            IF Matches(t, rc.email) THEN rc ELSE MarkMissing(rc)

Aged(r) == db.rules[r] # NoRow /\ db.rules[r].aged

(* Mutant: a pruned rule leaves its clients behind. *)
CleanupKeepsClients ==
    /\ db' = [db EXCEPT
          !.rules = [r \in RuleId |-> IF Aged(r) THEN NoRow ELSE @[r]],
          !.rc = [r \in RuleId |-> [t \in Traffic |-> CleanedClient(@[r][t], t)]]]
    /\ UNCHANGED <<traffics, used, attached>>

Cleanup ==
    /\ db' = [db EXCEPT
          !.rules = [r \in RuleId |-> IF Aged(r) THEN NoRow ELSE @[r]],
          !.rc = [r \in RuleId |-> [t \in Traffic |->
                     IF Aged(r) THEN NoRow ELSE CleanedClient(@[r][t], t)]]]
    /\ UNCHANGED <<traffics, used, attached>>

(* missing_client_grace passes for a marked client ... *)
AgeClient(r, t) ==
    /\ db.rc[r][t] # NoRow /\ db.rc[r][t].missing = "grace"
    /\ db' = [db EXCEPT !.rc[r][t].missing = "expired"]
    /\ UNCHANGED <<traffics, used, attached>>

(* ... and disabled_rule_retention for a retired rule. *)
AgeRule(r) ==
    /\ db.rules[r] # NoRow /\ db.rules[r].state \in Retired /\ ~db.rules[r].aged
    /\ db' = [db EXCEPT !.rules[r].aged = TRUE]
    /\ UNCHANGED <<traffics, used, attached>>

-----------------------------------------------------------------------------
(* Commands on one client. *)
Command(name) == name \in Commands /\ UNCHANGED <<traffics, used, attached>>

Enable(e, i, f) ==
    /\ Command("enable")
    /\ db.next <= MaxRules
    /\ i \in (IF attached[e] = {} THEN {NoRow} ELSE attached[e])
    /\ ClientTrafficByEmail(e) # NoRow
    /\ Owners(db, ClientTrafficByEmail(e)) = {}
    /\ db' = CreateRuleClient(CreateRule(db, NewRule("single", e, i, f, FALSE)),
                              db.next, ClientTrafficByEmail(e))

(* FindRuleBySelector: exactly one match, or the command fails. *)
Selected(e, i, states) ==
    {r \in ListRulesInStates(db, i, states) : db.rules[r].email = e}

Transition(e, i, from, to) ==
    \E r \in RuleId : Selected(e, i, from) = {r} /\ db' = SetRule(db, r, to)

Disable(e, i) == Command("disable") /\ Transition(e, i, {"active", "paused"}, "disabled")
Pause(e, i) == Command("pause") /\ Transition(e, i, {"active"}, "paused")

(* Mutant: no active rule is looked for. *)
ConflictNever(d, r) == FALSE

(* ActiveConflictForRule. *)
Conflict(d, r) == \E t \in RuleClients(d, r) : Owners(d, t) \ {r} # {}

(* RefreshRuleClientBaselinesCount: the clients that are still there. *)
Present(d, r) == {t \in RuleClients(d, r) : Matches(t, d.rc[r][t].email)}

Resumed(d, r) ==
    SetRule([d EXCEPT !.rc[r] = [t \in Traffic |->
                IF t \in Present(d, r) THEN Tracked(@[t].email) ELSE @[t]]],
            r, "active")

Resume(e, i) ==
    /\ Command("resume")
    /\ \E r \in RuleId :
          /\ Selected(e, i, {"paused"}) = {r}
          /\ ~Conflict(db, r)
          /\ Present(db, r) # {}
          /\ db' = Resumed(db, r)

-----------------------------------------------------------------------------
(* Commands on many clients.  FindActivePersistentScope, or a new scope. *)
SameScopes(i, includeDisabled, f) ==
    {s \in ListActivePersistentScopes(db) :
        db.rules[s] = NewRule("scope", NoRow, i, f, includeDisabled)}

ActiveOrPaused(d, t) == RulesForTraffic(d, t, {"active", "paused"})

(* enableAllPersistent for one candidate. *)
EnableInScope(d, s, t) ==
    LET rules == ActiveOrPaused(d, t)
    IN  IF d.rc[s][t] # NoRow THEN d
        ELSE IF rules = {} THEN CreateRuleClient(d, s, t)
        ELSE LET r == First(rules)
             IN  IF d.rules[r].kind = "single" /\ d.rules[r].state = "active"
                 THEN AdoptSingleRuleIntoScope(d, s, r, t) ELSE d

(* The loop over the candidates; no two of them share a single-user rule,  *)
(* so their order does not matter.                                         *)
EnableAllInScope(d, s, C) ==
    LET after[S \in SUBSET C] ==
            IF S = {} THEN d
            ELSE LET t == First(S) IN EnableInScope(after[S \ {t}], s, t)
    IN  after[C]

EnableAll(i, includeDisabled, f) ==
    LET candidates == ListClientCandidates(i, includeDisabled)
        same       == SameScopes(i, includeDisabled, f)
        s          == IF same = {} THEN db.next ELSE First(same)
        opened     == IF same = {}
                      THEN CreateRule(db, NewRule("scope", NoRow, i, f, includeDisabled))
                      ELSE db
    IN  /\ Command("enable-all")
        /\ candidates # {}
        /\ same = {} => db.next <= MaxRules
        /\ \A t \in candidates :
              opened.rc[s][t] # NoRow \/ Cardinality(ActiveOrPaused(db, t)) <= 1
        /\ db' = ReconcileTx(EnableAllInScope(opened, s, candidates), i)

(* enable-all --once. *)
EnableAllSnapshot(i, includeDisabled, f) ==
    LET candidates == ListClientCandidates(i, includeDisabled)
        targets    == {t \in candidates : ActiveOrPaused(db, t) = {}}
        created    == CreateRule(db, NewRule("snapshot", NoRow, i, f, includeDisabled))
    IN  /\ Command("snapshot")
        /\ candidates # {}
        /\ \A t \in candidates : Cardinality(ActiveOrPaused(db, t)) <= 1
        /\ db.next <= MaxRules
        /\ db' = IF targets = {} THEN db
                 ELSE [created EXCEPT !.rc[db.next] = [t \in Traffic |->
                          IF t \in targets THEN Tracked(traffics[t].email) ELSE NoRow]]

(* bulkTransition: no match is an error. *)
BulkTransition(i, from, to) ==
    LET rules == ListRulesInStates(db, i, from)
    IN  /\ rules # {}
        /\ db' = [db EXCEPT !.rules = [r \in RuleId |->
                     IF r \in rules THEN [@[r] EXCEPT !.state = to] ELSE @[r]]]

DisableAll(i) ==
    Command("disable-all") /\ BulkTransition(i, {"active", "paused"}, "disabled")
PauseAll(i) == Command("pause-all") /\ BulkTransition(i, {"active"}, "paused")

(* One rule of resume-all: skipped on a conflict, or with no client left. *)
ResumeOne(d, r) ==
    IF Conflict(d, r) \/ (Present(d, r) = {} /\ d.rules[r].kind = "single")
    THEN d ELSE Resumed(d, r)

ResumeAll(i) ==
    LET rules == ListRulesInStates(db, i, {"paused"})
    IN  /\ Command("resume-all")
        /\ rules # {}
        /\ db' = ForEachRule(db, rules, ResumeOne)

Reconcile(i) == Command("reconcile") /\ db' = ReconcileTx(db, i)

-----------------------------------------------------------------------------
(* The panel (external).  Ids grow; an email has one traffic row. *)
PanelOp(name) == name \in PanelOps /\ UNCHANGED db

PanelCreate(t, e) ==
    /\ PanelOp("create")
    /\ t \notin used /\ \A u \in Traffic : u < t <=> u \in used
    /\ ClientTrafficByEmail(e) = NoRow
    /\ used' = used \cup {t}
    /\ traffics' = [traffics EXCEPT ![t] = [email |-> e, enabled |-> TRUE]]
    /\ UNCHANGED attached

PanelDelete(t) ==
    /\ PanelOp("delete")
    /\ traffics[t] # NoRow
    /\ traffics' = [traffics EXCEPT ![t] = NoRow]
    /\ UNCHANGED <<used, attached>>

PanelRename(t, e) ==
    /\ PanelOp("rename")
    /\ traffics[t] # NoRow /\ ClientTrafficByEmail(e) = NoRow
    /\ traffics' = [traffics EXCEPT ![t].email = e]
    /\ UNCHANGED <<used, attached>>

PanelToggle(t) ==
    /\ PanelOp("toggle")
    /\ traffics[t] # NoRow
    /\ traffics' = [traffics EXCEPT ![t].enabled = ~@]
    /\ UNCHANGED <<used, attached>>

PanelAttach(e, S) ==
    /\ PanelOp("attach")
    /\ attached' = [attached EXCEPT ![e] = S]
    /\ UNCHANGED <<traffics, used>>

-----------------------------------------------------------------------------
Operator ==
    \/ \E e \in Emails, i \in MaybeInbound :
          \/ \E f \in Factors : Enable(e, i, f)
          \/ Disable(e, i) \/ Pause(e, i) \/ Resume(e, i)
    \/ \E i \in MaybeInbound :
          \/ \E b \in BOOLEAN, f \in Factors :
                EnableAll(i, b, f) \/ EnableAllSnapshot(i, b, f)
          \/ DisableAll(i) \/ PauseAll(i) \/ ResumeAll(i) \/ Reconcile(i)

Panel ==
    \/ \E t \in Traffic, e \in Emails : PanelCreate(t, e) \/ PanelRename(t, e)
    \/ \E t \in Traffic : PanelDelete(t) \/ PanelToggle(t)
    \/ \E e \in Emails, S \in SUBSET Inbounds : PanelAttach(e, S)

Age == \E r \in RuleId : AgeRule(r) \/ \E t \in Traffic : AgeClient(r, t)

Next == Operator \/ Panel \/ Tick \/ Cleanup \/ Age

Spec == Init /\ [][Next]_vars

(* ENABLED <<Tick>>_vars, spelled out. *)
TickHasWork ==
    LET members == TickMembers(db)
    IN  ~Ambiguous(members) /\ TickTargets(members) # db

(* The daemon ticks (weak fairness of Tick) and cleans up (auto_cleanup    *)
(* defaults to true); time passes.  Neither the operator nor the panel is  *)
(* obliged to act.                                                         *)
FairSpec ==
    /\ Spec
    /\ []<>~TickHasWork \/ []<><<Tick>>_vars
    /\ WF_vars(Cleanup)
    /\ \A r \in RuleId, t \in Traffic : WF_vars(AgeClient(r, t))

-----------------------------------------------------------------------------
(* Types, and that rows belong together: clients only of existing rules,   *)
(* at most one client of a single-user rule, ids below the next one.       *)
TypeOK ==
    /\ traffics \in [Traffic -> Client \cup {NoRow}]
    /\ {t \in Traffic : traffics[t] # NoRow} \subseteq used /\ used \subseteq Traffic
    /\ attached \in [Emails -> SUBSET Inbounds]
    /\ db \in DB
    /\ \A r \in RuleId :
          /\ RuleClients(db, r) # {} => db.rules[r] # NoRow
          /\ db.rules[r] # NoRow => r < db.next
          /\ db.rules[r] # NoRow /\ db.rules[r].kind = "single" =>
                Cardinality(RuleClients(db, r)) <= 1

(* "A client belongs to the first active rule or scope that enrolls it":   *)
(* no command, tick or reconciliation leaves a client with two owners.     *)
OneOwner == \A t \in Traffic : Cardinality(Owners(db, t)) <= 1

(* "Before each tick, XuiFactor resolves one effective factor decision per *)
(* client": the next tick never meets two equal claims on a client, which  *)
(* would abort it for every client.                                        *)
TickCanDecide == ~Ambiguous(TickMembers(db))

(* The tables after a tick on d: a tick that cannot decide rolls back. *)
Ticked(d) ==
    LET members == TickMembers(d)
    IN  IF Ambiguous(members) THEN d ELSE TickTargets(members)

(* A tick is done with the membership after one pass: repeated on the same *)
(* panel, as after a restart, it changes nothing.                          *)
TickSettles == LET d == Ticked(db) IN Ticked(d) = d

(* A client that a rule really has: by traffic id and by email. *)
Covers(d, r, t) == d.rc[r][t] # NoRow /\ Matches(t, d.rc[r][t].email)

(* "Adopts or supersedes compatible legacy rules when a persistent scope   *)
(* already covers the same clients" (docs/releases/v0.2.2-beta.md): when a *)
(* rule is merged, an active scope of the same factor has its client.      *)
MergeKeepsCoverageStep ==
    \A r \in RuleId :
        /\ db'.rules[r] # NoRow /\ db'.rules[r].state = "merged"
        /\ db.rules[r] # NoRow /\ db.rules[r].state # "merged"
        => \A t \in RuleClients(db', r) : \E s \in ListActivePersistentScopes(db') :
              db'.rules[s].factor = db'.rules[r].factor /\ Covers(db', s, t)

MergeKeepsCoverage == [][MergeKeepsCoverageStep]_vars

(* "Future matching clients are enrolled by the daemon tick": a client     *)
(* that an active persistent scope matches gets an owner, also after a     *)
(* rename left a stale row of it behind.                                   *)
Wanted(t) ==
    \E s \in ListActivePersistentScopes(db) :
        InScope(t, db.rules[s].inbound, db.rules[s].includeDisabled)

Covered(t) == \E r \in Owners(db, t) : Covers(db, r, t)

ScopeCovers == \A t \in Traffic : Wanted(t) ~> Covered(t) \/ ~Wanted(t)
=============================================================================
