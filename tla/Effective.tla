------------------------------ MODULE Effective ------------------------------
(***************************************************************************)
(* One client's effective factor, computed three times by the code: by the *)
(* tick that applies it, by explain and status, which read the tables      *)
(* between ticks, and in SQL by the rule list.  The policies of a client   *)
(* are a parameter p: since they follow the client (Policies), they name   *)
(* its current traffic row.                                                *)
(***************************************************************************)
EXTENDS Rules

Policy == [exclude : BOOLEAN, override : Factors \cup {NoRow}]

(* A candidate's target is the rule whose baselines a tick would use. *)
Candidate(source, target, factor) ==
    [source |-> source, target |-> target, factor |-> factor]

(* classifyTarget: single 80, inbound scope 70, snapshot 65, global 60. *)
ActiveRuleCandidates(d, targets) ==
    {Candidate(Precedence(d.rules[r]), r, d.rules[r].factor) : r \in targets}

(* Override- and ExcludeCandidatesForActiveTargets: only for a target with *)
(* the policy's traffic id and email; of several, the map keeps the last.  *)
OverrideCandidates(d, t, p, targets) ==
    LET keyed == {r \in targets : Matches(t, d.rc[r][t].email)}
    IN  IF p.override = NoRow THEN {}
        ELSE {Candidate(90, r, p.override) : r \in {q \in keyed : \A k \in keyed : k <= q}}

ExcludeCandidates(d, t, p, targets) ==
    IF p.exclude /\ \E r \in targets : Matches(t, d.rc[r][t].email)
    THEN {Candidate(100, NoRow, NoRow)} ELSE {}

None == Candidate(0, NoRow, NoRow)
Undecided == Candidate(0, NoRow, "ambiguous")

(* decideOne: the strongest candidate, unless two are equally strong. *)
DecideOne(candidates) ==
    LET strongest == {c \in candidates : \A k \in candidates : k.source <= c.source}
    IN  CASE candidates = {} -> None
          [] Cardinality(strongest) = 1 -> CHOOSE c \in strongest : TRUE
          [] Cardinality(strongest) > 1 -> Undecided

-----------------------------------------------------------------------------
(* The tick: every active target of the traffic id takes part, also one of *)
(* another email or marked missing; tickTarget then passes over those.     *)
TickDecision(d, t, p) ==
    LET targets == Owners(d, t)
    IN  DecideOne(ActiveRuleCandidates(d, targets)
                  \cup OverrideCandidates(d, t, p, targets)
                  \cup ExcludeCandidates(d, t, p, targets))

(* The factor a tick applies to client t, NoRow if it applies none. *)
TickFactor(d, t, p) ==
    LET decision == TickDecision(d, t, p)
    IN  IF \/ decision.target = NoRow
           \/ ~Matches(t, d.rc[decision.target][t].email)
        THEN NoRow ELSE decision.factor

-----------------------------------------------------------------------------
(* Mutant: include_disabled_clients of the scope is not looked at. *)
TargetAllowsEnabled(rule, t) == traffics[t].enabled

TargetAllowsClient(rule, t) ==
    \/ traffics[t].enabled
    \/ rule.kind # "single" /\ rule.includeDisabled

ValidTargets(d, t) ==
    {r \in Owners(d, t) :
        /\ Matches(t, d.rc[r][t].email)
        /\ d.rc[r][t].missing = "no"
        /\ TargetAllowsClient(d.rules[r], t)}

(* ClientCandidates: a policy counts without a target too. *)
ClientCandidates(d, t, p) ==
    LET targets   == ValidTargets(d, t)
        overrides == OverrideCandidates(d, t, p, targets)
        excludes  == ExcludeCandidates(d, t, p, targets)
    IN  ActiveRuleCandidates(d, targets) \cup overrides \cup excludes
        \cup (IF excludes = {} /\ p.exclude THEN {Candidate(100, NoRow, NoRow)} ELSE {})
        \cup (IF overrides = {} /\ p.override # NoRow
              THEN {Candidate(90, NoRow, p.override)} ELSE {})

(* explain --email, status --clients. *)
Explain(d, t, p) == DecideOne(ClientCandidates(d, t, p))

(* ExplainResultText: a decision without a target promises no factor. *)
ExplainedFactor(d, t, p) ==
    LET decision == Explain(d, t, p)
    IN  IF decision.target = NoRow THEN NoRow ELSE decision.factor

-----------------------------------------------------------------------------
(* ListRules: the validity of a client row in SQL. *)
BaseValid(r, t) ==
    /\ db.rc[r][t] # NoRow /\ db.rc[r][t].missing = "no"
    /\ Matches(t, db.rc[r][t].email)
    /\ TargetAllowsClient(db.rules[r], t)
    /\ db.rules[r].kind = "single" => ActiveScopesForTrafficExcept(db, t, r) = {}

(* Mutant: an override does not take its client out of the rule's count. *)
EffectiveValidOverridden(r, t, p) == BaseValid(r, t) /\ ~p.exclude

EffectiveValid(r, t, p) == BaseValid(r, t) /\ ~p.exclude /\ p.override = NoRow

(* EffectiveStatus: the clients counted as factored. *)
CountedFactored(t, p) ==
    LET decision == Explain(db, t, p)
    IN  decision.source \in {60, 65, 70, 80, 90} /\ decision.target # NoRow

-----------------------------------------------------------------------------
IsClient(t) == traffics[t] # NoRow

(* "Effective views use the same precedence as tick": between a tick and   *)
(* the next change, explain promises a client exactly the factor the tick  *)
(* applies to it, whatever its policies; a disabled client is promised     *)
(* none unless its scope includes disabled clients, and is left out here.  *)
ExplainAgrees ==
    LET d == Ticked(db)
    IN  \A t \in Traffic, p \in Policy :
            /\ IsClient(t)
            /\ traffics[t].enabled \/ \A r \in Owners(d, t) : d.rules[r].includeDisabled
            => TickFactor(d, t, p) = ExplainedFactor(d, t, p)

(* The rule list and the effective status describe the same clients: an    *)
(* active rule's effective clients are those explain attributes to it, and *)
(* a client counted as factored is one of some rule's effective clients or *)
(* overridden, at every moment, also before a tick has repaired anything.  *)
StatusAgrees ==
    \A t \in Traffic, p \in Policy :
        IsClient(t) =>
        LET active   == ListRulesInStates(db, NoRow, {"active"})
            decision == Explain(db, t, p)
        IN  /\ \A r \in active :
                  EffectiveValid(r, t, p) <=> decision.target = r /\ decision.source # 90
            /\ CountedFactored(t, p) <=>
                  \/ \E r \in active : EffectiveValid(r, t, p)
                  \/ ~p.exclude /\ p.override # NoRow /\ ValidTargets(db, t) # {}
=============================================================================
