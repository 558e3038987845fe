------------------------------- MODULE TickTx -------------------------------
(***************************************************************************)
(* The tick transaction (src/internal/daemon/tick.go) against the 3x-ui    *)
(* panel that counts traffic in the same database.                         *)
(*                                                                         *)
(* Instance of the database: one rule with a global persistent scope that  *)
(* includes disabled clients (enable-all), plus excludes and overrides, on *)
(* a panel no other panel manages.  There ReconcileTx has only policies to *)
(* repair, and every traffic row is a candidate of the scope.              *)
(*                                                                         *)
(* Every XuiFactor writer runs in WithImmediateTx, which serialises them   *)
(* (BEGIN IMMEDIATE, or an advisory lock on PostgreSQL).  Commands are     *)
(* therefore single steps, taken when no transaction is open; the tick is  *)
(* many steps, because the panel may run between them on PostgreSQL.       *)
(***************************************************************************)
EXTENDS FactorArith

CONSTANTS
    Traffic,            \* client_traffics ids
    Emails,             \* client emails
    Dirs,               \* counted directions: "up", "down"
    NoRow,              \* an absent row or link
    Backend,            \* "sqlite" or "postgres"
    ScopeFactor,        \* factor_ppm of the scope's rule
    OverrideFactors,    \* factor_ppm values of override commands
    PanelOps,           \* what the panel does in this instance
    MaxBytes            \* bound: bytes the panel counts on a row, per direction

ASSUME TrafficAssumption == Traffic \subseteq Nat
ASSUME DirsAssumption == Dirs \subseteq {"up", "down"} /\ Dirs # {}
ASSUME NoRowAssumption == NoRow \notin Traffic \cup Emails
ASSUME BackendAssumption == Backend \in {"sqlite", "postgres"}
ASSUME FactorsAssumption ==     \* ParseFactor rejects factors below 1
    /\ ScopeFactor \in Nat /\ ScopeFactor >= FactorScale
    /\ OverrideFactors \subseteq {f \in Nat : f >= FactorScale}
ASSUME BoundsAssumption == MaxBytes \in Nat
ASSUME PanelOpsAssumption ==
    PanelOps \subseteq {"add", "reset", "rename", "delete", "create", "touch"}

VARIABLES
    traffics,       \* client_traffics: the panel's rows
    held,           \* rows locked by an open panel transaction
    used,           \* traffic ids the panel has given out
    ruleState,      \* state of the scope's rule
    ruleClients,    \* xui_factor_rule_clients of the scope's rule
    excludes,       \* active excludes: the traffic row each email is tied to
    overrides,      \* active overrides, likewise
    tx              \* the open tick transaction

panelVars  == <<traffics, held, used>>
tableVars  == <<ruleState, ruleClients, excludes, overrides>>

(* Ghosts, per traffic row and direction, since the panel last zeroed it.  *)
VARIABLES
    raw,            \* bytes the panel counted
    extra,          \* bytes ticks added
    charged,        \* counted bytes some tick has factored
    due,            \* sum of charged bytes times their factor extra
    suspendedTo     \* counter value up to which some byte was counted while
                    \* the client was excluded or the rule paused

ghostVars == <<raw, extra, charged, due, suspendedTo>>
vars == <<panelVars, tableVars, tx, ghostVars>>

-----------------------------------------------------------------------------
Zero == [d \in Dirs |-> 0]
NoWrites == [t \in Traffic |-> NoRow]

TrafficRow == [email : Emails, cnt : [Dirs -> Nat]]
RuleClient == [email : Emails, last : [Dirs -> Nat],
               rem : [Dirs -> 0..(FactorScale - 1)],
               missing : {"no", "grace", "expired"}]
Override   == [traffic : Traffic, factor : Nat]
Write      == [cnt : [Dirs -> Nat], delta : [Dirs -> Nat],
               extra : [Dirs -> Nat], factorExtra : Nat]

ASSUME RowsAssumption == NoRow \notin TrafficRow \cup RuleClient \cup Override \cup Write

(* What the tick has read and staged; nobody else sees it before commit. *)
Tx == [pc : {"idle", "reconcile", "scopes", "targets", "locked", "abort"},
       ruleClients : [Traffic -> RuleClient \cup {NoRow}],
       excludes : [Emails -> Traffic \cup {NoRow}],
       overrides : [Emails -> Override \cup {NoRow}],
       todo : SUBSET Traffic,
       current : TrafficRow \cup {NoRow},
       locked : SUBSET Traffic,
       writes : [Traffic -> Write \cup {NoRow}]]

NoTx == [pc |-> "idle",
         ruleClients |-> NoWrites,
         excludes |-> [e \in Emails |-> NoRow],
         overrides |-> [e \in Emails |-> NoRow],
         todo |-> {}, current |-> NoRow, locked |-> {}, writes |-> NoWrites]

Init ==
    /\ traffics \in [Traffic -> {NoRow} \cup [email : Emails, cnt : {Zero}]]
    /\ \A t, u \in Traffic :
          /\ t < u /\ traffics[u] # NoRow => traffics[t] # NoRow
          /\ t # u /\ traffics[t] # NoRow => traffics[t] # traffics[u]
    /\ held = {}
    /\ used = {t \in Traffic : traffics[t] # NoRow}
    /\ ruleState = "active"
    /\ ruleClients = [t \in Traffic |-> NoRow]
    /\ excludes = [e \in Emails |-> NoRow]
    /\ overrides = [e \in Emails |-> NoRow]
    /\ tx = NoTx
    /\ raw = [t \in Traffic |-> Zero]
    /\ extra = [t \in Traffic |-> Zero]
    /\ charged = [t \in Traffic |-> Zero]
    /\ due = [t \in Traffic |-> Zero]
    /\ suspendedTo = [t \in Traffic |-> Zero]

-----------------------------------------------------------------------------
(* Reads of the panel's rows. *)
TrafficOf(email) == {t \in Traffic : traffics[t] # NoRow /\ traffics[t].email = email}

(* ClientTrafficByEmail: ORDER BY id LIMIT 1, NoRow for ErrNotFound. *)
ClientTrafficByEmail(email) ==
    IF TrafficOf(email) = {} THEN NoRow
    ELSE CHOOSE t \in TrafficOf(email) : \A u \in TrafficOf(email) : t <= u

Matches(t, email) == traffics[t] # NoRow /\ traffics[t].email = email

(* Is traffic of this client suspended in the committed tables? *)
Suspended(email) == ruleState = "paused" \/ excludes[email] # NoRow

-----------------------------------------------------------------------------
(* Mutant: neither backend keeps the panel off a row a tick works on. *)
PanelMayWriteAlways(t) == TRUE

(* The panel (external): a transaction holds a row, then commits a change. *)
(* On SQLite writers exclude each other; on PostgreSQL only a row a tick    *)
(* has locked is out of its reach.                                         *)
PanelMayWrite(t) ==
    IF Backend = "sqlite" THEN tx.pc = "idle" /\ held \subseteq {t}
                          ELSE t \notin tx.locked

(* Bound: a panel that only counts stops when MaxBytes are counted. *)
PanelHasWork(t) ==
    \/ PanelOps \cap {"reset", "rename", "delete", "touch"} # {}
    \/ \E d \in Dirs : raw[t][d] < MaxBytes /\ traffics[t].cnt[d] < MaxInt64

PanelHold(t) ==
    /\ traffics[t] # NoRow /\ t \notin held
    /\ PanelHasWork(t)
    /\ PanelMayWrite(t)
    /\ held' = held \cup {t}
    /\ UNCHANGED <<traffics, used, tableVars, tx, ghostVars>>

PanelRelease(t) ==
    /\ t \in held
    /\ held' = held \ {t}
    /\ UNCHANGED <<used, tableVars, tx>>

PanelAdd(t, d, n) ==
    /\ "add" \in PanelOps
    /\ PanelRelease(t)
    /\ raw[t][d] + n <= MaxBytes
    /\ traffics[t].cnt[d] + n <= MaxInt64
    /\ traffics' = [traffics EXCEPT ![t].cnt[d] = @ + n]
    /\ raw' = [raw EXCEPT ![t][d] = @ + n]
    /\ suspendedTo' = IF Suspended(traffics[t].email)
                      THEN [suspendedTo EXCEPT ![t][d] = traffics'[t].cnt[d]]
                      ELSE suspendedTo
    /\ UNCHANGED <<extra, charged, due>>

(* The ghosts start again with the counters. *)
Forget(t) ==
    /\ raw' = [raw EXCEPT ![t] = Zero]
    /\ extra' = [extra EXCEPT ![t] = Zero]
    /\ charged' = [charged EXCEPT ![t] = Zero]
    /\ due' = [due EXCEPT ![t] = Zero]
    /\ suspendedTo' = [suspendedTo EXCEPT ![t] = Zero]

PanelReset(t) ==
    /\ "reset" \in PanelOps
    /\ PanelRelease(t)
    /\ traffics' = [traffics EXCEPT ![t].cnt = Zero]
    /\ Forget(t)

PanelRename(t, e) ==
    /\ "rename" \in PanelOps
    /\ PanelRelease(t)
    /\ TrafficOf(e) = {}
    /\ traffics' = [traffics EXCEPT ![t].email = e]
    /\ UNCHANGED ghostVars

PanelDelete(t) ==
    /\ "delete" \in PanelOps
    /\ PanelRelease(t)
    /\ traffics' = [traffics EXCEPT ![t] = NoRow]
    /\ Forget(t)

(* A transaction that rolls back, or changes columns that do not matter. *)
PanelTouch(t) ==
    /\ "touch" \in PanelOps
    /\ PanelRelease(t)
    /\ UNCHANGED <<traffics, ghostVars>>

(* Ids grow and are not used again; an email has one row. *)
PanelCreate(t, e) ==
    /\ "create" \in PanelOps
    /\ t \notin used /\ \A u \in used : u < t
    /\ \A u \in Traffic : u < t => u \in used
    /\ PanelMayWrite(t) /\ (Backend = "sqlite" => held = {})
    /\ TrafficOf(e) = {}
    /\ used' = used \cup {t}
    /\ traffics' = [traffics EXCEPT ![t] = [email |-> e, cnt |-> Zero]]
    /\ UNCHANGED <<held, tableVars, tx, ghostVars>>

PanelFinish(t) ==
    \/ \E d \in Dirs, n \in 1..MaxBytes : PanelAdd(t, d, n)
    \/ PanelReset(t)
    \/ \E e \in Emails : PanelRename(t, e)
    \/ PanelDelete(t)
    \/ PanelTouch(t)

-----------------------------------------------------------------------------
(* The tick.  WithImmediateTx opens the transaction; on SQLite it waits    *)
(* for an open panel transaction.                                          *)
MayBegin == tx.pc = "idle" /\ (Backend = "sqlite" => held = {})

TickBegin ==
    /\ MayBegin
    /\ tx' = [NoTx EXCEPT !.pc = "reconcile",
                          !.ruleClients = ruleClients,
                          !.excludes = excludes,
                          !.overrides = overrides]
    /\ UNCHANGED <<panelVars, tableVars, ghostVars>>

(* resolvePolicyTraffic: the linked row if it still has the email, else the *)
(* row that has it now; without one the policy keeps its link.              *)
ResolvePolicyTraffic(link, email) ==
    IF Matches(link, email) \/ ClientTrafficByEmail(email) = NoRow
    THEN link ELSE ClientTrafficByEmail(email)

(* ReconcileTx: active policies follow their email to its current row. *)
TickReconcile ==
    /\ tx.pc = "reconcile"
    /\ tx' = [tx EXCEPT
          !.pc = "scopes",
          !.excludes = [e \in Emails |->
              IF @[e] = NoRow THEN NoRow ELSE ResolvePolicyTraffic(@[e], e)],
          !.overrides = [e \in Emails |->
              IF @[e] = NoRow THEN NoRow
              ELSE [traffic |-> ResolvePolicyTraffic(@[e].traffic, e),
                    factor |-> @[e].factor]]]
    /\ UNCHANGED <<panelVars, tableVars, ghostVars>>

Enrolled(row) ==
    [email |-> row.email, last |-> row.cnt, rem |-> Zero, missing |-> "no"]

(* reconcileScopes enrolls candidates the rule does not track yet, from     *)
(* their current counters; ListActiveRuleClients then lists the targets.    *)
TickEnroll ==
    /\ tx.pc = "scopes"
    /\ LET rcs == [t \in Traffic |->
                    IF ruleState = "active" /\ tx.ruleClients[t] = NoRow
                                            /\ traffics[t] # NoRow
                    THEN Enrolled(traffics[t]) ELSE tx.ruleClients[t]]
       IN  tx' = [tx EXCEPT
              !.pc = "targets",
              !.ruleClients = rcs,
              !.todo = IF ruleState = "active"
                       THEN {t \in Traffic : rcs[t] # NoRow} ELSE {}]
    /\ UNCHANGED <<panelVars, tableVars, ghostVars>>

-----------------------------------------------------------------------------
(* Decisions come in the order of traffic ids.  An exclude or an override  *)
(* wins when both its row and its email are the tracked client's.          *)
IsTarget(t) == t \in tx.todo /\ \A u \in tx.todo : t <= u

Excluded(t) == tx.excludes[tx.ruleClients[t].email] = t

FactorPPM(t) ==
    LET o == tx.overrides[tx.ruleClients[t].email]
    IN  IF o # NoRow /\ o.traffic = t THEN o.factor ELSE ScopeFactor

(* UpdateRuleClientBaseline: the row is tracked (not missing) afterwards.   *)
Baseline(rc, cnt, rem) ==
    [rc EXCEPT !.last = cnt, !.rem = rem, !.missing = "no"]

(* MarkRuleClientMissing keeps the first mark. *)
MarkMissing(rc) ==
    [rc EXCEPT !.missing = IF @ = "no" THEN "grace" ELSE @]

(* The target is dealt with: rc is its new row, w its staged counters. *)
Done(t, rc, w) ==
    tx' = [tx EXCEPT !.pc = "targets", !.todo = @ \ {t}, !.current = NoRow,
                     !.ruleClients[t] = rc, !.writes[t] = w]

(* refreshSuppressedBaseline of an excluded client: a plain read. *)
TickSuppressed(t) ==
    /\ tx.pc = "targets" /\ IsTarget(t) /\ Excluded(t)
    /\ LET rc == tx.ruleClients[t]
       IN  Done(t, IF Matches(t, rc.email) THEN Baseline(rc, traffics[t].cnt, Zero)
                                           ELSE MarkMissing(rc), NoRow)
    /\ UNCHANGED <<panelVars, tableVars, ghostVars>>

(* LockClientTraffic: absent, held by the panel (SKIP LOCKED), or locked   *)
(* for the rest of the transaction.                                        *)
TickMissing(t) ==
    /\ tx.pc = "targets" /\ IsTarget(t) /\ ~Excluded(t)
    /\ traffics[t] = NoRow
    /\ Done(t, MarkMissing(tx.ruleClients[t]), NoRow)
    /\ UNCHANGED <<panelVars, tableVars, ghostVars>>

(* Mutant: a deferred row is baselined as if it had been factored. *)
TickDeferBaselines(t) ==
    /\ tx.pc = "targets" /\ IsTarget(t) /\ ~Excluded(t)
    /\ traffics[t] # NoRow /\ t \in held
    /\ Done(t, Baseline(tx.ruleClients[t], traffics[t].cnt, Zero), NoRow)
    /\ UNCHANGED <<panelVars, tableVars, ghostVars>>

(* Mutant: a held row ends the pass over the targets. *)
TickDeferStops(t) ==
    /\ tx.pc = "targets" /\ IsTarget(t) /\ ~Excluded(t)
    /\ traffics[t] # NoRow /\ t \in held
    /\ tx' = [tx EXCEPT !.todo = {}]
    /\ UNCHANGED <<panelVars, tableVars, ghostVars>>

TickDefer(t) ==
    /\ tx.pc = "targets" /\ IsTarget(t) /\ ~Excluded(t)
    /\ traffics[t] # NoRow /\ t \in held
    /\ Done(t, tx.ruleClients[t], NoRow)
    /\ UNCHANGED <<panelVars, tableVars, ghostVars>>

TickLock(t) ==
    /\ tx.pc = "targets" /\ IsTarget(t) /\ ~Excluded(t)
    /\ traffics[t] # NoRow /\ t \notin held
    /\ tx' = [tx EXCEPT !.pc = "locked", !.current = traffics[t],
                        !.locked = @ \cup {t}]
    /\ UNCHANGED <<panelVars, tableVars, ghostVars>>

-----------------------------------------------------------------------------
(* tickTarget below the lock, on the row read under it. *)
Delta(t, d) == CounterDelta(tx.current.cnt[d], tx.ruleClients[t].last[d])

Decreased(t) == \E d \in Dirs : Delta(t, d).decreased

(* Mutant: the factor itself, not what it adds, multiplies the delta. *)
ExtraWholeFactor(t, d) ==
    CalculateExtra(Delta(t, d).delta, FactorPPM(t), tx.ruleClients[t].rem[d])

Extra(t, d) == CalculateExtra(Delta(t, d).delta, FactorPPM(t) - FactorScale,
                              tx.ruleClients[t].rem[d])

Overflows(t) == \E d \in Dirs : \/ ~Extra(t, d).ok
                                \/ ~SafeAddOk(tx.current.cnt[d], Extra(t, d).extra)

(* No baseline to factor from: renamed, returned, or zeroed by the panel. *)
TickRebaseline(t) ==
    /\ tx.pc = "locked" /\ IsTarget(t)
    /\ LET rc == tx.ruleClients[t]
       IN  \/ /\ tx.current.email # rc.email
              /\ Done(t, MarkMissing(rc), NoRow)
           \/ /\ tx.current.email = rc.email
              /\ rc.missing # "no" \/ Decreased(t)
              /\ Done(t, Baseline(rc, tx.current.cnt, Zero), NoRow)
    /\ UNCHANGED <<panelVars, tableVars, ghostVars>>

Factorable(t) ==
    /\ tx.pc = "locked" /\ IsTarget(t)
    /\ tx.current.email = tx.ruleClients[t].email
    /\ tx.ruleClients[t].missing = "no"
    /\ ~Decreased(t)

NewCount(t) == [d \in Dirs |-> tx.current.cnt[d] + Extra(t, d).extra]

(* Mutant: the baseline is the counter that was read, not the one written. *)
NewBaselineAsRead(t) == tx.current.cnt

NewBaseline(t) == NewCount(t)

(* UpdateClientCountersCAS, run when there is a byte to add: the row must   *)
(* still be what was read, or the tick fails with ErrRace.                  *)
CASFails(t) ==
    /\ \E d \in Dirs : Extra(t, d).extra > 0
    /\ traffics[t] # tx.current

(* The delta is factored.  A factor of 1, or a product below one byte,      *)
(* writes no counter (Extra is 0); a factor of 1 drops the remainder.       *)
TickApply(t) ==
    /\ Factorable(t)
    /\ IF Overflows(t) \/ CASFails(t)
       THEN tx' = [tx EXCEPT !.pc = "abort"]
       ELSE Done(t,
              Baseline(tx.ruleClients[t], NewBaseline(t),
                       IF FactorPPM(t) = FactorScale THEN Zero
                       ELSE [d \in Dirs |-> Extra(t, d).rem]),
              [cnt |-> NewCount(t),
               delta |-> [d \in Dirs |-> Delta(t, d).delta],
               extra |-> [d \in Dirs |-> Extra(t, d).extra],
               factorExtra |-> FactorPPM(t) - FactorScale])
    /\ UNCHANGED <<panelVars, tableVars, ghostVars>>

-----------------------------------------------------------------------------
(* The end of the transaction. *)
Written(t) == tx.writes[t] # NoRow

TickCommit ==
    /\ tx.pc = "targets" /\ tx.todo = {}
    /\ traffics' = [t \in Traffic |->
          IF Written(t) THEN [traffics[t] EXCEPT !.cnt = tx.writes[t].cnt]
                        ELSE traffics[t]]
    /\ ruleClients' = tx.ruleClients
    /\ excludes' = tx.excludes
    /\ overrides' = tx.overrides
    /\ tx' = NoTx
    /\ extra' = [t \in Traffic |-> [d \in Dirs |->
          extra[t][d] + (IF Written(t) THEN tx.writes[t].extra[d] ELSE 0)]]
    /\ charged' = [t \in Traffic |-> [d \in Dirs |->
          charged[t][d] + (IF Written(t) THEN tx.writes[t].delta[d] ELSE 0)]]
    /\ due' = [t \in Traffic |-> [d \in Dirs |->
          due[t][d] + (IF Written(t)
                       THEN tx.writes[t].delta[d] * tx.writes[t].factorExtra
                       ELSE 0)]]
    /\ UNCHANGED <<held, used, ruleState, raw, suspendedTo>>

(* Mutant: what a failed tick wrote to the panel's counters is kept. *)
RollbackKeepsCounters ==
    /\ traffics' = [t \in Traffic |->
          IF Written(t) THEN [traffics[t] EXCEPT !.cnt = tx.writes[t].cnt]
                        ELSE traffics[t]]
    /\ tx' = NoTx
    /\ UNCHANGED <<held, used, tableVars, ghostVars>>

(* Mutant: baselines are saved although the counters are rolled back. *)
RollbackKeepsBaselines ==
    /\ ruleClients' = tx.ruleClients
    /\ tx' = NoTx
    /\ UNCHANGED <<panelVars, ruleState, excludes, overrides, ghostVars>>

(* ROLLBACK, by WithImmediateTx or by the database for a dead process. *)
Rollback ==
    /\ tx' = NoTx
    /\ UNCHANGED <<panelVars, tableVars, ghostVars>>

TickAbort == tx.pc = "abort" /\ Rollback

(* The process dies, or its connection does, at any point of the tick. *)
Crash ==
    /\ tx.pc # "idle"
    /\ Rollback

-----------------------------------------------------------------------------
(* Commands.  RefreshActiveRuleClientBaselinesForTraffic is skipped for a  *)
(* paused rule, whose baselines ResumeAll refreshes.                       *)
Refreshed(t, email) ==
    IF ruleState = "active" /\ ruleClients[t] # NoRow /\ ruleClients[t].email = email
    THEN [ruleClients EXCEPT ![t] = Baseline(@, traffics[t].cnt, Zero)]
    ELSE ruleClients

(* FindClient: the command fails when no row has the email. *)
Command(email) == MayBegin /\ TrafficOf(email) # {}

Exclude(e) ==
    /\ Command(e)
    /\ excludes' = [excludes EXCEPT ![e] = ClientTrafficByEmail(e)]
    /\ UNCHANGED <<panelVars, ruleState, ruleClients, overrides, tx, ghostVars>>

(* Mutant: the baseline stays where the exclude froze it. *)
UnexcludeNoRefresh(e) ==
    /\ Command(e) /\ excludes[e] # NoRow
    /\ excludes' = [excludes EXCEPT ![e] = NoRow]
    /\ UNCHANGED <<panelVars, ruleState, ruleClients, overrides, tx, ghostVars>>

Unexclude(e) ==
    /\ Command(e) /\ excludes[e] # NoRow
    /\ excludes' = [excludes EXCEPT ![e] = NoRow]
    /\ ruleClients' = Refreshed(ClientTrafficByEmail(e), e)
    /\ UNCHANGED <<panelVars, ruleState, overrides, tx, ghostVars>>

OverrideClient(e, f) ==
    /\ Command(e)
    /\ overrides' = [overrides EXCEPT
          ![e] = [traffic |-> ClientTrafficByEmail(e), factor |-> f]]
    /\ ruleClients' = Refreshed(ClientTrafficByEmail(e), e)
    /\ UNCHANGED <<panelVars, ruleState, excludes, tx, ghostVars>>

RemoveOverride(e) ==
    /\ Command(e) /\ overrides[e] # NoRow
    /\ overrides' = [overrides EXCEPT ![e] = NoRow]
    /\ ruleClients' = Refreshed(ClientTrafficByEmail(e), e)
    /\ UNCHANGED <<panelVars, ruleState, excludes, tx, ghostVars>>

PauseAll ==
    /\ MayBegin /\ ruleState = "active"
    /\ ruleState' = "paused"
    /\ UNCHANGED <<panelVars, ruleClients, excludes, overrides, tx, ghostVars>>

(* RefreshRuleClientBaselinesCount joins on traffic id and email. *)
ResumeAll ==
    /\ MayBegin /\ ruleState = "paused"
    /\ ruleState' = "active"
    /\ ruleClients' = [t \in Traffic |->
          IF ruleClients[t] # NoRow /\ Matches(t, ruleClients[t].email)
          THEN Baseline(ruleClients[t], traffics[t].cnt, Zero)
          ELSE ruleClients[t]]
    /\ UNCHANGED <<panelVars, excludes, overrides, tx, ghostVars>>

(* Cleanup, by command or by the daemon after a tick: clients that no      *)
(* longer match are marked, marks older than the grace period are pruned.  *)
Cleanup ==
    /\ MayBegin
    /\ ruleClients' = [t \in Traffic |->
          CASE ruleClients[t] = NoRow -> NoRow
            [] ruleClients[t] # NoRow /\ ruleClients[t].missing = "expired" -> NoRow
            [] OTHER -> IF Matches(t, ruleClients[t].email) THEN ruleClients[t]
                        ELSE MarkMissing(ruleClients[t])]
    /\ UNCHANGED <<panelVars, ruleState, excludes, overrides, tx, ghostVars>>

(* missing_client_grace passes for a marked client. *)
Age(t) ==
    /\ tx.pc = "idle"
    /\ ruleClients[t] # NoRow /\ ruleClients[t].missing = "grace"
    /\ ruleClients' = [ruleClients EXCEPT ![t].missing = "expired"]
    /\ UNCHANGED <<panelVars, ruleState, excludes, overrides, tx, ghostVars>>

-----------------------------------------------------------------------------
TickTarget(t) ==
    TickSuppressed(t) \/ TickMissing(t) \/ TickDefer(t) \/ TickLock(t)
        \/ TickRebaseline(t) \/ TickApply(t)

TickStep ==
    TickBegin \/ TickReconcile \/ TickEnroll \/ TickCommit \/ TickAbort
        \/ \E t \in Traffic : TickTarget(t)

Commands ==
    \/ \E e \in Emails : Exclude(e) \/ Unexclude(e) \/ RemoveOverride(e)
    \/ \E e \in Emails, f \in OverrideFactors : OverrideClient(e, f)
    \/ PauseAll \/ ResumeAll \/ Cleanup

Panel ==
    \/ \E t \in Traffic : PanelHold(t) \/ PanelFinish(t)
    \/ \E t \in Traffic, e \in Emails : PanelCreate(t, e)

Next == Panel \/ TickStep \/ Commands \/ Crash \/ \E t \in Traffic : Age(t)

Spec == Init /\ [][Next]_vars

(* The daemon ticks every interval and systemd restarts it.  Nobody else   *)
(* is obliged to act: the panel may keep a transaction open for ever, or   *)
(* open one on a row before every tick.                                    *)
FairSpec ==
    /\ Init /\ [][Next]_vars
    /\ WF_vars(TickStep)

-----------------------------------------------------------------------------
(* Types, and which rows an open transaction has locked. *)
TypeOK ==
    /\ traffics \in [Traffic -> TrafficRow \cup {NoRow}]
    /\ held \subseteq {t \in Traffic : traffics[t] # NoRow} \ tx.locked
    /\ used \subseteq Traffic
    /\ ruleState \in {"active", "paused"}
    /\ ruleClients \in [Traffic -> RuleClient \cup {NoRow}]
    /\ excludes \in [Emails -> Traffic \cup {NoRow}]
    /\ overrides \in [Emails -> Override \cup {NoRow}]
    /\ tx \in Tx
    /\ \A g \in {raw, extra, charged, due, suspendedTo} :
          g \in [Traffic -> [Dirs -> Nat]]

(* A client's counter is the bytes the panel counted plus the bytes        *)
(* committed ticks added: no tick overwrites a panel job, no panel job     *)
(* overwrites a tick, and a tick that failed half way adds nothing.        *)
CounterConservation ==
    \A t \in Traffic : traffics[t] # NoRow =>
        \A d \in Dirs : traffics[t].cnt[d] = raw[t][d] + extra[t][d]

(* Counted bytes above the client's baseline, which the next tick factors. *)
Pending(t, d) ==
    IF /\ traffics[t] # NoRow /\ ruleClients[t] # NoRow
       /\ traffics[t].cnt[d] > ruleClients[t].last[d]
    THEN traffics[t].cnt[d] - ruleClients[t].last[d] ELSE 0

(* Every counted byte is factored at most once, and the bytes a tick added *)
(* are never factored themselves: what was factored and what is still to   *)
(* be factored are disjoint parts of what the panel counted, across        *)
(* resets, renames, deferrals and rolled back ticks.                       *)
FactoredAtMostOnce ==
    \A t \in Traffic, d \in Dirs : charged[t][d] + Pending(t, d) <= raw[t][d]

(* The bytes added never exceed the exact product of the factored bytes    *)
(* and their factors by a whole byte, whatever remainders are carried      *)
(* over, dropped by a refreshed baseline or stale after a counter reset.   *)
NotOvercharged ==
    \A t \in Traffic, d \in Dirs :
        extra[t][d] * FactorScale < due[t][d] + FactorScale

(* The tables implement the ledger: outside the panel only a tick's commit *)
(* changes what a client has been charged, and it changes counter, charge  *)
(* and baseline together.                                                  *)
Accounts == Traffic \X Dirs

LedgerImpl == INSTANCE Ledger WITH
    FactorExtras <- {f - FactorScale : f \in OverrideFactors \cup {ScopeFactor}},
    MaxCount <- MaxBytes,
    raw      <- [a \in Accounts |-> raw[a[1]][a[2]]],
    charged  <- [a \in Accounts |-> charged[a[1]][a[2]]],
    due      <- [a \in Accounts |-> due[a[1]][a[2]]],
    extra    <- [a \in Accounts |-> extra[a[1]][a[2]]]

ImplementsLedger == LedgerImpl!Spec

(* Bytes counted that were passed over: neither factored nor pending. *)
Forgiven(t, d) == raw[t][d] - charged[t][d] - Pending(t, d)

(* Reasons for passing over bytes of a tracked client: it is excluded, its *)
(* rule is paused, it is missing, its counter was zeroed, or this step is  *)
(* a command that sets or removes its override.                            *)
MayForgive(t) ==
    \/ Suspended(ruleClients[t].email)
    \/ ruleClients[t].missing # "no"
    \/ ~Matches(t, ruleClients[t].email)
    \/ \E d \in Dirs : traffics[t].cnt[d] < ruleClients[t].last[d]
    \/ RemoveOverride(ruleClients[t].email)
    \/ \E f \in OverrideFactors : OverrideClient(ruleClients[t].email, f)

(* A client that stays tracked loses no byte to a baseline: a deferred, an *)
(* aborted or a repeated tick, and every command, leaves the counted bytes *)
(* either factored or pending unless one of the reasons above holds.       *)
NoByteForgivenStep ==
    \A t \in Traffic :
        ruleClients[t] # NoRow /\ ruleClients'[t] # NoRow /\ traffics'[t] # NoRow =>
            \A d \in Dirs : Forgiven(t, d)' > Forgiven(t, d) => MayForgive(t)

NoByteForgiven == [][NoByteForgivenStep]_vars

(* No tick factors a byte that was counted while its client was excluded   *)
(* or the rule paused: the baseline a charge starts from is at or above    *)
(* the last such byte ("traffic from the excluded period is not            *)
(* retroactively factored", docs/OPERATIONS.md).                           *)
SuspendedNotFactoredStep ==
    \A t \in Traffic, d \in Dirs :
        charged'[t][d] > charged[t][d] =>
            LET w == tx.writes[t]
            IN  w.cnt[d] - w.extra[d] - w.delta[d] >= suspendedTo[t][d]

SuspendedNotFactored == [][SuspendedNotFactoredStep]_vars

(* The rule has the client, under its email and not suspended. *)
Eligible(t) ==
    /\ ruleClients[t] # NoRow
    /\ Matches(t, ruleClients[t].email)
    /\ ~Suspended(ruleClients[t].email)

(* From some time on no tick is cut off (a crash that loses nothing is a   *)
(* commit), and not every tick finds the client's row held by the panel:   *)
(* if it is skipped again and again, it is also locked again and again.    *)
Undisturbed(t) ==
    /\ <>[][Crash => TickCommit]_vars
    /\ []<><<TickDefer(t)>>_vars => []<><<TickLock(t)>>_vars

(* SKIP LOCKED by itself promises no progress: a client whose row is held  *)
(* whenever a tick comes by is never factored.  Any other client is, other *)
(* clients' locks, commands, renames and re-creations notwithstanding:     *)
(* what it has pending is factored or zeroed, unless it stops being        *)
(* eligible first.                                                         *)
PendingSettles ==
    \A t \in Traffic : Undisturbed(t) =>
        \A d \in Dirs :
            Eligible(t) /\ Pending(t, d) > 0 ~> Pending(t, d) = 0 \/ ~Eligible(t)
=============================================================================
