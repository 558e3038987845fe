# XuiFactor in TLA+

XuiFactor is a sidecar of the 3x-ui proxy panel.  It shares the panel's
database (SQLite or PostgreSQL), and a daemon that *ticks* every few seconds
multiplies the traffic of selected clients: what a client's counter has grown
by since its *baseline* is factored, the extra bytes are added to the counter,
and the baseline moves.  Operators select clients with rules, scopes, excludes
and overrides.  The panel knows nothing of all this and keeps counting,
resetting, renaming, deleting and recreating clients meanwhile.

These modules model that system from `src/internal/`, TLC checks them on small
instances, and TLAPS proves every safety property that the passing runs check
for every value of the constants (section 6).

## 1. Inventory

| Part (source) | State | Operations | What makes it correct |
|---|---|---|---|
| Factor texts (`engine/factor.go`) | none | `ParseFactor`, `FormatFactor` | the stored factor is the one typed; what is printed can be typed again |
| Tick arithmetic (`daemon/tick.go` `calculateExtra`, `counterDelta`, `safeAdd`) | remainder of a division, per counter | factor a delta | cutting traffic into ticks changes nothing; no wrap at the int64 limit |
| Tick transaction (`daemon/tick.go`, `store/tick.go`, `store.WithImmediateTx`) | baselines, remainders, missing marks; the panel's counters | repair policies, enroll, lock, rebaseline, factor, commit, roll back | each counted byte factored at most once, none passed over, no panel write lost |
| Policies (`engine/excludes.go`, `engine/overrides.go`, `store/excludes.go`, `store/overrides.go`) | two tables with a UNIQUE index | set, remove, migrate, repair, prune | one active row per client, it follows the client |
| Policy decision (`policy/decision.go`) | none | rank candidates of a client | one winner per client |
| Rules, scopes, snapshots (`engine/engine.go`, `engine/bulk.go`, `store/rules.go`, `store/scopes.go`, `store/bulk.go`) | rules, scopes, tracked clients | enable, disable, pause, resume, and for all | one owner per client |
| Reconciliation and enrolment (`engine/reconcile.go`, `store/membership.go`, `daemon/tick.go` `reconcileScopes`) | the same | relink, revive, adopt, supersede, orphan, enroll | converges; a merged rule's client stays factored |
| Cleanup (`store/cleanup.go`) | missing marks, retirement times, `last_auto_cleanup_at` | mark, prune, after a tick or on command | nothing left behind, stale rows give way, periods do not add up without end |
| Process lock (`daemon/lock.go`) | lock file and its flock | acquire, close | one daemon; a dead one locks nobody out |
| Run loop (`daemon/run.go`) | interval, last error logged | tick for ever | a failed tick is repeated; the journal does not end on a line that no longer holds |
| Panel role (`store/panel.go`) | time of the master's last push | refuse to tick on a managed node | a refused tick changes nothing and is reported |
| Explain, status, rule list (`engine/effective.go`, `engine/report.go`, `store/rules.go` `ListRules`) | none | read | agree with the tick and with each other |
| Audit events (`store/rules.go` `AddEvent`, `AddEventOnce`) | events | add, prune | none outlives its retention by more than the time between cleanups |
| Configuration (`config/config.go`, `cli.go` `loadConfig`) | `config.json`, environment, the panel's environment files | choose the database | the panel's database, or a refusal |
| Schema and migrations (`store/store.go`, `store/migrations.go`) | the metadata schema | validate the panel's schema, migrate | complete from any earlier release; never in a database of an older panel |
| Backup (`store/backup.go`) | files in `backup_dir` | `VACUUM INTO`, `pg_dump` | a backup that was reported stays |
| Command line (`cli/cli.go`) | none | one command per process | each command begins with the three parts above |
| Installers, service unit, build information | | | not modelled, see section 7 |

How they interact.  There are no messages and no shared memory: daemon,
commands and panel meet in the database.  Every XuiFactor writer opens its
transaction with `WithImmediateTx`, so XuiFactor's own transactions are
serialised on both backends.  The panel is different: on SQLite it is excluded
while a tick's transaction is open; on PostgreSQL (`BEGIN`, read committed) it
commits between any two statements of a tick, and only rows the tick has locked
with `FOR UPDATE SKIP LOCKED` are safe from it.

Hard behaviours: that interleaving; a crash between counters and baselines;
rows skipped because the panel holds them; identity that is a traffic id *and*
an email, each of which changes without the other; marks, grace periods and
cleanup, read from a clock that is old by the time a transaction gets the
write lock; rows and schemas left by older releases; processes that start,
migrate and die beside each other; a lock file that is removed by name.
`PROJECT.json` lists them as hazards, each at its line.

## 2. Modules

| Module | Models | Used by |
|---|---|---|
| `FactorArith` | the three arithmetic functions | `FactorSlices`, `TickTx` |
| `FactorSlices` | one counter under one factor | `FactorText`, `FactorProofs` |
| `FactorText` | factors as typed and printed, beside that counter | run `factor_slices`, `FactorProofs` |
| `Ledger` | abstract specification of what a tick promises | instantiated by `TickTx` |
| `TickTx` | the tick transaction against the panel | runs `tick_*` |
| `Policies` | one policy table | run `policies` |
| `Rules` | ownership of clients | `Effective` |
| `Effective` | one client's factor, as the tick, explain and the rule list compute it | `MCRules` |
| `MCRules` | symmetry of the two | runs `rules_*` |
| `Daemon` | loop, panel role, cleanup and audit log in time | run `daemon` |
| `Config` | which database a process works on | `Startup` |
| `Startup` | open, validate, migrate; backup | run `startup` |
| `ProcessLock` | the lock file | runs `lock*` |
| `BasicFacts` | lemmas about division, products, least elements and induction | the proof modules |
| `FactorProofs`, `TickProofs`, `PoliciesProofs`, `RulesProofs`, `DaemonProofs`, `StartupProofs`, `LockProofs` | theorems about `FactorSlices` and `FactorText`, `TickTx`, `Policies`, `Rules` and `Effective`, `Daemon`, `Startup` and `Config`, `ProcessLock` | |

**FactorArith / FactorSlices.**  `CalculateExtra` is `calculateExtra`: exact
product (the code uses `big.Int`), truncated division, remainder; `ok` is false
where the code returns an overflow error.  `MaxInt64` and `FactorScale` are
constants, so TLC meets the limit and the carried remainder with small numbers.
`Abort` is the rolled back tick.

**FactorText.**  A text is the number before the dot and the digits behind it,
or a part that is not digits; `Sum` wraps at `MaxInt64` as int64 does, and
`Accepted` is `ParseFactor`'s tests in its order.  Digits are read and printed
one by one: `ParseInt` goes through them as `strconv` does, `FractionDigits`
takes them off a number.  A client's first bytes come after the command that set
its factor.

**TickTx.**  One rule with a global persistent scope, its tracked clients
(`ruleClients`), excludes, overrides, and the panel's rows (`traffics`).  `tx`
holds what the open tick has read and staged.  The steps are the points where
another transaction can come in between on PostgreSQL: begin, policy repair
(`TickReconcile`), enrolment and target list (`TickEnroll`), and per target, in
the order of traffic ids, one of `TickSuppressed` (excluded: baseline only),
`TickMissing`, `TickDefer` (the row is held by the panel), `TickLock`; then,
under the lock, `TickRebaseline` or `TickApply` with its compare-and-set; then
commit or abort.  `Crash` is a lost process or connection at any point.
Commands are single steps.  The panel opens a transaction on a row
(`PanelHold`) and ends it by counting, resetting, renaming, deleting or doing
nothing.  Ghosts count bytes: `raw` by the panel, `extra` by ticks, `charged`
factored, `due` charged times factor, `suspendedTo` the last byte counted while
the client was excluded or paused.

**Ledger.**  Accounts whose owner counts bytes and zeroes them, and a charge
that moves counted bytes to charged ones, with the matching extra, in one step.
`TickTx!ImplementsLedger` is the refinement: of all the steps of a tick only
the commit is visible.

**Policies.**  Excludes and overrides are one table twice, and one module.
`Init` includes every table an older release may have left (up to `LegacyRows`
rows that respect the UNIQUE index): before v0.5.0 a policy was keyed by
traffic id, inbound and email, so one client may have several rows.  `Migrate`
runs whenever a process opens the database and before anything else.
`Reconcile(members)` is the repair: of all emails for a tick, of any set of
emails for `reconcile --inbound-id`, because which emails an inbound has is the
panel's business.

**Rules.**  All rules in creation order with their scope data and tracked
clients; `d` in a query is the database as the open transaction sees it, so an
operation of several statements is a composition of functions on it and one
step.  `Tick` is `ReconcileTx`, `reconcileScopes`, the decision and the marks
of the targets; when the decision is ambiguous the code rolls back
and `Tick` is not enabled.  Times are two steps: a mark in its grace period becomes
expired, a retired rule becomes aged.

**Effective.**  The code decides a client's factor three times: the tick from
all active targets of a traffic id (`TickDecision`, then `tickTarget`'s tests),
explain and status from those `ValidTargets` lets through, and `ListRules` in
SQL.  A client's policies are quantified over, and name its current row: that
they do is what `Policies` checks.

**Daemon.**  The same tick once more, but in time and with its data reduced to
one tracked client, which comes and goes, and to the ages of the events in the
audit log: any transaction may add one (`Audited`), and what cleanup does to an
event depends on nothing else.  A process reads the clock when its tick begins
(`StartTick`) and may get its transaction up to `MaxLag` later: `lag` is the age
of that reading and every comparison with a stored time uses it; a command's
reading is any age up to `MaxLag`.  Stored times are ages with a cap beyond every
limit, so behaviours do not end.  A tick is refused (`"managed"`) while a
master's last push is within the window.

**Config and Startup.**  `Config` is `Load`, `Validate` and `loadConfig` as
functions of what the operator wrote; spellings of one backend are one value.
`Startup` runs processes through `openService` / `openReadOnlyService`: resolve,
open, the two halves of `ValidateRequiredSchema`, then `Migrate`, one step per
group of statements inside one transaction, with `Needs` the columns a
statement names and without which it fails.  `OldSchemas` are the schemas that
the migrations in `store.go` are written for.  A kill is possible everywhere.
The panel migrates its own tables meanwhile (external: tables first,
`client_traffics.all_time` last).  A backup picks a name, writes and reports, as
three steps.

**ProcessLock.**  Every system call is a step, and the inode a process has open
is distinct from the inode the path names.

## 3. Runs

| Run | Instance | Checks |
|---|---|---|
| `factor_slices` | scale 9 (two places of base 3), limit 60, 40 bytes, every text up to 64 and three digits | types; extra bytes are those of one single tick; texts are exact |
| `tick_sqlite` | two traffic ids for one email, one direction, three factors, limit 4 | types; conservation; factored at most once; not overcharged; ledger; nothing forgiven; nothing factored for a suspended period |
| `tick_postgres` | two clients, two emails, renames, rows held again and again, fairness | conservation; factored at most once; nothing forgiven; what is pending settles |
| `lock` | three daemons, three lock files, two kills, fairness | types; the file names its holder; exclusive unless removed; recovers |
| `lock_race` | two daemons | *violated*: finding 1 |
| `policies` | two ids, two emails, two inbounds, up to two legacy rows | types and index; one active row per client; repair follows; no resurrection |
| `rules_all` | two clients, one inbound, two factors, two rules, all kinds | types; one owner; ticks can decide; ticks settle; explain and status agree with ticks |
| `rules_scopes` | two ids, two emails, scopes, pause-all and resume-all, fairness | one owner; scopes cover |
| `rules_reenable` | one email, two ids, two rules | *violated*: finding 2 |
| `rules_superseded` | two ids, two emails, one scope and one rule | *violated*: finding 3 |
| `daemon` | a daemon and commands; window 2, grace 2, retention 1, lag 1; two events | types; the journal tells; cleanup keeps up |
| `startup` | two processes; every configuration, every old schema, two names in two seconds | types; follows the panel; upgrades complete; backups kept; only 3.x panels |

Bounds and why they are enough.

* *Texts.*  Scale 9 is two places of base 3, so fractions shorter than, as long
  as and longer than the places occur; with the limit 60 the largest whole part
  (6) leaves sums that wrap and sums that do not, and 61..64 fail to parse.
* *Bytes.*  Two or three bytes per direction with a scale of 3 and factors 3/3,
  4/3 and 5/3 give every remainder, a product below one byte, a factor of one
  and a carried byte; limits of 4 and 60 are reached, so overflow aborts occur.
  `tick_postgres` uses whole factors (scale 1): it is about interleaving.  The
  runs have one direction, since a tick treats the two alike and the theorems
  have both.  The bound on bytes plays no part in `PendingSettles`: the panel can
  hold a row, and do nothing with it, without end.
* *Clients.*  Two: one to abort, defer or rename while the other is in
  progress; two traffic ids for one email are a client deleted and recreated.
  `tick_postgres` has no `create`, to stay small: there a client comes back when
  it is deleted and the other one takes its email.
* *Rules.*  `pause-all` and `resume-all` are in `rules_scopes` only; adding them
  to the commands of `RulesAll.cfg` passes too, in about twice the time.
  Two rules compete for two clients.  A third adds another rank but
  no further kind of conflict: a conflict is between two.
* *Policies.*  Two legacy rows of one client under different inbounds or ids,
  and a third row for the other email.
* *Time.*  Only the order of ages and limits matters, and ages are capped beyond
  all of them.  A lag of one unit lets a reading be old in every comparison; a
  grace of two and a retention of one make the two limits differ; two processes
  tick, because the daemon and one command are enough to interleave.  Events do
  not influence each other; `MaxEvents` is two, so that a cleanup can take one
  and leave one.
* *Startup.*  Processes meet only in a database's write lock and in a backup's
  name, which two can dispute.  `Scenes` split the initial states: every
  configuration in front of current databases with one process, every old schema
  with the plain configuration, backups of a current panel (`Cast`); what a
  process resolves does not depend on a schema, nor a migration on how its
  database was found.  `MaxSuffix` and `MaxSecond` are one, so names run out
  (`BackupNoName`) and a second ends between two picks.
* *Locks.*  Three daemons and three files: a stop, a start on the old file and
  a start on a new one.  When the bound on files is used up nothing can start,
  hence `CHECK_DEADLOCK FALSE` for the lock runs and `Exhausted` in
  `LockRecovers`.

Symmetry (`MCRules`) permutes emails and factors, which the code only compares;
traffic ids, inbounds of policies and rule ids are ordered by the code and are
not permuted.  It is off in the run with a liveness property.

Every property has a mutant in `PROJECT.json`: an operator marked `Mutant` next
to the definition it replaces, a bug that code could plausibly have, under
which TLC finds the property violated.

## 4. Fairness

* `TickTx!FairSpec`: weak fairness of the tick's steps (the run loop ticks for
  ever and an error does not end it; systemd restarts a dead daemon).  That is
  not enough for progress: a daemon may crash in every tick, and `SKIP LOCKED`
  skips a row that the panel holds whenever a tick comes by.  The code excludes
  neither, so `PendingSettles` has both as its hypothesis (`Undisturbed`): from
  some time on no tick is cut off, and a client that is skipped again and again
  is also locked again and again.  Without either half TLC finds the client that
  is never factored.  The locks, commands and renames of other clients are under
  no hypothesis, and the panel need not end its transactions.
* `Rules!FairSpec`: weak fairness of the tick, spelled out with `TickHasWork`
  because TLC evaluates `ENABLED` of that action too slowly; of `Cleanup`
  (`auto_cleanup` is on by default and runs after ticks); and of the passing of
  the grace period.
* `ProcessLock!FairSpec`: a process that has begun to start or to close goes
  on, and systemd starts a stopped one again.  No running daemon need stop.

Operators and the panel are never obliged to act.  `Daemon` and `Startup` claim
nothing about the scheduler: what `Daemon` says about cleanup is conditional on
a tick and its cleanup having succeeded in the last unit of time (`kept`).

## 5. What the violations show

1. `lock_race`.  `Close` unlocks, closes and then removes the *path*.  A daemon
   that opened the file before the removal and locks it after the unlock holds
   a lock on an unlinked file; the next start creates a new file and runs as
   well.  Ticks of the two are still serialised by the database.  Killed
   daemons do not lead there (`ExclusiveUnlessRemoved`).
2. `rules_reenable`.  Delete, recreate, `enable` before a reconciliation: the
   old rule is relinked onto the row the new rule owns, the decision has two
   equal candidates, and this tick and all following ones abort for every
   client.
3. `rules_superseded`.  A scope tracks a client, which is renamed to the email of
   another one that has its own rule and was deleted.  Reconciliation relinks
   that rule onto the renamed client and finds that the scope has a row for its
   traffic id, but not that the row is of the old email; the rule is merged
   (`engine/reconcile.go:340`), and the client is factored by nobody until the
   stale row was marked, kept for the grace period and pruned.
   `docs/releases/v0.2.2-beta.md:6` speaks of a scope that "already covers the
   same clients".

Known limits.  Each was met while modelling; where a property is narrower than
one would first write it, this is why.

* *Excludes on PostgreSQL* (`engine/reconcile.go:89`).  A client recreated
  between the policy repair and the enrolment of one tick is enrolled while its
  exclude names the old row, and what it counts before the next repair is
  factored.  `SuspendedNotFactored` is therefore checked on SQLite; setting
  `Backend` to `"postgres"` in `TickSqlite.cfg` shows it.  It is also checked
  without renames: the documentation treats a renamed client as another client.
* *Reissued policies* (`store/excludes.go:30`, `store/overrides.go:34`).  With
  two inactive rows of a client under different inbounds, left by an older
  release, `exclude` and `override` pick the newer and move it onto the triple
  of the other, which the UNIQUE index rejects (`UpsertCollides`).
* *Drifted inbounds* (`store/overrides.go:183`).  The repair goes through
  duplicates in the order of their inbounds, so which factor survives depends
  on it; `RepairFollows` says only that one active row does.
* *Deletions.*  `rules_all` has none, because they lead to findings 2 and 3.
  `Clear` in `RulesProofs` is the condition on the row a rule returns to that
  excludes both; the theorems that assume it have deletions.
* *Paused rules* (`store/cleanup.go:196`).  Ticks do not revive a client of a
  paused rule that was marked missing and has returned; cleanup prunes it.  A
  paused single-user rule does not own its client either: an active scope
  enrolls it at the next tick, and `resume` is then refused.
* *Disabled clients.*  A tick goes on factoring a disabled client that a scope
  without `include_disabled_clients` tracks, while explain promises it nothing
  (`docs/OPERATIONS.md:218`); `ExplainAgrees` leaves such clients out.  The rule
  list counts clients of paused rules too; `StatusAgrees` is about active ones.
* *A silent master* (`daemon/tick.go:98`, `README.md:25`).  A refused tick leaves
  the baselines alone: once a master has not pushed for the whole window, the
  node's next tick factors everything since its last one, what the master has
  taken included; so is what a node counts before the first push.  While pushes
  arrive the window test itself keeps the node from factoring, and nothing says
  who owns the bytes afterwards, so no property is stated.
* *Two periods.*  Automatic cleanups are a grace period apart and prune marks a
  grace period old, so a mark can live for almost two, and longer while ticks
  fail.  Ages are those of the clock reading stored with a row, which is up to
  `MaxLag` old when the row is written: a mark or an event may be written after
  a cleanup with an age that was beyond its limit already, so a limit shorter
  than the wait counts as the wait in `CleanupKeepsUp`.
* *Backups of one second* (`store/backup.go:125`, `:37`).  Two backups can pick
  one name before either creates the file; the one that fails removes what the
  other has reported.  `BackupKept` leaves such names (`raced`) out.
* *A moved panel* (`cli/cli.go:1291`).  The daemon resolves its database once and
  works on the old one until it is restarted.
* *`--database`* is applied after the configuration was validated and does not
  rescue an invalid one (`Resolve`).
* *Read-only commands* do not migrate: on the schema of an old release they
  report an SQL error.  `UpgradeCompletes` is about commands that write.

## 6. Proofs

Every theorem holds for every value of the constants: any number of clients,
inbounds, rules, processes, bytes, times.  Each invariant theorem rests on an
inductive invariant `IInv` of its module (in `RulesProofs` and `PoliciesProofs`
stated about the tables as one transaction after another sees them), with a
lemma per action for its preservation.

| Theorem | Property | Inductive invariant |
|---|---|---|
| `SlicesTypeOK`, `ChargeIsExact`, `SliceIndependence` | types; `ExactFactor`; two ticks equal one | `TypeOK`, `Accounted` |
| `TextExact`, `TextImplementsSlices`, `TextChargeIsExact` | `TextIsExact`; the counter beside the texts implements `FactorSlices`; its types and `ExactFactor` | `TextIsExact` itself |
| `TickTypeOK`, `TickConserves`, `TickFactorsOnce`, `TickNotOvercharged`, `TickForgivesNothing`, `TickImplementsLedger`, `TickSparesSuspended` | types; `CounterConservation`; `FactoredAtMostOnce`; `NotOvercharged`; `NoByteForgiven`; `ImplementsLedger`; `SuspendedNotFactored` | `TypeOK`, `Shape`, `Accounted` |
| `PoliciesTypeOK`, `PoliciesOneActive`, `PoliciesRepairFollows`, `PoliciesNoResurrection` | types and index; `OneActivePerClient`; `RepairFollows`; `NoResurrection` | `TypeOK`, `EmailsDistinct`, `OneActive` |
| `RulesTypeOK`, `RulesRelinkOnly`, `RulesOneOwner`, `RulesTickCanDecide`, `RulesTickSettles`, `RulesMergeKeepsCoverage`, `RulesStatusAgrees`, `RulesExplainAgrees`, `RulesRecovered` | types; `OneOwner`, also as an action property; `TickCanDecide`; `TickSettles`; `MergeKeepsCoverage`; `StatusAgrees`; `ExplainAgrees` | `PanelOK`, `Typed`; `Owned` while `Clear` |
| `RulesClear`, `RulesSeparate` | the same without deletions or without `enable`, with no further hypothesis | `Enabled`, `NoneLost` |
| `DaemonTypeOK`, `DaemonJournalTells`, `DaemonCleansUp` | types; `JournalTells`; `CleanupKeepsUp` | `TypeOK`, `MemoryTells`, `Pruned` |
| `StartupTypeOK`, `StartupUpgrades`, `StartupFollowsPanel`, `StartupKeepsBackups`, `StartupOnlyPanel3` | types; `UpgradeCompletes`; `FollowsPanel`; `BackupKept`; `OnlyPanel3` | `TypeOK`, `SettingsKnown`, `Live`, `Checked`, `Migrating`, `Resolved`, `Unraced` and the two invariants themselves |
| `LockTypeOK`, `LockHolderNamed`, `LockExcludes` | types; `HolderNamed`; `ExclusiveUnlessRemoved` | `TypeOK`, `FilesExist`, `FlockHeld`, `PidWritten` |

**Arithmetic** (`FactorProofs`).  `ExactFactor` speaks of a quotient and is not
inductive: from the truncated quotient alone the next tick's quotient cannot be
computed.  `Accounted` says without division that extra bytes times scale *plus
the stored remainder* is the exact product of the bytes factored and the factor.
A tick adds the same amount to both sides because quotient and remainder
determine the dividend (`CalculateExtraExact`), and a remainder below the scale
gives the quotient back by uniqueness of division (`DivUnique`).

**Texts** (`FactorProofs`).  `Power` and the value `ParseInt` computes are
recursive functions on an initial segment of the naturals.  `SolvedExists` shows
that such equations have a solution, by an induction over the *set* of lengths
for which they do, so the functions satisfy their own equations (`PowerStep`,
`ParseIntSteps`); the same form of induction gives the rest.  Digits read so far
are below the power of their number (`FractionBound`), hence a fraction is below
the scale.  The digits `FormatFactor` prints are the quotients by falling
powers, and reading them digit after digit gives those quotients back one by one
(`DigitsValue`, with `DivDiv` for the quotient of a quotient); zeros cut off on
the right are the ones padding adds (`FormatFractionExact`).  A sum that wraps
around comes out below the scale, since the whole part was limited before, so the
test that says "greater than or equal to 1" refuses it (`AcceptedExact`).

**The tick transaction** (`TickProofs`).  What is promised about the tables
follows from what the open transaction has read and staged.  `Shape`: only a row
that is locked has a staged write or is `current`, and nobody else changes it.
`Accounted`: every baseline is `Sound` (what was charged and what is above it do
not exceed what was counted; extra bytes and the carried remainder are within a
byte of what is due), and every staged write may be committed (`Staged`) on top
of the row as it is now.  A refreshed, overwritten or abandoned baseline only
passes over bytes, and so stays sound.  The refinement of `Ledger` needs one
more fact: a commit charges exactly the staged deltas of the locked rows.
`TickSparesSuspended` carries a second invariant (`SuspendedInv`: a baseline is
above the bytes counted in a suspension or the client is still suspended, and
the open tick's excludes name the rows of their emails) and has two hypotheses,
SQLite and no renames: section 5 says why.

**Policies** (`PoliciesProofs`).  The repair loops over a list it computed
before, and each round may deactivate or move rows that later rounds visit.  The
loop is a recursive function over the rest of the list, shown to exist by
well-founded induction (`RepairedIs`); `Repairing` is its loop invariant: rows of
the list not reached yet are as they were, and every other active row of the
email is on the client's current row.  From it: the UNIQUE index is never hit,
one active row is left, and other emails are untouched.

**Rules** (`RulesProofs`).  An operation is a composition of functions on the
tables, so the lemmas are about those functions: a step `Preserves` the types and
one owner (`Owned`), `Keeps` every scope and leaves the client of every rule it
merges in a scope (`MergeKept`), and *settles* the rule it visits.  Rules that
were settled stay settled while the loop goes on (`SettledStays`), enrolment
fills the scopes (`Full`) and settles nothing anew, and the marks agree with the
panel (`Marked`): a tick on such tables is the identity (`TickSettlesAt`).  With
one owner, the candidates of a client are one rule's and its policies', and
`OwnerDecides` computes the decision that the tick, explain and the rule list
then share.

`RulesTypeOK`, `RulesRelinkOnly` and `RulesRecovered` have no hypothesis.  The
others are about the behaviours in which `Clear` holds throughout: when the
client of an active single-user rule was deleted and there is a row with its
email, no other single-user rule owns that row or waits for it too, and a scope
or snapshot that owns it does so under the row's current email.  Deletions,
re-creations, `enable` and relinking are all in these behaviours.  A rule
relinked onto a free row is its only owner (`RelinkSafe`); on the row of a scope
or snapshot it gives way in the same transaction, merged or orphaned
(`RelinkGivesWay`).  `Clear` is a hypothesis and no invariant because the panel
and the operator can end it: `enable` of a recreated client, before a tick has
relinked the rule of the deleted one, is finding 2.  `RulesRelinkOnly` says that
nothing else leads to a second owner: a step from a state that is `Clear` never
does; `RulesRecovered` that the trouble leaves no trace: in any later state with
one owner per client that is `Clear`, the next tick decides and settles, and
explain and status agree with it.  Where the panel deletes no clients, or the
operator gives no `enable` (`Separate`), no single-user rule loses its row
(`NoneLost`) and `Clear` follows (`RulesClear`); `RulesSeparate` collects what
holds there. 

**Daemon** (`DaemonProofs`).  `MemoryTells` ties the journal to the last error
in memory.  `Pruned`
bounds the ages of marks and events by the age of the last cleanup, also when
that age is at its cap, as long as the last unit of time was served; from the
bound of the two periods alone the next unit cannot be concluded.

**Startup** (`StartupProofs`).  `Migrating` says what the first `n` statements of
a migration have brought about (`Reached`), hence that statement `n + 1` finds
its columns; `Checked` that a 3.x panel stays one, so the check before the
transaction still holds in it; `Unraced` that two backups under way share a path
only if both picked it before either created it.

**Lock** (`LockProofs`).  `FlockHeld` identifies the owner of an inode's lock
with the process between its two system calls; while only one inode was created
(`FilesExist`) all running daemons would hold the same one.

Assumptions.  They are the `ASSUME`s of the modules, which TLC evaluates in every
run: sizes and times are naturals (`FactorScale` and the periods positive), ids
are naturals because the code orders by them, factors are at least one
(`ParseFactor` rejects others), `NoRow`, `NoFile` and `Nobody` are none of the
values they stand beside, nor are `NotDigits` and `NoDot` digits or numbers,
`FactorScale` is the base to the power of the places, and the panel has finitely
many clients in `Rules`.

Only model-checked:

* liveness: `LockRecovers`, `ScopeCovers`, `PendingSettles`;
* `ENABLED`, which `Rules!FairSpec` therefore spells out as `TickHasWork`; that
  this is `ENABLED <<Tick>>_vars` follows from the definition of `Tick` by eye.

## 7. Not modelled

* Argument parsing, output and wording of the command line; what the commands do
  is in `Rules`, `Policies`, `TickTx`, `Daemon` and `Startup`.
* The counting queries of `doctor` and `status` beyond `StatusAgrees`, and
  redaction: they format what they read.
* SQL text and placeholders of the two dialects; the transaction and locking
  behaviour the dialects give is in `TickTx`, `Policies` and `Startup`.
* The environment of `pg_dump`, permissions of files other than the database.
* Values of durations: a configuration is sound or not.
* Rows in `Startup`: a migration that creates a UNIQUE index relies on tables
  without two rows for one key, which the tables' own constraints guarantee.
  `Policies` has the rows the deduplication changes.
* `factor_on_managed_node`: `Daemon` has it off, its default; on, no tick
  is refused as `"managed"`.
* Types and messages of audit events, hence which message `AddEventOnce` finds:
  it looks and inserts in one serialised transaction.
* Installers, the service unit, the program's entry and its version strings; the
  restart systemd does is the fairness of `ProcessLock`.
* Details left out of modelled parts: `limited_only`, a filter of the same shape
  as `include_disabled_clients`; dry runs; notes; the inbound column of a tracked
  client, which nothing decides on.
* Commands are single steps also on PostgreSQL, where the panel could commit
  between two statements of a command.

## 8. Plan

All safety properties of the passing runs are proved.  Next:

1. `Rules` once `Clear` has been broken and a client has two owners: by which
   commands, ticks or cleanup it comes to one again, as a property of a run
   before it is a theorem.
2. The composition of `Policies` and `Effective`: the policies that
   `ExplainAgrees` quantifies over, as the rows that `RepairFollows` leaves.
