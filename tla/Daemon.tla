------------------------------- MODULE Daemon -------------------------------
(***************************************************************************)
(* The daemon in time: its loop and journal (src/internal/daemon/run.go),  *)
(* the check that no master manages the panel (store/panel.go), automatic  *)
(* cleanup (store/cleanup.go) and the audit log it prunes.  `factor tick`  *)
(* and `factor cleanup` may run beside it; every transaction is one step.  *)
(*                                                                         *)
(* Stored times are kept as ages, which time makes grow up to a cap beyond *)
(* every limit they are compared with, so behaviours have no end.  Of the  *)
(* tracked clients the model has one, which comes and goes, and of the     *)
(* audit log the ages of its events.                                       *)
(***************************************************************************)
EXTENDS Integers, FiniteSets

CONSTANTS
    Window,         \* managedPanelWindow, in units of time
    Grace,          \* missing_client_grace, also the interval of cleanups
    Retention,      \* audit_retention
    MaxLag,         \* bound: time a transaction waits for the database
    MaxEvents       \* bound: ages of events in the audit log at once

ASSUME TimesAssumption ==
    {Window, Grace, Retention} \subseteq Nat \ {0} /\ {MaxLag, MaxEvents} \subseteq Nat

Process == {"daemon", "command"}
Errors == {"managed", "busy", "conflict"}

Larger(a, b) == IF a > b THEN a ELSE b
AgeCap == Grace + MaxLag + 1 + Larger(MaxLag, Larger(Grace, Retention))
CleanCap == Grace + MaxLag              \* cleaned long ago, or never
PushCap == Window + MaxLag + 1          \* pushed long ago, or never
Age == 0..AgeCap

VARIABLES
    phase,          \* what each process is doing
    lag,            \* age of the clock reading (r.now) each tick works with
    lastTickError,  \* Runner.lastTickError, "" for none
    present,        \* the panel has the client
    row,            \* the client's row in xui_factor_rule_clients
    cleaned,        \* age of last_auto_cleanup_at
    events,         \* ages of the rows of xui_factor_events
    pushed          \* age of the newest client_global_traffics row

(* What the journal and time have shown. *)
VARIABLES
    outcome,        \* ghost: result of the daemon's last tick
    journal,        \* last line about it since the daemon started
    served,         \* ghost: a tick and its cleanup succeeded in this unit
    kept            \* ghost: the last unit of time was served

memory == <<phase, lag, lastTickError, outcome, journal>>
tables == <<row, cleaned, events>>
panel  == <<present, pushed>>
health == <<served, kept>>
vars   == <<memory, tables, panel, health>>

Row == [tracked : BOOLEAN, marked : BOOLEAN, age : Age]
NoRow == [tracked |-> FALSE, marked |-> FALSE, age |-> 0]
Tracked == [NoRow EXCEPT !.tracked = TRUE]

Init ==
    /\ phase = [p \in Process |-> "down"] /\ lag = [p \in Process |-> 0]
    /\ lastTickError = "" /\ outcome = "none" /\ journal = "none"
    /\ present = TRUE /\ pushed \in {0, PushCap}
    /\ row = NoRow /\ cleaned = CleanCap /\ events = {}
    /\ served = FALSE /\ kept = FALSE

-----------------------------------------------------------------------------
(* MarkRuleClientMissing at a clock reading that is l units old. *)
Mark(r, l) == IF r.marked THEN r ELSE [r EXCEPT !.marked = TRUE, !.age = l]

(* Mutant: the mark is written without looking for the row. *)
TickedRowMarks(l) == IF present THEN Tracked ELSE Mark(row, l)

(* What a tick's transaction does to the client's row. *)
TickedRow(l) ==
    IF present THEN Tracked ELSE IF row.tracked THEN Mark(row, l) ELSE row

(* The logs AddEvent can leave at a clock reading l units old. *)
AddEvent(log, l) == {new \in {log \cup {l}} : Cardinality(new) <= MaxEvents}

(* A transaction may audit something, about this client or any other, or   *)
(* nothing; so may AddEventOnce, which looks for the message first.        *)
Audited(log, l) == {log} \cup AddEvent(log, l)

(* panelRoleWith: updated_at >= now - window. *)
Managed(l) == pushed - l <= Window

StartTick(p) ==
    /\ phase[p] \in {"idle"} \cup (IF p = "command" THEN {"down"} ELSE {})
    /\ phase' = [phase EXCEPT ![p] = "started"]
    /\ lag' = [lag EXCEPT ![p] = 0]
    /\ UNCHANGED <<lastTickError, outcome, journal, tables, panel, health>>

(* Tick's transaction commits ... *)
TickCommits(p) ==
    /\ phase[p] = "started" /\ ~Managed(lag[p])
    /\ phase' = [phase EXCEPT ![p] = "cleanup"]
    /\ row' = TickedRow(lag[p])
    /\ events' \in Audited(events, lag[p])
    /\ UNCHANGED <<lag, lastTickError, outcome, journal, cleaned, panel, health>>

(* ... or rolls back. *)
TickFails(p, e) ==
    /\ phase[p] = "started"
    /\ e = "managed" <=> Managed(lag[p])
    /\ phase' = [phase EXCEPT ![p] = e]
    /\ UNCHANGED <<lag, lastTickError, outcome, journal, tables, panel, health>>

-----------------------------------------------------------------------------
(* Cleanup at a clock reading l units old: mark, then prune. *)
CleanedRow(l) ==
    LET marked == IF row.tracked /\ ~present THEN Mark(row, l) ELSE row
    IN  IF marked.marked /\ marked.age - l >= Grace THEN NoRow ELSE marked

(* Events written meanwhile are l old and stay: no retention is zero. *)
CleanedEvents(l, retention) == {age \in events : age - l < retention}

(* last_auto_cleanup_at is missing, or a grace period old. *)
Due(l) == cleaned - l >= Grace

(* Mutant: last_auto_cleanup_at is set whether or not cleanup was due. *)
AutoCleanupStamps(p) ==
    /\ phase[p] = "cleanup"
    /\ IF Due(lag[p])
       THEN /\ row' = CleanedRow(lag[p])
            /\ events' \in Audited(CleanedEvents(lag[p], Retention), lag[p])
            /\ cleaned' = lag[p]
       ELSE cleaned' = lag[p] /\ UNCHANGED <<row, events>>
    /\ phase' = [phase EXCEPT ![p] = "ok"]
    /\ served' = TRUE
    /\ UNCHANGED <<lag, lastTickError, outcome, journal, panel, kept>>

(* AutoCleanup, with the clock reading of the tick before it. *)
AutoCleanup(p) ==
    /\ phase[p] = "cleanup"
    /\ IF Due(lag[p])
       THEN /\ row' = CleanedRow(lag[p])
            /\ events' \in Audited(CleanedEvents(lag[p], Retention), lag[p])
            /\ cleaned' = lag[p]
       ELSE UNCHANGED tables
    /\ phase' = [phase EXCEPT ![p] = "ok"]
    /\ served' = TRUE
    /\ UNCHANGED <<lag, lastTickError, outcome, journal, panel, kept>>

(* Its failure is reported and does not fail the tick. *)
AutoCleanupFails(p) ==
    /\ phase[p] = "cleanup"
    /\ phase' = [phase EXCEPT ![p] = "ok"]
    /\ UNCHANGED <<lag, lastTickError, outcome, journal, tables, panel, health>>

(* factor cleanup [--older-than]: does not count as an automatic one. *)
CleanupCommand(l, retention) ==
    /\ row' = CleanedRow(l)
    /\ events' \in Audited(CleanedEvents(l, retention), l)
    /\ UNCHANGED <<memory, cleaned, panel, health>>

(* Any other command of the operator: of its effects, the event. *)
OtherCommand(l) ==
    /\ events' \in AddEvent(events, l)
    /\ UNCHANGED <<memory, row, cleaned, panel, health>>

-----------------------------------------------------------------------------
(* Mutant: a success does not reset lastTickError. *)
LogTickNoReset ==
    LET result == phase["daemon"]
    IN  /\ result \in {"ok"} \cup Errors
        /\ phase' = [phase EXCEPT !["daemon"] = "idle"]
        /\ outcome' = result
        /\ IF result = "ok"
           THEN /\ journal' = IF lastTickError = "" THEN journal ELSE "ok"
                /\ UNCHANGED lastTickError
           ELSE /\ journal' = IF result = lastTickError THEN journal ELSE result
                /\ lastTickError' = result
        /\ UNCHANGED <<lag, tables, panel, health>>

(* runTick: an error is logged when it is not the last one logged. *)
LogTick ==
    LET result == phase["daemon"]
    IN  /\ result \in {"ok"} \cup Errors
        /\ phase' = [phase EXCEPT !["daemon"] = "idle"]
        /\ outcome' = result
        /\ IF result = "ok"
           THEN /\ journal' = IF lastTickError = "" THEN journal ELSE "ok"
                /\ lastTickError' = ""
           ELSE /\ journal' = IF result = lastTickError THEN journal ELSE result
                /\ lastTickError' = result
        /\ UNCHANGED <<lag, tables, panel, health>>

(* `factor tick` prints its result and ends. *)
CommandEnds ==
    /\ phase["command"] \in {"ok"} \cup Errors
    /\ phase' = [phase EXCEPT !["command"] = "down"]
    /\ UNCHANGED <<lag, lastTickError, outcome, journal, tables, panel, health>>

(* Run: the Runner is new, its first tick follows at once. *)
Run ==
    /\ phase["daemon"] = "down"
    /\ phase' = [phase EXCEPT !["daemon"] = "idle"]
    /\ lastTickError' = "" /\ outcome' = "none" /\ journal' = "none"
    /\ UNCHANGED <<lag, tables, panel, health>>

(* A crash, or a signal that cancels the tick: an open transaction is      *)
(* rolled back, a committed one stays.                                     *)
Stop(p) ==
    /\ phase[p] # "down"
    /\ phase' = [phase EXCEPT ![p] = "down"]
    /\ UNCHANGED <<lag, lastTickError, outcome, journal, tables, panel, health>>

-----------------------------------------------------------------------------
(* The panel loses the client or has it again, and a master that manages   *)
(* the panel pushes the usage of its clients.                              *)
ClientToggle ==
    /\ present' = ~present
    /\ UNCHANGED <<memory, tables, pushed, health>>

MasterPushes ==
    /\ pushed' = 0
    /\ UNCHANGED <<memory, tables, present, health>>

(* A unit of time passes; nobody waits longer than MaxLag for a lock. *)
Older(age, cap) == IF age < cap THEN age + 1 ELSE cap

TimePasses ==
    /\ \A p \in Process : phase[p] \in {"started", "cleanup"} => lag[p] < MaxLag
    /\ lag' = [p \in Process |->
                  IF phase[p] \in {"started", "cleanup"} THEN lag[p] + 1 ELSE 0]
    /\ row' = IF row.marked THEN [row EXCEPT !.age = Older(@, AgeCap)] ELSE row
    /\ cleaned' = Older(cleaned, CleanCap)
    /\ events' = {Older(age, AgeCap) : age \in events}
    /\ pushed' = Older(pushed, PushCap)
    /\ kept' = served /\ served' = FALSE
    /\ UNCHANGED <<phase, lastTickError, outcome, journal, present>>

Next ==
    \/ \E p \in Process :
          \/ StartTick(p) \/ TickCommits(p) \/ AutoCleanup(p) \/ AutoCleanupFails(p)
          \/ \E e \in Errors : TickFails(p, e)
          \/ Stop(p)
    \/ LogTick \/ CommandEnds \/ Run
    \/ \E l \in 0..MaxLag :
          \/ \E retention \in {1, Retention} : CleanupCommand(l, retention)
          \/ OtherCommand(l)
    \/ ClientToggle \/ MasterPushes \/ TimePasses

Spec == Init /\ [][Next]_vars

-----------------------------------------------------------------------------
(* A mark is on a row that exists. *)
TypeOK ==
    /\ phase \in [Process -> {"down", "idle", "started", "cleanup", "ok"} \cup Errors]
    /\ lag \in [Process -> 0..MaxLag]
    /\ lastTickError \in {""} \cup Errors
    /\ {present, served, kept} \subseteq BOOLEAN
    /\ row \in Row /\ (row.marked => row.tracked)
    /\ cleaned \in 0..CleanCap /\ pushed \in 0..PushCap
    /\ events \subseteq Age
    /\ outcome \in {"none", "ok"} \cup Errors
    /\ journal \in {"none", "ok"} \cup Errors

(* "runTick logs a repeating error once": although most ticks log nothing, *)
(* the last line of the journal about ticks tells how the last one ended,  *)
(* with the error it met, through every sequence of errors and recoveries  *)
(* and every restart.                                                      *)
JournalTells ==
    CASE outcome \in Errors -> journal = outcome
      [] outcome = "ok" -> journal \in {"none", "ok"}
      [] outcome = "none" -> journal = "none"

(* "Missing client tracking is pruned after the grace period", by cleanups *)
(* that are themselves a grace period apart: after a unit of time in which *)
(* a tick and its cleanup have succeeded, whatever was restarted in        *)
(* between, no mark is older than the two periods and no event older than  *)
(* its retention and one.  A limit shorter than a tick may wait for the    *)
(* database is no shorter than that wait, since a mark or an event may be  *)
(* written with an old clock reading after the cleanup.                    *)
CleanupKeepsUp ==
    kept =>
        /\ row.marked => row.age < Grace + MaxLag + Larger(Grace, MaxLag + 1)
        /\ \A age \in events : age < Grace + MaxLag + Larger(Retention, MaxLag + 1)
=============================================================================
