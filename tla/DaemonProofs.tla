---------------------------- MODULE DaemonProofs ----------------------------
(***************************************************************************)
(* Theorems about the daemon in time, for every window, grace period,      *)
(* retention and waiting time.                                             *)
(***************************************************************************)
EXTENDS Daemon, TLAPS

(* The journal's last line follows from the last error in memory, and that *)
(* from the last tick.                                                     *)
MemoryTells ==
    /\ outcome \in Errors => lastTickError = outcome /\ journal = outcome
    /\ outcome = "ok" => lastTickError = "" /\ journal \in {"none", "ok"}
    /\ outcome = "none" => lastTickError = "" /\ journal = "none"

(* What a cleanup has left is not much older than the cleanup itself, as   *)
(* long as the age of that cleanup is known: below its cap, or at it after *)
(* a unit of time that was served.                                         *)
Bounded(limit, age) == age < cleaned + Larger(limit, MaxLag + 1)

Pruned ==
    /\ served => cleaned < CleanCap
    /\ kept \/ cleaned < CleanCap =>
          /\ row.marked => Bounded(Grace, row.age)
          /\ \A age \in events : Bounded(Retention, age)

(* The type invariant, by the groups of variables. *)
TypeMemory ==
    /\ phase \in [Process -> {"down", "idle", "started", "cleanup", "ok"} \cup Errors]
    /\ lag \in [Process -> 0..MaxLag]
    /\ lastTickError \in {""} \cup Errors
    /\ outcome \in {"none", "ok"} \cup Errors
    /\ journal \in {"none", "ok"} \cup Errors

TypeTables ==
    /\ row \in Row /\ (row.marked => row.tracked)
    /\ cleaned \in 0..CleanCap
    /\ events \subseteq Age
    /\ served \in BOOLEAN /\ kept \in BOOLEAN

TypePanel == present \in BOOLEAN /\ pushed \in 0..PushCap

IInv == TypeOK /\ MemoryTells /\ Pruned

-----------------------------------------------------------------------------
LEMMA CapsNat ==
    /\ AgeCap \in Nat /\ CleanCap \in Nat /\ PushCap \in Nat
    /\ Window \in Nat /\ Grace \in Nat /\ Grace > 0 /\ Retention \in Nat
    /\ MaxLag \in Nat /\ MaxLag < AgeCap /\ Grace + MaxLag = CleanCap
    /\ PushCap = Window + MaxLag + 1
BY TimesAssumption DEF AgeCap, CleanCap, PushCap, Larger

LEMMA LagAge == 0 \in Age /\ \A l \in 0..MaxLag : l \in Age /\ l \in Nat
BY CapsNat DEF Age

LEMMA AgeNat == \A a \in Age : a \in Nat /\ a <= AgeCap
BY CapsNat DEF Age

LEMMA NoRowType == NoRow \in Row /\ Tracked \in Row /\ ~NoRow.marked /\ ~Tracked.marked
BY LagAge DEF NoRow, Tracked, Row

LEMMA TypeParts == TypeOK <=> TypeMemory /\ TypeTables /\ TypePanel
<1>1. {present, served, kept} \subseteq BOOLEAN
      <=> present \in BOOLEAN /\ served \in BOOLEAN /\ kept \in BOOLEAN
  BY Zenon
<1> QED BY <1>1, Zenon DEF TypeOK, TypeMemory, TypeTables, TypePanel

LEMMA DaemonInit == Init => IInv
<1> SUFFICES ASSUME Init PROVE IInv OBVIOUS
<1> USE CapsNat
<1>1. present \in BOOLEAN /\ served \in BOOLEAN /\ kept \in BOOLEAN /\ ~kept /\ ~served
  BY DEF Init
<1>2. pushed = 0 \/ pushed = PushCap BY DEF Init
<1>3. events = {} /\ row \in Row /\ ~row.marked /\ cleaned = CleanCap
  BY NoRowType DEF Init
<1>5. TypeMemory /\ MemoryTells
  <2>1. 0 \in 0..MaxLag OBVIOUS
  <2> QED BY <2>1 DEF Init, TypeMemory, MemoryTells, Errors
<1>6. TypeTables BY <1>1, <1>3 DEF TypeTables
<1>7. TypePanel BY <1>1, <1>2 DEF TypePanel
<1>8. Pruned BY <1>1, <1>3 DEF Pruned
<1> QED BY <1>5, <1>6, <1>7, <1>8, TypeParts DEF IInv

-----------------------------------------------------------------------------
(* What the operators on the tables return. *)
LEMMA MarkType ==
    ASSUME NEW r \in Row, r.tracked, NEW l \in 0..MaxLag
    PROVE  /\ Mark(r, l) \in Row /\ Mark(r, l).tracked /\ Mark(r, l).marked
           /\ Mark(r, l).age = IF r.marked THEN r.age ELSE l
<1>1. CASE r.marked BY <1>1 DEF Mark
<1>2. CASE ~r.marked
  <2>1. l \in Age BY LagAge
  <2> QED BY <1>2, <2>1 DEF Mark, Row
<1> QED BY <1>1, <1>2

LEMMA TickedRowType ==
    ASSUME TypeOK, NEW l \in 0..MaxLag
    PROVE  /\ TickedRow(l) \in Row
           /\ TickedRow(l).marked => /\ TickedRow(l).tracked
                                     /\ TickedRow(l).age \in {l, row.age}
                                     /\ TickedRow(l).age = l \/ row.marked
<1> USE CapsNat
<1>1. CASE present BY <1>1, NoRowType DEF TickedRow
<1>2. CASE ~present /\ row.tracked
  <2>1. row \in Row BY DEF TypeOK
  <2>2. TickedRow(l) = Mark(row, l) BY <1>2 DEF TickedRow
  <2>3. /\ Mark(row, l) \in Row /\ Mark(row, l).tracked
        /\ Mark(row, l).age = IF row.marked THEN row.age ELSE l
    BY <1>2, <2>1, MarkType
  <2> QED BY <2>2, <2>3
<1>3. CASE ~present /\ ~row.tracked BY <1>3 DEF TickedRow, TypeOK
<1> QED BY <1>1, <1>2, <1>3

(* A cleanup leaves no mark of a grace period and no event of its          *)
(* retention, counted from its clock reading.                              *)
LEMMA CleanedRowType ==
    ASSUME TypeOK, NEW l \in 0..MaxLag
    PROVE  /\ CleanedRow(l) \in Row
           /\ CleanedRow(l).marked => /\ CleanedRow(l).tracked
                                      /\ CleanedRow(l).age - l < Grace
                                      /\ CleanedRow(l).age \in {l, row.age}
                                      /\ CleanedRow(l).age = l \/ row.marked
<1> USE CapsNat
<1> DEFINE marked == IF row.tracked /\ ~present THEN Mark(row, l) ELSE row
<1>1. /\ marked \in Row /\ marked.age \in {l, row.age}
      /\ marked.marked => marked.tracked /\ (marked.age = l \/ row.marked)
  <2>1. CASE row.tracked /\ ~present
    <3>1. row \in Row BY DEF TypeOK
    <3>2. /\ Mark(row, l) \in Row /\ Mark(row, l).tracked
          /\ Mark(row, l).age = IF row.marked THEN row.age ELSE l
      BY <2>1, <3>1, MarkType
    <3> QED BY <2>1, <3>2
  <2>2. CASE ~(row.tracked /\ ~present) BY <2>2 DEF TypeOK
  <2> QED BY <2>1, <2>2
<1>2. CleanedRow(l) = IF marked.marked /\ marked.age - l >= Grace THEN NoRow ELSE marked
  BY DEF CleanedRow
<1> HIDE DEF marked
<1>3. marked.age \in Nat BY <1>1, AgeNat DEF Row
<1> QED BY <1>1, <1>2, <1>3, NoRowType

LEMMA CleanedEventsType ==
    ASSUME TypeOK, NEW l \in 0..MaxLag, NEW retention \in Nat
    PROVE  /\ CleanedEvents(l, retention) \subseteq events
           /\ \A age \in CleanedEvents(l, retention) : age \in Age /\ age - l < retention
BY DEF CleanedEvents, TypeOK

(* Whatever a transaction audits has the age of its clock reading. *)
LEMMA AuditedType ==
    ASSUME NEW log, NEW l, NEW new \in Audited(log, l)
    PROVE  \A age \in new : age \in log \/ age = l
BY DEF Audited, AddEvent

-----------------------------------------------------------------------------
(* What steps change which group of variables. *)
LEMMA MemorySteps ==
    ASSUME [Next]_vars
    PROVE  \/ UNCHANGED memory
           \/ TimePasses \/ LogTick \/ Run
           \/ /\ UNCHANGED <<lastTickError, outcome, journal>>
              /\ \E p \in Process :
                    \/ StartTick(p)
                    \/ /\ lag' = lag
                       /\ \E x \in {"down", "cleanup", "ok"} \cup Errors :
                             phase' = [phase EXCEPT ![p] = x]
<1> USE DEF memory, tables, panel, health, vars
<1>1. CASE UNCHANGED vars BY <1>1
<1>2. ASSUME NEW p \in Process,
             TickCommits(p) \/ AutoCleanup(p) \/ AutoCleanupFails(p) \/ Stop(p)
      PROVE  /\ UNCHANGED <<lag, lastTickError, outcome, journal>>
             /\ \E x \in {"down", "cleanup", "ok"} \cup Errors :
                   phase' = [phase EXCEPT ![p] = x]
  BY <1>2 DEF TickCommits, AutoCleanup, AutoCleanupFails, Stop
<1>3. ASSUME NEW p \in Process, NEW e \in Errors, TickFails(p, e)
      PROVE  /\ UNCHANGED <<lag, lastTickError, outcome, journal>>
             /\ \E x \in {"down", "cleanup", "ok"} \cup Errors :
                   phase' = [phase EXCEPT ![p] = x]
  BY <1>3 DEF TickFails
<1>4. ASSUME CommandEnds
      PROVE  /\ UNCHANGED <<lag, lastTickError, outcome, journal>>
             /\ \E x \in {"down", "cleanup", "ok"} \cup Errors :
                   phase' = [phase EXCEPT !["command"] = x]
  BY <1>4 DEF CommandEnds
<1>5. ASSUME NEW l, NEW retention, CleanupCommand(l, retention) \/ OtherCommand(l)
      PROVE  UNCHANGED memory
  BY <1>5 DEF CleanupCommand, OtherCommand
<1>6. ASSUME ClientToggle \/ MasterPushes PROVE UNCHANGED memory
  BY <1>6 DEF ClientToggle, MasterPushes
<1>7. ASSUME NEW p \in Process, StartTick(p)
      PROVE  UNCHANGED <<lastTickError, outcome, journal>>
  BY <1>7 DEF StartTick
<1>8. "command" \in Process BY DEF Process
<1> HIDE DEF memory, tables, panel, health
<1>9. CASE Next
  BY <1>9, <1>2, <1>3, <1>4, <1>5, <1>6, <1>7, <1>8, Zenon DEF Next
<1> QED BY <1>1, <1>9 DEF memory

LEMMA TablesSteps ==
    ASSUME [Next]_vars
    PROVE  \/ UNCHANGED <<tables, health>>
           \/ TimePasses
           \/ \E p \in Process : TickCommits(p) \/ AutoCleanup(p)
           \/ \E l \in 0..MaxLag :
                 \/ \E retention \in {1, Retention} : CleanupCommand(l, retention)
                 \/ OtherCommand(l)
<1> USE DEF memory, tables, panel, health, vars
<1>1. CASE UNCHANGED vars BY <1>1
<1>2. ASSUME NEW p \in Process, StartTick(p) \/ AutoCleanupFails(p) \/ Stop(p)
      PROVE  UNCHANGED <<tables, health>>
  BY <1>2 DEF StartTick, AutoCleanupFails, Stop
<1>3. ASSUME NEW p \in Process, NEW e \in Errors, TickFails(p, e)
      PROVE  UNCHANGED <<tables, health>>
  BY <1>3 DEF TickFails
<1>4. ASSUME LogTick \/ CommandEnds \/ Run PROVE UNCHANGED <<tables, health>>
  BY <1>4 DEF LogTick, CommandEnds, Run
<1>6. ASSUME ClientToggle \/ MasterPushes PROVE UNCHANGED <<tables, health>>
  BY <1>6 DEF ClientToggle, MasterPushes
<1> HIDE DEF memory, tables, panel, health
<1>9. CASE Next BY <1>9, <1>2, <1>3, <1>4, <1>6, Zenon DEF Next
<1> QED BY <1>1, <1>9 DEF tables, health

LEMMA PanelSteps ==
    ASSUME [Next]_vars
    PROVE  \/ UNCHANGED panel
           \/ TimePasses \/ ClientToggle \/ MasterPushes
<1> USE DEF memory, tables, panel, health, vars
<1>1. CASE UNCHANGED vars BY <1>1
<1>2. ASSUME NEW p \in Process,
             \/ StartTick(p) \/ TickCommits(p) \/ AutoCleanup(p)
             \/ AutoCleanupFails(p) \/ Stop(p)
      PROVE  UNCHANGED panel
  BY <1>2 DEF StartTick, TickCommits, AutoCleanup, AutoCleanupFails, Stop
<1>3. ASSUME NEW p \in Process, NEW e \in Errors, TickFails(p, e)
      PROVE  UNCHANGED panel
  BY <1>3 DEF TickFails
<1>4. ASSUME LogTick \/ CommandEnds \/ Run PROVE UNCHANGED panel
  BY <1>4 DEF LogTick, CommandEnds, Run
<1>5. ASSUME NEW l, NEW retention, CleanupCommand(l, retention) \/ OtherCommand(l)
      PROVE  UNCHANGED panel
  BY <1>5 DEF CleanupCommand, OtherCommand
<1> HIDE DEF memory, tables, panel, health
<1>9. CASE Next BY <1>9, <1>2, <1>3, <1>4, <1>5, Zenon DEF Next
<1> QED BY <1>1, <1>9 DEF panel

-----------------------------------------------------------------------------
(* The processes: what runTick remembers stays what it has logged. *)
LEMMA MemoryStep ==
    ASSUME TypeMemory, MemoryTells, [Next]_vars
    PROVE  TypeMemory' /\ MemoryTells'
<1>1. CASE UNCHANGED memory BY <1>1 DEF memory, TypeMemory, MemoryTells
<1>2. ASSUME NEW p \in Process, UNCHANGED <<lastTickError, outcome, journal>>,
             \/ StartTick(p)
             \/ /\ lag' = lag
                /\ \E x \in {"down", "cleanup", "ok"} \cup Errors :
                      phase' = [phase EXCEPT ![p] = x]
      PROVE  TypeMemory' /\ MemoryTells'
  <2>1. 0 \in 0..MaxLag BY CapsNat
  <2>2. phase' \in [Process -> {"down", "idle", "started", "cleanup", "ok"} \cup Errors]
    BY <1>2 DEF TypeMemory, StartTick
  <2>3. lag' \in [Process -> 0..MaxLag] BY <1>2, <2>1 DEF TypeMemory, StartTick
  <2> QED BY <1>2, <2>2, <2>3 DEF TypeMemory, MemoryTells
<1>3. CASE LogTick
  <2>1. "daemon" \in Process BY DEF Process
  <2>2. /\ phase' \in [Process -> {"down", "idle", "started", "cleanup", "ok"} \cup Errors]
        /\ lag' = lag
    BY <1>3, <2>1 DEF LogTick, TypeMemory
  <2>3. CASE phase["daemon"] = "ok"
    BY <1>3, <2>2, <2>3 DEF LogTick, TypeMemory, MemoryTells, Errors
  <2>4. CASE phase["daemon"] \in Errors
    BY <1>3, <2>2, <2>4 DEF LogTick, TypeMemory, MemoryTells, Errors
  <2> QED BY <1>3, <2>3, <2>4 DEF LogTick
<1>4. CASE Run
  <2>1. "daemon" \in Process BY DEF Process
  <2> QED BY <1>4, <2>1 DEF Run, TypeMemory, MemoryTells, Errors
<1>5. CASE TimePasses
  <2>1. ASSUME NEW p \in Process
        PROVE  (IF phase[p] \in {"started", "cleanup"} THEN lag[p] + 1 ELSE 0) \in 0..MaxLag
    <3>1. phase[p] \in {"started", "cleanup"} => lag[p] < MaxLag
      BY <1>5 DEF TimePasses
    <3>2. lag[p] \in 0..MaxLag BY DEF TypeMemory
    <3> QED BY <3>1, <3>2, CapsNat
  <2>2. lag' \in [Process -> 0..MaxLag] BY <1>5, <2>1 DEF TimePasses
  <2> QED BY <1>5, <2>2 DEF TimePasses, TypeMemory, MemoryTells
<1> QED BY <1>1, <1>2, <1>3, <1>4, <1>5, MemorySteps

LEMMA PanelStep ==
    ASSUME TypePanel, [Next]_vars
    PROVE  TypePanel'
<1>1. CASE UNCHANGED panel BY <1>1 DEF panel, TypePanel
<1>2. CASE ClientToggle BY <1>2 DEF ClientToggle, TypePanel
<1>3. CASE MasterPushes BY <1>3, CapsNat DEF MasterPushes, TypePanel
<1>4. CASE TimePasses BY <1>4, CapsNat DEF TimePasses, TypePanel, Older
<1> QED BY <1>1, <1>2, <1>3, <1>4, PanelSteps

-----------------------------------------------------------------------------
LEMMA LargerBounds ==
    ASSUME NEW limit \in Nat
    PROVE  /\ Larger(limit, MaxLag + 1) \in Nat
           /\ limit <= Larger(limit, MaxLag + 1) /\ MaxLag < Larger(limit, MaxLag + 1)
BY CapsNat DEF Larger

(* An age that a tick writes, or that a due cleanup spares, is bounded. *)
LEMMA TickBounded ==
    ASSUME NEW c \in Nat, NEW l \in 0..MaxLag, NEW limit \in Nat
    PROVE  l < c + Larger(limit, MaxLag + 1)
BY CapsNat, LargerBounds

LEMMA SparedBounded ==
    ASSUME NEW l \in 0..MaxLag, NEW limit \in Nat, NEW age \in Nat, age - l < limit
    PROVE  age < l + Larger(limit, MaxLag + 1)
BY CapsNat, LargerBounds

(* The tables: cleanup keeps up with marks and events. *)
LEMMA TablesStep ==
    ASSUME TypeOK, TypeMemory, TypeTables, Pruned, [Next]_vars
    PROVE  TypeTables' /\ Pruned'
<1>0. ASSUME NEW p \in Process PROVE lag[p] \in 0..MaxLag BY DEF TypeMemory
<1>a. cleaned \in Nat /\ Grace \in Nat /\ Retention \in Nat BY CapsNat DEF TypeTables
<1>b. ASSUME NEW l \in 0..MaxLag
      PROVE  /\ l \in Age
             /\ l < cleaned + Larger(Grace, MaxLag + 1)
             /\ l < cleaned + Larger(Retention, MaxLag + 1)
  BY <1>a, TickBounded, LagAge
<1>1. CASE UNCHANGED <<tables, health>>
  BY <1>1 DEF tables, health, TypeTables, Pruned, Bounded
<1>2. ASSUME NEW l \in 0..MaxLag, UNCHANGED <<cleaned, served, kept>>,
             row' \in Row,
             row'.marked => row'.tracked /\ (row'.age = l \/ (row.marked /\ row'.age = row.age)),
             \A age \in events' : age \in events \/ age = l
      PROVE  TypeTables' /\ Pruned'
  <2>1. TypeTables' BY <1>2, <1>b DEF TypeTables
  <2>2. Pruned' BY <1>2, <1>b DEF Pruned, Bounded
  <2> QED BY <2>1, <2>2
<1>3. ASSUME NEW p \in Process, TickCommits(p) PROVE TypeTables' /\ Pruned'
  <2> DEFINE l == lag[p]
  <2>1. l \in 0..MaxLag BY <1>0
  <2>2. /\ row' = TickedRow(l) /\ events' \in Audited(events, l)
        /\ UNCHANGED <<cleaned, served, kept>>
    BY <1>3 DEF TickCommits, health
  <2> HIDE DEF l
  <2>3. /\ row' \in Row
        /\ row'.marked => row'.tracked /\ (row'.age = l \/ (row.marked /\ row'.age = row.age))
    BY <2>1, <2>2, TickedRowType
  <2>4. \A age \in events' : age \in events \/ age = l BY <2>2, AuditedType
  <2> QED BY <1>2, <2>1, <2>2, <2>3, <2>4
<1>4. ASSUME NEW p \in Process, AutoCleanup(p) PROVE TypeTables' /\ Pruned'
  <2> DEFINE l == lag[p]
  <2>1. l \in 0..MaxLag BY <1>0
  <2>2. served' = TRUE /\ UNCHANGED kept BY <1>4 DEF AutoCleanup
  <2>3. CASE Due(l)
    <3>1. /\ row' = CleanedRow(l) /\ events' \in Audited(CleanedEvents(l, Retention), l)
          /\ cleaned' = l
      BY <1>4, <2>3 DEF AutoCleanup
    <3> HIDE DEF l
    <3>2. row' \in Row /\ (row'.marked => row'.tracked /\ row'.age - l < Grace)
      BY <2>1, <3>1, CleanedRowType
    <3>3. ASSUME NEW age \in events'
          PROVE  age \in Age /\ age < l + Larger(Retention, MaxLag + 1)
      <4>1. age \in CleanedEvents(l, Retention) \/ age = l BY <3>1, AuditedType
      <4>2. CASE age = l
        BY <1>a, <1>b, <2>1, <4>2, CapsNat, LargerBounds
      <4>3. CASE age \in CleanedEvents(l, Retention)
        <5>1. age \in Age /\ age - l < Retention
          BY <1>a, <2>1, <4>3, CleanedEventsType
        <5> QED BY <1>a, <2>1, <5>1, AgeNat, SparedBounded
      <4> QED BY <4>1, <4>2, <4>3
    <3>4. cleaned' \in 0..CleanCap /\ cleaned' < CleanCap BY <2>1, <3>1, CapsNat
    <3>5. TypeTables' BY <2>2, <3>2, <3>3, <3>4 DEF TypeTables
    <3>6. row'.age \in Nat BY <3>2, AgeNat DEF Row
    <3>7. row'.marked => row'.age < l + Larger(Grace, MaxLag + 1)
      BY <1>a, <2>1, <3>2, <3>6, SparedBounded
    <3>8. Pruned' BY <3>1, <3>3, <3>4, <3>7 DEF Pruned, Bounded
    <3> QED BY <3>5, <3>8
  <2>4. CASE ~Due(l)
    <3>1. UNCHANGED tables BY <1>4, <2>4 DEF AutoCleanup
    <3>2. cleaned < CleanCap
      <4>1. ~(cleaned - l >= Grace) BY <2>4 DEF Due
      <4> HIDE DEF l
      <4> QED BY <1>a, <2>1, <4>1, CapsNat
    <3> QED BY <2>2, <3>1, <3>2 DEF TypeTables, Pruned, Bounded, tables
  <2> QED BY <2>3, <2>4
<1>5. ASSUME NEW l \in 0..MaxLag, NEW retention \in {1, Retention},
             CleanupCommand(l, retention)
      PROVE  TypeTables' /\ Pruned'
  <2>1. retention \in Nat BY CapsNat
  <2>2. /\ row' = CleanedRow(l) /\ events' \in Audited(CleanedEvents(l, retention), l)
        /\ UNCHANGED <<cleaned, served, kept>>
    BY <1>5 DEF CleanupCommand, health
  <2>3. /\ row' \in Row
        /\ row'.marked => row'.tracked /\ (row'.age = l \/ (row.marked /\ row'.age = row.age))
    BY <2>2, CleanedRowType
  <2>4. CleanedEvents(l, retention) \subseteq events BY <2>1, CleanedEventsType
  <2>5. \A age \in events' : age \in events \/ age = l BY <2>2, <2>4, AuditedType
  <2> QED BY <1>2, <2>2, <2>3, <2>5
<1>6. ASSUME NEW l \in 0..MaxLag, OtherCommand(l) PROVE TypeTables' /\ Pruned'
  <2>1. /\ events' \in Audited(events, l) /\ row' = row
        /\ UNCHANGED <<cleaned, served, kept>>
    BY <1>6 DEF OtherCommand, Audited, health
  <2>2. \A age \in events' : age \in events \/ age = l BY <2>1, AuditedType
  <2>3. row' \in Row /\ (row'.marked => row'.tracked /\ row.marked /\ row'.age = row.age)
    BY <2>1 DEF TypeTables
  <2> QED BY <1>2, <2>1, <2>2, <2>3
<1>7. CASE TimePasses
  <2>1. /\ row' = IF row.marked THEN [row EXCEPT !.age = Older(@, AgeCap)] ELSE row
        /\ cleaned' = Older(cleaned, CleanCap)
        /\ events' = {Older(age, AgeCap) : age \in events}
        /\ kept' = served /\ served' = FALSE
    BY <1>7 DEF TimePasses
  <2>2. ASSUME NEW a \in Age
        PROVE  Older(a, AgeCap) \in Age /\ Older(a, AgeCap) <= a + 1 /\ a \in Nat
               /\ Older(a, AgeCap) \in Nat
    BY CapsNat DEF Older, Age
  <2>3. row.age \in Age BY DEF TypeTables, Row
  <2>4. /\ row' \in Row /\ row'.marked = row.marked /\ row'.tracked = row.tracked
        /\ row.marked => row'.age <= row.age + 1 /\ row'.age \in Nat /\ row.age \in Nat
    <3>1. CASE row.marked
      <4>1. row' = [row EXCEPT !.age = Older(row.age, AgeCap)] BY <2>1, <3>1
      <4>2. Older(row.age, AgeCap) \in Age BY <2>2, <2>3
      <4>3. /\ row' \in Row /\ row'.marked = row.marked /\ row'.tracked = row.tracked
            /\ row'.age = Older(row.age, AgeCap)
        BY <4>1, <4>2 DEF Row, TypeTables
      <4> QED BY <4>3, <2>2, <2>3
    <3>2. CASE ~row.marked BY <2>1, <3>2 DEF TypeTables
    <3> QED BY <3>1, <3>2
  <2>5. ASSUME NEW b \in events'
        PROVE  b \in Age /\ b \in Nat /\ \E a \in events : a \in Nat /\ b <= a + 1
    <3>1. PICK a \in events : b = Older(a, AgeCap) BY <2>1
    <3>2. a \in Age BY DEF TypeTables
    <3> QED BY <3>1, <3>2, <2>2
  <2>6. cleaned' \in 0..CleanCap /\ (cleaned < CleanCap => cleaned' = cleaned + 1)
        /\ (cleaned' < CleanCap => cleaned < CleanCap)
    BY <2>1, CapsNat DEF Older, TypeTables
  <2>7. kept' \/ cleaned' < CleanCap => cleaned < CleanCap
    BY <2>1, <2>6 DEF Pruned
  <2>8. TypeTables' BY <2>1, <2>4, <2>5, <2>6 DEF TypeTables
  <2>9. ASSUME cleaned < CleanCap, NEW a \in Nat, NEW b \in Nat, b <= a + 1,
               NEW limit \in Nat, Bounded(limit, a)
        PROVE  b < cleaned' + Larger(limit, MaxLag + 1)
    BY <1>a, <2>6, <2>9, LargerBounds DEF Bounded
  <2>10. ASSUME kept' \/ cleaned' < CleanCap
         PROVE  /\ row'.marked => row'.age < cleaned' + Larger(Grace, MaxLag + 1)
                /\ \A b \in events' : b < cleaned' + Larger(Retention, MaxLag + 1)
    <3>1. cleaned < CleanCap BY <2>7, <2>10
    <3>2. row'.marked => row'.age < cleaned' + Larger(Grace, MaxLag + 1)
      BY <1>a, <2>4, <2>9, <3>1 DEF Pruned
    <3>3. ASSUME NEW b \in events' PROVE b < cleaned' + Larger(Retention, MaxLag + 1)
      <4>1. PICK a \in events : a \in Nat /\ b \in Nat /\ b <= a + 1 BY <2>5
      <4>2. Bounded(Retention, a) BY <3>1 DEF Pruned
      <4> QED BY <1>a, <2>9, <3>1, <4>1, <4>2
    <3> QED BY <3>2, <3>3
  <2>11. Pruned' BY <2>1, <2>10 DEF Pruned, Bounded
  <2> QED BY <2>8, <2>11
<1> QED BY <1>1, <1>3, <1>4, <1>5, <1>6, <1>7, TablesSteps

-----------------------------------------------------------------------------
LEMMA DaemonInductive == IInv /\ [Next]_vars => IInv'
<1> SUFFICES ASSUME IInv, [Next]_vars PROVE IInv' OBVIOUS
<1>1. TypeMemory /\ TypeTables /\ TypePanel BY TypeParts DEF IInv
<1>2. TypeMemory' /\ MemoryTells' BY <1>1, MemoryStep DEF IInv
<1>3. TypePanel' BY <1>1, PanelStep
<1>4. TypeTables' /\ Pruned' BY <1>1, TablesStep DEF IInv
<1>5. (TypeOK <=> TypeMemory /\ TypeTables /\ TypePanel)' BY TypeParts, PTL
<1> QED BY <1>2, <1>3, <1>4, <1>5 DEF IInv

LEMMA DaemonInvariant == Spec => []IInv
BY DaemonInit, DaemonInductive, PTL DEF Spec

(* Every clock reading, mark, cleanup stamp and event age stays in range,  *)
(* and a mark is only ever written on a row that exists, whatever runs     *)
(* beside the daemon.                                                      *)
THEOREM DaemonTypeOK == Spec => []TypeOK
<1>1. IInv => TypeOK BY DEF IInv
<1> QED BY <1>1, DaemonInvariant, PTL

(* runTick's journal tells how the last tick ended, with the error it met, *)
(* through every sequence of errors, recoveries and restarts.              *)
THEOREM DaemonJournalTells == Spec => []JournalTells
<1>1. IInv => JournalTells
  BY DEF IInv, TypeOK, MemoryTells, JournalTells, Errors
<1> QED BY <1>1, DaemonInvariant, PTL

(* AutoCleanup keeps up with missing clients and old events, for every     *)
(* grace period, retention and delay: no mark and no event is left much    *)
(* longer than its limit after a unit of time that was served.             *)
THEOREM DaemonCleansUp == Spec => []CleanupKeepsUp
<1>1. IInv => CleanupKeepsUp
  <2> SUFFICES ASSUME IInv, kept PROVE CleanupKeepsUp BY DEF CleanupKeepsUp
  <2>1. cleaned \in 0..CleanCap /\ row.age \in Nat /\ \A age \in events : age \in Nat
    BY AgeNat DEF IInv, TypeOK, Row
  <2>2. ASSUME NEW limit \in Nat, NEW a \in Nat, Bounded(limit, a)
        PROVE  a < Grace + MaxLag + Larger(limit, MaxLag + 1)
    BY <2>1, <2>2, LargerBounds, CapsNat DEF Bounded
  <2>3. Grace \in Nat /\ Retention \in Nat BY CapsNat
  <2> QED BY <2>1, <2>2, <2>3 DEF IInv, Pruned, CleanupKeepsUp
<1> QED BY <1>1, DaemonInvariant, PTL
=============================================================================
