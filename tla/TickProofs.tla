----------------------------- MODULE TickProofs -----------------------------
(***************************************************************************)
(* Theorems about the tick transaction, for any number of clients,         *)
(* directions, factors and bytes, on both backends.                        *)
(***************************************************************************)
EXTENDS TickTx, BasicFacts

(* What an open transaction has read and staged. *)
NoTxIdle == tx.pc = "idle" => tx = NoTx

CurrentRead ==
    tx.pc = "locked" =>
        /\ tx.current # NoRow
        /\ \A t \in Traffic : IsTarget(t) => t \in tx.locked /\ traffics[t] = tx.current

LockedPresent == \A t \in tx.locked : traffics[t] # NoRow

TodoTracked == \A t \in tx.todo : tx.ruleClients[t] # NoRow /\ tx.writes[t] = NoRow

WritesLocked ==
    \A t \in Traffic : tx.writes[t] # NoRow => t \in tx.locked /\ tx.ruleClients[t] # NoRow

Fresh ==
    tx.pc \in {"idle", "reconcile", "scopes"} =>
        tx.todo = {} /\ tx.locked = {} /\ tx.writes = NoWrites

IdsUsed == \A t \in Traffic : traffics[t] # NoRow => t \in used

FactorsKnown ==
    /\ \A e \in Emails : overrides[e] # NoRow => overrides[e].factor \in OverrideFactors
    /\ \A e \in Emails : tx.overrides[e] # NoRow => tx.overrides[e].factor \in OverrideFactors

Shape == /\ NoTxIdle /\ CurrentRead /\ LockedPresent /\ TodoTracked /\ WritesLocked
         /\ Fresh /\ IdsUsed /\ FactorsKnown

-----------------------------------------------------------------------------
(* The accounts.  A row that does not exist has no traffic; a counter is   *)
(* what was counted and what was added.                                    *)
Blank ==
    \A t \in Traffic : traffics[t] = NoRow => raw[t] = Zero /\ extra[t] = Zero

RawBounded == \A t \in Traffic, d \in Dirs : raw[t][d] <= MaxBytes

(* Bytes above the baseline of rc, and the remainder it carries. *)
PendingOf(rc, t, d) ==
    IF traffics[t] # NoRow /\ rc # NoRow /\ traffics[t].cnt[d] > rc.last[d]
    THEN traffics[t].cnt[d] - rc.last[d] ELSE 0

RemOf(rc, d) == IF rc = NoRow THEN 0 ELSE rc.rem[d]

(* A tick may start from the baseline rc of row t. *)
Sound(rc, t) ==
    \A d \in Dirs :
        /\ charged[t][d] + PendingOf(rc, t, d) <= raw[t][d]
        /\ extra[t][d] * FactorScale + RemOf(rc, d) < due[t][d] + FactorScale

FactorExtras == {f - FactorScale : f \in OverrideFactors \cup {ScopeFactor}}

(* The write w, with the new row rc, may be committed to row t. *)
Staged(rc, w, t) ==
    /\ w.factorExtra \in FactorExtras
    /\ \A d \in Dirs :
          /\ w.cnt[d] = traffics[t].cnt[d] + w.extra[d]
          /\ rc.last[d] = w.cnt[d]
          /\ charged[t][d] + w.delta[d] <= raw[t][d]
          /\ w.delta[d] = 0 => w.extra[d] = 0
          /\ extra[t][d] * FactorScale + w.extra[d] * FactorScale + rc.rem[d]
                < due[t][d] + w.delta[d] * w.factorExtra + FactorScale

TablesSound == \A t \in Traffic : Sound(ruleClients[t], t)

TxSound ==
    \A t \in Traffic :
        IF tx.writes[t] = NoRow THEN Sound(tx.ruleClients[t], t)
                                ELSE Staged(tx.ruleClients[t], tx.writes[t], t)

Accounted == Blank /\ RawBounded /\ CounterConservation /\ TablesSound /\ TxSound

IInv == TypeOK /\ Shape /\ Accounted

-----------------------------------------------------------------------------
LEMMA ZeroType == Zero \in [Dirs -> Nat] /\ Zero \in [Dirs -> 0..(FactorScale - 1)]
BY FactorScaleAssumption DEF Zero

LEMMA NoTxType == NoTx \in Tx /\ NoTx.pc = "idle" /\ NoTx.locked = {}
BY DEF NoTx, Tx, NoWrites

LEMMA InitType == Init => TypeOK /\ Shape
<1> SUFFICES ASSUME Init PROVE TypeOK /\ Shape OBVIOUS
<1> USE ZeroType, NoTxType
<1>1. TypeOK BY DEF Init, TypeOK, TrafficRow
<1>2. Shape
  BY DEF Init, Shape, NoTxIdle, CurrentRead, LockedPresent, TodoTracked, WritesLocked,
         Fresh, IdsUsed, FactorsKnown, NoTx, NoWrites
<1> QED BY <1>1, <1>2

LEMMA TickBeginType ==
    ASSUME TypeOK, Shape, TickBegin PROVE TypeOK' /\ Shape'
<1> USE DEF TypeOK, Shape, TickBegin, panelVars, tableVars, ghostVars
<1>1. tx' \in Tx /\ tx'.locked = {} /\ tx'.pc = "reconcile" /\ tx'.todo = {}
      /\ tx'.writes = NoWrites /\ tx'.overrides = overrides
  BY DEF NoTx, Tx, NoWrites
<1>2. TypeOK' BY <1>1
<1>3. Shape' BY <1>1 DEF NoTxIdle, CurrentRead, LockedPresent, TodoTracked, WritesLocked,
         Fresh, IdsUsed, FactorsKnown, NoWrites
<1> QED BY <1>2, <1>3

(* A step of the tick changes only tx. *)
LEMMA TxStepType ==
    ASSUME TypeOK, UNCHANGED <<panelVars, tableVars, ghostVars>>,
           tx' \in Tx, tx'.locked \cap held = {}
    PROVE  TypeOK'
BY DEF TypeOK, panelVars, tableVars, ghostVars

LEMMA ByEmailType ==
    ASSUME NEW e \in Emails
    PROVE  /\ ClientTrafficByEmail(e) \in Traffic \cup {NoRow}
           /\ TrafficOf(e) # {} => ClientTrafficByEmail(e) \in TrafficOf(e)
<1>1. CASE TrafficOf(e) = {} BY <1>1 DEF ClientTrafficByEmail
<1>2. CASE TrafficOf(e) # {}
  <2>1. TrafficOf(e) \in SUBSET Nat /\ TrafficOf(e) \subseteq Traffic
    BY TrafficAssumption DEF TrafficOf
  <2>2. \E t \in TrafficOf(e) : \A u \in TrafficOf(e) : t <= u BY <2>1, <1>2, NatLeast
  <2> QED BY <2>1, <2>2, <1>2 DEF ClientTrafficByEmail
<1> QED BY <1>1, <1>2

LEMMA ResolveType ==
    ASSUME NEW link \in Traffic, NEW e \in Emails
    PROVE  ResolvePolicyTraffic(link, e) \in Traffic
BY ByEmailType DEF ResolvePolicyTraffic

LEMMA TickReconcileType ==
    ASSUME TypeOK, Shape, TickReconcile PROVE TypeOK' /\ Shape'
<1>0. tx \in Tx /\ tx.locked \cap held = {} BY DEF TypeOK
<1>1. /\ tx'.pc = "scopes" /\ tx'.locked = tx.locked /\ tx'.todo = tx.todo
      /\ tx'.writes = tx.writes /\ tx'.ruleClients = tx.ruleClients
      /\ tx'.current = tx.current
      /\ UNCHANGED <<panelVars, tableVars, ghostVars>>
  BY <1>0 DEF TickReconcile, Tx
<1>2. tx'.excludes \in [Emails -> Traffic \cup {NoRow}]
  BY <1>0, ResolveType DEF TickReconcile, Tx
<1>3. tx'.overrides = [e \in Emails |->
              IF tx.overrides[e] = NoRow THEN NoRow
              ELSE [traffic |-> ResolvePolicyTraffic(tx.overrides[e].traffic, e),
                    factor |-> tx.overrides[e].factor]]
  BY <1>0 DEF TickReconcile, Tx
<1>4. ASSUME NEW e \in Emails
      PROVE  /\ tx'.overrides[e] \in Override \cup {NoRow}
             /\ tx'.overrides[e] # NoRow => /\ tx.overrides[e] # NoRow
                                            /\ tx'.overrides[e].factor = tx.overrides[e].factor
  <2>1. CASE tx.overrides[e] = NoRow BY <2>1, <1>3
  <2>2. CASE tx.overrides[e] # NoRow
    <3>1. tx.overrides[e] \in Override BY <2>2, <1>0 DEF Tx
    <3>2. tx'.overrides[e] = [traffic |-> ResolvePolicyTraffic(tx.overrides[e].traffic, e),
                             factor |-> tx.overrides[e].factor]
      BY <2>2, <1>3
    <3>3. ResolvePolicyTraffic(tx.overrides[e].traffic, e) \in Traffic
      BY <3>1, ResolveType DEF Override
    <3> QED BY <3>1, <3>2, <3>3, <2>2 DEF Override
  <2> QED BY <2>1, <2>2
<1>5. tx'.overrides \in [Emails -> Override \cup {NoRow}] BY <1>3, <1>4
<1>6. tx' \in Tx
  <2>1. DOMAIN tx' = DOMAIN tx /\ tx' = [tx EXCEPT !.pc = tx'.pc, !.excludes = tx'.excludes,
                                                   !.overrides = tx'.overrides]
    BY <1>0 DEF TickReconcile, Tx
  <2> QED BY <2>1, <1>0, <1>1, <1>2, <1>5 DEF Tx
<1>7. TypeOK' BY <1>0, <1>1, <1>6, TxStepType
<1>8. NoTxIdle' /\ CurrentRead' /\ Fresh'
  BY <1>1 DEF Shape, NoTxIdle, CurrentRead, Fresh, TickReconcile
<1>9. LockedPresent' /\ TodoTracked' /\ WritesLocked' /\ IdsUsed'
  BY <1>1 DEF Shape, LockedPresent, TodoTracked, WritesLocked, IdsUsed, panelVars
<1>10. FactorsKnown' BY <1>1, <1>4 DEF Shape, FactorsKnown, tableVars
<1> QED BY <1>7, <1>8, <1>9, <1>10 DEF Shape

LEMMA EnrolledType ==
    ASSUME NEW row \in TrafficRow
    PROVE  Enrolled(row) \in RuleClient /\ Enrolled(row) # NoRow
BY ZeroType, RowsAssumption DEF TrafficRow, RuleClient, Enrolled

LEMMA TickEnrollType ==
    ASSUME TypeOK, Shape, TickEnroll PROVE TypeOK' /\ Shape'
<1> USE DEF TickEnroll
<1>0. tx \in Tx /\ tx.locked \cap held = {} BY DEF TypeOK
<1>1. /\ tx'.pc = "targets" /\ tx'.locked = tx.locked
      /\ tx'.writes = tx.writes /\ tx'.overrides = tx.overrides
      /\ tx'.excludes = tx.excludes /\ tx'.current = tx.current
  BY <1>0 DEF Tx
<1>2. tx'.ruleClients \in [Traffic -> RuleClient \cup {NoRow}]
  BY <1>0, EnrolledType DEF Tx, TypeOK
<1>3. tx'.todo \subseteq Traffic /\ \A t \in tx'.todo : tx'.ruleClients[t] # NoRow
  BY <1>0 DEF Tx
<1>4. tx' \in Tx BY <1>0, <1>1, <1>2, <1>3 DEF Tx
<1>5. TypeOK' BY <1>0, <1>1, <1>4, TxStepType
<1>6. Shape'
  BY <1>0, <1>1, <1>3 DEF Shape, NoTxIdle, CurrentRead, LockedPresent, TodoTracked, WritesLocked,
         Fresh, IdsUsed, FactorsKnown, panelVars, tableVars, NoWrites
<1> QED BY <1>5, <1>6

LEMMA TargetUnique ==
    ASSUME TypeOK, NEW t \in Traffic, NEW u \in Traffic, IsTarget(t), IsTarget(u)
    PROVE  t = u
BY TrafficAssumption DEF IsTarget

LEMMA TargetTracked ==
    ASSUME TypeOK, Shape, NEW t \in Traffic, IsTarget(t)
    PROVE  /\ tx.ruleClients[t] \in RuleClient /\ tx.ruleClients[t] # NoRow
           /\ tx.writes[t] = NoRow
BY DEF TypeOK, Shape, TodoTracked, IsTarget, Tx

(* A target is dealt with: its row and its write are of the right kind. *)
LEMMA DoneType ==
    ASSUME TypeOK, Shape, NEW t \in Traffic, IsTarget(t),
           NEW rc \in RuleClient, NEW w \in Write \cup {NoRow}, rc # NoRow,
           w # NoRow => t \in tx.locked,
           Done(t, rc, w), UNCHANGED <<panelVars, tableVars, ghostVars>>
    PROVE  TypeOK' /\ Shape'
<1>0. tx \in Tx /\ tx.locked \cap held = {} BY DEF TypeOK
<1>1. /\ tx'.pc = "targets" /\ tx'.locked = tx.locked /\ tx'.todo = tx.todo \ {t}
      /\ tx'.writes = [tx.writes EXCEPT ![t] = w]
      /\ tx'.ruleClients = [tx.ruleClients EXCEPT ![t] = rc]
      /\ tx'.current = NoRow /\ tx'.overrides = tx.overrides
      /\ tx'.excludes = tx.excludes
  BY <1>0 DEF Done, Tx
<1>2. tx' \in Tx BY <1>0 DEF Done, Tx
<1>3. TypeOK' BY <1>0, <1>1, <1>2, TxStepType
<1>4. NoTxIdle' /\ CurrentRead' /\ Fresh' BY <1>1 DEF NoTxIdle, CurrentRead, Fresh
<1>5. LockedPresent' /\ IdsUsed' /\ FactorsKnown'
  BY <1>1 DEF Shape, LockedPresent, IdsUsed, FactorsKnown, panelVars, tableVars
<1>6. TodoTracked' BY <1>0, <1>1 DEF Shape, TodoTracked, Tx
<1>7. WritesLocked'
  <2> SUFFICES ASSUME NEW u \in Traffic, tx'.writes[u] # NoRow
               PROVE  u \in tx'.locked /\ tx'.ruleClients[u] # NoRow
    BY DEF WritesLocked
  <2>1. CASE u = t BY <2>1, <1>0, <1>1 DEF Tx
  <2>2. CASE u # t BY <2>2, <1>0, <1>1 DEF Tx, Shape, WritesLocked
  <2> QED BY <2>1, <2>2
<1> QED BY <1>3, <1>4, <1>5, <1>6, <1>7 DEF Shape

LEMMA BaselineType ==
    ASSUME NEW rc \in RuleClient, NEW cnt \in [Dirs -> Nat],
           NEW rem \in [Dirs -> 0..(FactorScale - 1)]
    PROVE  /\ Baseline(rc, cnt, rem) \in RuleClient
           /\ Baseline(rc, cnt, rem) # NoRow
           /\ Baseline(rc, cnt, rem).last = cnt
           /\ Baseline(rc, cnt, rem).rem = rem
BY RowsAssumption DEF Baseline, RuleClient

LEMMA MarkMissingType ==
    ASSUME NEW rc \in RuleClient
    PROVE  /\ MarkMissing(rc) \in RuleClient
           /\ MarkMissing(rc) # NoRow
           /\ MarkMissing(rc).last = rc.last
           /\ MarkMissing(rc).rem = rc.rem
BY RowsAssumption DEF MarkMissing, RuleClient

LEMMA TickLockType ==
    ASSUME TypeOK, Shape, NEW t \in Traffic, TickLock(t)
    PROVE  TypeOK' /\ Shape'
<1>0. tx \in Tx /\ tx.locked \cap held = {} BY DEF TypeOK
<1>1. /\ tx'.pc = "locked" /\ tx'.locked = tx.locked \cup {t} /\ tx'.todo = tx.todo
      /\ tx'.writes = tx.writes /\ tx'.ruleClients = tx.ruleClients
      /\ tx'.current = traffics[t] /\ tx'.overrides = tx.overrides
      /\ UNCHANGED <<panelVars, tableVars, ghostVars>>
  BY <1>0 DEF TickLock, Tx
<1>2. tx' \in Tx BY <1>0 DEF TickLock, Tx, TypeOK
<1>3. TypeOK'
  <2>1. tx'.locked \cap held = {} BY <1>0, <1>1 DEF TickLock
  <2> QED BY <1>1, <1>2, <2>1, TxStepType
<1>4. NoTxIdle' /\ Fresh' BY <1>1 DEF NoTxIdle, Fresh
<1>5. CurrentRead'
  <2>1. IsTarget(t) /\ traffics[t] # NoRow BY DEF TickLock
  <2>2. ASSUME NEW u \in Traffic, IsTarget(u)' PROVE u = t
    <3>1. IsTarget(u) BY <2>2, <1>1 DEF IsTarget
    <3> QED BY <2>1, <3>1, TargetUnique
  <2> QED BY <1>1, <2>1, <2>2 DEF CurrentRead, panelVars
<1>6. LockedPresent' /\ IdsUsed' /\ FactorsKnown'
  BY <1>1 DEF TickLock, Shape, LockedPresent, IdsUsed, FactorsKnown, panelVars, tableVars
<1>7. TodoTracked' /\ WritesLocked' BY <1>1 DEF Shape, TodoTracked, WritesLocked
<1> QED BY <1>3, <1>4, <1>5, <1>6, <1>7 DEF Shape

(* Steps of the tick leave the accounts alone. *)
LEMMA SoundStable ==
    ASSUME UNCHANGED <<traffics, raw, extra, charged, due>>
    PROVE  /\ Blank' = Blank /\ RawBounded' = RawBounded
           /\ CounterConservation' = CounterConservation
           /\ \A rc, t : Sound(rc, t)' = Sound(rc, t)
           /\ \A rc, w, t : Staged(rc, w, t)' = Staged(rc, w, t)
BY DEF Blank, RawBounded, CounterConservation, Sound, Staged, PendingOf, RemOf

LEMMA DoneStep ==
    ASSUME IInv, NEW t \in Traffic, IsTarget(t),
           NEW rc \in RuleClient, NEW w \in Write \cup {NoRow}, rc # NoRow,
           w # NoRow => t \in tx.locked,
           IF w = NoRow THEN Sound(rc, t) ELSE Staged(rc, w, t),
           Done(t, rc, w), UNCHANGED <<panelVars, tableVars, ghostVars>>
    PROVE  IInv'
<1>0. tx \in Tx BY DEF IInv, TypeOK
<1>1. /\ tx'.writes = [tx.writes EXCEPT ![t] = w]
      /\ tx'.ruleClients = [tx.ruleClients EXCEPT ![t] = rc]
  BY <1>0 DEF Done, Tx
<1>2. UNCHANGED <<traffics, ruleClients, raw, extra, charged, due>>
  BY DEF panelVars, tableVars, ghostVars
<1>3. Blank' /\ RawBounded' /\ CounterConservation' /\ TablesSound'
  BY <1>2, SoundStable DEF IInv, Accounted, TablesSound
<1>4. TxSound'
  <2> SUFFICES ASSUME NEW u \in Traffic
               PROVE  IF tx'.writes[u] = NoRow
                      THEN Sound(tx'.ruleClients[u], u)
                      ELSE Staged(tx'.ruleClients[u], tx'.writes[u], u)
    BY <1>2, SoundStable DEF TxSound
  <2>1. CASE u = t BY <2>1, <1>0, <1>1 DEF Tx
  <2>2. CASE u # t
    <3>1. tx'.writes[u] = tx.writes[u] /\ tx'.ruleClients[u] = tx.ruleClients[u]
      BY <2>2, <1>0, <1>1 DEF Tx
    <3> QED BY <3>1 DEF IInv, Accounted, TxSound
  <2> QED BY <2>1, <2>2
<1>5. TypeOK' /\ Shape' BY DoneType DEF IInv
<1> QED BY <1>3, <1>4, <1>5 DEF IInv, Accounted

(* A client that is passed over keeps its baseline, or starts again from   *)
(* the counters the panel has now.                                         *)
LEMMA KeptSound ==
    ASSUME NEW t \in Traffic, NEW rc \in RuleClient, NEW old \in RuleClient,
           rc # NoRow, old # NoRow, Sound(old, t),
           rc.last = old.last, rc.rem = old.rem
    PROVE  Sound(rc, t)
BY DEF Sound, PendingOf, RemOf

LEMMA FreshSound ==
    ASSUME TypeOK, NEW t \in Traffic, NEW rc \in RuleClient,
           NEW old \in RuleClient \cup {NoRow}, Sound(old, t),
           rc # NoRow, traffics[t] # NoRow, rc.last = traffics[t].cnt, rc.rem = Zero
    PROVE  Sound(rc, t)
<1> SUFFICES ASSUME NEW d \in Dirs
             PROVE  /\ charged[t][d] + PendingOf(rc, t, d) <= raw[t][d]
                    /\ extra[t][d] * FactorScale + RemOf(rc, d) < due[t][d] + FactorScale
  BY DEF Sound
<1>1. /\ charged[t][d] \in Nat /\ raw[t][d] \in Nat /\ extra[t][d] \in Nat /\ due[t][d] \in Nat
      /\ traffics[t].cnt[d] \in Nat
  BY DEF TypeOK, TrafficRow
<1>2. PendingOf(rc, t, d) = 0 /\ RemOf(rc, d) = 0 BY <1>1 DEF PendingOf, RemOf, Zero
<1>3. PendingOf(old, t, d) \in Nat /\ RemOf(old, d) \in Nat
  BY <1>1, FactorScaleAssumption DEF PendingOf, RemOf, RuleClient
<1>4. extra[t][d] * FactorScale \in Nat BY <1>1, FactorScaleAssumption, MulNat
<1>5. /\ charged[t][d] + PendingOf(old, t, d) <= raw[t][d]
      /\ extra[t][d] * FactorScale + RemOf(old, d) < due[t][d] + FactorScale
  BY DEF Sound
<1> QED BY <1>1, <1>2, <1>3, <1>4, <1>5, FactorScaleAssumption

LEMMA RebasedStep ==
    ASSUME IInv, NEW t \in Traffic, IsTarget(t), traffics[t] # NoRow,
           Done(t, Baseline(tx.ruleClients[t], traffics[t].cnt, Zero), NoRow),
           UNCHANGED <<panelVars, tableVars, ghostVars>>
    PROVE  IInv'
<1>1. /\ tx.ruleClients[t] \in RuleClient /\ tx.writes[t] = NoRow
      /\ traffics[t].cnt \in [Dirs -> Nat]
  BY TargetTracked DEF IInv, TypeOK, TrafficRow
<1> DEFINE rc == Baseline(tx.ruleClients[t], traffics[t].cnt, Zero)
<1>2. rc \in RuleClient /\ rc # NoRow /\ rc.last = traffics[t].cnt /\ rc.rem = Zero
  <2> DEFINE old == tx.ruleClients[t]
             cnt == traffics[t].cnt
  <2>1. old \in RuleClient /\ cnt \in [Dirs -> Nat] BY <1>1
  <2>2. Zero \in [Dirs -> 0..(FactorScale - 1)] BY ZeroType
  <2> HIDE DEF old, cnt
  <2>3. /\ Baseline(old, cnt, Zero) \in RuleClient /\ Baseline(old, cnt, Zero) # NoRow
        /\ Baseline(old, cnt, Zero).last = cnt /\ Baseline(old, cnt, Zero).rem = Zero
    BY <2>1, <2>2, BaselineType
  <2> QED BY <2>3 DEF old, cnt
<1>3. Sound(tx.ruleClients[t], t) BY <1>1 DEF IInv, Accounted, TxSound
<1> HIDE DEF rc
<1>4. Sound(rc, t) BY <1>1, <1>2, <1>3, FreshSound DEF IInv
<1>5. Done(t, rc, NoRow) BY DEF rc
<1> QED BY <1>2, <1>4, <1>5, DoneStep

LEMMA KeptStep ==
    ASSUME IInv, NEW t \in Traffic, IsTarget(t),
           NEW rc \in {tx.ruleClients[t], MarkMissing(tx.ruleClients[t])},
           Done(t, rc, NoRow), UNCHANGED <<panelVars, tableVars, ghostVars>>
    PROVE  IInv'
<1>1. tx.ruleClients[t] \in RuleClient /\ tx.ruleClients[t] # NoRow /\ tx.writes[t] = NoRow
  BY TargetTracked DEF IInv
<1>2. /\ rc \in RuleClient /\ rc # NoRow /\ rc.last = tx.ruleClients[t].last
      /\ rc.rem = tx.ruleClients[t].rem
  BY <1>1, MarkMissingType
<1>3. Sound(tx.ruleClients[t], t) BY <1>1 DEF IInv, Accounted, TxSound
<1>4. Sound(rc, t) BY <1>1, <1>2, <1>3, KeptSound
<1> QED BY <1>2, <1>4, DoneStep

LEMMA PassedStep ==
    ASSUME IInv, NEW t \in Traffic,
           TickSuppressed(t) \/ TickMissing(t) \/ TickDefer(t) \/ TickRebaseline(t)
    PROVE  IInv'
<1>1. CASE TickSuppressed(t)
  <2>1. CASE Matches(t, tx.ruleClients[t].email)
    BY <1>1, <2>1, RebasedStep DEF TickSuppressed, Matches
  <2>2. CASE ~Matches(t, tx.ruleClients[t].email)
    BY <1>1, <2>2, KeptStep DEF TickSuppressed
  <2> QED BY <2>1, <2>2
<1>2. CASE TickMissing(t) BY <1>2, KeptStep DEF TickMissing
<1>3. CASE TickDefer(t) BY <1>3, KeptStep DEF TickDefer
<1>4. CASE TickRebaseline(t)
  <2>1. traffics[t] = tx.current /\ tx.current # NoRow /\ IsTarget(t)
    BY <1>4 DEF TickRebaseline, IInv, Shape, CurrentRead
  <2>2. CASE Done(t, MarkMissing(tx.ruleClients[t]), NoRow)
    BY <1>4, <2>1, <2>2, KeptStep DEF TickRebaseline
  <2>3. CASE Done(t, Baseline(tx.ruleClients[t], tx.current.cnt, Zero), NoRow)
    BY <1>4, <2>1, <2>3, RebasedStep DEF TickRebaseline
  <2> QED BY <1>4, <2>2, <2>3 DEF TickRebaseline
<1> QED BY <1>1, <1>2, <1>3, <1>4

-----------------------------------------------------------------------------
(* Factoring a target. *)
LEMMA FactorKnown ==
    ASSUME IInv, NEW t \in Traffic, IsTarget(t)
    PROVE  FactorPPM(t) - FactorScale \in FactorExtras /\ FactorPPM(t) - FactorScale \in Nat
<1>1. tx.ruleClients[t] \in RuleClient BY TargetTracked DEF IInv
<1>2. tx.ruleClients[t].email \in Emails BY <1>1 DEF RuleClient
<1>3. FactorPPM(t) \in OverrideFactors \cup {ScopeFactor}
  BY <1>2 DEF FactorPPM, IInv, Shape, FactorsKnown
<1>4. FactorPPM(t) \in Nat /\ FactorPPM(t) >= FactorScale BY <1>3, FactorsAssumption
<1>5. FactorPPM(t) - FactorScale \in Nat BY <1>4, FactorScaleAssumption
<1>6. FactorPPM(t) - FactorScale \in FactorExtras BY <1>3, Zenon DEF FactorExtras
<1> QED BY <1>5, <1>6

(* calculateExtra: what it returns is exact. *)
LEMMA CalculateExtraExact ==
    ASSUME NEW delta \in Nat, NEW fe \in Nat, NEW r \in 0..(FactorScale - 1)
    PROVE  LET x == CalculateExtra(delta, fe, r)
           IN  /\ x.extra \in Nat
               /\ x.rem \in 0..(FactorScale - 1)
               /\ x.extra * FactorScale + x.rem = delta * fe + r
<1>1. delta * fe \in Nat BY MulNat
<1>2. delta * fe + r \in Nat BY <1>1, FactorScaleAssumption
<1> DEFINE v == delta * fe + r
<1>3. /\ v \div FactorScale \in Nat
      /\ v % FactorScale \in 0..(FactorScale - 1)
      /\ v = (v \div FactorScale) * FactorScale + (v % FactorScale)
  BY <1>2, FactorScaleAssumption, DivMod
<1>4. /\ CalculateExtra(delta, fe, r).extra = v \div FactorScale
      /\ CalculateExtra(delta, fe, r).rem = v % FactorScale
  BY DEF CalculateExtra
<1> QED BY <1>3, <1>4

LEMMA FactoredDir ==
    ASSUME IInv, NEW t \in Traffic, Factorable(t), NEW d \in Dirs
    PROVE  /\ Delta(t, d).delta \in Nat /\ Extra(t, d).extra \in Nat
           /\ Extra(t, d).rem \in 0..(FactorScale - 1)
           /\ charged[t][d] + Delta(t, d).delta <= raw[t][d]
           /\ Delta(t, d).delta = 0 => Extra(t, d).extra = 0
           /\ extra[t][d] * FactorScale + Extra(t, d).extra * FactorScale + Extra(t, d).rem
                < due[t][d] + Delta(t, d).delta * (FactorPPM(t) - FactorScale) + FactorScale
<1>0. /\ IsTarget(t) /\ ~Delta(t, d).decreased
      /\ traffics[t] = tx.current /\ tx.current # NoRow
  BY DEF Factorable, Decreased, IInv, Shape, CurrentRead
<1>1. tx.ruleClients[t] \in RuleClient /\ tx.ruleClients[t] # NoRow /\ tx.writes[t] = NoRow
  BY <1>0, TargetTracked DEF IInv
<1>2. /\ charged[t][d] \in Nat /\ raw[t][d] \in Nat /\ extra[t][d] \in Nat /\ due[t][d] \in Nat
      /\ tx.current.cnt[d] \in Nat
  BY <1>0 DEF IInv, TypeOK, TrafficRow
<1>3. tx.ruleClients[t].last[d] \in Nat /\ tx.ruleClients[t].rem[d] \in 0..(FactorScale - 1)
  BY <1>1 DEF RuleClient
<1> DEFINE delta == tx.current.cnt[d] - tx.ruleClients[t].last[d]
           rem == tx.ruleClients[t].rem[d]
           fe == FactorPPM(t) - FactorScale
           x == CalculateExtra(delta, fe, rem)
<1>4. Delta(t, d).delta = delta /\ delta \in Nat
  BY <1>0, <1>2, <1>3 DEF Delta, CounterDelta
<1>5. fe \in Nat BY <1>0, FactorKnown
<1>6. Extra(t, d) = x BY <1>4 DEF Extra
<1>7. /\ charged[t][d] + delta <= raw[t][d]
      /\ extra[t][d] * FactorScale + rem < due[t][d] + FactorScale
  <2>1. Sound(tx.ruleClients[t], t) BY <1>1 DEF IInv, Accounted, TxSound
  <2>2. PendingOf(tx.ruleClients[t], t, d) = delta /\ RemOf(tx.ruleClients[t], d) = rem
    BY <1>0, <1>1, <1>2, <1>3, <1>4 DEF PendingOf, RemOf
  <2> QED BY <2>1, <2>2 DEF Sound
<1> HIDE DEF delta, fe, x, rem
<1>8. /\ x.extra \in Nat /\ x.rem \in 0..(FactorScale - 1)
      /\ x.extra * FactorScale + x.rem = delta * fe + rem
  BY <1>3, <1>4, <1>5, CalculateExtraExact DEF x, rem
<1>9. delta = 0 => x.extra = 0
  <2> SUFFICES ASSUME delta = 0 PROVE x.extra = 0 OBVIOUS
  <2>1. rem \in 0..(FactorScale - 1) BY <1>3 DEF rem
  <2>2. 0 * fe = 0 BY <1>5
  <2>3. x.extra = (0 * FactorScale + rem) \div FactorScale
    BY <2>2, <1>5, FactorScaleAssumption DEF x, CalculateExtra
  <2> QED BY <2>1, <2>3, FactorScaleAssumption, DivUnique
<1>10. extra[t][d] * FactorScale + x.extra * FactorScale + x.rem < due[t][d] + delta * fe + FactorScale
  <2>1. /\ extra[t][d] * FactorScale \in Nat /\ x.extra * FactorScale \in Nat
        /\ delta * fe \in Nat
    BY <1>2, <1>4, <1>5, <1>8, MulNat, FactorScaleAssumption
  <2>2. rem \in Int /\ x.rem \in Int BY <1>3, <1>8 DEF rem
  <2> QED BY <2>1, <2>2, <1>2, <1>7, <1>8, FactorScaleAssumption
<1> QED BY <1>4, <1>6, <1>7, <1>8, <1>9, <1>10 DEF fe

LEMMA TickAbortedType ==
    ASSUME IInv, tx' = [tx EXCEPT !.pc = "abort"],
           tx.pc = "locked", UNCHANGED <<panelVars, tableVars, ghostVars>>
    PROVE  IInv'
<1>0. tx \in Tx /\ tx.locked \cap held = {} BY DEF IInv, TypeOK
<1>1. /\ tx'.pc = "abort" /\ tx'.locked = tx.locked /\ tx'.todo = tx.todo
      /\ tx'.writes = tx.writes /\ tx'.ruleClients = tx.ruleClients
      /\ tx'.overrides = tx.overrides /\ tx' \in Tx
  BY <1>0 DEF Tx
<1>2. TypeOK' BY <1>0, <1>1, TxStepType DEF IInv
<1>3. Shape'
  BY <1>1 DEF IInv, Shape, NoTxIdle, CurrentRead, LockedPresent, TodoTracked, WritesLocked,
              Fresh, IdsUsed, FactorsKnown, panelVars, tableVars
<1>4. Accounted'
  <2>1. UNCHANGED <<traffics, ruleClients, raw, extra, charged, due>>
    BY DEF panelVars, tableVars, ghostVars
  <2> QED BY <1>1, <2>1, SoundStable DEF IInv, Accounted, TablesSound, TxSound
<1> QED BY <1>2, <1>3, <1>4 DEF IInv

(* What a tick stages for a target it factors. *)
LEMMA TickApplyResult ==
    ASSUME IInv, NEW t \in Traffic, TickApply(t)
    PROVE  \/ tx' = [tx EXCEPT !.pc = "abort"]
           \/ \E rc \in RuleClient, w \in Write :
                 /\ rc # NoRow /\ w # NoRow /\ t \in tx.locked
                 /\ rc.email = tx.ruleClients[t].email
                 /\ Staged(rc, w, t) /\ Done(t, rc, w)
                 /\ \A d \in Dirs : w.delta[d] = Delta(t, d).delta
<1>0. Factorable(t) /\ IsTarget(t) /\ tx.pc = "locked" BY DEF TickApply, Factorable
<1> DEFINE rem == IF FactorPPM(t) = FactorScale THEN Zero
                  ELSE [d \in Dirs |-> Extra(t, d).rem]
           rc == Baseline(tx.ruleClients[t], NewBaseline(t), rem)
           w == [cnt |-> NewCount(t),
                 delta |-> [d \in Dirs |-> Delta(t, d).delta],
                 extra |-> [d \in Dirs |-> Extra(t, d).extra],
                 factorExtra |-> FactorPPM(t) - FactorScale]
<1>1. CASE Done(t, rc, w)
  <2>1. /\ traffics[t] = tx.current /\ tx.current # NoRow /\ t \in tx.locked
        /\ tx.ruleClients[t] \in RuleClient
    BY <1>0, TargetTracked DEF IInv, Shape, CurrentRead
  <2>2. traffics[t].cnt \in [Dirs -> Nat] BY <2>1 DEF IInv, TypeOK, TrafficRow
  <2>3. FactorPPM(t) - FactorScale \in FactorExtras /\ FactorPPM(t) - FactorScale \in Nat
    BY <1>0, FactorKnown
  <2>4. NewCount(t) \in [Dirs -> Nat] BY <2>1, <2>2, <1>0, FactoredDir DEF NewCount
  <2>5. rem \in [Dirs -> 0..(FactorScale - 1)] BY <1>0, FactoredDir, ZeroType
  <2>6. w \in Write /\ w # NoRow
    BY <2>3, <2>4, <1>0, FactoredDir, RowsAssumption DEF Write
  <2>7. /\ rc \in RuleClient /\ rc # NoRow /\ rc.last = NewCount(t) /\ rc.rem = rem
    BY <2>1, <2>4, <2>5, BaselineType DEF NewBaseline
  <2>8. \A d \in Dirs : rem[d] \in Int /\ rem[d] <= Extra(t, d).rem
    BY <1>0, FactoredDir, FactorScaleAssumption DEF Zero
  <2> HIDE DEF rc, rem
  <2>9. Staged(rc, w, t)
    <3>1. w.factorExtra \in FactorExtras BY <2>3
    <3>2. ASSUME NEW d \in Dirs
          PROVE  /\ w.cnt[d] = traffics[t].cnt[d] + w.extra[d]
                 /\ rc.last[d] = w.cnt[d]
                 /\ charged[t][d] + w.delta[d] <= raw[t][d]
                 /\ w.delta[d] = 0 => w.extra[d] = 0
      BY <2>1, <2>7, <1>0, FactoredDir DEF NewCount
    <3>3. ASSUME NEW d \in Dirs
          PROVE  extra[t][d] * FactorScale + w.extra[d] * FactorScale + rc.rem[d]
                   < due[t][d] + w.delta[d] * w.factorExtra + FactorScale
      <4> DEFINE a == extra[t][d] * FactorScale
                 b == Extra(t, d).extra * FactorScale
                 c == Delta(t, d).delta * (FactorPPM(t) - FactorScale)
      <4>1. /\ a + b + Extra(t, d).rem < due[t][d] + c + FactorScale
            /\ Extra(t, d).rem \in Int
        BY <1>0, FactoredDir
      <4>2. a \in Nat /\ b \in Nat /\ c \in Nat
        <5>1. /\ extra[t][d] \in Nat /\ Extra(t, d).extra \in Nat /\ Delta(t, d).delta \in Nat
              /\ FactorScale \in Nat
          BY <1>0, FactoredDir, FactorScaleAssumption DEF IInv, TypeOK
        <5> QED BY <2>3, <5>1, MulNat
      <4>3. due[t][d] \in Nat BY DEF IInv, TypeOK
      <4>4. /\ w.extra[d] = Extra(t, d).extra /\ w.delta[d] = Delta(t, d).delta
            /\ w.factorExtra = FactorPPM(t) - FactorScale /\ rc.rem[d] = rem[d]
        BY <2>7
      <4>5. a + b + rem[d] < due[t][d] + c + FactorScale
        <5> HIDE DEF a, b, c
        <5> QED BY <4>1, <4>2, <4>3, <2>8, FactorScaleAssumption
      <4> QED BY <4>4, <4>5
    <3> QED BY <3>1, <3>2, <3>3 DEF Staged
  <2>10. \A d \in Dirs : w.delta[d] = Delta(t, d).delta OBVIOUS
  <2>11. rc.email = tx.ruleClients[t].email BY <2>1 DEF rc, Baseline, RuleClient
  <2> HIDE DEF w
  <2> QED BY <1>1, <2>1, <2>6, <2>7, <2>9, <2>10, <2>11
<1> QED BY <1>1 DEF TickApply

LEMMA TickApplyStep ==
    ASSUME IInv, NEW t \in Traffic, TickApply(t)
    PROVE  IInv'
<1>0. /\ IsTarget(t) /\ tx.pc = "locked"
      /\ UNCHANGED <<panelVars, tableVars, ghostVars>>
  BY DEF TickApply, Factorable
<1>1. CASE tx' = [tx EXCEPT !.pc = "abort"] BY <1>0, <1>1, TickAbortedType
<1>2. ASSUME NEW rc \in RuleClient, NEW w \in Write, rc # NoRow, w # NoRow, t \in tx.locked,
             Staged(rc, w, t), Done(t, rc, w)
      PROVE  IInv'
  BY <1>0, <1>2, DoneStep
<1> QED BY <1>1, <1>2, TickApplyResult

-----------------------------------------------------------------------------
(* The beginning of a tick. *)
LEMMA TickBeginStep ==
    ASSUME IInv, TickBegin PROVE IInv'
<1>1. TypeOK' /\ Shape' BY TickBeginType DEF IInv
<1>2. /\ tx'.ruleClients = ruleClients /\ tx'.writes = NoWrites
      /\ UNCHANGED <<traffics, ruleClients, raw, extra, charged, due>>
  BY DEF TickBegin, NoTx, panelVars, tableVars, ghostVars
<1>3. Accounted'
  BY <1>2, SoundStable DEF IInv, Accounted, TablesSound, TxSound, NoWrites
<1> QED BY <1>1, <1>3 DEF IInv

LEMMA TickReconcileStep ==
    ASSUME IInv, TickReconcile PROVE IInv'
<1>1. TypeOK' /\ Shape' BY TickReconcileType DEF IInv
<1>2. tx \in Tx BY DEF IInv, TypeOK
<1>3. /\ tx'.ruleClients = tx.ruleClients /\ tx'.writes = tx.writes
      /\ UNCHANGED <<traffics, ruleClients, raw, extra, charged, due>>
  BY <1>2 DEF TickReconcile, Tx, panelVars, tableVars, ghostVars
<1>4. Accounted'
  BY <1>3, SoundStable DEF IInv, Accounted, TablesSound, TxSound
<1> QED BY <1>1, <1>4 DEF IInv

(* A client is enrolled from its current counters. *)
LEMMA TickEnrollStep ==
    ASSUME IInv, TickEnroll PROVE IInv'
<1>1. TypeOK' /\ Shape' BY TickEnrollType DEF IInv
<1>2. tx \in Tx /\ tx.writes = NoWrites BY DEF IInv, TypeOK, Shape, Fresh, TickEnroll
<1>3. /\ tx'.writes = NoWrites
      /\ UNCHANGED <<traffics, ruleClients, raw, extra, charged, due>>
      /\ tx'.ruleClients = [t \in Traffic |->
                    IF ruleState = "active" /\ tx.ruleClients[t] = NoRow
                                            /\ traffics[t] # NoRow
                    THEN Enrolled(traffics[t]) ELSE tx.ruleClients[t]]
  BY <1>2 DEF TickEnroll, Tx, panelVars, tableVars, ghostVars
<1>4. ASSUME NEW t \in Traffic PROVE Sound(tx'.ruleClients[t], t)
  <2>1. Sound(tx.ruleClients[t], t)
    BY <1>2 DEF IInv, Accounted, TxSound, NoWrites
  <2>2. CASE tx'.ruleClients[t] = tx.ruleClients[t] BY <2>1, <2>2
  <2>3. CASE traffics[t] # NoRow /\ tx'.ruleClients[t] = Enrolled(traffics[t])
    <3>1. traffics[t] \in TrafficRow BY <2>3 DEF IInv, TypeOK
    <3>2. Enrolled(traffics[t]).last = traffics[t].cnt /\ Enrolled(traffics[t]).rem = Zero
      BY DEF Enrolled
    <3>3. tx.ruleClients[t] \in RuleClient \cup {NoRow} BY <1>2 DEF Tx
    <3> QED BY <2>1, <2>3, <3>1, <3>2, <3>3, EnrolledType, FreshSound DEF IInv
  <2> QED BY <1>3, <2>2, <2>3
<1>5. Accounted'
  BY <1>3, <1>4, SoundStable DEF IInv, Accounted, TablesSound, TxSound, NoWrites
<1> QED BY <1>1, <1>5 DEF IInv

LEMMA TickLockStep ==
    ASSUME IInv, NEW t \in Traffic, TickLock(t) PROVE IInv'
<1>1. TypeOK' /\ Shape' BY TickLockType DEF IInv
<1>2. tx \in Tx BY DEF IInv, TypeOK
<1>3. /\ tx'.ruleClients = tx.ruleClients /\ tx'.writes = tx.writes
      /\ UNCHANGED <<traffics, ruleClients, raw, extra, charged, due>>
  BY <1>2 DEF TickLock, Tx, panelVars, tableVars, ghostVars
<1>4. Accounted'
  BY <1>3, SoundStable DEF IInv, Accounted, TablesSound, TxSound
<1> QED BY <1>1, <1>4 DEF IInv

-----------------------------------------------------------------------------
(* The end of a tick. *)
LEMMA WeakSound ==
    ASSUME TypeOK, NEW t \in Traffic, NEW rc \in RuleClient \cup {NoRow}, Sound(rc, t)
    PROVE  /\ Sound(NoRow, t)
           /\ \A d \in Dirs : /\ charged[t][d] <= raw[t][d]
                             /\ extra[t][d] * FactorScale < due[t][d] + FactorScale
<1>1. ASSUME NEW d \in Dirs
      PROVE  /\ charged[t][d] <= raw[t][d]
             /\ extra[t][d] * FactorScale < due[t][d] + FactorScale
             /\ charged[t][d] + PendingOf(NoRow, t, d) <= raw[t][d]
             /\ extra[t][d] * FactorScale + RemOf(NoRow, d) < due[t][d] + FactorScale
  <2>1. /\ charged[t][d] \in Nat /\ raw[t][d] \in Nat /\ extra[t][d] \in Nat
        /\ due[t][d] \in Nat
        /\ traffics[t] # NoRow => traffics[t].cnt[d] \in Nat
    BY DEF TypeOK, TrafficRow
  <2>2. PendingOf(rc, t, d) \in Nat /\ RemOf(rc, d) \in Nat
    BY <2>1, FactorScaleAssumption DEF PendingOf, RemOf, RuleClient
  <2>3. extra[t][d] * FactorScale \in Nat BY <2>1, FactorScaleAssumption, MulNat
  <2>4. /\ charged[t][d] + PendingOf(rc, t, d) <= raw[t][d]
        /\ extra[t][d] * FactorScale + RemOf(rc, d) < due[t][d] + FactorScale
    BY DEF Sound
  <2>5. PendingOf(NoRow, t, d) = 0 /\ RemOf(NoRow, d) = 0 BY DEF PendingOf, RemOf
  <2> QED BY <2>1, <2>2, <2>3, <2>4, <2>5, FactorScaleAssumption
<1> QED BY <1>1 DEF Sound

LEMMA BaseSound == TypeOK /\ TablesSound => \A t \in Traffic : Sound(NoRow, t)
BY WeakSound DEF TypeOK, TablesSound

LEMMA RollbackStep ==
    ASSUME IInv, Rollback PROVE IInv'
<1>1. /\ tx' = NoTx
      /\ UNCHANGED <<traffics, held, used, ruleState, ruleClients, excludes, overrides>>
      /\ UNCHANGED <<raw, extra, charged, due, suspendedTo>>
  BY DEF Rollback, panelVars, tableVars, ghostVars
<1>2. TypeOK' BY <1>1, NoTxType DEF IInv, TypeOK
<1>3. Shape'
  BY <1>1 DEF IInv, Shape, NoTxIdle, CurrentRead, LockedPresent, TodoTracked, WritesLocked,
              Fresh, IdsUsed, FactorsKnown, NoTx, NoWrites
<1>4. \A t \in Traffic : Sound(NoRow, t)
  BY BaseSound DEF IInv, Accounted
<1>5. Accounted'
  <2>1. tx'.writes = NoWrites /\ tx'.ruleClients = NoWrites BY <1>1 DEF NoTx
  <2> QED BY <1>1, <1>4, <2>1, SoundStable DEF IInv, Accounted, TablesSound, TxSound, NoWrites
<1> QED BY <1>2, <1>3, <1>5 DEF IInv

(* What a commit writes, row by row. *)
LEMMA CommitRow ==
    ASSUME IInv, TickCommit, NEW t \in Traffic
    PROVE  /\ raw'[t] = raw[t]
           /\ traffics'[t] = NoRow <=> traffics[t] = NoRow
           /\ IF Written(t)
              THEN /\ traffics[t] # NoRow
                   /\ tx.writes[t] \in Write /\ tx.ruleClients[t] \in RuleClient
                   /\ tx.ruleClients[t] # NoRow
                   /\ Staged(tx.ruleClients[t], tx.writes[t], t)
                   /\ traffics'[t] \in TrafficRow /\ traffics'[t].cnt = tx.writes[t].cnt
                   /\ \A d \in Dirs :
                        /\ extra'[t][d] = extra[t][d] + tx.writes[t].extra[d]
                        /\ charged'[t][d] = charged[t][d] + tx.writes[t].delta[d]
                        /\ due'[t][d] = due[t][d] + tx.writes[t].delta[d] * tx.writes[t].factorExtra
              ELSE /\ traffics'[t] = traffics[t]
                   /\ Sound(tx.ruleClients[t], t)
                   /\ \A d \in Dirs : /\ extra'[t][d] = extra[t][d]
                                      /\ charged'[t][d] = charged[t][d]
                                      /\ due'[t][d] = due[t][d]
<1>1. \A d \in Dirs : extra[t][d] \in Nat /\ charged[t][d] \in Nat /\ due[t][d] \in Nat
  BY DEF IInv, TypeOK
<1>2. CASE Written(t)
  <2>1. /\ tx.writes[t] \in Write /\ tx.ruleClients[t] \in RuleClient
        /\ tx.ruleClients[t] # NoRow /\ t \in tx.locked
    BY <1>2 DEF Written, IInv, TypeOK, Tx, Shape, WritesLocked
  <2>2. traffics[t] # NoRow /\ traffics[t] \in TrafficRow
    BY <2>1 DEF IInv, TypeOK, Shape, LockedPresent
  <2>3. traffics'[t] = [traffics[t] EXCEPT !.cnt = tx.writes[t].cnt] BY <1>2 DEF TickCommit
  <2>4. traffics'[t] \in TrafficRow /\ traffics'[t].cnt = tx.writes[t].cnt
    BY <2>1, <2>2, <2>3 DEF TrafficRow, Write
  <2>5. traffics'[t] # NoRow BY <2>4, RowsAssumption
  <2>6. Staged(tx.ruleClients[t], tx.writes[t], t)
    BY <1>2 DEF Written, IInv, Accounted, TxSound
  <2>7. ASSUME NEW d \in Dirs
        PROVE  /\ extra'[t][d] = extra[t][d] + tx.writes[t].extra[d]
               /\ charged'[t][d] = charged[t][d] + tx.writes[t].delta[d]
               /\ due'[t][d] = due[t][d] + tx.writes[t].delta[d] * tx.writes[t].factorExtra
    BY <1>2 DEF TickCommit
  <2> QED BY <1>2, <2>1, <2>2, <2>4, <2>5, <2>6, <2>7 DEF TickCommit
<1>3. CASE ~Written(t)
  <2>1. Sound(tx.ruleClients[t], t) BY <1>3 DEF Written, IInv, Accounted, TxSound
  <2>2. traffics'[t] = traffics[t] BY <1>3 DEF TickCommit
  <2>3. ASSUME NEW d \in Dirs
        PROVE  /\ extra'[t][d] = extra[t][d]
               /\ charged'[t][d] = charged[t][d]
               /\ due'[t][d] = due[t][d]
    BY <1>1, <1>3 DEF TickCommit
  <2> QED BY <1>3, <2>1, <2>2, <2>3 DEF TickCommit
<1> QED BY <1>2, <1>3

(* A committed write leaves nothing pending and keeps the account exact. *)
LEMMA CommitSound ==
    ASSUME IInv, TickCommit, NEW t \in Traffic, NEW rc, rc = tx.ruleClients[t]
    PROVE  Sound(rc, t)'
<1> DEFINE w == tx.writes[t]
<1> SUFFICES ASSUME NEW d \in Dirs
             PROVE  /\ charged'[t][d] + PendingOf(rc, t, d)' <= raw'[t][d]
                    /\ extra'[t][d] * FactorScale + RemOf(rc, d) < due'[t][d] + FactorScale
  BY DEF Sound, RemOf
<1>1. /\ charged[t][d] \in Nat /\ raw[t][d] \in Nat /\ extra[t][d] \in Nat /\ due[t][d] \in Nat
  BY DEF IInv, TypeOK
<1>2. CASE Written(t)
  <2>1. /\ w \in Write /\ rc \in RuleClient /\ rc # NoRow /\ Staged(rc, w, t)
        /\ traffics'[t] # NoRow /\ traffics'[t].cnt = w.cnt /\ raw'[t] = raw[t]
        /\ extra'[t][d] = extra[t][d] + w.extra[d]
        /\ charged'[t][d] = charged[t][d] + w.delta[d]
        /\ due'[t][d] = due[t][d] + w.delta[d] * w.factorExtra
    BY <1>2, CommitRow
  <2>2. /\ w.extra[d] \in Nat /\ w.delta[d] \in Nat /\ w.factorExtra \in Nat /\ w.cnt[d] \in Nat
        /\ rc.rem[d] \in Nat
    BY <2>1, FactorScaleAssumption DEF Write, RuleClient
  <2> HIDE DEF w
  <2>3. PendingOf(rc, t, d)' = 0 /\ RemOf(rc, d) = rc.rem[d]
    BY <2>1, <2>2 DEF PendingOf, RemOf, Staged
  <2>4. extra'[t][d] * FactorScale = extra[t][d] * FactorScale + w.extra[d] * FactorScale
    BY <2>1, <2>2, <1>1, FactorScaleAssumption, Distribute
  <2>5. /\ charged[t][d] + w.delta[d] <= raw[t][d]
        /\ extra[t][d] * FactorScale + w.extra[d] * FactorScale + rc.rem[d]
             < due[t][d] + w.delta[d] * w.factorExtra + FactorScale
    BY <2>1 DEF Staged
  <2> QED BY <1>1, <2>1, <2>2, <2>3, <2>4, <2>5
<1>3. CASE ~Written(t)
  <2>1. /\ traffics'[t] = traffics[t] /\ raw'[t] = raw[t] /\ Sound(rc, t)
        /\ extra'[t][d] = extra[t][d] /\ charged'[t][d] = charged[t][d]
        /\ due'[t][d] = due[t][d]
    BY <1>3, CommitRow
  <2>2. PendingOf(rc, t, d)' = PendingOf(rc, t, d)
    BY <2>1 DEF PendingOf
  <2> QED BY <2>1, <2>2 DEF Sound
<1> QED BY <1>2, <1>3

LEMMA CommitType ==
    ASSUME IInv, TickCommit PROVE TypeOK'
<1>0. tx \in Tx /\ tx' = NoTx BY DEF IInv, TypeOK, TickCommit
<1>1. traffics' \in [Traffic -> TrafficRow \cup {NoRow}]
  <2>1. \A t \in Traffic : traffics'[t] \in TrafficRow \cup {NoRow}
    BY CommitRow DEF IInv, TypeOK
  <2>2. traffics' = [t \in Traffic |-> traffics'[t]] BY DEF TickCommit
  <2> QED BY <2>1, <2>2
<1>2. held' \subseteq {t \in Traffic : traffics'[t] # NoRow} \ tx'.locked
  <2>1. held \subseteq {t \in Traffic : traffics[t] # NoRow} /\ held' = held
    BY DEF IInv, TypeOK, TickCommit
  <2> QED BY <2>1, <1>0, NoTxType, CommitRow
<1>3. /\ ruleClients' \in [Traffic -> RuleClient \cup {NoRow}]
      /\ excludes' \in [Emails -> Traffic \cup {NoRow}]
      /\ overrides' \in [Emails -> Override \cup {NoRow}]
  BY <1>0 DEF TickCommit, Tx
<1>4. ASSUME NEW t \in Traffic, NEW d \in Dirs
      PROVE  /\ extra'[t][d] \in Nat /\ charged'[t][d] \in Nat /\ due'[t][d] \in Nat
  <2>1. extra[t][d] \in Nat /\ charged[t][d] \in Nat /\ due[t][d] \in Nat
    BY DEF IInv, TypeOK
  <2>2. CASE Written(t)
    <3> DEFINE w == tx.writes[t]
    <3>1. w \in Write BY <2>2, CommitRow
    <3>2. w.extra[d] \in Nat /\ w.delta[d] \in Nat /\ w.factorExtra \in Nat
      BY <3>1 DEF Write
    <3>3. w.delta[d] * w.factorExtra \in Nat BY <3>2, MulNat
    <3>4. /\ extra'[t][d] = extra[t][d] + w.extra[d]
          /\ charged'[t][d] = charged[t][d] + w.delta[d]
          /\ due'[t][d] = due[t][d] + w.delta[d] * w.factorExtra
      BY <2>2, CommitRow
    <3> HIDE DEF w
    <3> QED BY <2>1, <3>2, <3>3, <3>4
  <2>3. CASE ~Written(t) BY <2>1, <2>3, CommitRow
  <2> QED BY <2>2, <2>3
<1>5. /\ extra' \in [Traffic -> [Dirs -> Nat]]
      /\ charged' \in [Traffic -> [Dirs -> Nat]]
      /\ due' \in [Traffic -> [Dirs -> Nat]]
  <2>1. /\ extra' = [t \in Traffic |-> [d \in Dirs |-> extra'[t][d]]]
        /\ charged' = [t \in Traffic |-> [d \in Dirs |-> charged'[t][d]]]
        /\ due' = [t \in Traffic |-> [d \in Dirs |-> due'[t][d]]]
    BY DEF TickCommit
  <2> QED BY <2>1, <1>4
<1>6. /\ used' \subseteq Traffic /\ ruleState' \in {"active", "paused"}
      /\ raw' \in [Traffic -> [Dirs -> Nat]] /\ suspendedTo' \in [Traffic -> [Dirs -> Nat]]
  BY DEF IInv, TypeOK, TickCommit
<1> QED BY <1>0, <1>1, <1>2, <1>3, <1>5, <1>6, NoTxType DEF TypeOK

LEMMA TickCommitStep ==
    ASSUME IInv, TickCommit PROVE IInv'
<1>1. TypeOK' BY CommitType
<1>2. tx' = NoTx /\ UNCHANGED <<used, raw>> /\ overrides' = tx.overrides
      /\ ruleClients' = tx.ruleClients
  BY DEF TickCommit
<1>3. Shape'
  <2>1. IdsUsed' BY <1>2, CommitRow DEF IInv, Shape, IdsUsed
  <2>2. FactorsKnown' BY <1>2 DEF IInv, Shape, FactorsKnown, NoTx
  <2>3. NoTxIdle' /\ CurrentRead' /\ LockedPresent' /\ TodoTracked' /\ WritesLocked' /\ Fresh'
    BY <1>2 DEF NoTxIdle, CurrentRead, LockedPresent, TodoTracked, WritesLocked, Fresh,
                NoTx, NoWrites
  <2> QED BY <2>1, <2>2, <2>3 DEF Shape
<1>4. TablesSound' BY <1>2, CommitSound DEF TablesSound
<1>5. TxSound'
  <2>1. \A t \in Traffic : Sound(NoRow, t)'
    <3>1. (TypeOK /\ TablesSound => \A t \in Traffic : Sound(NoRow, t))' BY BaseSound, PTL
    <3> QED BY <1>1, <1>4, <3>1
  <2>2. tx'.writes = NoWrites /\ tx'.ruleClients = NoWrites BY <1>2 DEF NoTx
  <2> QED BY <2>1, <2>2 DEF TxSound, NoWrites
<1>6. RawBounded' BY <1>2 DEF IInv, Accounted, RawBounded
<1>7. CounterConservation'
  <2> SUFFICES ASSUME NEW t \in Traffic, traffics'[t] # NoRow, NEW d \in Dirs
               PROVE  traffics'[t].cnt[d] = raw'[t][d] + extra'[t][d]
    BY DEF CounterConservation
  <2>1. traffics[t] # NoRow /\ traffics[t].cnt[d] = raw[t][d] + extra[t][d]
    BY CommitRow DEF IInv, Accounted, CounterConservation
  <2>2. raw[t][d] \in Nat /\ extra[t][d] \in Nat BY DEF IInv, TypeOK
  <2>3. CASE Written(t)
    <3>1. tx.writes[t].extra[d] \in Nat BY <2>3, CommitRow DEF Write
    <3>2. tx.writes[t].cnt[d] = traffics[t].cnt[d] + tx.writes[t].extra[d]
      BY <2>3, CommitRow DEF Staged
    <3> QED BY <2>1, <2>2, <2>3, <3>1, <3>2, CommitRow
  <2>4. CASE ~Written(t) BY <2>1, <2>4, CommitRow
  <2> QED BY <2>3, <2>4
<1>8. Blank'
  <2> SUFFICES ASSUME NEW t \in Traffic, traffics'[t] = NoRow
               PROVE  raw'[t] = Zero /\ extra'[t] = Zero
    BY DEF Blank
  <2>1. traffics[t] = NoRow /\ ~Written(t) BY CommitRow
  <2>2. raw'[t] = Zero /\ extra[t] = Zero BY <2>1, CommitRow DEF IInv, Accounted, Blank
  <2>3. extra'[t] \in [Dirs -> Nat] BY <1>1 DEF TypeOK
  <2>4. \A d \in Dirs : extra'[t][d] = 0 BY <2>1, <2>2, CommitRow DEF Zero
  <2> QED BY <2>2, <2>3, <2>4 DEF Zero
<1> QED BY <1>1, <1>3, <1>4, <1>5, <1>6, <1>7, <1>8 DEF IInv, Accounted

-----------------------------------------------------------------------------
(* Commands, cleanup and the passing of time change only the tables. *)
LEMMA TablesStep ==
    ASSUME IInv, UNCHANGED <<panelVars, tx, ghostVars>>,
           ruleState' \in {"active", "paused"},
           excludes' \in [Emails -> Traffic \cup {NoRow}],
           overrides' \in [Emails -> Override \cup {NoRow}],
           \A e \in Emails : overrides'[e] # NoRow => overrides'[e].factor \in OverrideFactors,
           ruleClients' \in [Traffic -> RuleClient \cup {NoRow}],
           \A t \in Traffic : Sound(ruleClients'[t], t)
    PROVE  IInv'
<1>1. UNCHANGED <<traffics, held, used, tx, raw, extra, charged, due, suspendedTo>>
  BY DEF panelVars, ghostVars
<1>2. TypeOK' BY <1>1 DEF IInv, TypeOK
<1>3. Shape'
  <2>1. FactorsKnown' BY <1>1 DEF IInv, Shape, FactorsKnown
  <2>2. /\ NoTxIdle' /\ CurrentRead' /\ LockedPresent' /\ TodoTracked' /\ WritesLocked'
        /\ Fresh' /\ IdsUsed'
    BY <1>1 DEF IInv, Shape, NoTxIdle, CurrentRead, LockedPresent, TodoTracked, WritesLocked,
                Fresh, IdsUsed, IsTarget
  <2> QED BY <2>1, <2>2 DEF Shape
<1>4. Accounted' BY <1>1, SoundStable DEF IInv, Accounted, TablesSound, TxSound
<1> QED BY <1>2, <1>3, <1>4 DEF IInv

LEMMA BaselineSound ==
    ASSUME IInv, NEW t \in Traffic, traffics[t] # NoRow, ruleClients[t] # NoRow
    PROVE  /\ Baseline(ruleClients[t], traffics[t].cnt, Zero) \in RuleClient
           /\ Sound(Baseline(ruleClients[t], traffics[t].cnt, Zero), t)
<1>1. /\ ruleClients[t] \in RuleClient /\ traffics[t].cnt \in [Dirs -> Nat]
      /\ Sound(ruleClients[t], t)
  BY DEF IInv, TypeOK, TrafficRow, Accounted, TablesSound
<1> DEFINE rc == Baseline(ruleClients[t], traffics[t].cnt, Zero)
<1>2. rc \in RuleClient /\ rc # NoRow /\ rc.last = traffics[t].cnt /\ rc.rem = Zero
  BY <1>1, BaselineType, ZeroType
<1> HIDE DEF rc
<1>3. Sound(rc, t) BY <1>1, <1>2, FreshSound DEF IInv
<1> QED BY <1>2, <1>3 DEF rc

LEMMA MarkedSound ==
    ASSUME IInv, NEW t \in Traffic, ruleClients[t] # NoRow
    PROVE  /\ MarkMissing(ruleClients[t]) \in RuleClient
           /\ Sound(MarkMissing(ruleClients[t]), t)
<1>1. ruleClients[t] \in RuleClient /\ Sound(ruleClients[t], t)
  BY DEF IInv, TypeOK, Accounted, TablesSound
<1> DEFINE rc == MarkMissing(ruleClients[t])
<1>2. /\ rc \in RuleClient /\ rc # NoRow /\ rc.last = ruleClients[t].last
      /\ rc.rem = ruleClients[t].rem
  BY <1>1, MarkMissingType
<1> HIDE DEF rc
<1>3. Sound(rc, t) BY <1>1, <1>2, KeptSound
<1> QED BY <1>2, <1>3 DEF rc

(* The baseline refresh of a command. *)
LEMMA RefreshedSound ==
    ASSUME IInv, NEW e \in Emails, Command(e)
    PROVE  LET rcs == Refreshed(ClientTrafficByEmail(e), e)
           IN  /\ rcs \in [Traffic -> RuleClient \cup {NoRow}]
               /\ \A t \in Traffic : Sound(rcs[t], t)
<1> DEFINE u == ClientTrafficByEmail(e)    rcs == Refreshed(u, e)
<1>1. u \in Traffic /\ traffics[u] # NoRow BY ByEmailType DEF Command, TrafficOf
<1> HIDE DEF u
<1>2. /\ ruleClients \in [Traffic -> RuleClient \cup {NoRow}]
      /\ \A t \in Traffic : Sound(ruleClients[t], t)
  BY DEF IInv, TypeOK, Accounted, TablesSound
<1>3. CASE rcs = ruleClients BY <1>2, <1>3 DEF u
<1>4. CASE /\ ruleClients[u] # NoRow
           /\ rcs = [ruleClients EXCEPT ![u] = Baseline(ruleClients[u], traffics[u].cnt, Zero)]
  <2>1. /\ Baseline(ruleClients[u], traffics[u].cnt, Zero) \in RuleClient
        /\ Sound(Baseline(ruleClients[u], traffics[u].cnt, Zero), u)
    BY <1>1, <1>4, BaselineSound
  <2>2. rcs \in [Traffic -> RuleClient \cup {NoRow}] BY <1>2, <1>4, <2>1
  <2>3. \A t \in Traffic : Sound(rcs[t], t) BY <1>1, <1>2, <1>4, <2>1
  <2> QED BY <2>2, <2>3 DEF u
<1> QED BY <1>3, <1>4 DEF Refreshed

LEMMA CommandsStep ==
    ASSUME IInv, Commands PROVE IInv'
<1>0. /\ excludes \in [Emails -> Traffic \cup {NoRow}]
      /\ overrides \in [Emails -> Override \cup {NoRow}]
      /\ ruleClients \in [Traffic -> RuleClient \cup {NoRow}]
      /\ ruleState \in {"active", "paused"}
      /\ \A e \in Emails : overrides[e] # NoRow => overrides[e].factor \in OverrideFactors
      /\ \A t \in Traffic : Sound(ruleClients[t], t)
  BY DEF IInv, TypeOK, Shape, FactorsKnown, Accounted, TablesSound
<1>1. ASSUME NEW e \in Emails, Exclude(e) PROVE IInv'
  <2>1. ClientTrafficByEmail(e) \in Traffic \cup {NoRow} BY ByEmailType
  <2> QED BY <1>0, <1>1, <2>1, TablesStep DEF Exclude
<1>2. ASSUME NEW e \in Emails, Unexclude(e) PROVE IInv'
  <2>1. Command(e) BY <1>2 DEF Unexclude
  <2>2. /\ ruleClients' \in [Traffic -> RuleClient \cup {NoRow}]
        /\ \A t \in Traffic : Sound(ruleClients'[t], t)
    BY <1>2, <2>1, RefreshedSound DEF Unexclude
  <2> QED BY <1>0, <1>2, <2>2, TablesStep DEF Unexclude
<1>3. ASSUME NEW e \in Emails, RemoveOverride(e) PROVE IInv'
  <2>1. Command(e) BY <1>3 DEF RemoveOverride
  <2>2. /\ ruleClients' \in [Traffic -> RuleClient \cup {NoRow}]
        /\ \A t \in Traffic : Sound(ruleClients'[t], t)
    BY <1>3, <2>1, RefreshedSound DEF RemoveOverride
  <2> QED BY <1>0, <1>3, <2>2, TablesStep DEF RemoveOverride
<1>4. ASSUME NEW e \in Emails, NEW f \in OverrideFactors, OverrideClient(e, f) PROVE IInv'
  <2>1. Command(e) BY <1>4 DEF OverrideClient
  <2>2. /\ ruleClients' \in [Traffic -> RuleClient \cup {NoRow}]
        /\ \A t \in Traffic : Sound(ruleClients'[t], t)
    BY <1>4, <2>1, RefreshedSound DEF OverrideClient
  <2>3. ClientTrafficByEmail(e) \in Traffic BY <2>1, ByEmailType DEF Command, TrafficOf
  <2>4. [traffic |-> ClientTrafficByEmail(e), factor |-> f] \in Override
    BY <2>3, FactorsAssumption DEF Override
  <2>5. overrides' = [overrides EXCEPT ![e] = [traffic |-> ClientTrafficByEmail(e), factor |-> f]]
        /\ UNCHANGED <<panelVars, ruleState, excludes, tx, ghostVars>>
    BY <1>4 DEF OverrideClient
  <2>6. overrides' \in [Emails -> Override \cup {NoRow}] BY <1>0, <2>4, <2>5
  <2>7. \A g \in Emails : overrides'[g] # NoRow => overrides'[g].factor \in OverrideFactors
    BY <1>0, <2>5
  <2> QED BY <1>0, <2>2, <2>5, <2>6, <2>7, TablesStep
<1>5. CASE PauseAll BY <1>0, <1>5, TablesStep DEF PauseAll
<1>6. CASE ResumeAll
  <2>1. \A t \in Traffic : /\ ruleClients'[t] \in RuleClient \cup {NoRow}
                           /\ Sound(ruleClients'[t], t)
    BY <1>0, <1>6, BaselineSound DEF ResumeAll, Matches
  <2>2. ruleClients' \in [Traffic -> RuleClient \cup {NoRow}] BY <1>6, <2>1 DEF ResumeAll
  <2> QED BY <1>0, <1>6, <2>1, <2>2, TablesStep DEF ResumeAll
<1>7. CASE Cleanup
  <2>1. ASSUME NEW t \in Traffic
        PROVE  /\ ruleClients'[t] \in RuleClient \cup {NoRow}
               /\ Sound(ruleClients'[t], t)
    <3>1. \/ ruleClients'[t] = NoRow
          \/ ruleClients'[t] = ruleClients[t]
          \/ ruleClients[t] # NoRow /\ ruleClients'[t] = MarkMissing(ruleClients[t])
      BY <1>7 DEF Cleanup
    <3>2. Sound(NoRow, t) BY BaseSound DEF IInv, Accounted
    <3> QED BY <1>0, <3>1, <3>2, MarkedSound
  <2>2. ruleClients' \in [Traffic -> RuleClient \cup {NoRow}]
    <3>1. ruleClients' = [t \in Traffic |-> ruleClients'[t]] BY <1>7 DEF Cleanup
    <3> QED BY <2>1, <3>1
  <2> QED BY <1>0, <1>7, <2>1, <2>2, TablesStep DEF Cleanup
<1> QED BY <1>1, <1>2, <1>3, <1>4, <1>5, <1>6, <1>7 DEF Commands

LEMMA AgeStep ==
    ASSUME IInv, NEW t \in Traffic, Age(t) PROVE IInv'
<1>0. /\ ruleClients \in [Traffic -> RuleClient \cup {NoRow}]
      /\ \A u \in Traffic : Sound(ruleClients[u], u)
  BY DEF IInv, TypeOK, Accounted, TablesSound
<1> DEFINE rc == [ruleClients[t] EXCEPT !.missing = "expired"]
<1>1. /\ rc \in RuleClient /\ rc.last = ruleClients[t].last /\ rc.rem = ruleClients[t].rem
      /\ ruleClients[t] \in RuleClient /\ ruleClients[t] # NoRow
  BY <1>0 DEF Age, RuleClient
<1>2. rc # NoRow BY <1>1, RowsAssumption
<1>3. ruleClients' = [ruleClients EXCEPT ![t] = rc] BY DEF Age
<1> HIDE DEF rc
<1>4. Sound(rc, t) BY <1>0, <1>1, <1>2, KeptSound
<1>5. /\ ruleClients' \in [Traffic -> RuleClient \cup {NoRow}]
      /\ \A u \in Traffic : Sound(ruleClients'[u], u)
  BY <1>0, <1>1, <1>3, <1>4
<1> QED BY <1>5, TablesStep DEF Age, IInv, TypeOK, Shape, FactorsKnown

-----------------------------------------------------------------------------
(* The panel changes one row, which no open transaction has locked. *)
LEMMA PanelStep ==
    ASSUME IInv, NEW t \in Traffic, t \notin tx.locked, UNCHANGED <<tableVars, tx>>,
           traffics' \in [Traffic -> TrafficRow \cup {NoRow}],
           held' \subseteq {u \in Traffic : traffics'[u] # NoRow} \ tx.locked,
           used \subseteq used' /\ used' \subseteq Traffic,
           traffics'[t] # NoRow => t \in used',
           \A g \in {raw', extra', charged', due', suspendedTo'} :
              g \in [Traffic -> [Dirs -> Nat]],
           \A u \in Traffic \ {t} :
              /\ traffics'[u] = traffics[u] /\ raw'[u] = raw[u] /\ extra'[u] = extra[u]
              /\ charged'[u] = charged[u] /\ due'[u] = due[u],
           traffics'[t] = NoRow => raw'[t] = Zero /\ extra'[t] = Zero,
           \A d \in Dirs : raw'[t][d] <= MaxBytes,
           traffics'[t] # NoRow =>
              \A d \in Dirs : traffics'[t].cnt[d] = raw'[t][d] + extra'[t][d],
           \A rc \in RuleClient \cup {NoRow} : Sound(rc, t) => Sound(rc, t)'
    PROVE  IInv'
<1>0. /\ UNCHANGED <<ruleState, ruleClients, excludes, overrides, tx>> /\ tx \in Tx
      /\ ruleClients \in [Traffic -> RuleClient \cup {NoRow}]
  BY DEF tableVars, IInv, TypeOK
<1>1. TypeOK' BY <1>0 DEF IInv, TypeOK
<1>2. Shape'
  <2>1. NoTxIdle' /\ TodoTracked' /\ WritesLocked' /\ Fresh' /\ FactorsKnown'
    BY <1>0 DEF IInv, Shape, NoTxIdle, TodoTracked, WritesLocked, Fresh, FactorsKnown
  <2>2. IdsUsed' BY DEF IInv, Shape, IdsUsed
  <2>3. tx.locked \subseteq Traffic \ {t} BY <1>0 DEF Tx
  <2>4. LockedPresent' BY <1>0, <2>3 DEF IInv, Shape, LockedPresent
  <2>5. CurrentRead' BY <1>0, <2>3 DEF IInv, Shape, CurrentRead, IsTarget
  <2> QED BY <2>1, <2>2, <2>4, <2>5 DEF Shape
<1>3. Blank' BY DEF IInv, Accounted, Blank
<1>4. RawBounded' BY DEF IInv, Accounted, RawBounded
<1>5. CounterConservation'
  <2> SUFFICES ASSUME NEW u \in Traffic, traffics'[u] # NoRow, NEW d \in Dirs
               PROVE  traffics'[u].cnt[d] = raw'[u][d] + extra'[u][d]
    BY DEF CounterConservation
  <2>1. CASE u = t BY <2>1
  <2>2. CASE u # t
    <3>1. traffics'[u] = traffics[u] /\ raw'[u] = raw[u] /\ extra'[u] = extra[u] BY <2>2
    <3> QED BY <3>1 DEF IInv, Accounted, CounterConservation
  <2> QED BY <2>1, <2>2
<1>6. ASSUME NEW u \in Traffic \ {t}, NEW rc, NEW w
      PROVE  Sound(rc, u)' = Sound(rc, u) /\ Staged(rc, w, u)' = Staged(rc, w, u)
  <2>1. /\ traffics'[u] = traffics[u] /\ raw'[u] = raw[u] /\ extra'[u] = extra[u]
        /\ charged'[u] = charged[u] /\ due'[u] = due[u]
    OBVIOUS
  <2>2. \A d \in Dirs : PendingOf(rc, u, d)' = PendingOf(rc, u, d) BY <2>1 DEF PendingOf
  <2>3. Sound(rc, u)' = Sound(rc, u) BY <2>1, <2>2 DEF Sound
  <2>4. Staged(rc, w, u)' = Staged(rc, w, u) BY <2>1 DEF Staged
  <2> QED BY <2>3, <2>4
<1>7. TablesSound'
  <2>1. ASSUME NEW u \in Traffic, NEW rc, rc = ruleClients[u] PROVE Sound(rc, u)'
    <3>1. Sound(rc, u) BY <2>1 DEF IInv, Accounted, TablesSound
    <3>2. CASE u = t BY <1>0, <2>1, <3>1, <3>2
    <3>3. CASE u # t BY <1>6, <3>1, <3>3
    <3> QED BY <3>2, <3>3
  <2> QED BY <1>0, <2>1 DEF TablesSound
<1>8. TxSound'
  <2>1. tx.writes[t] = NoRow /\ tx.ruleClients[t] \in RuleClient \cup {NoRow}
    BY <1>0 DEF IInv, Shape, WritesLocked, Tx
  <2>2. ASSUME NEW u \in Traffic, NEW rc, rc = tx.ruleClients[u], NEW w, w = tx.writes[u]
        PROVE  IF w = NoRow THEN Sound(rc, u)' ELSE Staged(rc, w, u)'
    <3>1. IF w = NoRow THEN Sound(rc, u) ELSE Staged(rc, w, u)
      BY <2>2 DEF IInv, Accounted, TxSound
    <3>2. CASE u = t BY <2>1, <2>2, <3>1, <3>2
    <3>3. CASE u # t BY <1>6, <3>1, <3>3
    <3> QED BY <3>2, <3>3
  <2> QED BY <1>0, <2>2 DEF TxSound
<1> QED BY <1>1, <1>2, <1>3, <1>4, <1>5, <1>7, <1>8 DEF IInv, Accounted

LEMMA HeldRow ==
    ASSUME IInv, NEW t \in held
    PROVE  t \in Traffic /\ traffics[t] \in TrafficRow /\ traffics[t] # NoRow
           /\ t \notin tx.locked /\ t \in used
BY DEF IInv, TypeOK, Shape, IdsUsed

LEMMA PanelHoldStep ==
    ASSUME IInv, NEW t \in Traffic, PanelHold(t) PROVE IInv'
<1>1. t \notin tx.locked
  <2>1. CASE Backend = "sqlite" BY <2>1 DEF PanelHold, PanelMayWrite, IInv, Shape, Fresh
  <2>2. CASE Backend # "sqlite" BY <2>2 DEF PanelHold, PanelMayWrite
  <2> QED BY <2>1, <2>2
<1>2. /\ UNCHANGED <<traffics, used, raw, extra, charged, due, suspendedTo, tx>>
      /\ UNCHANGED <<ruleState, ruleClients, excludes, overrides>>
      /\ held' = held \cup {t} /\ traffics[t] # NoRow
  BY DEF PanelHold, tableVars, ghostVars
<1>3. TypeOK' BY <1>1, <1>2 DEF IInv, TypeOK
<1>4. Shape'
  BY <1>2 DEF IInv, Shape, NoTxIdle, CurrentRead, LockedPresent, TodoTracked, WritesLocked,
              Fresh, IdsUsed, FactorsKnown, IsTarget
<1>5. Accounted' BY <1>2, SoundStable DEF IInv, Accounted, TablesSound, TxSound
<1> QED BY <1>3, <1>4, <1>5 DEF IInv

LEMMA PanelAddStep ==
    ASSUME IInv, NEW t \in Traffic, NEW d \in Dirs, NEW n \in 1..MaxBytes, PanelAdd(t, d, n)
    PROVE  IInv'
<1>0. t \in held BY DEF PanelAdd, PanelRelease
<1>1. /\ traffics[t] \in TrafficRow /\ traffics[t] # NoRow /\ t \notin tx.locked /\ t \in used
      /\ n \in Nat
  BY <1>0, HeldRow, BoundsAssumption
<1>2. /\ traffics \in [Traffic -> TrafficRow \cup {NoRow}]
      /\ \A g \in {raw, extra, charged, due, suspendedTo} : g \in [Traffic -> [Dirs -> Nat]]
      /\ held \subseteq {u \in Traffic : traffics[u] # NoRow} \ tx.locked
      /\ used \subseteq Traffic
  BY DEF IInv, TypeOK
<1>3. /\ traffics' = [traffics EXCEPT ![t].cnt[d] = traffics[t].cnt[d] + n]
      /\ raw' = [raw EXCEPT ![t][d] = raw[t][d] + n]
      /\ raw[t][d] + n <= MaxBytes
      /\ UNCHANGED <<extra, charged, due, used, tableVars, tx>> /\ held' = held \ {t}
  BY DEF PanelAdd, PanelRelease
<1>4. /\ traffics'[t] \in TrafficRow /\ traffics'[t].cnt[d] = traffics[t].cnt[d] + n
      /\ \A c \in Dirs \ {d} : traffics'[t].cnt[c] = traffics[t].cnt[c]
  <2>1. traffics'[t] = [traffics[t] EXCEPT !.cnt = [@ EXCEPT ![d] = traffics[t].cnt[d] + n]]
    BY <1>2, <1>3
  <2>2. traffics[t].cnt \in [Dirs -> Nat] /\ traffics[t].cnt[d] + n \in Nat
    BY <1>1 DEF TrafficRow
  <2>3. [traffics[t].cnt EXCEPT ![d] = traffics[t].cnt[d] + n] \in [Dirs -> Nat] BY <2>2
  <2>4. traffics'[t].cnt = [traffics[t].cnt EXCEPT ![d] = traffics[t].cnt[d] + n]
    BY <1>1, <2>1 DEF TrafficRow
  <2>5. traffics'[t] \in TrafficRow BY <1>1, <2>1, <2>3 DEF TrafficRow
  <2> QED BY <2>2, <2>4, <2>5
<1>5. traffics'[t] # NoRow BY <1>4, RowsAssumption
<1>6. traffics' \in [Traffic -> TrafficRow \cup {NoRow}]
  <2>1. traffics' = [traffics EXCEPT ![t] = traffics'[t]] BY <1>2, <1>3
  <2> QED BY <1>2, <1>4, <2>1
<1>7. raw' \in [Traffic -> [Dirs -> Nat]] BY <1>1, <1>2, <1>3
<1>8. suspendedTo' \in [Traffic -> [Dirs -> Nat]]
  <2>1. traffics'[t].cnt[d] \in Nat BY <1>4 DEF TrafficRow
  <2>2. suspendedTo \in [Traffic -> [Dirs -> Nat]] BY <1>2
  <2>3. \/ suspendedTo' = [suspendedTo EXCEPT ![t][d] = traffics'[t].cnt[d]]
        \/ suspendedTo' = suspendedTo
    BY DEF PanelAdd
  <2> QED BY <2>1, <2>2, <2>3
<1>9. \A u \in Traffic \ {t} : traffics'[u] = traffics[u] /\ raw'[u] = raw[u]
  BY <1>2, <1>3
<1>10. /\ raw'[t][d] = raw[t][d] + n
       /\ \A c \in Dirs \ {d} : raw'[t][c] = raw[t][c]
  BY <1>2, <1>3
<1>11. \A c \in Dirs : raw'[t][c] <= MaxBytes
  BY <1>3, <1>10 DEF IInv, Accounted, RawBounded
<1>12. \A c \in Dirs : traffics'[t].cnt[c] = raw'[t][c] + extra'[t][c]
  <2> SUFFICES ASSUME NEW c \in Dirs PROVE traffics'[t].cnt[c] = raw'[t][c] + extra'[t][c]
    OBVIOUS
  <2>1. traffics[t].cnt[c] = raw[t][c] + extra[t][c] /\ raw[t][c] \in Nat /\ extra[t][c] \in Nat
    BY <1>1, <1>2 DEF IInv, Accounted, CounterConservation
  <2>2. CASE c = d BY <2>1, <2>2, <1>1, <1>3, <1>4, <1>10
  <2>3. CASE c # d BY <2>1, <2>3, <1>3, <1>4, <1>10
  <2> QED BY <2>2, <2>3
<1>13. ASSUME NEW rc \in RuleClient \cup {NoRow}, Sound(rc, t) PROVE Sound(rc, t)'
  <2> SUFFICES ASSUME NEW c \in Dirs
               PROVE  /\ charged'[t][c] + PendingOf(rc, t, c)' <= raw'[t][c]
                      /\ extra'[t][c] * FactorScale + RemOf(rc, c) < due'[t][c] + FactorScale
    BY DEF Sound, RemOf
  <2>1. /\ charged[t][c] + PendingOf(rc, t, c) <= raw[t][c]
        /\ extra[t][c] * FactorScale + RemOf(rc, c) < due[t][c] + FactorScale
    BY <1>13 DEF Sound
  <2>2. charged[t][c] \in Nat /\ raw[t][c] \in Nat /\ traffics[t].cnt[c] \in Nat
    BY <1>1, <1>2 DEF TrafficRow
  <2>3. CASE c # d
    BY <2>1, <2>3, <1>1, <1>3, <1>4, <1>5, <1>10 DEF PendingOf
  <2>4. CASE c = d
    <3>1. rc # NoRow => rc.last[c] \in Nat BY DEF RuleClient
    <3>2. charged[t][c] + PendingOf(rc, t, c)' <= raw[t][c] + n
      BY <2>1, <2>2, <2>4, <3>1, <1>1, <1>4, <1>5 DEF PendingOf
    <3> QED BY <2>1, <3>2, <2>4, <1>3, <1>10
  <2> QED BY <2>3, <2>4
<1>14. held' \subseteq {u \in Traffic : traffics'[u] # NoRow} \ tx.locked
  BY <1>2, <1>3, <1>9
<1>15. \A g \in {raw', extra', charged', due', suspendedTo'} : g \in [Traffic -> [Dirs -> Nat]]
  BY <1>2, <1>3, <1>7, <1>8
<1> QED
  <2>1. \A rc \in RuleClient \cup {NoRow} : Sound(rc, t) => Sound(rc, t)' BY <1>13
  <2>2. used \subseteq used' /\ used' \subseteq Traffic /\ t \in used' BY <1>1, <1>2, <1>3
  <2>3. /\ UNCHANGED <<tableVars, tx>>
        /\ \A u \in Traffic \ {t} :
              /\ traffics'[u] = traffics[u] /\ raw'[u] = raw[u] /\ extra'[u] = extra[u]
              /\ charged'[u] = charged[u] /\ due'[u] = due[u]
    BY <1>3, <1>9
  <2> QED BY <1>1, <1>5, <1>6, <1>11, <1>12, <1>14, <1>15, <2>1, <2>2, <2>3, PanelStep

(* A reset zeroes the row, a deletion removes it; its account starts again. *)
LEMMA ForgetStep ==
    ASSUME IInv, NEW t \in Traffic, NEW row \in TrafficRow \cup {NoRow}, PanelRelease(t),
           row # NoRow => row.cnt = Zero,
           traffics' = [traffics EXCEPT ![t] = row], Forget(t)
    PROVE  IInv'
<1>0. t \in held BY DEF PanelRelease
<1>1. t \notin tx.locked /\ t \in used BY <1>0, HeldRow
<1>2. /\ traffics \in [Traffic -> TrafficRow \cup {NoRow}]
      /\ \A g \in {raw, extra, charged, due, suspendedTo} : g \in [Traffic -> [Dirs -> Nat]]
      /\ held \subseteq {u \in Traffic : traffics[u] # NoRow} \ tx.locked
      /\ used \subseteq Traffic
  BY DEF IInv, TypeOK
<1>3. /\ UNCHANGED <<used, tableVars, tx>> /\ held' = held \ {t} BY DEF PanelRelease
<1>4. traffics' \in [Traffic -> TrafficRow \cup {NoRow}] BY <1>2
<1>5. \A g \in {raw', extra', charged', due', suspendedTo'} : g \in [Traffic -> [Dirs -> Nat]]
  <2>1. \A g \in [Traffic -> [Dirs -> Nat]] : [g EXCEPT ![t] = Zero] \in [Traffic -> [Dirs -> Nat]]
    BY ZeroType
  <2>2. /\ raw' \in [Traffic -> [Dirs -> Nat]] /\ extra' \in [Traffic -> [Dirs -> Nat]]
        /\ charged' \in [Traffic -> [Dirs -> Nat]] /\ due' \in [Traffic -> [Dirs -> Nat]]
        /\ suspendedTo' \in [Traffic -> [Dirs -> Nat]]
    BY <1>2, <2>1, Zenon DEF Forget
  <2> QED BY <2>2
<1>6. \A u \in Traffic \ {t} :
         /\ traffics'[u] = traffics[u] /\ raw'[u] = raw[u] /\ extra'[u] = extra[u]
         /\ charged'[u] = charged[u] /\ due'[u] = due[u]
  BY <1>2 DEF Forget
<1>7. /\ traffics'[t] = row /\ raw'[t] = Zero /\ extra'[t] = Zero /\ charged'[t] = Zero
      /\ due'[t] = Zero
  BY <1>2 DEF Forget
<1>8. \A d \in Dirs : raw'[t][d] <= MaxBytes BY <1>7, BoundsAssumption DEF Zero
<1>9. traffics'[t] # NoRow => \A d \in Dirs : traffics'[t].cnt[d] = raw'[t][d] + extra'[t][d]
  BY <1>7 DEF Zero
<1>10. ASSUME NEW rc \in RuleClient \cup {NoRow} PROVE Sound(rc, t)'
  <2> SUFFICES ASSUME NEW d \in Dirs
               PROVE  /\ charged'[t][d] + PendingOf(rc, t, d)' <= raw'[t][d]
                      /\ extra'[t][d] * FactorScale + RemOf(rc, d) < due'[t][d] + FactorScale
    BY DEF Sound, RemOf
  <2>1. rc # NoRow => rc.last[d] \in Nat /\ rc.rem[d] \in 0..(FactorScale - 1)
    BY DEF RuleClient
  <2>2. PendingOf(rc, t, d)' = 0 BY <1>7, <2>1 DEF PendingOf, Zero
  <2>3. /\ charged'[t][d] = 0 /\ raw'[t][d] = 0 /\ extra'[t][d] = 0 /\ due'[t][d] = 0
    BY <1>7 DEF Zero
  <2>4. 0 * FactorScale = 0 BY FactorScaleAssumption
  <2>5. RemOf(rc, d) \in Nat /\ RemOf(rc, d) < FactorScale
    BY <2>1, FactorScaleAssumption DEF RemOf
  <2> QED BY <2>2, <2>3, <2>4, <2>5, FactorScaleAssumption
<1>11. held' \subseteq {u \in Traffic : traffics'[u] # NoRow} \ tx.locked
  BY <1>2, <1>3, <1>6
<1> QED
  <2>1. \A rc \in RuleClient \cup {NoRow} : Sound(rc, t) => Sound(rc, t)' BY <1>10
  <2>2. used \subseteq used' /\ used' \subseteq Traffic /\ t \in used' BY <1>1, <1>2, <1>3
  <2> QED BY <1>1, <1>3, <1>4, <1>5, <1>6, <1>7, <1>8, <1>9, <1>11, <2>1, <2>2, PanelStep

(* A change of a row that is not of its counters. *)
LEMMA SameCountersStep ==
    ASSUME IInv, NEW t \in Traffic, NEW row \in TrafficRow, t \notin tx.locked,
           UNCHANGED <<tableVars, tx, ghostVars>>,
           traffics' = [traffics EXCEPT ![t] = row],
           held' \subseteq held, used \subseteq used' /\ used' \subseteq Traffic, t \in used',
           IF traffics[t] = NoRow THEN row.cnt = Zero ELSE row.cnt = traffics[t].cnt
    PROVE  IInv'
<1>1. /\ traffics \in [Traffic -> TrafficRow \cup {NoRow}]
      /\ \A g \in {raw, extra, charged, due, suspendedTo} : g \in [Traffic -> [Dirs -> Nat]]
      /\ held \subseteq {u \in Traffic : traffics[u] # NoRow} \ tx.locked
  BY DEF IInv, TypeOK
<1>2. UNCHANGED <<raw, extra, charged, due, suspendedTo, tableVars, tx>> BY DEF ghostVars
<1>3. row # NoRow BY RowsAssumption
<1>4. /\ traffics'[t] = row /\ \A u \in Traffic \ {t} : traffics'[u] = traffics[u]
      /\ traffics' \in [Traffic -> TrafficRow \cup {NoRow}]
  BY <1>1
<1>5. held' \subseteq {u \in Traffic : traffics'[u] # NoRow} \ tx.locked
  BY <1>1, <1>3, <1>4
<1>6. \A d \in Dirs : row.cnt[d] = raw[t][d] + extra[t][d]
  <2>1. CASE traffics[t] = NoRow BY <2>1 DEF IInv, Accounted, Blank, Zero
  <2>2. CASE traffics[t] # NoRow BY <2>2 DEF IInv, Accounted, CounterConservation
  <2> QED BY <2>1, <2>2
<1>7. ASSUME NEW rc \in RuleClient \cup {NoRow}, Sound(rc, t) PROVE Sound(rc, t)'
  <2> SUFFICES ASSUME NEW d \in Dirs
               PROVE  /\ charged'[t][d] + PendingOf(rc, t, d)' <= raw'[t][d]
                      /\ extra'[t][d] * FactorScale + RemOf(rc, d) < due'[t][d] + FactorScale
    BY DEF Sound, RemOf
  <2>1. rc # NoRow => rc.last[d] \in Nat BY DEF RuleClient
  <2>2. PendingOf(rc, t, d)' = PendingOf(rc, t, d)
    <3>1. CASE traffics[t] = NoRow BY <3>1, <2>1, <1>3, <1>4 DEF PendingOf, Zero
    <3>2. CASE traffics[t] # NoRow BY <3>2, <1>3, <1>4 DEF PendingOf
    <3> QED BY <3>1, <3>2
  <2> QED BY <1>2, <1>7, <2>2 DEF Sound
<1>8. \A d \in Dirs : raw'[t][d] <= MaxBytes
  BY <1>2 DEF IInv, Accounted, RawBounded
<1>9. \A d \in Dirs : traffics'[t].cnt[d] = raw'[t][d] + extra'[t][d] BY <1>2, <1>4, <1>6
<1> QED
  <2>1. \A rc \in RuleClient \cup {NoRow} : Sound(rc, t) => Sound(rc, t)' BY <1>7
  <2>2. /\ \A u \in Traffic \ {t} :
              /\ traffics'[u] = traffics[u] /\ raw'[u] = raw[u] /\ extra'[u] = extra[u]
              /\ charged'[u] = charged[u] /\ due'[u] = due[u]
        /\ \A g \in {raw', extra', charged', due', suspendedTo'} : g \in [Traffic -> [Dirs -> Nat]]
    BY <1>1, <1>2, <1>4
  <2> QED BY <1>2, <1>3, <1>4, <1>5, <1>8, <1>9, <2>1, <2>2, PanelStep

LEMMA PanelFinishStep ==
    ASSUME IInv, NEW t \in Traffic, PanelFinish(t) PROVE IInv'
<1>0. t \in held /\ held' \subseteq held /\ UNCHANGED <<used, tableVars, tx>>
  BY DEF PanelFinish, PanelAdd, PanelReset, PanelRename, PanelDelete, PanelTouch, PanelRelease
<1>1. /\ traffics[t] \in TrafficRow /\ traffics[t] # NoRow /\ t \notin tx.locked /\ t \in used
      /\ used \subseteq Traffic
  BY <1>0, HeldRow DEF IInv, TypeOK
<1>2. ASSUME NEW d \in Dirs, NEW n \in 1..MaxBytes, PanelAdd(t, d, n) PROVE IInv'
  BY <1>2, PanelAddStep
<1>3. CASE PanelReset(t)
  <2> DEFINE row == [traffics[t] EXCEPT !.cnt = Zero]
  <2>1. row \in TrafficRow /\ row.cnt = Zero BY <1>1, ZeroType DEF TrafficRow
  <2>2. traffics' = [traffics EXCEPT ![t] = row] BY <1>3 DEF PanelReset
  <2> HIDE DEF row
  <2> QED BY <1>3, <2>1, <2>2, ForgetStep DEF PanelReset
<1>4. ASSUME NEW e \in Emails, PanelRename(t, e) PROVE IInv'
  <2> DEFINE row == [traffics[t] EXCEPT !.email = e]
  <2>1. row \in TrafficRow /\ row.cnt = traffics[t].cnt BY <1>1 DEF TrafficRow
  <2>2. traffics' = [traffics EXCEPT ![t] = row] /\ UNCHANGED ghostVars
    BY <1>4 DEF PanelRename
  <2> HIDE DEF row
  <2> QED BY <1>0, <1>1, <2>1, <2>2, SameCountersStep
<1>5. CASE PanelDelete(t) BY <1>5, ForgetStep DEF PanelDelete
<1>6. CASE PanelTouch(t)
  <2>1. traffics' = [traffics EXCEPT ![t] = traffics[t]] /\ UNCHANGED ghostVars
    BY <1>6 DEF PanelTouch, IInv, TypeOK
  <2> QED BY <1>0, <1>1, <2>1, SameCountersStep
<1> QED BY <1>2, <1>3, <1>4, <1>5, <1>6 DEF PanelFinish

LEMMA PanelCreateStep ==
    ASSUME IInv, NEW t \in Traffic, NEW e \in Emails, PanelCreate(t, e) PROVE IInv'
<1>1. traffics[t] = NoRow BY DEF PanelCreate, IInv, Shape, IdsUsed
<1>2. t \notin tx.locked BY <1>1 DEF IInv, Shape, LockedPresent
<1> DEFINE row == [email |-> e, cnt |-> Zero]
<1>3. row \in TrafficRow /\ row.cnt = Zero BY ZeroType DEF TrafficRow
<1>4. /\ traffics' = [traffics EXCEPT ![t] = row] /\ UNCHANGED <<held, tableVars, tx, ghostVars>>
      /\ used \subseteq used' /\ used' \subseteq Traffic /\ t \in used'
  BY DEF PanelCreate, IInv, TypeOK
<1> HIDE DEF row
<1> QED BY <1>1, <1>2, <1>3, <1>4, SameCountersStep

-----------------------------------------------------------------------------
LEMMA InitStep == Init => IInv
<1> SUFFICES ASSUME Init PROVE IInv OBVIOUS
<1>1. TypeOK /\ Shape BY InitType
<1>2. ASSUME NEW t \in Traffic, NEW d \in Dirs
      PROVE  /\ raw[t][d] = 0 /\ extra[t][d] = 0 /\ charged[t][d] = 0 /\ due[t][d] = 0
             /\ traffics[t] # NoRow => traffics[t].cnt[d] = 0
  BY DEF Init, Zero
<1>3. Blank /\ RawBounded /\ CounterConservation
  BY <1>2, BoundsAssumption DEF Init, Blank, RawBounded, CounterConservation
<1>4. \A t \in Traffic : Sound(NoRow, t)
  BY <1>2, FactorScaleAssumption DEF Sound, PendingOf, RemOf
<1>5. TablesSound /\ TxSound
  BY <1>4 DEF Init, TablesSound, TxSound, NoTx, NoWrites
<1> QED BY <1>1, <1>3, <1>5 DEF IInv, Accounted

LEMMA NextStep == IInv /\ [Next]_vars => IInv'
<1> SUFFICES ASSUME IInv, [Next]_vars PROVE IInv' OBVIOUS
<1>1. CASE Panel BY <1>1, PanelHoldStep, PanelFinishStep, PanelCreateStep DEF Panel
<1>2. CASE TickStep
  BY <1>2, TickBeginStep, TickReconcileStep, TickEnrollStep, TickCommitStep, RollbackStep,
     PassedStep, TickLockStep, TickApplyStep DEF TickStep, TickTarget, TickAbort
<1>3. CASE Commands BY <1>3, CommandsStep
<1>4. CASE \E t \in Traffic : Age(t) BY <1>4, AgeStep
<1>5. CASE Crash BY <1>5, RollbackStep DEF Crash
<1>6. CASE UNCHANGED vars
  <2>1. UNCHANGED <<panelVars, tx, ghostVars>> /\ UNCHANGED <<ruleState, ruleClients, excludes, overrides>>
    BY <1>6 DEF vars, tableVars
  <2> QED BY <2>1, TablesStep DEF IInv, TypeOK, Shape, FactorsKnown, Accounted, TablesSound
<1> QED BY <1>1, <1>2, <1>3, <1>4, <1>5, <1>6 DEF Next

LEMMA TickInvariant == Spec => []IInv
BY InitStep, NextStep, PTL DEF Spec

(* Types, and the row locks of an open transaction: no panel transaction   *)
(* ever holds a row a tick has locked (LockClientTraffic), on either       *)
(* backend and whatever the panel, the commands and crashes do.            *)
THEOREM TickTypeOK == Spec => []TypeOK
<1>1. IInv => TypeOK BY DEF IInv
<1> QED BY <1>1, TickInvariant, PTL

(* A counter is what the panel counted plus what committed ticks added:    *)
(* UpdateClientCountersCAS under the row lock never overwrites a panel     *)
(* job, and a rolled back tick leaves nothing behind.                      *)
THEOREM TickConserves == Spec => []CounterConservation
<1>1. IInv => CounterConservation BY DEF IInv, Accounted
<1> QED BY <1>1, TickInvariant, PTL

(* No counted byte is factored twice and no added byte is factored: the    *)
(* baseline a tick stores is the counter it wrote.                         *)
THEOREM TickFactorsOnce == Spec => []FactoredAtMostOnce
<1>1. ASSUME IInv, NEW t \in Traffic, NEW d \in Dirs
      PROVE  charged[t][d] + Pending(t, d) <= raw[t][d]
  <2>1. Pending(t, d) = PendingOf(ruleClients[t], t, d) BY DEF Pending, PendingOf
  <2> QED BY <1>1, <2>1 DEF IInv, Accounted, TablesSound, Sound
<1>2. IInv => FactoredAtMostOnce BY <1>1 DEF FactoredAtMostOnce
<1> QED BY <1>2, TickInvariant, PTL

(* The bytes added stay within one byte of the exact product, for every    *)
(* mix of factors, refreshed baselines and stale remainders.               *)
THEOREM TickNotOvercharged == Spec => []NotOvercharged
<1>1. ASSUME IInv, NEW t \in Traffic, NEW d \in Dirs
      PROVE  extra[t][d] * FactorScale < due[t][d] + FactorScale
  <2>1. ruleClients[t] \in RuleClient \cup {NoRow} /\ Sound(ruleClients[t], t)
    BY <1>1 DEF IInv, TypeOK, Accounted, TablesSound
  <2> QED BY <1>1, <2>1, WeakSound DEF IInv
<1>2. IInv => NotOvercharged BY <1>1 DEF NotOvercharged
<1> QED BY <1>2, TickInvariant, PTL

-----------------------------------------------------------------------------
(* The refinement: each step of the tables is a step of the ledger. *)
RawL == [a \in Accounts |-> raw[a[1]][a[2]]]
ChargedL == [a \in Accounts |-> charged[a[1]][a[2]]]
DueL == [a \in Accounts |-> due[a[1]][a[2]]]
ExtraL == [a \in Accounts |-> extra[a[1]][a[2]]]

LEMMA LedgerCount ==
    ASSUME IInv, NEW t \in Traffic, NEW d \in Dirs, NEW n \in 1..MaxBytes, PanelAdd(t, d, n)
    PROVE  LedgerImpl!Next
<1>1. raw \in [Traffic -> [Dirs -> Nat]] BY DEF IInv, TypeOK
<1>2. raw' = [raw EXCEPT ![t][d] = raw[t][d] + n] /\ UNCHANGED <<extra, charged, due>>
  BY DEF PanelAdd
<1>3. <<t, d>> \in Accounts BY DEF Accounts
<1>4. ASSUME NEW a \in Accounts
      PROVE  raw'[a[1]][a[2]] = IF a = <<t, d>> THEN raw[t][d] + n ELSE raw[a[1]][a[2]]
  <2>1. PICK u \in Traffic, c \in Dirs : a = <<u, c>> BY DEF Accounts
  <2> QED BY <1>1, <1>2, <2>1
<1>5. RawL' = [RawL EXCEPT ![<<t, d>>] = RawL[<<t, d>>] + n]
  BY <1>3, <1>4 DEF RawL
<1>6. UNCHANGED <<ChargedL, DueL, ExtraL>> BY <1>2 DEF ChargedL, DueL, ExtraL
<1>7. LedgerImpl!Count(<<t, d>>, n)
  BY <1>5, <1>6 DEF LedgerImpl!Count, RawL, ChargedL, DueL, ExtraL
<1> QED BY <1>3, <1>7 DEF LedgerImpl!Next

LEMMA LedgerRestart ==
    ASSUME IInv, NEW t \in Traffic, Forget(t)
    PROVE  LedgerImpl!Next
<1> DEFINE S == {t} \X Dirs
<1>1. \A g \in {raw, extra, charged, due} : g \in [Traffic -> [Dirs -> Nat]]
  BY DEF IInv, TypeOK
<1>2. ASSUME NEW a \in Accounts
      PROVE  /\ raw'[a[1]][a[2]] = IF a \in S THEN 0 ELSE raw[a[1]][a[2]]
             /\ charged'[a[1]][a[2]] = IF a \in S THEN 0 ELSE charged[a[1]][a[2]]
             /\ due'[a[1]][a[2]] = IF a \in S THEN 0 ELSE due[a[1]][a[2]]
             /\ extra'[a[1]][a[2]] = IF a \in S THEN 0 ELSE extra[a[1]][a[2]]
  <2>1. PICK u \in Traffic, c \in Dirs : a = <<u, c>> BY DEF Accounts
  <2>2. a \in S <=> u = t BY <2>1
  <2>3. /\ raw'[u] = IF u = t THEN Zero ELSE raw[u]
        /\ charged'[u] = IF u = t THEN Zero ELSE charged[u]
        /\ due'[u] = IF u = t THEN Zero ELSE due[u]
        /\ extra'[u] = IF u = t THEN Zero ELSE extra[u]
    BY <1>1 DEF Forget
  <2> QED BY <2>1, <2>2, <2>3 DEF Zero
<1>3. S \in SUBSET Accounts BY DEF Accounts
<1> HIDE DEF S
<1>4. ASSUME NEW a \in Accounts
      PROVE  /\ RawL[a] = raw[a[1]][a[2]] /\ ChargedL[a] = charged[a[1]][a[2]]
             /\ DueL[a] = due[a[1]][a[2]] /\ ExtraL[a] = extra[a[1]][a[2]]
  BY DEF RawL, ChargedL, DueL, ExtraL
<1>5. /\ RawL' = [a \in Accounts |-> IF a \in S THEN 0 ELSE RawL[a]]
      /\ ChargedL' = [a \in Accounts |-> IF a \in S THEN 0 ELSE ChargedL[a]]
      /\ DueL' = [a \in Accounts |-> IF a \in S THEN 0 ELSE DueL[a]]
      /\ ExtraL' = [a \in Accounts |-> IF a \in S THEN 0 ELSE ExtraL[a]]
  BY <1>2, <1>4 DEF RawL, ChargedL, DueL, ExtraL
<1>6. LedgerImpl!Restart(S)
  BY <1>5 DEF LedgerImpl!Restart, RawL, ChargedL, DueL, ExtraL
<1> QED BY <1>3, <1>6 DEF LedgerImpl!Next

LEMMA LedgerSettle ==
    ASSUME IInv, TickCommit
    PROVE  LedgerImpl!Next
<1>0. (TypeOK /\ TablesSound => \A t \in Traffic : Sound(NoRow, t))' BY BaseSound, PTL
<1>1. ASSUME NEW a \in Accounts
      PROVE  \E n \in 0..MaxBytes, f \in FactorExtras :
                /\ ChargedL'[a] = ChargedL[a] + n
                /\ ChargedL'[a] <= RawL[a]
                /\ DueL'[a] = DueL[a] + n * f
                /\ ExtraL'[a] >= ExtraL[a]
                /\ ExtraL'[a] * FactorScale < DueL'[a] + FactorScale
                /\ n = 0 => ExtraL'[a] = ExtraL[a]
  <2>1. PICK t \in Traffic, d \in Dirs : a = <<t, d>> BY DEF Accounts
  <2>2. /\ RawL[a] = raw[t][d] /\ ChargedL[a] = charged[t][d]
        /\ DueL[a] = due[t][d] /\ ExtraL[a] = extra[t][d]
        /\ ChargedL'[a] = charged'[t][d] /\ DueL'[a] = due'[t][d] /\ ExtraL'[a] = extra'[t][d]
    BY <2>1 DEF RawL, ChargedL, DueL, ExtraL
  <2>3. /\ charged[t][d] \in Nat /\ raw[t][d] \in Nat /\ extra[t][d] \in Nat
        /\ due[t][d] \in Nat /\ raw[t][d] <= MaxBytes
    BY DEF IInv, TypeOK, Accounted, RawBounded
  <2>4. charged'[t][d] <= raw[t][d] /\ extra'[t][d] * FactorScale < due'[t][d] + FactorScale
    <3>1. IInv' BY TickCommitStep
    <3>2. TypeOK' /\ TablesSound' BY <3>1 DEF IInv, Accounted
    <3>3. Sound(NoRow, t)' BY <1>0, <3>2
    <3>4. /\ charged'[t][d] + 0 <= raw'[t][d]
          /\ extra'[t][d] * FactorScale + 0 < due'[t][d] + FactorScale
      BY <3>3 DEF Sound, PendingOf, RemOf
    <3>5. charged'[t][d] \in Nat /\ extra'[t][d] \in Nat BY <3>2 DEF TypeOK
    <3>6. extra'[t][d] * FactorScale \in Nat BY <3>5, MulNat, FactorScaleAssumption
    <3> QED BY <3>4, <3>5, <3>6 DEF TickCommit
  <2>5. CASE Written(t)
    <3> DEFINE n == tx.writes[t].delta[d]    f == tx.writes[t].factorExtra
               x == tx.writes[t].extra[d]
    <3>1. /\ n \in Nat /\ x \in Nat /\ f \in FactorExtras
          /\ charged[t][d] + n <= raw[t][d] /\ (n = 0 => x = 0)
          /\ extra'[t][d] = extra[t][d] + x /\ charged'[t][d] = charged[t][d] + n
          /\ due'[t][d] = due[t][d] + n * f
      BY <2>5, CommitRow DEF Staged, Write
    <3> HIDE DEF n, f, x
    <3>2. n \in 0..MaxBytes BY <2>3, <3>1, BoundsAssumption
    <3>3. extra'[t][d] >= extra[t][d] /\ (n = 0 => extra'[t][d] = extra[t][d])
      BY <2>3, <3>1
    <3> QED BY <2>2, <2>4, <3>1, <3>2, <3>3
  <2>6. CASE ~Written(t)
    <3> DEFINE f == ScopeFactor - FactorScale
    <3>1. f \in FactorExtras BY DEF FactorExtras
    <3>2. 0 * f = 0 /\ 0 \in 0..MaxBytes
      BY FactorsAssumption, FactorScaleAssumption, BoundsAssumption
    <3>3. /\ extra'[t][d] = extra[t][d] /\ charged'[t][d] = charged[t][d] + 0
          /\ due'[t][d] = due[t][d] + 0 * f
      BY <2>3, <2>6, <3>2, CommitRow
    <3> HIDE DEF f
    <3>4. extra'[t][d] >= extra[t][d] BY <2>3, <3>3
    <3> QED BY <2>2, <2>4, <3>1, <3>2, <3>3, <3>4
  <2> QED BY <2>5, <2>6
<1>2. UNCHANGED RawL BY DEF TickCommit, RawL
<1>3. LedgerImpl!Settle
  BY <1>1, <1>2 DEF LedgerImpl!Settle, LedgerImpl!SettleAccount, FactorExtras,
                    RawL, ChargedL, DueL, ExtraL
<1> QED BY <1>3 DEF LedgerImpl!Next

LEMMA LedgerStutter ==
    ASSUME UNCHANGED <<raw, extra, charged, due>>
    PROVE  UNCHANGED LedgerImpl!vars
BY DEF LedgerImpl!vars

LEMMA LedgerStep ==
    IInv /\ [Next]_vars => [LedgerImpl!Next]_(LedgerImpl!vars)
<1> SUFFICES ASSUME IInv, [Next]_vars PROVE [LedgerImpl!Next]_(LedgerImpl!vars) OBVIOUS
<1>1. ASSUME NEW t \in Traffic, PanelFinish(t) PROVE [LedgerImpl!Next]_(LedgerImpl!vars)
  <2>1. ASSUME NEW d \in Dirs, NEW n \in 1..MaxBytes, PanelAdd(t, d, n) PROVE LedgerImpl!Next
    BY <2>1, LedgerCount
  <2>2. CASE PanelReset(t) \/ PanelDelete(t)
    BY <2>2, LedgerRestart DEF PanelReset, PanelDelete
  <2>3. CASE PanelTouch(t) \/ \E e \in Emails : PanelRename(t, e)
    BY <2>3, LedgerStutter DEF PanelTouch, PanelRename, ghostVars
  <2> QED BY <1>1, <2>1, <2>2, <2>3 DEF PanelFinish
<1>2. CASE TickCommit BY <1>2, LedgerSettle
<1>3. CASE \/ \E t \in Traffic : PanelHold(t)
           \/ \E t \in Traffic, e \in Emails : PanelCreate(t, e)
  BY <1>3, LedgerStutter DEF PanelHold, PanelCreate, ghostVars
<1>4. CASE TickBegin \/ TickReconcile \/ TickEnroll \/ TickAbort \/ Crash
  BY <1>4, LedgerStutter DEF TickBegin, TickReconcile, TickEnroll, TickAbort, Crash, Rollback,
                             ghostVars
<1>5. CASE \E t \in Traffic : TickTarget(t)
  BY <1>5, LedgerStutter DEF TickTarget, TickSuppressed, TickMissing, TickDefer, TickLock,
                             TickRebaseline, TickApply, ghostVars
<1>6. CASE Commands
  BY <1>6, LedgerStutter DEF Commands, Exclude, Unexclude, RemoveOverride, OverrideClient,
                             PauseAll, ResumeAll, Cleanup, ghostVars
<1>7. CASE \E t \in Traffic : Age(t) BY <1>7, LedgerStutter DEF Age, ghostVars
<1>8. CASE UNCHANGED vars BY <1>8, LedgerStutter DEF vars, ghostVars
<1> QED BY <1>1, <1>2, <1>3, <1>4, <1>5, <1>6, <1>7, <1>8
        DEF Next, Panel, TickStep

LEMMA LedgerStart == Init => LedgerImpl!Init
<1> SUFFICES ASSUME Init PROVE LedgerImpl!Init OBVIOUS
<1>1. ASSUME NEW a \in Accounts
      PROVE  /\ raw[a[1]][a[2]] = 0 /\ charged[a[1]][a[2]] = 0
             /\ due[a[1]][a[2]] = 0 /\ extra[a[1]][a[2]] = 0
  <2>1. PICK t \in Traffic, d \in Dirs : a = <<t, d>> BY DEF Accounts
  <2> QED BY <2>1 DEF Init, Zero
<1> QED BY <1>1 DEF LedgerImpl!Init

(* The tables implement the ledger: every step of the panel, a tick, a     *)
(* command or a crash is a panel count, a restart of an account or the     *)
(* settlement of a committed tick, or changes no account.                  *)
THEOREM TickImplementsLedger == Spec => ImplementsLedger
<1>1. Init => LedgerImpl!Init BY LedgerStart
<1>2. IInv /\ [Next]_vars => [LedgerImpl!Next]_(LedgerImpl!vars) BY LedgerStep
<1> QED BY <1>1, <1>2, TickInvariant, PTL DEF Spec, ImplementsLedger, LedgerImpl!Spec

-----------------------------------------------------------------------------
(* No byte is forgiven.  A row the rule tracks is staged unchanged until   *)
(* the tick comes to it; from then on the baseline is kept, or the write   *)
(* factors all that was pending, or there is a reason to pass bytes over.  *)
Reason(t) ==
    \/ excludes[ruleClients[t].email] # NoRow
    \/ ruleClients[t].missing # "no"
    \/ t \in tx.locked /\ \E d \in Dirs : traffics[t].cnt[d] < ruleClients[t].last[d]

StagedFor(t) ==
    /\ tx.ruleClients[t] # NoRow
    /\ t \in tx.todo => tx.ruleClients[t] = ruleClients[t]
    /\ IF Written(t)
       THEN \A d \in Dirs : ruleClients[t].last[d] + tx.writes[t].delta[d] = traffics[t].cnt[d]
       ELSE tx.ruleClients[t].last = ruleClients[t].last \/ Reason(t)

Follows ==
    /\ tx.pc # "idle" =>
         /\ \A t \in Traffic : ruleClients[t] # NoRow => StagedFor(t)
         /\ \A e \in Emails : tx.excludes[e] # NoRow => excludes[e] # NoRow
    /\ tx.pc \in {"reconcile", "scopes"} =>
         \A t \in Traffic : ruleClients[t] # NoRow => tx.ruleClients[t] = ruleClients[t]

LEMMA FollowsIdle == tx.pc = "idle" => Follows
BY DEF Follows

LEMMA FollowsPanel ==
    ASSUME IInv, Follows, UNCHANGED <<tableVars, tx>>,
           \A u \in tx.locked : traffics'[u] = traffics[u]
    PROVE  Follows'
<1>1. UNCHANGED <<ruleClients, excludes, tx>> BY DEF tableVars
<1>2. ASSUME NEW t \in Traffic, StagedFor(t), tx.pc # "idle" PROVE StagedFor(t)'
  <2>1. Reason(t)' = Reason(t) BY <1>1 DEF Reason
  <2>2. Written(t)' = Written(t) /\ (Written(t) => t \in tx.locked)
    BY <1>1 DEF Written, IInv, Shape, WritesLocked
  <2> QED BY <1>1, <1>2, <2>1, <2>2 DEF StagedFor
<1> QED BY <1>1, <1>2 DEF Follows

LEMMA FollowsDone ==
    ASSUME IInv, Follows, NEW t \in Traffic, IsTarget(t), tx.pc # "idle",
           NEW rc \in RuleClient, NEW w \in Write \cup {NoRow}, rc # NoRow,
           Done(t, rc, w), UNCHANGED <<panelVars, tableVars, ghostVars>>,
           ruleClients[t] # NoRow =>
              IF w = NoRow THEN rc.last = ruleClients[t].last \/ Reason(t)
              ELSE \A d \in Dirs : ruleClients[t].last[d] + w.delta[d] = traffics[t].cnt[d]
    PROVE  Follows'
<1>0. tx \in Tx BY DEF IInv, TypeOK
<1>1. /\ tx'.pc = "targets" /\ tx'.locked = tx.locked /\ tx'.todo = tx.todo \ {t}
      /\ tx'.writes = [tx.writes EXCEPT ![t] = w]
      /\ tx'.ruleClients = [tx.ruleClients EXCEPT ![t] = rc]
      /\ tx'.excludes = tx.excludes
      /\ UNCHANGED <<traffics, ruleClients, excludes>>
  BY <1>0 DEF Done, Tx, panelVars, tableVars
<1>2. ASSUME NEW u \in Traffic, ruleClients[u] # NoRow PROVE StagedFor(u)'
  <2>1. Reason(u)' = Reason(u) BY <1>1 DEF Reason
  <2>2. StagedFor(u) BY <1>2 DEF Follows
  <2>3. CASE u = t
    BY <1>0, <1>1, <1>2, <2>1, <2>3 DEF StagedFor, Written, Tx
  <2>4. CASE u # t
    <3>1. tx'.writes[u] = tx.writes[u] /\ tx'.ruleClients[u] = tx.ruleClients[u]
      BY <1>0, <1>1, <2>4 DEF Tx
    <3> QED BY <1>1, <2>1, <2>2, <3>1 DEF StagedFor, Written
  <2> QED BY <2>3, <2>4
<1> QED BY <1>1, <1>2 DEF Follows

(* While the tick has not come to a target, it is staged as it is stored. *)
LEMMA TargetStored ==
    ASSUME IInv, Follows, NEW t \in Traffic, IsTarget(t), tx.pc # "idle", ruleClients[t] # NoRow
    PROVE  tx.ruleClients[t] = ruleClients[t] /\ ruleClients[t] \in RuleClient
BY DEF Follows, StagedFor, IsTarget, IInv, TypeOK

LEMMA FollowsTarget ==
    ASSUME IInv, Follows, NEW t \in Traffic, TickTarget(t)
    PROVE  Follows'
<1>0. /\ IsTarget(t) /\ tx.pc \in {"targets", "locked"}
      /\ UNCHANGED <<panelVars, tableVars, ghostVars>>
  BY DEF TickTarget, TickSuppressed, TickMissing, TickDefer, TickLock, TickRebaseline,
         TickApply, Factorable
<1>1. tx \in Tx /\ tx.ruleClients[t] \in RuleClient /\ tx.ruleClients[t] # NoRow
  BY <1>0, TargetTracked DEF IInv, TypeOK
<1>2. ruleClients[t] # NoRow => tx.ruleClients[t] = ruleClients[t] /\ ruleClients[t] \in RuleClient
  BY <1>0, TargetStored
<1>3. ASSUME NEW rc \in {tx.ruleClients[t], MarkMissing(tx.ruleClients[t])}, Done(t, rc, NoRow)
      PROVE  Follows'
  <2>1. rc \in RuleClient /\ rc # NoRow /\ rc.last = tx.ruleClients[t].last
    BY <1>1, MarkMissingType
  <2> QED BY <1>0, <1>2, <1>3, <2>1, FollowsDone
<1>4. ASSUME traffics[t] # NoRow,
             Done(t, Baseline(tx.ruleClients[t], traffics[t].cnt, Zero), NoRow),
             ruleClients[t] # NoRow => Reason(t)
      PROVE  Follows'
  <2> DEFINE rc == Baseline(tx.ruleClients[t], traffics[t].cnt, Zero)
  <2>1. traffics[t].cnt \in [Dirs -> Nat] BY <1>4 DEF IInv, TypeOK, TrafficRow
  <2>2. rc \in RuleClient /\ rc # NoRow BY <1>1, <2>1, BaselineType, ZeroType
  <2> HIDE DEF rc
  <2>3. Done(t, rc, NoRow) BY <1>4 DEF rc
  <2> QED BY <1>0, <1>4, <2>2, <2>3, FollowsDone
<1>5. CASE TickSuppressed(t)
  <2>1. CASE ~Matches(t, tx.ruleClients[t].email)
    BY <1>3, <1>5, <2>1 DEF TickSuppressed
  <2>2. CASE Matches(t, tx.ruleClients[t].email)
    <3>1. ruleClients[t] # NoRow => Reason(t)
      <4> SUFFICES ASSUME ruleClients[t] # NoRow PROVE Reason(t) OBVIOUS
      <4>1. tx.excludes[ruleClients[t].email] = t /\ ruleClients[t].email \in Emails
        BY <1>2, <1>5 DEF TickSuppressed, Excluded, RuleClient
      <4>2. tx.excludes[ruleClients[t].email] # NoRow BY <4>1, NoRowAssumption
      <4>3. excludes[ruleClients[t].email] # NoRow BY <1>0, <4>1, <4>2 DEF Follows
      <4> QED BY <4>3 DEF Reason
    <3> QED BY <1>4, <1>5, <2>2, <3>1 DEF TickSuppressed, Matches
  <2> QED BY <2>1, <2>2
<1>6. CASE TickMissing(t) BY <1>3, <1>6 DEF TickMissing
<1>7. CASE TickDefer(t) BY <1>3, <1>7 DEF TickDefer
<1>8. CASE TickLock(t)
  <2>1. /\ tx'.pc = "locked" /\ tx'.locked = tx.locked \cup {t} /\ tx'.todo = tx.todo
        /\ tx'.writes = tx.writes /\ tx'.ruleClients = tx.ruleClients
        /\ tx'.excludes = tx.excludes /\ UNCHANGED <<traffics, ruleClients, excludes>>
    BY <1>1, <1>8 DEF TickLock, Tx, panelVars, tableVars
  <2>2. ASSUME NEW u \in Traffic, StagedFor(u) PROVE StagedFor(u)'
    BY <2>1, <2>2 DEF StagedFor, Written, Reason
  <2> QED BY <1>0, <2>1, <2>2 DEF Follows
<1>9. CASE TickRebaseline(t)
  <2>1. traffics[t] = tx.current /\ tx.current # NoRow /\ t \in tx.locked
    BY <1>0, <1>9 DEF TickRebaseline, IInv, Shape, CurrentRead
  <2>2. CASE Done(t, MarkMissing(tx.ruleClients[t]), NoRow) BY <1>3, <2>2
  <2>3. CASE /\ tx.ruleClients[t].missing # "no" \/ Decreased(t)
             /\ Done(t, Baseline(tx.ruleClients[t], tx.current.cnt, Zero), NoRow)
    <3>1. ruleClients[t] # NoRow => Reason(t)
      <4> SUFFICES ASSUME ruleClients[t] # NoRow PROVE Reason(t) OBVIOUS
      <4>1. CASE tx.ruleClients[t].missing # "no" BY <1>2, <4>1 DEF Reason
      <4>2. CASE Decreased(t)
        BY <1>2, <2>1, <4>2 DEF Reason, Decreased, Delta, CounterDelta
      <4> QED BY <2>3, <4>1, <4>2
    <3> QED BY <1>4, <2>1, <2>3, <3>1
  <2> QED BY <1>9, <2>2, <2>3 DEF TickRebaseline
<1>10. CASE TickApply(t)
  <2>1. /\ Factorable(t) /\ traffics[t] = tx.current /\ tx.current # NoRow
        /\ traffics[t] \in TrafficRow
    BY <1>0, <1>10 DEF TickApply, Factorable, IInv, TypeOK, Shape, CurrentRead
  <2>2. CASE tx' = [tx EXCEPT !.pc = "abort"]
    <3>1. /\ tx'.pc = "abort" /\ tx'.locked = tx.locked /\ tx'.todo = tx.todo
          /\ tx'.writes = tx.writes /\ tx'.ruleClients = tx.ruleClients
          /\ tx'.excludes = tx.excludes /\ UNCHANGED <<traffics, ruleClients, excludes>>
      BY <1>0, <1>1, <2>2 DEF Tx, panelVars, tableVars
    <3>2. ASSUME NEW u \in Traffic, StagedFor(u) PROVE StagedFor(u)'
      BY <3>1, <3>2 DEF StagedFor, Written, Reason
    <3> QED BY <1>0, <3>1, <3>2 DEF Follows
  <2>3. ASSUME NEW rc \in RuleClient, NEW w \in Write, rc # NoRow, Done(t, rc, w),
               \A d \in Dirs : w.delta[d] = Delta(t, d).delta
        PROVE  Follows'
    <3>1. ASSUME ruleClients[t] # NoRow, NEW d \in Dirs
          PROVE  ruleClients[t].last[d] + w.delta[d] = traffics[t].cnt[d]
      <4>1. ruleClients[t].last[d] \in Nat /\ traffics[t].cnt[d] \in Nat
        BY <1>2, <2>1, <3>1 DEF RuleClient, TrafficRow
      <4>2. w.delta[d] = traffics[t].cnt[d] - ruleClients[t].last[d]
        BY <1>2, <2>1, <2>3, <3>1, <4>1 DEF Factorable, Decreased, Delta, CounterDelta
      <4> QED BY <4>1, <4>2
    <3>2. w # NoRow BY RowsAssumption
    <3> QED BY <1>0, <2>3, <3>1, <3>2, FollowsDone
  <2>4. \/ tx' = [tx EXCEPT !.pc = "abort"]
        \/ \E rc \in RuleClient, w \in Write :
              /\ rc # NoRow /\ Done(t, rc, w)
              /\ \A d \in Dirs : w.delta[d] = Delta(t, d).delta
    BY <1>10, TickApplyResult
  <2> QED BY <2>2, <2>3, <2>4
<1> QED BY <1>5, <1>6, <1>7, <1>8, <1>9, <1>10 DEF TickTarget

(* The panel's steps leave locked rows alone. *)
LEMMA PanelKeepsLocked ==
    ASSUME IInv, Panel
    PROVE  UNCHANGED <<tableVars, tx>> /\ \A u \in tx.locked : traffics'[u] = traffics[u]
<1>0. traffics \in [Traffic -> TrafficRow \cup {NoRow}] /\ tx.locked \subseteq Traffic
  BY DEF IInv, TypeOK, Tx
<1>1. ASSUME NEW t \in Traffic, PanelHold(t)
      PROVE  UNCHANGED <<tableVars, tx>> /\ \A u \in tx.locked : traffics'[u] = traffics[u]
  BY <1>1 DEF PanelHold
<1>2. ASSUME NEW t \in Traffic, PanelFinish(t)
      PROVE  UNCHANGED <<tableVars, tx>> /\ \A u \in tx.locked : traffics'[u] = traffics[u]
  <2>1. t \in held /\ UNCHANGED <<tableVars, tx>>
    BY <1>2 DEF PanelFinish, PanelAdd, PanelReset, PanelRename, PanelDelete, PanelTouch, PanelRelease
  <2>2. t \notin tx.locked BY <2>1, HeldRow
  <2>3. \A u \in Traffic \ {t} : traffics'[u] = traffics[u]
    BY <1>0, <1>2 DEF PanelFinish, PanelAdd, PanelReset, PanelRename, PanelDelete, PanelTouch
  <2> QED BY <1>0, <2>1, <2>2, <2>3
<1>3. ASSUME NEW t \in Traffic, NEW e \in Emails, PanelCreate(t, e)
      PROVE  UNCHANGED <<tableVars, tx>> /\ \A u \in tx.locked : traffics'[u] = traffics[u]
  <2>1. t \notin tx.locked BY <1>3 DEF PanelCreate, IInv, Shape, IdsUsed, LockedPresent
  <2> QED BY <1>0, <1>3, <2>1 DEF PanelCreate
<1> QED BY <1>1, <1>2, <1>3 DEF Panel

LEMMA FollowsStep == IInv /\ Follows /\ [Next]_vars => Follows'
<1> SUFFICES ASSUME IInv, Follows, [Next]_vars PROVE Follows' OBVIOUS
<1>0. tx \in Tx BY DEF IInv, TypeOK
<1>1. CASE Panel BY <1>1, PanelKeepsLocked, FollowsPanel
<1>2. CASE TickBegin
  <2>1. /\ tx'.ruleClients = ruleClients /\ tx'.writes = NoWrites /\ tx'.excludes = excludes
        /\ tx'.todo = {} /\ tx'.pc = "reconcile"
        /\ UNCHANGED <<traffics, ruleClients, excludes>>
    BY <1>2 DEF TickBegin, NoTx, panelVars, tableVars
  <2>2. ASSUME NEW t \in Traffic, ruleClients[t] # NoRow PROVE StagedFor(t)'
    BY <2>1, <2>2 DEF StagedFor, Written, NoWrites
  <2> QED BY <2>1, <2>2 DEF Follows
<1>3. CASE TickReconcile
  <2>1. /\ tx'.ruleClients = tx.ruleClients /\ tx'.writes = tx.writes /\ tx'.todo = tx.todo
        /\ tx'.pc = "scopes" /\ tx'.locked = tx.locked
        /\ \A e \in Emails : tx'.excludes[e] # NoRow => tx.excludes[e] # NoRow
        /\ UNCHANGED <<traffics, ruleClients, excludes>>
    BY <1>0, <1>3 DEF TickReconcile, Tx, panelVars, tableVars
  <2>2. tx.pc = "reconcile" BY <1>3 DEF TickReconcile
  <2>3. ASSUME NEW t \in Traffic, StagedFor(t) PROVE StagedFor(t)'
    BY <2>1, <2>3 DEF StagedFor, Written, Reason
  <2> QED BY <2>1, <2>2, <2>3 DEF Follows
<1>4. CASE TickEnroll
  <2>1. tx.pc = "scopes" /\ tx.writes = NoWrites
    BY <1>4 DEF TickEnroll, IInv, Shape, Fresh
  <2>2. /\ tx'.writes = NoWrites /\ tx'.excludes = tx.excludes /\ tx'.pc = "targets"
        /\ \A t \in Traffic : tx.ruleClients[t] # NoRow => tx'.ruleClients[t] = tx.ruleClients[t]
        /\ UNCHANGED <<traffics, ruleClients, excludes>>
    BY <1>0, <1>4, <2>1 DEF TickEnroll, Tx, panelVars, tableVars
  <2>3. ASSUME NEW t \in Traffic, ruleClients[t] # NoRow PROVE StagedFor(t)'
    <3>1. tx'.ruleClients[t] = ruleClients[t] BY <2>1, <2>2, <2>3 DEF Follows
    <3> QED BY <2>2, <2>3, <3>1 DEF StagedFor, Written, NoWrites
  <2> QED BY <2>1, <2>2, <2>3 DEF Follows
<1>5. CASE TickCommit \/ TickAbort \/ Crash
  BY <1>5 DEF TickCommit, TickAbort, Crash, Rollback, NoTx, Follows
<1>6. CASE \E t \in Traffic : TickTarget(t) BY <1>6, FollowsTarget
<1>7. CASE Commands \/ \E t \in Traffic : Age(t)
  BY <1>7 DEF Follows, Commands, Exclude, Unexclude, RemoveOverride, OverrideClient, PauseAll,
              ResumeAll, Cleanup, Age, Command, MayBegin
<1>8. CASE UNCHANGED vars
  BY <1>8, FollowsPanel DEF vars, panelVars
<1> QED BY <1>1, <1>2, <1>3, <1>4, <1>5, <1>6, <1>7, <1>8 DEF Next, TickStep

LEMMA FollowsInvariant == Spec => []Follows
<1>1. Init => Follows BY DEF Init, NoTx, Follows
<1> QED BY <1>1, FollowsStep, TickInvariant, PTL DEF Spec

-----------------------------------------------------------------------------
(* Forgiven bytes of a row, in numbers. *)
LEMMA PendingType ==
    ASSUME TypeOK, NEW t \in Traffic, NEW d \in Dirs
    PROVE  Pending(t, d) \in Nat
BY DEF Pending, TypeOK, TrafficRow, RuleClient

LEMMA ForgivenNat ==
    ASSUME IInv, NEW t \in Traffic, NEW d \in Dirs
    PROVE  Forgiven(t, d) \in Nat
<1>1. Pending(t, d) = PendingOf(ruleClients[t], t, d) BY DEF Pending, PendingOf
<1>2. charged[t][d] + Pending(t, d) <= raw[t][d]
  BY <1>1 DEF IInv, Accounted, TablesSound, Sound
<1>3. charged[t][d] \in Nat /\ raw[t][d] \in Nat /\ Pending(t, d) \in Nat
  BY PendingType DEF IInv, TypeOK
<1> QED BY <1>2, <1>3 DEF Forgiven

(* A step that moves no counter and no baseline forgives nothing. *)
LEMMA SameForgiven ==
    ASSUME NEW t \in Traffic, ruleClients[t] # NoRow, ruleClients'[t] # NoRow,
           ruleClients'[t].last = ruleClients[t].last, traffics[t] # NoRow,
           traffics'[t] # NoRow, traffics'[t].cnt = traffics[t].cnt,
           raw'[t] = raw[t], charged'[t] = charged[t], NEW d \in Dirs
    PROVE  Forgiven(t, d)' = Forgiven(t, d)
BY DEF Forgiven, Pending

LEMMA ForgivePanel ==
    ASSUME IInv, Panel, NEW t \in Traffic, NEW d \in Dirs, ruleClients[t] # NoRow,
           traffics'[t] # NoRow, Forgiven(t, d)' > Forgiven(t, d)
    PROVE  MayForgive(t)
<1>0. /\ ruleClients[t] \in RuleClient
      /\ traffics \in [Traffic -> TrafficRow \cup {NoRow}]
      /\ \A g \in {raw, extra, charged, due} : g \in [Traffic -> [Dirs -> Nat]]
  BY DEF IInv, TypeOK
<1>1. ruleClients' = ruleClients BY PanelKeepsLocked DEF tableVars
<1>2. CASE traffics[t] = NoRow BY <1>2 DEF MayForgive, Matches
<1>3. CASE traffics[t] # NoRow
  <2>1. Forgiven(t, d) \in Nat BY ForgivenNat
  <2>2. ~(traffics'[t].cnt = traffics[t].cnt /\ raw'[t] = raw[t] /\ charged'[t] = charged[t])
    <3>1. ASSUME traffics'[t].cnt = traffics[t].cnt /\ raw'[t] = raw[t] /\ charged'[t] = charged[t]
          PROVE  FALSE
      BY <1>1, <1>3, <2>1, <3>1, SameForgiven
    <3> QED BY <3>1
  <2>3. \/ \E c \in Dirs, n \in 1..MaxBytes : PanelAdd(t, c, n)
        \/ PanelReset(t)
    <3>1. ASSUME NEW u \in Traffic, PanelHold(u) PROVE FALSE
      BY <2>2, <3>1 DEF PanelHold, ghostVars
    <3>2. ASSUME NEW u \in Traffic, NEW e \in Emails, PanelCreate(u, e) PROVE FALSE
      <4>1. u # t BY <1>3, <3>2 DEF PanelCreate, IInv, Shape, IdsUsed
      <4> QED BY <1>0, <2>2, <3>2, <4>1 DEF PanelCreate, ghostVars
    <3>3. ASSUME NEW u \in Traffic \ {t}, PanelFinish(u) PROVE FALSE
      <4>1. traffics'[t] = traffics[t] /\ raw'[t] = raw[t] /\ charged'[t] = charged[t]
        BY <1>0, <3>3 DEF PanelFinish, PanelAdd, PanelReset, PanelRename, PanelDelete, PanelTouch,
                          Forget, ghostVars
      <4> QED BY <2>2, <4>1
    <3>4. ASSUME PanelDelete(t) PROVE FALSE BY <1>0, <3>4 DEF PanelDelete
    <3>5. ASSUME NEW e \in Emails, PanelRename(t, e) PROVE FALSE
      BY <1>0, <1>3, <2>2, <3>5 DEF PanelRename, ghostVars, TrafficRow
    <3>6. ASSUME PanelTouch(t) PROVE FALSE BY <2>2, <3>6 DEF PanelTouch, ghostVars
    <3> QED BY <3>1, <3>2, <3>3, <3>4, <3>5, <3>6 DEF Panel, PanelFinish
  <2>4. CASE PanelReset(t)
    <3>1. traffics[t] \in TrafficRow BY <1>0, <1>3
    <3>2. /\ raw'[t][d] = 0 /\ charged'[t][d] = 0 /\ traffics'[t].cnt[d] = 0
      BY <1>0, <2>4, <3>1 DEF PanelReset, Forget, Zero, TrafficRow
    <3>3. Pending(t, d)' = 0 BY <1>0, <1>1, <3>2 DEF Pending, RuleClient
    <3> QED BY <2>1, <3>2, <3>3 DEF Forgiven
  <2>5. ASSUME NEW c \in Dirs, NEW n \in 1..MaxBytes, PanelAdd(t, c, n) PROVE MayForgive(t)
    <3>1. n \in Nat /\ traffics[t] \in TrafficRow BY <1>0, <1>3, BoundsAssumption
    <3>2. /\ charged' = charged /\ raw' = [raw EXCEPT ![t][c] = raw[t][c] + n]
          /\ traffics' = [traffics EXCEPT ![t].cnt[c] = traffics[t].cnt[c] + n]
      BY <2>5 DEF PanelAdd
    <3>3. traffics'[t] = [traffics[t] EXCEPT !.cnt = [@ EXCEPT ![c] = traffics[t].cnt[c] + n]]
      BY <1>0, <3>2
    <3>4. traffics'[t].cnt = [traffics[t].cnt EXCEPT ![c] = traffics[t].cnt[c] + n]
      BY <3>1, <3>3 DEF TrafficRow
    <3>5. traffics[t].cnt \in [Dirs -> Nat] BY <3>1 DEF TrafficRow
    <3>6. CASE c # d
      <4>1. traffics'[t].cnt[d] = traffics[t].cnt[d] /\ raw'[t][d] = raw[t][d]
        BY <1>0, <3>2, <3>4, <3>5, <3>6
      <4> QED BY <1>1, <1>3, <2>1, <3>2, <4>1 DEF Forgiven, Pending
    <3>7. CASE c = d
      <4>1. traffics'[t].cnt[d] = traffics[t].cnt[d] + n /\ raw'[t][d] = raw[t][d] + n
        BY <1>0, <3>2, <3>4, <3>5, <3>7
      <4>2. CASE traffics[t].cnt[d] < ruleClients[t].last[d] BY <4>2 DEF MayForgive
      <4>3. CASE ~(traffics[t].cnt[d] < ruleClients[t].last[d])
        <5>1. /\ ruleClients[t].last[d] \in Nat /\ traffics[t].cnt[d] \in Nat
              /\ raw[t][d] \in Nat /\ charged[t][d] \in Nat
          BY <1>0, <3>5 DEF RuleClient
        <5>2. Pending(t, d)' = Pending(t, d) + n /\ Pending(t, d) \in Nat
          BY <1>1, <1>3, <3>1, <4>1, <4>3, <5>1 DEF Pending
        <5>3. Forgiven(t, d)' = Forgiven(t, d)
          BY <3>1, <3>2, <4>1, <5>1, <5>2 DEF Forgiven
        <5> QED BY <2>1, <5>3
      <4> QED BY <4>2, <4>3
    <3> QED BY <3>6, <3>7
  <2> QED BY <2>3, <2>4, <2>5
<1> QED BY <1>2, <1>3

LEMMA ForgiveCommit ==
    ASSUME IInv, Follows, TickCommit, NEW t \in Traffic, NEW d \in Dirs, ruleClients[t] # NoRow,
           ruleClients'[t] # NoRow, traffics'[t] # NoRow, Forgiven(t, d)' > Forgiven(t, d)
    PROVE  MayForgive(t)
<1>0. /\ ruleClients[t] \in RuleClient /\ StagedFor(t) /\ ruleClients' = tx.ruleClients
      /\ traffics[t] # NoRow /\ raw' = raw
  BY CommitRow DEF IInv, TypeOK, Follows, TickCommit
<1>1. Forgiven(t, d) \in Nat BY ForgivenNat
<1>2. /\ traffics[t].cnt[d] \in Nat /\ raw[t][d] \in Nat /\ charged[t][d] \in Nat
      /\ ruleClients[t].last[d] \in Nat
  BY <1>0 DEF IInv, TypeOK, TrafficRow, RuleClient
<1>3. CASE Written(t)
  <2> DEFINE w == tx.writes[t]
  <2>1. /\ w \in Write /\ traffics'[t].cnt = w.cnt /\ ruleClients'[t].last[d] = w.cnt[d]
        /\ charged'[t][d] = charged[t][d] + w.delta[d]
    BY <1>0, <1>3, CommitRow DEF Staged
  <2>2. w.delta[d] \in Nat /\ w.cnt[d] \in Nat BY <2>1 DEF Write
  <2>3. ruleClients[t].last[d] + w.delta[d] = traffics[t].cnt[d] BY <1>0, <1>3 DEF StagedFor
  <2> HIDE DEF w
  <2>4. Pending(t, d) = w.delta[d] BY <1>0, <1>2, <2>2, <2>3 DEF Pending
  <2>5. Pending(t, d)' = 0 BY <2>1, <2>2 DEF Pending
  <2>6. Forgiven(t, d)' = Forgiven(t, d)
    BY <1>0, <1>2, <2>1, <2>2, <2>4, <2>5 DEF Forgiven
  <2> QED BY <1>1, <2>6
<1>4. CASE ~Written(t) /\ tx.ruleClients[t].last = ruleClients[t].last
  <2>1. traffics'[t] = traffics[t] /\ charged'[t][d] = charged[t][d]
    BY <1>4, CommitRow
  <2>2. Forgiven(t, d)' = Forgiven(t, d) BY <1>0, <1>4, <2>1 DEF Forgiven, Pending
  <2> QED BY <1>1, <2>2
<1>5. CASE Reason(t) BY <1>5 DEF Reason, MayForgive, Suspended
<1> QED BY <1>0, <1>3, <1>4, <1>5 DEF StagedFor

(* A command that leaves a row's baseline leaves its bytes. *)
LEMMA ForgiveTables ==
    ASSUME IInv, UNCHANGED <<panelVars, ghostVars>>, NEW t \in Traffic, NEW d \in Dirs,
           ruleClients[t] # NoRow, ruleClients'[t] # NoRow, traffics'[t] # NoRow,
           Forgiven(t, d)' > Forgiven(t, d)
    PROVE  ruleClients'[t].last # ruleClients[t].last
<1>1. UNCHANGED <<traffics, raw, charged>> BY DEF panelVars, ghostVars
<1>2. Forgiven(t, d) \in Nat BY ForgivenNat
<1> QED BY <1>1, <1>2, SameForgiven

LEMMA RefreshedEmail ==
    ASSUME IInv, NEW e \in Emails, NEW t \in Traffic, Command(e),
           ruleClients' = Refreshed(ClientTrafficByEmail(e), e),
           ruleClients'[t] # ruleClients[t]
    PROVE  ruleClients[t].email = e
BY DEF Refreshed, IInv, TypeOK

LEMMA ForgiveCommands ==
    ASSUME IInv, Commands \/ \E u \in Traffic : Age(u), NEW t \in Traffic, NEW d \in Dirs,
           ruleClients[t] # NoRow, ruleClients'[t] # NoRow, traffics'[t] # NoRow,
           Forgiven(t, d)' > Forgiven(t, d)
    PROVE  MayForgive(t)
<1>0. /\ ruleClients[t] \in RuleClient /\ UNCHANGED <<panelVars, ghostVars>>
      /\ ruleClients \in [Traffic -> RuleClient \cup {NoRow}]
  BY DEF IInv, TypeOK, Commands, Exclude, Unexclude, RemoveOverride, OverrideClient, PauseAll,
         ResumeAll, Cleanup, Age
<1>1. ruleClients'[t].last # ruleClients[t].last BY <1>0, ForgiveTables
<1>2. ASSUME NEW e \in Emails, Exclude(e) PROVE FALSE BY <1>1, <1>2 DEF Exclude
<1>3. ASSUME NEW e \in Emails, Unexclude(e) PROVE MayForgive(t)
  <2>1. ruleClients[t].email = e BY <1>1, <1>3, RefreshedEmail DEF Unexclude
  <2> QED BY <1>3, <2>1 DEF Unexclude, MayForgive, Suspended
<1>4. ASSUME NEW e \in Emails, RemoveOverride(e) PROVE MayForgive(t)
  <2>1. ruleClients[t].email = e BY <1>1, <1>4, RefreshedEmail DEF RemoveOverride
  <2> QED BY <1>4, <2>1 DEF MayForgive
<1>5. ASSUME NEW e \in Emails, NEW f \in OverrideFactors, OverrideClient(e, f)
      PROVE  MayForgive(t)
  <2>1. ruleClients[t].email = e BY <1>1, <1>5, RefreshedEmail DEF OverrideClient
  <2> QED BY <1>5, <2>1 DEF MayForgive
<1>6. CASE PauseAll BY <1>1, <1>6 DEF PauseAll
<1>7. CASE ResumeAll BY <1>7 DEF ResumeAll, MayForgive, Suspended
<1>8. CASE Cleanup
  <2>1. ruleClients'[t] = ruleClients[t] \/ ruleClients'[t] = MarkMissing(ruleClients[t])
    BY <1>8 DEF Cleanup
  <2> QED BY <1>0, <1>1, <2>1, MarkMissingType
<1>9. ASSUME NEW u \in Traffic, Age(u) PROVE FALSE
  <2>1. CASE u = t
    <3>1. ruleClients'[t] = [ruleClients[t] EXCEPT !.missing = "expired"]
      BY <1>0, <1>9, <2>1 DEF Age
    <3> QED BY <1>0, <1>1, <3>1 DEF RuleClient
  <2>2. CASE u # t BY <1>0, <1>1, <1>9, <2>2 DEF Age
  <2> QED BY <2>1, <2>2
<1> QED BY <1>2, <1>3, <1>4, <1>5, <1>6, <1>7, <1>8, <1>9 DEF Commands

LEMMA ForgiveStep == IInv /\ Follows /\ [Next]_vars => [NoByteForgivenStep]_vars
<1> SUFFICES ASSUME IInv, Follows, Next, NEW t \in Traffic, NEW d \in Dirs,
                    ruleClients[t] # NoRow, ruleClients'[t] # NoRow, traffics'[t] # NoRow,
                    Forgiven(t, d)' > Forgiven(t, d)
             PROVE  MayForgive(t)
  BY DEF NoByteForgivenStep
<1>1. CASE Panel BY <1>1, ForgivePanel
<1>2. CASE TickCommit BY <1>2, ForgiveCommit
<1>3. CASE Commands \/ \E u \in Traffic : Age(u) BY <1>3, ForgiveCommands
<1>4. ASSUME UNCHANGED <<panelVars, tableVars, ghostVars>> PROVE FALSE
  BY <1>4, ForgiveTables DEF tableVars
<1>5. CASE TickBegin \/ TickReconcile \/ TickEnroll \/ TickAbort \/ Crash
  BY <1>4, <1>5 DEF TickBegin, TickReconcile, TickEnroll, TickAbort, Crash, Rollback
<1>6. CASE \E u \in Traffic : TickTarget(u)
  BY <1>4, <1>6 DEF TickTarget, TickSuppressed, TickMissing, TickDefer, TickLock,
                    TickRebaseline, TickApply
<1> QED BY <1>1, <1>2, <1>3, <1>5, <1>6 DEF Next, TickStep

(* No step loses a counted byte of a client that stays tracked: deferred,  *)
(* aborted and repeated ticks, crashes and commands leave it factored or   *)
(* pending, unless the client is suspended, missing, renamed, zeroed or    *)
(* given another override.                                                 *)
THEOREM TickForgivesNothing == Spec => NoByteForgiven
BY ForgiveStep, TickInvariant, FollowsInvariant, PTL DEF Spec, NoByteForgiven

-----------------------------------------------------------------------------
(* Suspended traffic.  The promise needs a database whose writers exclude  *)
(* each other and emails that stay with their rows: on PostgreSQL the      *)
(* panel may recreate a client between the policy repair and its target,   *)
(* and a client that is renamed and renamed back escapes the refresh of    *)
(* its baseline.                                                           *)
Quiet == Backend = "sqlite" /\ "rename" \notin PanelOps

PanelOutside == tx.pc # "idle" => held = {}

EmailsDistinct ==
    \A t, u \in Traffic :
        /\ traffics[t] # NoRow /\ traffics[u] # NoRow
        /\ traffics[t].email = traffics[u].email
        => t = u

SuspendedCounted ==
    \A t \in Traffic, d \in Dirs :
        suspendedTo[t][d] <= IF traffics[t] = NoRow THEN 0 ELSE traffics[t].cnt[d]

(* A row a client is tracked on has that client's email for good. *)
Tracks(rc, t) ==
    rc # NoRow => t \in used /\ (traffics[t] # NoRow => rc.email = traffics[t].email)

(* A baseline is above the suspended bytes, or the client is suspended. *)
Above(last, t) == \A d \in Dirs : suspendedTo[t][d] <= last[d]

Cleared(rc, t) ==
    rc # NoRow /\ traffics[t] # NoRow => Above(rc.last, t) \/ Suspended(rc.email)

TxCleared(t) ==
    /\ Tracks(tx.ruleClients[t], t)
    /\ IF Written(t)
       THEN \A d \in Dirs :
               suspendedTo[t][d] <= tx.writes[t].cnt[d] - tx.writes[t].extra[d] - tx.writes[t].delta[d]
       ELSE Cleared(tx.ruleClients[t], t)

(* The repaired excludes point at the rows of their emails. *)
ExcludesRepaired ==
    tx.pc \in {"scopes", "targets", "locked"} =>
        \A t \in Traffic : traffics[t] # NoRow /\ excludes[traffics[t].email] # NoRow =>
            tx.excludes[traffics[t].email] = t

ExcludesKept ==
    tx.pc # "idle" => \A e \in Emails : excludes[e] # NoRow <=> tx.excludes[e] # NoRow

TargetsActive ==
    /\ tx.pc \in {"targets", "locked"} /\ tx.todo # {} => ruleState = "active"
    /\ tx.pc = "locked" => \A t \in Traffic : IsTarget(t) => ~Excluded(t)

TxSuspended ==
    /\ PanelOutside /\ ExcludesRepaired /\ ExcludesKept /\ TargetsActive
    /\ \A t \in Traffic : TxCleared(t)

TablesSuspended ==
    /\ EmailsDistinct /\ SuspendedCounted
    /\ \A t \in Traffic : Tracks(ruleClients[t], t) /\ Cleared(ruleClients[t], t)

SuspendedInv == TxSuspended /\ TablesSuspended

LEMMA IdleSuspended == tx = NoTx => TxSuspended
BY DEF TxSuspended, PanelOutside, ExcludesRepaired, ExcludesKept, TargetsActive, TxCleared,
       Tracks, Cleared, Written, NoTx, NoWrites

LEMMA SuspendedStable ==
    ASSUME UNCHANGED <<traffics, used, suspendedTo, ruleState, excludes>>
    PROVE  /\ EmailsDistinct' = EmailsDistinct /\ SuspendedCounted' = SuspendedCounted
           /\ \A rc, t : Tracks(rc, t)' = Tracks(rc, t) /\ Cleared(rc, t)' = Cleared(rc, t)
BY DEF EmailsDistinct, SuspendedCounted, Tracks, Cleared, Above, Suspended

LEMMA InitSuspended == Init => SuspendedInv
<1> SUFFICES ASSUME Init PROVE SuspendedInv OBVIOUS
<1>1. TxSuspended BY IdleSuspended DEF Init
<1>2. ASSUME NEW t \in Traffic, NEW u \in Traffic, traffics[t] # NoRow, traffics[u] # NoRow,
             traffics[t].email = traffics[u].email
      PROVE  t = u
  <2>1. traffics[t] \in [email : Emails, cnt : {Zero}] /\ traffics[u] \in [email : Emails, cnt : {Zero}]
    BY <1>2 DEF Init
  <2>2. traffics[t] = traffics[u] BY <1>2, <2>1
  <2> QED BY <1>2, <2>2 DEF Init
<1>3. SuspendedCounted BY DEF Init, SuspendedCounted, Zero
<1>4. \A t \in Traffic : Tracks(ruleClients[t], t) /\ Cleared(ruleClients[t], t)
  BY DEF Init, Tracks, Cleared
<1> QED BY <1>1, <1>2, <1>3, <1>4 DEF SuspendedInv, TablesSuspended, EmailsDistinct

(* A step of the tick before its commit. *)
LEMMA SuspendedTx ==
    ASSUME IInv, SuspendedInv, UNCHANGED <<panelVars, tableVars, ghostVars>>, TxSuspended'
    PROVE  SuspendedInv'
<1>1. UNCHANGED <<traffics, used, suspendedTo, ruleState, excludes, ruleClients>>
  BY DEF panelVars, tableVars, ghostVars
<1> QED BY <1>1, SuspendedStable DEF SuspendedInv, TablesSuspended

LEMMA SuspendedBegin ==
    ASSUME Quiet, IInv, SuspendedInv, TickBegin PROVE SuspendedInv'
<1>1. /\ tx'.ruleClients = ruleClients /\ tx'.writes = NoWrites /\ tx'.excludes = excludes
      /\ tx'.pc = "reconcile" /\ held' = {}
      /\ UNCHANGED <<traffics, used, suspendedTo, ruleState, excludes>>
  BY DEF TickBegin, MayBegin, Quiet, NoTx, panelVars, tableVars, ghostVars
<1>2. PanelOutside' /\ ExcludesRepaired' /\ ExcludesKept' /\ TargetsActive'
  BY <1>1 DEF PanelOutside, ExcludesRepaired, ExcludesKept, TargetsActive
<1>3. \A t \in Traffic : TxCleared(t)'
  BY <1>1, SuspendedStable DEF TxCleared, Written, NoWrites, SuspendedInv, TablesSuspended
<1> QED BY <1>2, <1>3, SuspendedTx DEF TxSuspended, TickBegin

LEMMA SuspendedReconcile ==
    ASSUME Quiet, IInv, SuspendedInv, TickReconcile PROVE SuspendedInv'
<1>0. tx \in Tx BY DEF IInv, TypeOK
<1>1. /\ tx'.ruleClients = tx.ruleClients /\ tx'.writes = tx.writes /\ tx'.pc = "scopes"
      /\ tx'.excludes = [e \in Emails |-> IF tx.excludes[e] = NoRow THEN NoRow
                                         ELSE ResolvePolicyTraffic(tx.excludes[e], e)]
      /\ tx.pc = "reconcile"
      /\ UNCHANGED <<traffics, held, used, suspendedTo, ruleState, excludes>>
  BY <1>0 DEF TickReconcile, Tx, panelVars, tableVars, ghostVars
<1>2. ASSUME NEW e \in Emails PROVE excludes[e] # NoRow <=> tx'.excludes[e] # NoRow
  <2>1. excludes[e] # NoRow <=> tx.excludes[e] # NoRow
    BY <1>1 DEF SuspendedInv, TxSuspended, ExcludesKept
  <2>2. tx.excludes[e] # NoRow => ResolvePolicyTraffic(tx.excludes[e], e) # NoRow
    BY <1>0, ResolveType, NoRowAssumption DEF Tx
  <2> QED BY <1>1, <2>1, <2>2
<1>3. ASSUME NEW t \in Traffic, traffics[t] # NoRow, excludes[traffics[t].email] # NoRow
      PROVE  tx'.excludes[traffics[t].email] = t
  <2> DEFINE e == traffics[t].email
  <2>1. e \in Emails BY <1>3 DEF IInv, TypeOK, TrafficRow
  <2>2. tx.excludes[e] # NoRow /\ tx.excludes[e] \in Traffic
    BY <1>0, <1>1, <1>3, <2>1 DEF SuspendedInv, TxSuspended, ExcludesKept, Tx
  <2>3. \A u \in TrafficOf(e) : u = t
    BY <1>3 DEF TrafficOf, SuspendedInv, TablesSuspended, EmailsDistinct
  <2>4. TrafficOf(e) # {} BY <1>3 DEF TrafficOf
  <2>5. ClientTrafficByEmail(e) = t /\ t # NoRow
    BY <2>1, <2>3, <2>4, ByEmailType, NoRowAssumption
  <2>6. Matches(tx.excludes[e], e) => tx.excludes[e] = t
    BY <2>2, <2>3 DEF Matches, TrafficOf
  <2>7. ResolvePolicyTraffic(tx.excludes[e], e) = t
    BY <2>5, <2>6 DEF ResolvePolicyTraffic
  <2> QED BY <1>1, <2>1, <2>2, <2>7
<1>4. PanelOutside' /\ TargetsActive'
  BY <1>1 DEF SuspendedInv, TxSuspended, PanelOutside, TargetsActive
<1>5. ExcludesRepaired' BY <1>1, <1>3 DEF ExcludesRepaired
<1>6. ExcludesKept' BY <1>1, <1>2 DEF ExcludesKept
<1>7. \A t \in Traffic : TxCleared(t)'
  BY <1>1, SuspendedStable DEF TxCleared, Written, SuspendedInv, TxSuspended
<1> QED BY <1>4, <1>5, <1>6, <1>7, SuspendedTx DEF TxSuspended, TickReconcile

LEMMA SuspendedEnroll ==
    ASSUME Quiet, IInv, SuspendedInv, TickEnroll PROVE SuspendedInv'
<1>0. tx \in Tx /\ tx.writes = NoWrites /\ tx.pc = "scopes"
  BY DEF IInv, TypeOK, Shape, Fresh, TickEnroll
<1>1. /\ tx'.writes = NoWrites /\ tx'.excludes = tx.excludes /\ tx'.pc = "targets"
      /\ tx'.todo # {} => ruleState = "active"
      /\ tx'.ruleClients = [t \in Traffic |->
                    IF ruleState = "active" /\ tx.ruleClients[t] = NoRow
                                            /\ traffics[t] # NoRow
                    THEN Enrolled(traffics[t]) ELSE tx.ruleClients[t]]
      /\ UNCHANGED <<traffics, held, used, suspendedTo, ruleState, excludes>>
  BY <1>0 DEF TickEnroll, Tx, panelVars, tableVars, ghostVars
<1>2. PanelOutside' /\ ExcludesRepaired' /\ ExcludesKept' /\ TargetsActive'
  BY <1>0, <1>1 DEF SuspendedInv, TxSuspended, PanelOutside, ExcludesRepaired, ExcludesKept,
                    TargetsActive
<1>3. ASSUME NEW t \in Traffic PROVE TxCleared(t)'
  <2>1. TxCleared(t) BY DEF SuspendedInv, TxSuspended
  <2>2. Tracks(tx'.ruleClients[t], t) /\ Cleared(tx'.ruleClients[t], t)
    <3>1. CASE tx'.ruleClients[t] = tx.ruleClients[t]
      BY <1>0, <2>1, <3>1 DEF TxCleared, Written, NoWrites
    <3>2. CASE traffics[t] # NoRow /\ tx'.ruleClients[t] = Enrolled(traffics[t])
      BY <3>2 DEF Tracks, Cleared, Above, Enrolled, IInv, Shape, IdsUsed, SuspendedInv,
                  TablesSuspended, SuspendedCounted
    <3> QED BY <1>1, <3>1, <3>2
  <2> QED BY <1>1, <2>2, SuspendedStable DEF TxCleared, Written, NoWrites
<1> QED BY <1>2, <1>3, SuspendedTx DEF TxSuspended, TickEnroll

LEMMA SuspendedDone ==
    ASSUME IInv, SuspendedInv, NEW t \in Traffic, IsTarget(t), tx.pc \in {"targets", "locked"},
           NEW rc \in RuleClient, NEW w \in Write \cup {NoRow}, rc # NoRow,
           rc.email = tx.ruleClients[t].email,
           IF w = NoRow
           THEN rc.last = tx.ruleClients[t].last \/ (traffics[t] # NoRow => rc.last = traffics[t].cnt)
           ELSE \A d \in Dirs : suspendedTo[t][d] <= w.cnt[d] - w.extra[d] - w.delta[d],
           Done(t, rc, w), UNCHANGED <<panelVars, tableVars, ghostVars>>
    PROVE  SuspendedInv'
<1>0. tx \in Tx /\ tx.ruleClients[t] \in RuleClient /\ tx.ruleClients[t] # NoRow /\ ~Written(t)
  BY TargetTracked DEF IInv, TypeOK, Written
<1>1. /\ tx'.pc = "targets" /\ tx'.todo = tx.todo \ {t}
      /\ tx'.writes = [tx.writes EXCEPT ![t] = w]
      /\ tx'.ruleClients = [tx.ruleClients EXCEPT ![t] = rc]
      /\ tx'.excludes = tx.excludes
      /\ UNCHANGED <<traffics, held, used, suspendedTo, ruleState, excludes>>
  BY <1>0 DEF Done, Tx, panelVars, tableVars, ghostVars
<1>2. PanelOutside' /\ ExcludesRepaired' /\ ExcludesKept' /\ TargetsActive'
  BY <1>1 DEF SuspendedInv, TxSuspended, PanelOutside, ExcludesRepaired, ExcludesKept, TargetsActive
<1>3. TxCleared(t)'
  <2>1. Tracks(tx.ruleClients[t], t) /\ Cleared(tx.ruleClients[t], t)
    BY <1>0 DEF SuspendedInv, TxSuspended, TxCleared
  <2>2. Tracks(rc, t) BY <1>0, <2>1 DEF Tracks
  <2>3. w = NoRow => Cleared(rc, t)
    BY <1>0, <2>1 DEF Cleared, Above, SuspendedInv, TablesSuspended, SuspendedCounted
  <2>4. tx'.writes[t] = w /\ tx'.ruleClients[t] = rc BY <1>0, <1>1 DEF Tx
  <2> QED BY <1>1, <2>2, <2>3, <2>4, SuspendedStable DEF TxCleared, Written
<1>4. ASSUME NEW u \in Traffic, u # t PROVE TxCleared(u)'
  <2>1. tx'.writes[u] = tx.writes[u] /\ tx'.ruleClients[u] = tx.ruleClients[u]
    BY <1>0, <1>1, <1>4 DEF Tx
  <2>2. TxCleared(u) BY DEF SuspendedInv, TxSuspended
  <2> QED BY <1>1, <2>1, <2>2, SuspendedStable DEF TxCleared, Written
<1> QED BY <1>2, <1>3, <1>4, SuspendedTx DEF TxSuspended

(* A target that is factored is not suspended: its bytes above the         *)
(* baseline were all counted outside a suspension.                         *)
LEMMA FactoredAbove ==
    ASSUME IInv, SuspendedInv, NEW t \in Traffic, Factorable(t)
    PROVE  Above(tx.ruleClients[t].last, t)
<1>0. /\ IsTarget(t) /\ tx.pc = "locked" /\ t \in tx.todo
      /\ traffics[t] = tx.current /\ tx.current # NoRow
      /\ tx.current.email = tx.ruleClients[t].email
  BY DEF Factorable, IsTarget, IInv, Shape, CurrentRead
<1>1. tx.ruleClients[t] # NoRow /\ ~Written(t)
  BY <1>0, TargetTracked DEF IInv, Written
<1>2. Cleared(tx.ruleClients[t], t) BY <1>1 DEF SuspendedInv, TxSuspended, TxCleared
<1>3. ruleState = "active" /\ tx.excludes[tx.ruleClients[t].email] # t
  BY <1>0 DEF SuspendedInv, TxSuspended, TargetsActive, Excluded
<1>4. excludes[tx.ruleClients[t].email] = NoRow
  BY <1>0, <1>3 DEF SuspendedInv, TxSuspended, ExcludesRepaired
<1> QED BY <1>0, <1>1, <1>2, <1>3, <1>4 DEF Cleared, Suspended

LEMMA BaselineEmail ==
    ASSUME NEW rc \in RuleClient, NEW cnt, NEW rem
    PROVE  Baseline(rc, cnt, rem).email = rc.email /\ MarkMissing(rc).email = rc.email
BY DEF Baseline, MarkMissing, RuleClient

LEMMA SuspendedTarget ==
    ASSUME Quiet, IInv, SuspendedInv, NEW t \in Traffic, TickTarget(t) PROVE SuspendedInv'
<1>0. /\ IsTarget(t) /\ tx.pc \in {"targets", "locked"}
      /\ UNCHANGED <<panelVars, tableVars, ghostVars>>
  BY DEF TickTarget, TickSuppressed, TickMissing, TickDefer, TickLock, TickRebaseline,
         TickApply, Factorable
<1>1. tx \in Tx /\ tx.ruleClients[t] \in RuleClient /\ tx.ruleClients[t] # NoRow
  BY <1>0, TargetTracked DEF IInv, TypeOK
<1>2. ASSUME NEW rc \in {tx.ruleClients[t], MarkMissing(tx.ruleClients[t])}, Done(t, rc, NoRow)
      PROVE  SuspendedInv'
  <2>1. /\ rc \in RuleClient /\ rc # NoRow /\ rc.last = tx.ruleClients[t].last
        /\ rc.email = tx.ruleClients[t].email
    BY <1>1, MarkMissingType, BaselineEmail
  <2> QED BY <1>0, <1>2, <2>1, SuspendedDone
<1>3. ASSUME traffics[t] # NoRow,
             Done(t, Baseline(tx.ruleClients[t], traffics[t].cnt, Zero), NoRow)
      PROVE  SuspendedInv'
  <2> DEFINE rc == Baseline(tx.ruleClients[t], traffics[t].cnt, Zero)
  <2>1. traffics[t].cnt \in [Dirs -> Nat] BY <1>3 DEF IInv, TypeOK, TrafficRow
  <2>2. /\ rc \in RuleClient /\ rc # NoRow /\ rc.last = traffics[t].cnt
        /\ rc.email = tx.ruleClients[t].email
    BY <1>1, <2>1, BaselineType, ZeroType, BaselineEmail
  <2> HIDE DEF rc
  <2>3. Done(t, rc, NoRow) BY <1>3 DEF rc
  <2> QED BY <1>0, <2>2, <2>3, SuspendedDone
<1>4. CASE TickSuppressed(t) BY <1>2, <1>3, <1>4 DEF TickSuppressed, Matches
<1>5. CASE TickMissing(t) BY <1>2, <1>5 DEF TickMissing
<1>6. CASE TickDefer(t) BY <1>2, <1>6 DEF TickDefer
<1>7. CASE TickRebaseline(t)
  <2>1. traffics[t] = tx.current /\ tx.current # NoRow
    BY <1>0, <1>7 DEF TickRebaseline, IInv, Shape, CurrentRead
  <2> QED BY <1>2, <1>3, <1>7, <2>1 DEF TickRebaseline
<1>8. CASE TickLock(t)
  <2>1. /\ tx'.pc = "locked" /\ tx'.todo = tx.todo /\ tx'.writes = tx.writes
        /\ tx'.ruleClients = tx.ruleClients /\ tx'.excludes = tx.excludes
        /\ UNCHANGED <<traffics, held, used, suspendedTo, ruleState, excludes>>
    BY <1>1, <1>8 DEF TickLock, Tx, panelVars, tableVars, ghostVars
  <2>2. PanelOutside' /\ ExcludesRepaired' /\ ExcludesKept'
    BY <1>0, <2>1 DEF SuspendedInv, TxSuspended, PanelOutside, ExcludesRepaired, ExcludesKept
  <2>3. TargetsActive'
    <3>1. ~Excluded(t)' BY <1>8, <2>1 DEF TickLock, Excluded
    <3>2. ASSUME NEW u \in Traffic, IsTarget(u)' PROVE u = t
      <4>1. IsTarget(u) BY <2>1, <3>2 DEF IsTarget
      <4> QED BY <1>0, <4>1, TargetUnique DEF IInv
    <3> QED BY <1>0, <2>1, <3>1, <3>2 DEF SuspendedInv, TxSuspended, TargetsActive
  <2>4. \A u \in Traffic : TxCleared(u)'
    BY <2>1, SuspendedStable DEF TxCleared, Written, SuspendedInv, TxSuspended
  <2> QED BY <1>0, <2>2, <2>3, <2>4, SuspendedTx DEF TxSuspended
<1>9. CASE TickApply(t)
  <2>1. /\ Factorable(t) /\ traffics[t] = tx.current /\ traffics[t] # NoRow
        /\ traffics[t] \in TrafficRow
    BY <1>0, <1>9 DEF TickApply, Factorable, IInv, TypeOK, Shape, CurrentRead
  <2>2. CASE tx' = [tx EXCEPT !.pc = "abort"]
    <3>1. /\ tx'.pc = "abort" /\ tx'.writes = tx.writes /\ tx'.ruleClients = tx.ruleClients
          /\ tx'.excludes = tx.excludes
          /\ UNCHANGED <<traffics, held, used, suspendedTo, ruleState, excludes>>
      BY <1>0, <1>1, <2>2 DEF Tx, panelVars, tableVars, ghostVars
    <3>2. PanelOutside' /\ ExcludesRepaired' /\ ExcludesKept' /\ TargetsActive'
      BY <1>0, <3>1 DEF SuspendedInv, TxSuspended, PanelOutside, ExcludesRepaired, ExcludesKept,
                        TargetsActive
    <3>3. \A u \in Traffic : TxCleared(u)'
      BY <3>1, SuspendedStable DEF TxCleared, Written, SuspendedInv, TxSuspended
    <3> QED BY <1>0, <3>2, <3>3, SuspendedTx DEF TxSuspended
  <2>3. ASSUME NEW rc \in RuleClient, NEW w \in Write, rc # NoRow, w # NoRow, Done(t, rc, w),
               rc.email = tx.ruleClients[t].email, Staged(rc, w, t),
               \A d \in Dirs : w.delta[d] = Delta(t, d).delta
        PROVE  SuspendedInv'
    <3>1. ASSUME NEW d \in Dirs
          PROVE  suspendedTo[t][d] <= w.cnt[d] - w.extra[d] - w.delta[d]
      <4>1. /\ tx.ruleClients[t].last[d] \in Nat /\ traffics[t].cnt[d] \in Nat
            /\ w.extra[d] \in Nat /\ suspendedTo[t][d] \in Nat
        BY <1>1, <2>1 DEF RuleClient, TrafficRow, Write, IInv, TypeOK
      <4>2. w.delta[d] = traffics[t].cnt[d] - tx.ruleClients[t].last[d]
        BY <2>1, <2>3, <4>1 DEF Factorable, Decreased, Delta, CounterDelta
      <4>3. w.cnt[d] = traffics[t].cnt[d] + w.extra[d] BY <2>3 DEF Staged
      <4>4. suspendedTo[t][d] <= tx.ruleClients[t].last[d]
        BY <2>1, FactoredAbove DEF Above
      <4> QED BY <4>1, <4>2, <4>3, <4>4
    <3> QED BY <1>0, <2>3, <3>1, SuspendedDone
  <2> QED BY <1>9, <2>2, <2>3, TickApplyResult
<1> QED BY <1>4, <1>5, <1>6, <1>7, <1>8, <1>9 DEF TickTarget

(* A step that ends, or happens outside, a transaction. *)
LEMMA SuspendedIdle ==
    ASSUME tx' = NoTx, TablesSuspended' PROVE SuspendedInv'
<1>1. (tx = NoTx => TxSuspended)' BY IdleSuspended, PTL
<1> QED BY <1>1 DEF SuspendedInv

LEMMA SuspendedCommit ==
    ASSUME IInv, SuspendedInv, TickCommit PROVE SuspendedInv'
<1>0. tx' = NoTx /\ UNCHANGED <<used, ruleState, suspendedTo>> /\ excludes' = tx.excludes
      /\ ruleClients' = tx.ruleClients /\ tx.pc = "targets"
  BY DEF TickCommit
<1>1. ASSUME NEW t \in Traffic
      PROVE  /\ traffics[t] # NoRow <=> traffics'[t] # NoRow
             /\ traffics'[t] # NoRow => traffics'[t].email = traffics[t].email
  <2>1. traffics[t] # NoRow <=> traffics'[t] # NoRow BY CommitRow
  <2>2. CASE Written(t)
    <3>1. traffics[t] \in TrafficRow BY <2>2, CommitRow DEF IInv, TypeOK
    <3>2. traffics'[t] = [traffics[t] EXCEPT !.cnt = tx.writes[t].cnt] BY <2>2 DEF TickCommit
    <3> QED BY <2>1, <3>1, <3>2 DEF TrafficRow
  <2>3. CASE ~Written(t) BY <2>1, <2>3, CommitRow
  <2> QED BY <2>2, <2>3
<1>2. EmailsDistinct' BY <1>1 DEF SuspendedInv, TablesSuspended, EmailsDistinct
<1>3. ASSUME NEW t \in Traffic, NEW d \in Dirs, traffics'[t] # NoRow
      PROVE  suspendedTo[t][d] <= traffics'[t].cnt[d]
  <2>1. suspendedTo[t][d] <= traffics[t].cnt[d] /\ traffics[t] # NoRow
    BY <1>1, <1>3 DEF SuspendedInv, TablesSuspended, SuspendedCounted
  <2>2. suspendedTo[t][d] \in Nat /\ traffics[t].cnt[d] \in Nat
    BY <2>1 DEF IInv, TypeOK, TrafficRow
  <2>3. CASE Written(t)
    <3>1. /\ traffics'[t].cnt = tx.writes[t].cnt /\ tx.writes[t].extra[d] \in Nat
          /\ tx.writes[t].cnt[d] = traffics[t].cnt[d] + tx.writes[t].extra[d]
      BY <2>3, CommitRow DEF Staged, Write
    <3> QED BY <2>1, <2>2, <3>1
  <2>4. CASE ~Written(t) BY <2>1, <2>4, CommitRow
  <2> QED BY <2>3, <2>4
<1>4. SuspendedCounted'
  BY <1>0, <1>1, <1>3 DEF SuspendedCounted, SuspendedInv, TablesSuspended
<1>5. ASSUME NEW t \in Traffic, NEW rc, rc = tx.ruleClients[t]
      PROVE  Tracks(rc, t)' /\ Cleared(rc, t)'
  <2>1. TxCleared(t) BY DEF SuspendedInv, TxSuspended
  <2>2. Tracks(rc, t)' BY <1>0, <1>1, <1>5, <2>1 DEF TxCleared, Tracks
  <2>3. Cleared(rc, t)'
    <3> SUFFICES ASSUME rc # NoRow, traffics'[t] # NoRow, ~Above(rc.last, t)'
                 PROVE  Suspended(rc.email)'
      BY DEF Cleared
    <3>1. ~Written(t)
      <4>1. ASSUME Written(t) PROVE FALSE
        <5>1. traffics'[t].cnt = tx.writes[t].cnt /\ \A d \in Dirs : rc.last[d] = tx.writes[t].cnt[d]
          BY <1>5, <4>1, CommitRow DEF Staged
        <5> QED BY <1>0, <1>3, <5>1 DEF Above
      <4> QED BY <4>1
    <3>2. Cleared(rc, t) /\ ~Above(rc.last, t) /\ traffics[t] # NoRow
      BY <1>0, <1>1, <1>5, <2>1, <3>1 DEF TxCleared, Above
    <3>3. Suspended(rc.email) BY <3>2 DEF Cleared
    <3>4. rc.email \in Emails BY <1>5 DEF IInv, TypeOK, Tx, RuleClient
    <3> QED BY <1>0, <3>3, <3>4 DEF Suspended, SuspendedInv, TxSuspended, ExcludesKept
  <2> QED BY <2>2, <2>3
<1>6. TablesSuspended' BY <1>0, <1>2, <1>4, <1>5 DEF TablesSuspended
<1> QED BY <1>0, <1>6, SuspendedIdle

(* Commands: a baseline is refreshed, or the client stays suspended. *)
LEMMA SuspendedTables ==
    ASSUME IInv, SuspendedInv, tx.pc = "idle", UNCHANGED <<panelVars, tx, ghostVars>>,
           \A t \in Traffic :
              ruleClients'[t] # NoRow =>
                 /\ ruleClients[t] # NoRow /\ ruleClients'[t].email = ruleClients[t].email
                 /\ traffics[t] # NoRow =>
                       \/ ruleClients'[t].last = traffics[t].cnt
                       \/ /\ ruleClients'[t].last = ruleClients[t].last
                          /\ Suspended(ruleClients[t].email) => Suspended(ruleClients[t].email)'
    PROVE  SuspendedInv'
<1>0. tx' = NoTx /\ UNCHANGED <<traffics, used, suspendedTo>>
  BY DEF IInv, Shape, NoTxIdle, panelVars, ghostVars
<1>1. EmailsDistinct' /\ SuspendedCounted'
  BY <1>0 DEF SuspendedInv, TablesSuspended, EmailsDistinct, SuspendedCounted
<1>2. ASSUME NEW t \in Traffic, NEW rc, rc = ruleClients'[t]
      PROVE  Tracks(rc, t)' /\ Cleared(rc, t)'
  <2>1. Tracks(ruleClients[t], t) /\ Cleared(ruleClients[t], t)
    BY DEF SuspendedInv, TablesSuspended
  <2>2. Tracks(rc, t)' BY <1>0, <1>2, <2>1 DEF Tracks
  <2>3. Cleared(rc, t)'
    <3> SUFFICES ASSUME rc # NoRow, traffics[t] # NoRow
                 PROVE  Above(rc.last, t)' \/ Suspended(rc.email)'
      BY <1>0 DEF Cleared
    <3>1. CASE rc.last = traffics[t].cnt
      BY <1>0, <3>1 DEF Above, SuspendedInv, TablesSuspended, SuspendedCounted
    <3>2. CASE /\ rc.last = ruleClients[t].last /\ rc.email = ruleClients[t].email
               /\ ruleClients[t] # NoRow
               /\ Suspended(ruleClients[t].email) => Suspended(ruleClients[t].email)'
      <4>1. CASE Above(ruleClients[t].last, t) BY <1>0, <3>2, <4>1 DEF Above
      <4>2. CASE Suspended(ruleClients[t].email)
        BY <1>2, <3>2, <4>2 DEF Suspended
      <4> QED BY <2>1, <3>2, <4>1, <4>2 DEF Cleared
    <3> QED BY <1>2, <3>1, <3>2
  <2> QED BY <2>2, <2>3
<1>3. TablesSuspended' BY <1>1, <1>2 DEF TablesSuspended
<1> QED BY <1>0, <1>3, SuspendedIdle

LEMMA RefreshedRow ==
    ASSUME IInv, SuspendedInv, NEW e \in Emails, Command(e), NEW t \in Traffic,
           ruleClients' = Refreshed(ClientTrafficByEmail(e), e), ruleClients'[t] # NoRow
    PROVE  /\ ruleClients[t] # NoRow /\ ruleClients'[t].email = ruleClients[t].email
           /\ traffics[t] # NoRow => \/ ruleClients'[t].last = traffics[t].cnt
                                     \/ ruleClients'[t].last = ruleClients[t].last
           /\ traffics[t] # NoRow /\ ruleState = "active" /\ ruleClients[t].email = e =>
                 ruleClients'[t].last = traffics[t].cnt
<1> DEFINE u == ClientTrafficByEmail(e)
<1>1. u \in Traffic /\ traffics[u] # NoRow /\ traffics[u].email = e
  BY ByEmailType DEF Command, TrafficOf
<1> HIDE DEF u
<1>2. ruleClients \in [Traffic -> RuleClient \cup {NoRow}] BY DEF IInv, TypeOK
<1>3. CASE t # u
  <2>1. ruleClients'[t] = ruleClients[t] BY <1>1, <1>2, <1>3 DEF Refreshed, u
  <2>2. traffics[t] # NoRow => ruleClients[t].email # e
    <3> SUFFICES ASSUME traffics[t] # NoRow PROVE ruleClients[t].email # e OBVIOUS
    <3>1. ruleClients[t].email = traffics[t].email
      BY <2>1 DEF SuspendedInv, TablesSuspended, Tracks
    <3> QED BY <1>1, <1>3, <3>1 DEF SuspendedInv, TablesSuspended, EmailsDistinct
  <2> QED BY <2>1, <2>2
<1>4. CASE t = u
  <2>1. CASE ruleState = "active" /\ ruleClients[t] # NoRow /\ ruleClients[t].email = e
    <3>1. ruleClients'[t] = Baseline(ruleClients[t], traffics[t].cnt, Zero)
      BY <1>1, <1>2, <1>4, <2>1 DEF Refreshed, u
    <3>2. ruleClients[t] \in RuleClient /\ traffics[t].cnt \in [Dirs -> Nat]
      BY <1>1, <1>2, <1>4, <2>1 DEF IInv, TypeOK, TrafficRow
    <3> QED BY <2>1, <3>1, <3>2, BaselineType, BaselineEmail, ZeroType
  <2>2. CASE ~(ruleState = "active" /\ ruleClients[t] # NoRow /\ ruleClients[t].email = e)
    <3>1. ruleClients' = ruleClients BY <1>4, <2>2 DEF Refreshed, u
    <3> QED BY <2>2, <3>1
  <2> QED BY <2>1, <2>2
<1> QED BY <1>3, <1>4

LEMMA SuspendedCommands ==
    ASSUME IInv, SuspendedInv, Commands \/ \E u \in Traffic : Age(u) PROVE SuspendedInv'
<1>0. /\ tx.pc = "idle" /\ UNCHANGED <<panelVars, tx, ghostVars>>
      /\ ruleClients \in [Traffic -> RuleClient \cup {NoRow}]
      /\ excludes \in [Emails -> Traffic \cup {NoRow}]
  BY DEF IInv, TypeOK, Commands, Exclude, Unexclude, RemoveOverride, OverrideClient, PauseAll,
         ResumeAll, Cleanup, Age, Command, MayBegin
<1>e. \A t \in Traffic : ruleClients[t] # NoRow => ruleClients[t] \in RuleClient /\ ruleClients[t].email \in Emails
  BY <1>0 DEF RuleClient
<1>1. ASSUME NEW e \in Emails, Exclude(e) PROVE SuspendedInv'
  <2>1. ClientTrafficByEmail(e) # NoRow
    BY <1>1, ByEmailType, NoRowAssumption DEF Exclude, Command, TrafficOf
  <2>2. ruleClients' = ruleClients /\ ruleState' = ruleState
        /\ \A f \in Emails : excludes[f] # NoRow => excludes'[f] # NoRow
    BY <1>0, <1>1, <2>1 DEF Exclude
  <2> QED BY <1>0, <1>e, <2>2, SuspendedTables DEF Suspended
<1>2. ASSUME NEW e \in Emails, Unexclude(e) PROVE SuspendedInv'
  <2>1. /\ Command(e) /\ ruleClients' = Refreshed(ClientTrafficByEmail(e), e)
        /\ ruleState' = ruleState /\ \A f \in Emails \ {e} : excludes'[f] = excludes[f]
    BY <1>0, <1>2 DEF Unexclude
  <2>2. ASSUME NEW t \in Traffic, ruleClients'[t] # NoRow
        PROVE  /\ ruleClients[t] # NoRow /\ ruleClients'[t].email = ruleClients[t].email
               /\ traffics[t] # NoRow =>
                    \/ ruleClients'[t].last = traffics[t].cnt
                    \/ /\ ruleClients'[t].last = ruleClients[t].last
                       /\ Suspended(ruleClients[t].email) => Suspended(ruleClients[t].email)'
    <3>1. /\ ruleClients[t] # NoRow /\ ruleClients'[t].email = ruleClients[t].email
          /\ traffics[t] # NoRow => \/ ruleClients'[t].last = traffics[t].cnt
                                    \/ ruleClients'[t].last = ruleClients[t].last
          /\ traffics[t] # NoRow /\ ruleState = "active" /\ ruleClients[t].email = e =>
                ruleClients'[t].last = traffics[t].cnt
      BY <2>1, <2>2, RefreshedRow
    <3>2. ruleState \in {"active", "paused"} BY DEF IInv, TypeOK
    <3> QED BY <1>e, <2>1, <3>1, <3>2 DEF Suspended
  <2> QED BY <1>0, <2>2, SuspendedTables
<1>3. ASSUME NEW e \in Emails, Command(e), ruleClients' = Refreshed(ClientTrafficByEmail(e), e),
             UNCHANGED <<ruleState, excludes>>
      PROVE  SuspendedInv'
  <2>2. ASSUME NEW t \in Traffic, ruleClients'[t] # NoRow
        PROVE  /\ ruleClients[t] # NoRow /\ ruleClients'[t].email = ruleClients[t].email
               /\ traffics[t] # NoRow =>
                    \/ ruleClients'[t].last = traffics[t].cnt
                    \/ /\ ruleClients'[t].last = ruleClients[t].last
                       /\ Suspended(ruleClients[t].email) => Suspended(ruleClients[t].email)'
    BY <1>3, <2>2, RefreshedRow DEF Suspended
  <2> QED BY <1>0, <2>2, SuspendedTables
<1>4. ASSUME NEW e \in Emails, RemoveOverride(e) PROVE SuspendedInv'
  BY <1>3, <1>4 DEF RemoveOverride
<1>5. ASSUME NEW e \in Emails, NEW f \in OverrideFactors, OverrideClient(e, f) PROVE SuspendedInv'
  BY <1>3, <1>5 DEF OverrideClient
<1>6. CASE PauseAll BY <1>0, <1>6, SuspendedTables DEF PauseAll, Suspended
<1>7. CASE ResumeAll
  <2>1. ASSUME NEW t \in Traffic, ruleClients'[t] # NoRow
        PROVE  /\ ruleClients[t] # NoRow /\ ruleClients'[t].email = ruleClients[t].email
               /\ traffics[t] # NoRow => ruleClients'[t].last = traffics[t].cnt
    <3>1. CASE ruleClients[t] # NoRow /\ Matches(t, ruleClients[t].email)
      <4>1. ruleClients'[t] = Baseline(ruleClients[t], traffics[t].cnt, Zero)
        BY <1>7, <3>1 DEF ResumeAll
      <4>2. traffics[t].cnt \in [Dirs -> Nat] BY <3>1 DEF Matches, IInv, TypeOK, TrafficRow
      <4> QED BY <1>e, <3>1, <4>1, <4>2, BaselineType, BaselineEmail, ZeroType
    <3>2. CASE ~(ruleClients[t] # NoRow /\ Matches(t, ruleClients[t].email))
      <4>1. ruleClients'[t] = ruleClients[t] BY <1>7, <3>2 DEF ResumeAll
      <4>2. traffics[t] = NoRow
        BY <2>1, <3>2, <4>1 DEF Matches, SuspendedInv, TablesSuspended, Tracks
      <4> QED BY <2>1, <4>1, <4>2
    <3> QED BY <3>1, <3>2
  <2> QED BY <1>0, <2>1, SuspendedTables
<1>8. CASE Cleanup
  <2>1. ASSUME NEW t \in Traffic, ruleClients'[t] # NoRow
        PROVE  /\ ruleClients[t] # NoRow /\ ruleClients'[t].email = ruleClients[t].email
               /\ ruleClients'[t].last = ruleClients[t].last
    <3>1. /\ ruleClients[t] # NoRow
          /\ ruleClients'[t] = ruleClients[t] \/ ruleClients'[t] = MarkMissing(ruleClients[t])
      BY <1>8, <2>1 DEF Cleanup
    <3> QED BY <1>e, <3>1, MarkMissingType, BaselineEmail
  <2>2. UNCHANGED <<ruleState, excludes>> BY <1>8 DEF Cleanup
  <2> QED BY <1>0, <2>1, <2>2, SuspendedTables DEF Suspended
<1>9. ASSUME NEW u \in Traffic, Age(u) PROVE SuspendedInv'
  <2>1. ASSUME NEW t \in Traffic, ruleClients'[t] # NoRow
        PROVE  /\ ruleClients[t] # NoRow /\ ruleClients'[t].email = ruleClients[t].email
               /\ ruleClients'[t].last = ruleClients[t].last
    <3>1. CASE t = u
      <4>1. ruleClients'[t] = [ruleClients[t] EXCEPT !.missing = "expired"] /\ ruleClients[t] # NoRow
        BY <1>0, <1>9, <3>1 DEF Age
      <4> QED BY <1>e, <4>1 DEF RuleClient
    <3>2. CASE t # u BY <1>0, <1>9, <2>1, <3>2 DEF Age
    <3> QED BY <3>1, <3>2
  <2>2. UNCHANGED <<ruleState, excludes>> BY <1>9 DEF Age
  <2> QED BY <1>0, <2>1, <2>2, SuspendedTables DEF Suspended
<1> QED BY <1>1, <1>2, <1>4, <1>5, <1>6, <1>7, <1>8, <1>9 DEF Commands

(* The panel changes one row, and keeps its email. *)
LEMMA SuspendedRow ==
    ASSUME IInv, SuspendedInv, NEW t \in Traffic, tx.pc = "idle", UNCHANGED <<tableVars, tx>>,
           used \subseteq used',
           \A u \in Traffic \ {t} : traffics'[u] = traffics[u] /\ suspendedTo'[u] = suspendedTo[u],
           traffics'[t] # NoRow =>
              \/ traffics[t] # NoRow /\ traffics'[t].email = traffics[t].email
              \/ TrafficOf(traffics'[t].email) = {} /\ ruleClients[t] = NoRow,
           \A d \in Dirs :
              suspendedTo'[t][d] <= IF traffics'[t] = NoRow THEN 0 ELSE traffics'[t].cnt[d],
           ruleClients[t] # NoRow /\ traffics'[t] # NoRow =>
              (\A d \in Dirs : suspendedTo'[t][d] <= ruleClients[t].last[d])
              \/ Suspended(ruleClients[t].email)
    PROVE  SuspendedInv'
<1>0. /\ tx' = NoTx /\ UNCHANGED <<ruleState, ruleClients, excludes>>
      /\ traffics \in [Traffic -> TrafficRow \cup {NoRow}]
  BY DEF IInv, TypeOK, Shape, NoTxIdle, tableVars
<1>1. EmailsDistinct'
  <2> SUFFICES ASSUME NEW u \in Traffic, NEW v \in Traffic, traffics'[u] # NoRow,
                      traffics'[v] # NoRow, traffics'[u].email = traffics'[v].email, u # v
               PROVE  FALSE
    BY DEF EmailsDistinct
  <2>1. EmailsDistinct BY DEF SuspendedInv, TablesSuspended
  <2>2. CASE u # t /\ v # t BY <2>1, <2>2 DEF EmailsDistinct
  <2>3. CASE u = t
    <3>1. traffics'[v] = traffics[v] BY <2>3
    <3>2. v \in TrafficOf(traffics'[t].email) BY <2>3, <3>1 DEF TrafficOf
    <3> QED BY <2>1, <2>3, <3>1, <3>2 DEF EmailsDistinct
  <2>4. CASE v = t
    <3>1. traffics'[u] = traffics[u] BY <2>4
    <3>2. u \in TrafficOf(traffics'[t].email) BY <2>4, <3>1 DEF TrafficOf
    <3> QED BY <2>1, <2>4, <3>1, <3>2 DEF EmailsDistinct
  <2> QED BY <2>2, <2>3, <2>4
<1>2. SuspendedCounted' BY DEF SuspendedInv, TablesSuspended, SuspendedCounted
<1>3. ASSUME NEW u \in Traffic, NEW rc, rc = ruleClients[u] PROVE Tracks(rc, u)' /\ Cleared(rc, u)'
  <2>1. Tracks(rc, u) /\ Cleared(rc, u) BY <1>3 DEF SuspendedInv, TablesSuspended
  <2>2. CASE u # t BY <1>0, <2>1, <2>2 DEF Tracks, Cleared, Above, Suspended
  <2>3. CASE u = t BY <1>0, <1>3, <2>1, <2>3 DEF Tracks, Cleared, Above, Suspended
  <2> QED BY <2>2, <2>3
<1>4. TablesSuspended' BY <1>0, <1>1, <1>2, <1>3 DEF TablesSuspended
<1> QED BY <1>0, <1>4, SuspendedIdle

LEMMA SuspendedPanel ==
    ASSUME Quiet, IInv, SuspendedInv, Panel PROVE SuspendedInv'
<1>0. /\ traffics \in [Traffic -> TrafficRow \cup {NoRow}]
      /\ suspendedTo \in [Traffic -> [Dirs -> Nat]]
      /\ ruleClients \in [Traffic -> RuleClient \cup {NoRow}]
      /\ SuspendedCounted
  BY DEF IInv, TypeOK, SuspendedInv, TablesSuspended
<1>1. ASSUME NEW t \in Traffic, PanelHold(t) PROVE SuspendedInv'
  <2>1. /\ tx' = NoTx /\ UNCHANGED <<traffics, used, suspendedTo, ruleState, excludes, ruleClients>>
    BY <1>1 DEF Quiet, PanelHold, PanelMayWrite, IInv, Shape, NoTxIdle, tableVars, ghostVars
  <2>2. TablesSuspended' BY <2>1, SuspendedStable DEF SuspendedInv, TablesSuspended
  <2> QED BY <2>1, <2>2, SuspendedIdle
<1>2. ASSUME NEW t \in Traffic, PanelFinish(t) PROVE SuspendedInv'
  <2>1. t \in held /\ UNCHANGED <<used, tableVars, tx>>
    BY <1>2 DEF PanelFinish, PanelAdd, PanelReset, PanelRename, PanelDelete, PanelTouch, PanelRelease
  <2>2. /\ tx.pc = "idle" /\ traffics[t] \in TrafficRow /\ traffics[t] # NoRow
    BY <2>1, HeldRow DEF SuspendedInv, TxSuspended, PanelOutside
  <2>3. ASSUME NEW c \in Dirs, NEW n \in 1..MaxBytes, PanelAdd(t, c, n) PROVE SuspendedInv'
    <3>1. /\ traffics' = [traffics EXCEPT ![t].cnt[c] = traffics[t].cnt[c] + n]
          /\ suspendedTo' = IF Suspended(traffics[t].email)
                            THEN [suspendedTo EXCEPT ![t][c] = traffics'[t].cnt[c]]
                            ELSE suspendedTo
          /\ n \in Nat
      BY <2>3, BoundsAssumption DEF PanelAdd
    <3>2. traffics'[t] = [traffics[t] EXCEPT !.cnt = [@ EXCEPT ![c] = traffics[t].cnt[c] + n]]
      BY <1>0, <3>1
    <3>3. /\ traffics'[t].cnt = [traffics[t].cnt EXCEPT ![c] = traffics[t].cnt[c] + n]
          /\ traffics'[t].email = traffics[t].email
          /\ traffics[t].cnt \in [Dirs -> Nat]
      BY <2>2, <3>2 DEF TrafficRow
    <3>4. traffics'[t] # NoRow
      <4>1. [traffics[t].cnt EXCEPT ![c] = traffics[t].cnt[c] + n] \in [Dirs -> Nat] BY <3>1, <3>3
      <4>2. traffics'[t] \in TrafficRow BY <2>2, <3>2, <4>1 DEF TrafficRow
      <4> QED BY <4>2, RowsAssumption
    <3>5. \A u \in Traffic \ {t} : traffics'[u] = traffics[u] /\ suspendedTo'[u] = suspendedTo[u]
      BY <1>0, <3>1
    <3>6. \A d \in Dirs : suspendedTo[t][d] <= traffics[t].cnt[d] /\ suspendedTo[t][d] \in Nat
      BY <1>0, <2>2 DEF SuspendedCounted
    <3>7. \A d \in Dirs : suspendedTo'[t][d] <= traffics'[t].cnt[d]
      <4> SUFFICES ASSUME NEW d \in Dirs PROVE suspendedTo'[t][d] <= traffics'[t].cnt[d] OBVIOUS
      <4>1. traffics'[t].cnt[d] = IF d = c THEN traffics[t].cnt[d] + n ELSE traffics[t].cnt[d]
        BY <3>3
      <4>2. suspendedTo'[t][d] \in {suspendedTo[t][d], traffics'[t].cnt[d]}
        BY <1>0, <3>1
      <4> QED BY <3>1, <3>3, <3>6, <4>1, <4>2
    <3>8. ruleClients[t] # NoRow =>
              (\A d \in Dirs : suspendedTo'[t][d] <= ruleClients[t].last[d])
              \/ Suspended(ruleClients[t].email)
      <4> SUFFICES ASSUME ruleClients[t] # NoRow, ~Suspended(ruleClients[t].email)
                   PROVE  \A d \in Dirs : suspendedTo'[t][d] <= ruleClients[t].last[d]
        OBVIOUS
      <4>1. ruleClients[t].email = traffics[t].email /\ Above(ruleClients[t].last, t)
        BY <2>2 DEF SuspendedInv, TablesSuspended, Tracks, Cleared
      <4>2. suspendedTo' = suspendedTo BY <3>1, <4>1
      <4> QED BY <4>1, <4>2 DEF Above
    <3> QED BY <2>1, <2>2, <3>3, <3>4, <3>5, <3>7, <3>8, SuspendedRow
  <2>4. CASE PanelReset(t) \/ PanelDelete(t)
    <3>1. /\ suspendedTo' = [suspendedTo EXCEPT ![t] = Zero]
          /\ \A u \in Traffic \ {t} : traffics'[u] = traffics[u]
          /\ \/ traffics'[t] = NoRow
             \/ traffics'[t] = [traffics[t] EXCEPT !.cnt = Zero]
      BY <1>0, <2>4 DEF PanelReset, PanelDelete, Forget
    <3>2. /\ \A u \in Traffic \ {t} : suspendedTo'[u] = suspendedTo[u]
          /\ \A d \in Dirs : suspendedTo'[t][d] = 0
      BY <1>0, <3>1 DEF Zero
    <3>3. traffics'[t] # NoRow => traffics'[t].email = traffics[t].email /\ traffics'[t].cnt = Zero
      BY <2>2, <3>1 DEF TrafficRow
    <3>4. \A d \in Dirs :
              suspendedTo'[t][d] <= IF traffics'[t] = NoRow THEN 0 ELSE traffics'[t].cnt[d]
      BY <3>2, <3>3 DEF Zero
    <3>5. ruleClients[t] # NoRow => \A d \in Dirs : suspendedTo'[t][d] <= ruleClients[t].last[d]
      BY <1>0, <3>2 DEF RuleClient
    <3> QED BY <2>1, <2>2, <3>1, <3>2, <3>3, <3>4, <3>5, SuspendedRow
  <2>5. CASE PanelTouch(t)
    <3>1. UNCHANGED <<traffics, suspendedTo>> BY <2>5 DEF PanelTouch, ghostVars
    <3>2. ruleClients[t] # NoRow => Above(ruleClients[t].last, t) \/ Suspended(ruleClients[t].email)
      BY <2>2 DEF SuspendedInv, TablesSuspended, Cleared
    <3> QED BY <1>0, <2>1, <2>2, <3>1, <3>2, SuspendedRow DEF SuspendedCounted, Above
  <2> QED BY <1>2, <2>3, <2>4, <2>5 DEF PanelFinish, PanelRename, Quiet
<1>3. ASSUME NEW t \in Traffic, NEW e \in Emails, PanelCreate(t, e) PROVE SuspendedInv'
  <2>1. /\ tx.pc = "idle" /\ t \notin used /\ traffics[t] = NoRow /\ ruleClients[t] = NoRow
        /\ UNCHANGED <<tableVars, tx, suspendedTo>> /\ used \subseteq used' /\ TrafficOf(e) = {}
        /\ traffics' = [traffics EXCEPT ![t] = [email |-> e, cnt |-> Zero]]
    BY <1>3 DEF PanelCreate, PanelMayWrite, Quiet, IInv, Shape, IdsUsed, SuspendedInv,
                TablesSuspended, Tracks, ghostVars
  <2>2. /\ \A u \in Traffic \ {t} : traffics'[u] = traffics[u] /\ suspendedTo'[u] = suspendedTo[u]
        /\ traffics'[t] = [email |-> e, cnt |-> Zero]
    BY <1>0, <2>1
  <2>3. traffics'[t].email = e /\ traffics'[t].cnt = Zero /\ traffics'[t] # NoRow
    <3>1. traffics'[t] \in TrafficRow BY <2>2, ZeroType DEF TrafficRow
    <3> QED BY <2>2, <3>1, RowsAssumption
  <2>4. \A d \in Dirs : suspendedTo'[t][d] <= traffics'[t].cnt[d]
    BY <1>0, <2>1, <2>3 DEF SuspendedCounted, Zero
  <2> QED BY <2>1, <2>2, <2>3, <2>4, SuspendedRow
<1> QED BY <1>1, <1>2, <1>3 DEF Panel

LEMMA SuspendedStep ==
    Quiet => (IInv /\ SuspendedInv /\ [Next]_vars => SuspendedInv')
<1> SUFFICES ASSUME Quiet, IInv, SuspendedInv, [Next]_vars PROVE SuspendedInv' OBVIOUS
<1>1. CASE Panel BY <1>1, SuspendedPanel
<1>2. CASE TickBegin \/ TickReconcile \/ TickEnroll \/ TickCommit
  BY <1>2, SuspendedBegin, SuspendedReconcile, SuspendedEnroll, SuspendedCommit
<1>3. CASE TickAbort \/ Crash
  <2>1. tx' = NoTx /\ UNCHANGED <<panelVars, tableVars, ghostVars>>
    BY <1>3 DEF TickAbort, Crash, Rollback
  <2>2. (tx = NoTx => TxSuspended)' BY IdleSuspended, PTL
  <2> QED BY <2>1, <2>2, SuspendedTx
<1>4. CASE \E t \in Traffic : TickTarget(t) BY <1>4, SuspendedTarget
<1>5. CASE Commands \/ \E t \in Traffic : Age(t) BY <1>5, SuspendedCommands
<1>6. CASE UNCHANGED vars
  <2>1. UNCHANGED <<panelVars, tableVars, ghostVars, tx>> BY <1>6 DEF vars
  <2>2. TxSuspended'
    BY <2>1 DEF panelVars, tableVars, ghostVars, SuspendedInv, TxSuspended, PanelOutside,
                ExcludesRepaired, ExcludesKept, TargetsActive, TxCleared, Written, IsTarget,
                Excluded, Tracks, Cleared, Above, Suspended
  <2> QED BY <2>1, <2>2, SuspendedTx
<1> QED BY <1>1, <1>2, <1>3, <1>4, <1>5, <1>6 DEF Next, TickStep

LEMMA SuspendedCharge ==
    IInv /\ SuspendedInv /\ [Next]_vars => [SuspendedNotFactoredStep]_vars
<1> SUFFICES ASSUME IInv, SuspendedInv, Next, NEW t \in Traffic, NEW d \in Dirs,
                    charged'[t][d] > charged[t][d]
             PROVE  tx.writes[t].cnt[d] - tx.writes[t].extra[d] - tx.writes[t].delta[d]
                      >= suspendedTo[t][d]
  BY DEF SuspendedNotFactoredStep
<1>0. charged \in [Traffic -> [Dirs -> Nat]] BY DEF IInv, TypeOK
<1>1. CASE TickCommit
  <2>1. Written(t)
    <3>1. ASSUME ~Written(t) PROVE FALSE
      <4>1. charged'[t][d] = charged[t][d] BY <1>1, <3>1, CommitRow
      <4> QED BY <1>0, <4>1
    <3> QED BY <3>1
  <2>2. tx.writes[t] \in Write BY <1>1, <2>1, CommitRow
  <2>3. suspendedTo[t][d] \in Nat BY DEF IInv, TypeOK
  <2>4. suspendedTo[t][d] <= tx.writes[t].cnt[d] - tx.writes[t].extra[d] - tx.writes[t].delta[d]
    BY <2>1 DEF SuspendedInv, TxSuspended, TxCleared
  <2> QED BY <2>2, <2>3, <2>4 DEF Write
<1>2. ASSUME charged' = charged PROVE FALSE BY <1>0, <1>2
<1>3. CASE Panel
  <2>1. ASSUME NEW u \in Traffic, Forget(u) PROVE FALSE
    <3>1. charged'[t][d] = 0 \/ charged'[t][d] = charged[t][d]
      BY <1>0, <2>1 DEF Forget, Zero
    <3> QED BY <1>0, <3>1
  <2> QED BY <1>2, <1>3, <2>1
         DEF Panel, PanelHold, PanelFinish, PanelCreate, PanelAdd, PanelReset, PanelRename,
             PanelDelete, PanelTouch, ghostVars
<1>4. CASE TickBegin \/ TickReconcile \/ TickEnroll \/ TickAbort \/ Crash
  BY <1>2, <1>4 DEF TickBegin, TickReconcile, TickEnroll, TickAbort, Crash, Rollback, ghostVars
<1>5. CASE \E u \in Traffic : TickTarget(u)
  BY <1>2, <1>5 DEF TickTarget, TickSuppressed, TickMissing, TickDefer, TickLock,
                    TickRebaseline, TickApply, ghostVars
<1>6. CASE Commands \/ \E u \in Traffic : Age(u)
  BY <1>2, <1>6 DEF Commands, Exclude, Unexclude, RemoveOverride, OverrideClient, PauseAll,
                    ResumeAll, Cleanup, Age, ghostVars
<1> QED BY <1>1, <1>3, <1>4, <1>5, <1>6 DEF Next, TickStep

(* On SQLite, with clients that keep their emails, no tick ever factors a  *)
(* byte counted while its client was excluded or the rule was paused.      *)
THEOREM TickSparesSuspended ==
    ASSUME Backend = "sqlite", "rename" \notin PanelOps
    PROVE  Spec => SuspendedNotFactored
<1>1. Quiet BY DEF Quiet
<1>2. IInv /\ SuspendedInv /\ [Next]_vars => SuspendedInv' BY <1>1, SuspendedStep
<1> QED BY <1>2, InitSuspended, SuspendedCharge, TickInvariant, PTL DEF Spec, SuspendedNotFactored
=============================================================================
