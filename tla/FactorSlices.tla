---------------------------- MODULE FactorSlices ----------------------------
(***************************************************************************)
(* One counter of one client under one factor, with nothing else going on: *)
(* the panel counts bytes, ticks factor what has been counted since the    *)
(* baseline.  The question is whether cutting the same traffic into        *)
(* different ticks changes what the client is charged.                     *)
(***************************************************************************)
EXTENDS FactorArith

CONSTANTS
    FactorExtra,    \* factor_ppm - FactorScale of the winning rule
    MaxBytes        \* bound: bytes the panel counts in a behaviour

ASSUME FactorExtraAssumption == FactorExtra \in Nat
ASSUME MaxBytesAssumption == MaxBytes \in Nat

VARIABLES
    counter,        \* client_traffics.up (or down)
    last,           \* rule_clients.last_up (or last_down)
    rem,            \* rule_clients.rem_up (or rem_down)
    raw             \* ghost: bytes the panel itself has counted

vars == <<counter, last, rem, raw>>

TypeOK ==
    /\ counter \in 0..MaxInt64
    /\ last \in 0..MaxInt64
    /\ rem \in 0..(FactorScale - 1)
    /\ raw \in 0..MaxBytes

Init ==
    /\ counter = 0
    /\ last = 0
    /\ rem = 0
    /\ raw = 0

(* The panel adds a job's bytes to the counter. *)
Count(n) ==
    /\ raw + n <= MaxBytes
    /\ counter + n <= MaxInt64
    /\ counter' = counter + n
    /\ raw' = raw + n
    /\ UNCHANGED <<last, rem>>

(* What a tick of this counter computes: the delta, then the extra bytes.   *)
Charge == CalculateExtra(CounterDelta(counter, last).delta, FactorExtra, rem)

(* Mutant: the overflow check of the addition is missing. *)
NoOverflowUnchecked == Charge.ok

(* Neither the quotient nor the new counter leaves the range of int64. *)
NoOverflow == Charge.ok /\ SafeAddOk(counter, Charge.extra)

(* Mutant: the baseline is the counter that was read, so the tick's own    *)
(* extra bytes are factored again by the next tick.                        *)
FactorReadBaseline ==
    /\ NoOverflow
    /\ counter' = counter + Charge.extra
    /\ last' = counter
    /\ rem' = Charge.rem
    /\ UNCHANGED raw

(* The delta is factored, the baseline moves to the counter as written, the *)
(* remainder is kept.                                                       *)
Factor ==
    /\ NoOverflow
    /\ counter' = counter + Charge.extra
    /\ last' = counter + Charge.extra
    /\ rem' = Charge.rem
    /\ UNCHANGED raw

(* An overflow aborts the tick, whose transaction rolls back. *)
Abort == ~NoOverflow /\ UNCHANGED vars

Next == (\E n \in 1..MaxBytes : Count(n)) \/ Factor \/ Abort

Spec == Init /\ [][Next]_vars

-----------------------------------------------------------------------------
Pending == counter - last           \* counted, not yet factored
Extra   == counter - raw            \* bytes the ticks have added

(* However the traffic was cut into ticks, the bytes added so far are the  *)
(* truncated quotient of the bytes factored so far, as if one tick had     *)
(* factored them all: the remainder carried by calculateExtra loses and    *)
(* invents nothing.                                                        *)
ExactFactor ==
    Extra = ((raw - Pending) * FactorExtra) \div FactorScale

(* Inductive form of ExactFactor: extra bytes and remainder account for    *)
(* every byte factored, and the baseline never runs ahead of the counter.  *)
Accounted ==
    /\ last <= counter
    /\ Extra * FactorScale + rem = (raw - Pending) * FactorExtra

IInv == TypeOK /\ Accounted
=============================================================================
