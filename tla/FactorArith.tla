---------------------------- MODULE FactorArith ----------------------------
(***************************************************************************)
(* The integer arithmetic of a tick (src/internal/daemon/tick.go).  A      *)
(* factor is kept in parts per FactorScale (1 000 000 in the code); a tick *)
(* adds delta * (factor - FactorScale) / FactorScale bytes and carries the *)
(* remainder of that division to the next tick.                            *)
(***************************************************************************)
EXTENDS Integers

CONSTANTS
    FactorScale,    \* parts per 1.0 of a factor (engine.FactorScale)
    MaxInt64        \* largest value of a stored counter (math.MaxInt64)

ASSUME FactorScaleAssumption == FactorScale \in Nat \ {0}
ASSUME MaxInt64Assumption == MaxInt64 \in Nat

(* Mutant: the quotient is rounded up and the remainder kept as well. *)
CalculateExtraRoundUp(delta, factorExtra, remainder) ==
    LET value == delta * factorExtra + remainder
        up    == (value + FactorScale - 1) \div FactorScale
    IN  [ok |-> up <= MaxInt64, extra |-> up, rem |-> value % FactorScale]

(***************************************************************************)
(* calculateExtra: exact (big.Int) product, truncated division, remainder. *)
(* ok is false where the code returns "factor result overflow".            *)
(***************************************************************************)
CalculateExtra(delta, factorExtra, remainder) ==
    LET value == delta * factorExtra + remainder
    IN  [ok    |-> value \div FactorScale <= MaxInt64,
         extra |-> value \div FactorScale,
         rem   |-> value % FactorScale]

(***************************************************************************)
(* counterDelta: the bytes counted since the baseline; a counter below its *)
(* baseline is reported as decreased, with delta 0.                        *)
(***************************************************************************)
CounterDelta(current, last) ==
    IF current < last THEN [delta |-> 0, decreased |-> TRUE]
                      ELSE [delta |-> current - last, decreased |-> FALSE]

(* safeAdd fails ("counter overflow") instead of wrapping around. *)
SafeAddOk(a, b) == a + b <= MaxInt64
=============================================================================
