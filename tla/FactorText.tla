----------------------------- MODULE FactorText -----------------------------
(***************************************************************************)
(* A factor as the operator types it and as reports print it               *)
(* (src/internal/engine/factor.go), beside the ticks that use it.  A text  *)
(* is the number before the dot and the digits after it; the code's Base   *)
(* is 10 and its Places are 6.                                             *)
(***************************************************************************)
EXTENDS FactorSlices, Sequences

CONSTANTS
    Base,           \* digits of a text are 0..Base-1
    Places,         \* digits after the dot that a factor keeps
    MaxWhole,       \* bound: numbers typed before the dot
    NotDigits,      \* a part that is empty or holds anything but digits
    NoDot           \* no dot in the text

VARIABLES
    typed,          \* ghost: the text of the command that set the factor
    ppm             \* xui_factor_rules.factor_ppm, 0 while there is no rule

textVars == <<typed, ppm>>

(* Base to the power k: what one unit is worth k places before the last. *)
Power[k \in 0..Places] == IF k = 0 THEN 1 ELSE Power[k - 1] * Base

ASSUME TextAssumption ==
    /\ Base \in Nat \ {0, 1} /\ Places \in Nat \ {0}
    /\ FactorScale = Power[Places]
    /\ MaxWhole \in Nat

Digit == 0..(Base - 1)
Digits == UNION {[1..n -> Digit] : n \in 1..(Places + 1)}
Whole == (0..MaxWhole) \cup {NotDigits}
Fraction == {NoDot, NotDigits} \cup Digits

(* A part that is no digits is neither a number nor a row of digits, and a *)
(* text without a dot is not one with a malformed fraction.                *)
ASSUME SymbolAssumption ==
    NotDigits \notin Nat /\ NotDigits \notin Digits /\ NoDot \notin Digits
        /\ NoDot # NotDigits

(* strconv.ParseInt: digit after digit. *)
ParseInt(digits) ==
    LET value[k \in 0..Len(digits)] ==
            IF k = 0 THEN 0 ELSE value[k - 1] * Base + digits[k]
    IN  value[Len(digits)]

(* The digits after the dot, padded on the right with zeros. *)
Padded(digits) == [k \in 1..Places |-> IF k <= Len(digits) THEN digits[k] ELSE 0]
FractionPPM(digits) == ParseInt(Padded(digits))

(* int64 addition, with wrap-around. *)
Wrap(n) == IF n > MaxInt64 THEN n - 2 * (MaxInt64 + 1) ELSE n

WellFormed(whole, fraction) ==
    /\ whole # NotDigits /\ fraction # NotDigits
    /\ fraction # NoDot => Len(fraction) <= Places
    /\ whole <= MaxInt64                            \* strconv.ParseInt

Sum(whole, fraction) ==
    Wrap(whole * FactorScale + IF fraction = NoDot THEN 0 ELSE FractionPPM(fraction))

(* Mutant: the lower limit is tested on the whole part, before the sum. *)
AcceptedByWhole(whole, fraction) ==
    /\ WellFormed(whole, fraction)
    /\ whole <= MaxInt64 \div FactorScale
    /\ whole >= 1

(* ParseFactor returns Sum, or an error. *)
Accepted(whole, fraction) ==
    /\ WellFormed(whole, fraction)
    /\ whole <= MaxInt64 \div FactorScale           \* else "too large"
    /\ Sum(whole, fraction) >= FactorScale          \* else "greater than or equal to 1"

(* FormatFactor: no dot for a whole factor, else no trailing zeros. *)
FormatWhole(n) == n \div FactorScale

FractionDigits(n) ==
    [k \in 1..Places |-> ((n % FactorScale) \div Power[Places - k]) % Base]

FormatFraction(n) ==
    LET digits == FractionDigits(n)
        kept   == CHOOSE z \in 0..Places :
                     /\ \A k \in (z + 1)..Places : digits[k] = 0
                     /\ z = 0 \/ digits[z] # 0
    IN  IF kept = 0 THEN NoDot ELSE SubSeq(digits, 1, kept)

-----------------------------------------------------------------------------
(* enable --factor, or enable again before the client has any traffic: a   *)
(* text that is refused changes nothing.                                   *)
Enable(whole, fraction) ==
    /\ raw = 0
    /\ Accepted(whole, fraction)
    /\ typed' = <<whole, fraction>>
    /\ ppm' = Sum(whole, fraction)
    /\ UNCHANGED vars

TextInit == Init /\ typed = <<NotDigits, NoDot>> /\ ppm = 0

(* Ticks apply the factor of this instance once it is the rule's. *)
Traffic == ppm = FactorScale + FactorExtra /\ Next /\ UNCHANGED textVars

TextNext ==
    \/ \E whole \in Whole, fraction \in Fraction : Enable(whole, fraction)
    \/ Traffic

TextSpec == TextInit /\ [][TextNext]_<<vars, textVars>>

-----------------------------------------------------------------------------
(* "factor must be greater than or equal to 1": the factor a rule is given *)
(* is exactly the one the command spells, never a sum that has wrapped     *)
(* around int64, and what explain and status print for it is accepted by   *)
(* the next command and means the same factor.                             *)
TextIsExact ==
    ppm # 0 =>
        /\ ppm = typed[1] * FactorScale
                  + IF typed[2] = NoDot THEN 0 ELSE FractionPPM(typed[2])
        /\ ppm \in FactorScale..MaxInt64
        /\ Accepted(FormatWhole(ppm), FormatFraction(ppm))
        /\ Sum(FormatWhole(ppm), FormatFraction(ppm)) = ppm
=============================================================================
