---------------------------- MODULE FactorProofs ----------------------------
(***************************************************************************)
(* Theorems about a counter under one factor (FactorSlices) and about the  *)
(* texts of factors (FactorText), for every scale, factor, traffic, text.  *)
(***************************************************************************)
EXTENDS FactorText, BasicFacts, SequenceTheorems

(***************************************************************************)
(* calculateExtra: what it returns is exact.                               *)
(***************************************************************************)
LEMMA CalculateExtraExact ==
    ASSUME NEW delta \in Nat, NEW fe \in Nat, NEW r \in 0..(FactorScale - 1)
    PROVE  LET x == CalculateExtra(delta, fe, r)
           IN  /\ x.extra \in Nat
               /\ x.rem \in 0..(FactorScale - 1)
               /\ x.extra * FactorScale + x.rem = delta * fe + r
<1>1. delta * fe \in Nat BY MulNat
<1>2. delta * fe + r \in Nat BY <1>1, FactorScaleAssumption
<1> DEFINE v == delta * fe + r
<1>3. /\ v \div FactorScale \in Nat
      /\ v % FactorScale \in 0..(FactorScale - 1)
      /\ v = (v \div FactorScale) * FactorScale + (v % FactorScale)
  BY <1>2, FactorScaleAssumption, DivMod
<1>4. /\ CalculateExtra(delta, fe, r).extra = v \div FactorScale
      /\ CalculateExtra(delta, fe, r).rem = v % FactorScale
  BY DEF CalculateExtra
<1> QED BY <1>3, <1>4

(* Factoring two stretches of traffic one after the other charges the same *)
(* bytes, and leaves the same remainder, as factoring them together: a     *)
(* tick that was deferred or rolled back costs the client nothing and      *)
(* saves it nothing.                                                       *)
THEOREM SliceIndependence ==
    ASSUME NEW d1 \in Nat, NEW d2 \in Nat, NEW fe \in Nat,
           NEW r \in 0..(FactorScale - 1)
    PROVE  LET x == CalculateExtra(d1, fe, r)
               y == CalculateExtra(d2, fe, x.rem)
               z == CalculateExtra(d1 + d2, fe, r)
           IN  /\ x.extra + y.extra = z.extra
               /\ y.rem = z.rem
<1> DEFINE x == CalculateExtra(d1, fe, r)
           y == CalculateExtra(d2, fe, x.rem)
           z == CalculateExtra(d1 + d2, fe, r)
<1>1. /\ x.extra \in Nat /\ x.rem \in 0..(FactorScale - 1)
      /\ x.extra * FactorScale + x.rem = d1 * fe + r
  BY CalculateExtraExact
<1>2. /\ y.extra \in Nat /\ y.rem \in 0..(FactorScale - 1)
      /\ y.extra * FactorScale + y.rem = d2 * fe + x.rem
  BY <1>1, CalculateExtraExact
<1>3. d1 + d2 \in Nat OBVIOUS
<1>4. /\ z.extra \in Nat /\ z.rem \in 0..(FactorScale - 1)
      /\ z.extra * FactorScale + z.rem = (d1 + d2) * fe + r
  BY <1>3, CalculateExtraExact
<1> DEFINE q1 == x.extra    r1 == x.rem
           q2 == y.extra    r2 == y.rem
           q3 == z.extra    r3 == z.rem
<1>5. /\ q1 \in Nat /\ q2 \in Nat /\ q3 \in Nat
      /\ r1 \in 0..(FactorScale - 1) /\ r2 \in 0..(FactorScale - 1)
      /\ r3 \in 0..(FactorScale - 1)
      /\ q1 * FactorScale + r1 = d1 * fe + r
      /\ q2 * FactorScale + r2 = d2 * fe + r1
      /\ q3 * FactorScale + r3 = (d1 + d2) * fe + r
  BY <1>1, <1>2, <1>4
<1> HIDE DEF q1, q2, q3, r1, r2, r3, x, y, z
<1>6. (d1 + d2) * fe = d1 * fe + d2 * fe BY Distribute
<1>7. (q1 + q2) * FactorScale = q1 * FactorScale + q2 * FactorScale
  BY <1>5, FactorScaleAssumption, Distribute
<1>8. (q1 + q2) * FactorScale + r2 = q3 * FactorScale + r3
  <2>1. /\ d1 * fe \in Nat /\ d2 * fe \in Nat
        /\ q1 * FactorScale \in Nat /\ q2 * FactorScale \in Nat
        /\ r \in Int /\ r1 \in Int /\ r2 \in Int
    BY <1>5, MulNat, FactorScaleAssumption
  <2>2. q1 * FactorScale + q2 * FactorScale + r2 = d1 * fe + d2 * fe + r
    BY <1>5, <2>1
  <2> QED BY <1>5, <1>6, <1>7, <2>2
<1>9. q1 + q2 = q3
  <2>1. ((q1 + q2) * FactorScale + r2) \div FactorScale = q1 + q2
    BY <1>5, FactorScaleAssumption, DivUnique
  <2>2. (q3 * FactorScale + r3) \div FactorScale = q3 BY <1>5, FactorScaleAssumption, DivUnique
  <2> QED BY <1>8, <2>1, <2>2
<1>10. r2 = r3
  <2>1. q3 * FactorScale \in Nat /\ r2 \in Int /\ r3 \in Int
    BY <1>5, MulNat, FactorScaleAssumption
  <2> QED BY <1>8, <1>9, <2>1
<1> QED BY <1>9, <1>10 DEF q1, q2, q3, r1, r2, r3, x, y, z

-----------------------------------------------------------------------------
(* The inductive invariant gives the exact charge. *)
LEMMA AccountedExact == IInv => ExactFactor
<1> SUFFICES ASSUME IInv PROVE ExactFactor OBVIOUS
<1> USE FactorScaleAssumption, MaxInt64Assumption, MaxBytesAssumption,
        FactorExtraAssumption
<1>1. Extra \in Int /\ rem \in 0..(FactorScale - 1) /\ raw - Pending \in Int
  BY DEF IInv, TypeOK, Extra, Pending
<1>2. Extra * FactorScale + rem = (raw - Pending) * FactorExtra
  BY DEF IInv, Accounted
<1>3. (Extra * FactorScale + rem) \div FactorScale = Extra
  BY <1>1, FactorScaleAssumption, DivUnique
<1> QED BY <1>2, <1>3 DEF ExactFactor

LEMMA InitAccounted == Init => IInv
BY FactorScaleAssumption, MaxInt64Assumption, MaxBytesAssumption,
   FactorExtraAssumption
   DEF Init, IInv, TypeOK, Accounted, Extra, Pending

(* A panel job moves the counter and the ghost together. *)
LEMMA CountStep ==
    ASSUME IInv, NEW n \in 1..MaxBytes, Count(n)
    PROVE  IInv'
<1> USE FactorScaleAssumption, MaxInt64Assumption, MaxBytesAssumption,
        FactorExtraAssumption
<1>1. TypeOK' BY DEF IInv, TypeOK, Count
<1>2. last' <= counter' BY DEF IInv, TypeOK, Accounted, Count
<1>3. Extra' = Extra /\ (raw - Pending)' = raw - Pending /\ rem' = rem
  BY DEF IInv, TypeOK, Count, Extra, Pending
<1> QED BY <1>1, <1>2, <1>3 DEF IInv, Accounted

(* A tick factors the whole delta and moves the baseline to the counter it *)
(* wrote.                                                                  *)
LEMMA FactorStep ==
    ASSUME IInv, Factor
    PROVE  IInv'
<1> USE FactorScaleAssumption, MaxInt64Assumption, MaxBytesAssumption,
        FactorExtraAssumption
<1> DEFINE delta == counter - last
           x == CalculateExtra(delta, FactorExtra, rem)
<1>1. /\ delta \in Nat /\ rem \in 0..(FactorScale - 1)
      /\ counter \in Nat /\ raw \in Nat
  BY DEF IInv, TypeOK, Accounted
<1>2. Charge = x
  BY <1>1 DEF Charge, CounterDelta, IInv, TypeOK, Accounted
<1>3. /\ x.extra \in Nat /\ x.rem \in 0..(FactorScale - 1)
      /\ x.extra * FactorScale + x.rem = delta * FactorExtra + rem
  <2> HIDE DEF delta
  <2> QED BY <1>1, CalculateExtraExact
<1> HIDE DEF x
<1>4. /\ counter' = counter + x.extra /\ last' = counter + x.extra
      /\ rem' = x.rem /\ raw' = raw /\ counter + x.extra <= MaxInt64
  BY <1>2 DEF Factor, NoOverflow, SafeAddOk
<1>5. TypeOK' BY <1>1, <1>3, <1>4 DEF IInv, TypeOK
<1>6. last' <= counter' BY <1>1, <1>3, <1>4
<1>7. Extra' * FactorScale + rem' = (raw - Pending)' * FactorExtra
  <2>1. Extra \in Int /\ raw - Pending \in Int
    BY <1>1 DEF IInv, TypeOK, Extra, Pending
  <2>2. Extra' = Extra + x.extra BY <1>1, <1>3, <1>4 DEF Extra
  <2>3. (raw - Pending)' = (raw - Pending) + delta
    BY <1>1, <1>3, <1>4 DEF Pending, IInv, TypeOK
  <2>4. Extra * FactorScale + rem = (raw - Pending) * FactorExtra
    BY DEF IInv, Accounted
  <2>5. Extra' * FactorScale = Extra * FactorScale + x.extra * FactorScale
    BY <2>1, <2>2, <1>3, Distribute
  <2>6. (raw - Pending)' * FactorExtra
          = (raw - Pending) * FactorExtra + delta * FactorExtra
    BY <2>1, <2>3, <1>1, Distribute
  <2>7. /\ Extra * FactorScale \in Int /\ x.extra * FactorScale \in Int
        /\ (raw - Pending) * FactorExtra \in Int /\ delta * FactorExtra \in Int
        /\ rem \in Int /\ x.rem \in Int
    <3>1. FactorScale \in Int /\ FactorExtra \in Int OBVIOUS
    <3>2. x.extra \in Int /\ delta \in Int BY <1>1, <1>3
    <3> QED BY <2>1, <1>1, <1>3, <3>1, <3>2, MulInt
  <2> QED BY <2>4, <2>5, <2>6, <2>7, <1>3, <1>4
<1> QED BY <1>5, <1>6, <1>7 DEF IInv, Accounted

LEMMA AccountedStep == IInv /\ [Next]_vars => IInv'
<1> SUFFICES ASSUME IInv, [Next]_vars PROVE IInv' OBVIOUS
<1>1. CASE \E n \in 1..MaxBytes : Count(n) BY <1>1, CountStep
<1>2. CASE Factor BY <1>2, FactorStep
<1>3. CASE Abort
  BY <1>3 DEF Abort, vars, IInv, TypeOK, Accounted, Extra, Pending
<1>4. CASE UNCHANGED vars
  BY <1>4 DEF vars, IInv, TypeOK, Accounted, Extra, Pending
<1> QED BY <1>1, <1>2, <1>3, <1>4 DEF Next

(* For every scale, factor and sequence of panel jobs and ticks, the bytes *)
(* a client is charged are the truncated product of the bytes factored and *)
(* the factor: no rounding error accumulates over the ticks.               *)
THEOREM ChargeIsExact == Spec => []ExactFactor
<1>1. Init => IInv BY InitAccounted
<1>2. IInv /\ [Next]_vars => IInv' BY AccountedStep
<1>3. IInv => ExactFactor BY AccountedExact
<1> QED BY <1>1, <1>2, <1>3, PTL DEF Spec

(* Counters, baselines and remainders stay in their ranges: int64 counters *)
(* never wrap, remainders stay below the scale.                            *)
THEOREM SlicesTypeOK == Spec => []TypeOK
<1>1. Init => IInv BY InitAccounted
<1>2. IInv /\ [Next]_vars => IInv' BY AccountedStep
<1>3. IInv => TypeOK BY DEF IInv
<1> QED BY <1>1, <1>2, <1>3, PTL DEF Spec


-----------------------------------------------------------------------------
(***************************************************************************)
(* Texts.  Power and ParseInt are recursive functions; the two steps they  *)
(* are made of, by name, so that one lemma says that the recursions have a *)
(* solution, and their defining equations are used from there on.          *)
(***************************************************************************)
NumeralStep(kind, x, digit) == IF kind = "power" THEN x * Base ELSE x * Base + digit

Solved(f, kind, first, digits, n) ==
    f = [k \in 0..n |-> IF k = 0 THEN first ELSE NumeralStep(kind, f[k - 1], digits[k])]

LEMMA SolvedExists ==
    ASSUME NEW kind, NEW first, NEW digits, NEW n \in Nat
    PROVE  \E f : Solved(f, kind, first, digits, n)
<1> DEFINE Step(f, k) == IF k = 0 THEN first ELSE NumeralStep(kind, f[k - 1], digits[k])
           Solves(f, m) == f = [k \in 0..m |-> Step(f, k)]
           N == {m \in Nat : \E f : Solves(f, m)}
<1>1. 0 \in N
  <2> DEFINE f == [k \in 0..0 |-> first]
  <2>1. \A k \in 0..0 : k = 0 OBVIOUS
  <2>2. Solves(f, 0) BY <2>1, Zenon
  <2>3. \E h : Solves(h, 0) BY <2>2, Zenon
  <2> QED BY <2>3
<1>2. ASSUME NEW m \in N PROVE m + 1 \in N
  <2>1. PICK f : Solves(f, m) OBVIOUS
  <2> DEFINE g == [k \in 0..(m + 1) |-> Step(f, k)]
  <2>2. ASSUME NEW k \in 0..(m + 1) PROVE Step(f, k) = Step(g, k)
    <3>1. CASE k = 0 BY <3>1
    <3>2. CASE k # 0
      <4>1. k - 1 \in 0..m /\ k - 1 \in 0..(m + 1) BY <3>2
      <4>2. f[k - 1] = Step(f, k - 1) BY <2>1, <4>1, Zenon
      <4>3. g[k - 1] = Step(f, k - 1) BY <4>1, Zenon
      <4> QED BY <3>2, <4>2, <4>3, Zenon
    <3> QED BY <3>1, <3>2
  <2>3. Solves(g, m + 1) BY <2>2, Zenon
  <2>4. \E h : Solves(h, m + 1) BY <2>3, Zenon
  <2>5. m + 1 \in Nat OBVIOUS
  <2> QED BY <2>4, <2>5, Zenon
<1>3. N = Nat
  <2>1. N \in SUBSET Nat OBVIOUS
  <2> HIDE DEF N
  <2> QED BY <1>1, <1>2, <2>1, NatSetInduction, Zenon
<1>4. n \in N BY <1>3
<1> QED BY <1>4, Zenon DEF Solved

(* Power satisfies its equations, and its values are positive. *)
LEMMA PowerStep ==
    /\ Power[0] = 1
    /\ \A k \in 1..Places : Power[k] = Power[k - 1] * Base
<1> DEFINE Step(f, k) == IF k = 0 THEN 1 ELSE f[k - 1] * Base
<1>1. \E f : f = [k \in 0..Places |-> Step(f, k)]
  <2>1. PICK f : Solved(f, "power", 1, <<>>, Places)
    BY SolvedExists, TextAssumption, Zenon
  <2>2. f = [k \in 0..Places |-> Step(f, k)] BY <2>1, Zenon DEF Solved, NumeralStep
  <2> QED BY <2>2, Zenon
<1>2. Power = [k \in 0..Places |-> Step(Power, k)] BY <1>1, Zenon DEF Power
<1>3. \A k \in 0..Places : Power[k] = Step(Power, k) BY <1>2, Zenon
<1>4. 0 \in 0..Places /\ \A k \in 1..Places : k \in 0..Places /\ k # 0
  BY TextAssumption
<1> QED BY <1>3, <1>4, Zenon

LEMMA PowerType == \A k \in 0..Places : Power[k] \in Nat \ {0}
<1> DEFINE N == {n \in Nat : n <= Places => Power[n] \in Nat \ {0}}
<1>1. 0 \in N BY PowerStep
<1>2. ASSUME NEW n \in N PROVE n + 1 \in N
  <2>1. CASE n + 1 <= Places
    <3>1. n + 1 \in 1..Places /\ n <= Places /\ (n + 1) - 1 = n BY <2>1, TextAssumption
    <3>2. Power[n + 1] = Power[n] * Base BY <3>1, PowerStep
    <3>3. Power[n] \in Nat \ {0} BY <3>1
    <3>4. Power[n] * Base \in Nat \ {0} BY <3>3, TextAssumption, Z3
    <3> QED BY <3>2, <3>4
  <2>2. CASE ~(n + 1 <= Places) BY <2>2
  <2> QED BY <2>1, <2>2
<1>3. N \in SUBSET Nat OBVIOUS
<1>4. N = Nat
  <2> HIDE DEF N
  <2> QED BY <1>1, <1>2, <1>3, NatSetInduction, Zenon
<1> QED BY <1>4, TextAssumption

(* What ParseInt computes of a row of Places digits: f[k] is the number    *)
(* that the first k digits make.                                           *)
LEMMA ParseIntSteps ==
    ASSUME NEW digits \in [1..Places -> Digit]
    PROVE  \E f : /\ f[0] = 0
                  /\ \A k \in 1..Places : f[k] = f[k - 1] * Base + digits[k]
                  /\ ParseInt(digits) = f[Places]
<1> DEFINE Step(f, k) == IF k = 0 THEN 0 ELSE f[k - 1] * Base + digits[k]
           F == CHOOSE f : f = [k \in 0..Places |-> Step(f, k)]
<1>1. Len(digits) = Places BY TextAssumption
<1>2. \E f : f = [k \in 0..Places |-> Step(f, k)]
  <2>1. PICK f : Solved(f, "digits", 0, digits, Places)
    BY SolvedExists, TextAssumption, Zenon
  <2>2. "digits" # "power" OBVIOUS
  <2>3. f = [k \in 0..Places |-> Step(f, k)] BY <2>1, <2>2, Zenon DEF Solved, NumeralStep
  <2> QED BY <2>3, Zenon
<1>3. F = [k \in 0..Places |-> Step(F, k)] BY <1>2, Zenon
<1>4. ParseInt(digits) = F[Places] BY <1>1, Zenon DEF ParseInt
<1>5. \A k \in 0..Places : F[k] = Step(F, k) BY <1>3, Zenon
<1> HIDE DEF F
<1>6. 0 \in 0..Places /\ \A k \in 1..Places : k \in 0..Places /\ k # 0
  BY TextAssumption
<1>7. F[0] = 0 /\ \A k \in 1..Places : F[k] = F[k - 1] * Base + digits[k]
  BY <1>5, <1>6, Zenon
<1> QED BY <1>4, <1>7, Zenon


(* Digits are naturals below Base, so the first k of them make a number    *)
(* below Base to the k: a fraction is always less than 1.                  *)
LEMMA FractionBound ==
    ASSUME NEW digits \in [1..Places -> Digit]
    PROVE  ParseInt(digits) \in 0..(FactorScale - 1)
<1>1. PICK f : /\ f[0] = 0
               /\ \A k \in 1..Places : f[k] = f[k - 1] * Base + digits[k]
               /\ ParseInt(digits) = f[Places]
  BY ParseIntSteps, Zenon
<1> DEFINE N == {n \in Nat : n <= Places => f[n] \in 0..(Power[n] - 1)}
<1>2. 0 \in N BY <1>1, PowerStep
<1>3. ASSUME NEW n \in N PROVE n + 1 \in N
  <2>1. CASE n + 1 <= Places
    <3>1. n + 1 \in 1..Places /\ n \in 0..Places /\ (n + 1) - 1 = n
      BY <2>1, TextAssumption
    <3> DEFINE x == f[n]    p == Power[n]    d == digits[n + 1]
    <3>2. f[n + 1] = x * Base + d BY <1>1, <3>1
    <3>3. Power[n + 1] = p * Base BY <3>1, PowerStep
    <3>4. p \in Nat \ {0} /\ x \in 0..(p - 1) BY <3>1, PowerType
    <3>5. d \in 0..(Base - 1) BY <3>1 DEF Digit
    <3> HIDE DEF x, p, d
    <3>6. x * Base + d \in 0..(p * Base - 1)
      <4>1. x \in Int /\ p \in Int /\ d \in Int /\ Base \in Nat /\ p - x - 1 \in Nat
        BY <3>4, <3>5, TextAssumption
      <4>2. (p - x - 1) * Base \in Nat /\ x * Base \in Nat
        BY <3>4, <4>1, MulNat
      <4>3. (p - x - 1) * Base = p * Base - x * Base - Base BY <4>1, Z3
      <4>4. p * Base \in Int BY <4>1, MulInt
      <4> QED BY <3>5, <4>1, <4>2, <4>3, <4>4
    <3> QED BY <3>2, <3>3, <3>6
  <2>2. CASE ~(n + 1 <= Places) BY <2>2
  <2> QED BY <2>1, <2>2
<1>4. N \in SUBSET Nat OBVIOUS
<1>5. N = Nat
  <2> HIDE DEF N
  <2> QED BY <1>2, <1>3, <1>4, NatSetInduction, Zenon
<1>6. Places \in N BY <1>5, TextAssumption
<1> QED BY <1>1, <1>6, TextAssumption

(* Dividing twice is dividing by the product. *)
LEMMA DivDiv ==
    ASSUME NEW m \in Nat, NEW p \in Nat \ {0}, NEW b \in Nat \ {0}
    PROVE  (m \div p) \div b = m \div (p * b)
<1> DEFINE q == m \div p    r == m % p    u == q \div b    v == q % b
<1>1. q \in Nat /\ r \in 0..(p - 1) /\ m = q * p + r BY DivMod
<1>2. u \in Nat /\ v \in 0..(b - 1) /\ q = u * b + v BY <1>1, DivMod
<1> DEFINE s == p * b    t == v * p + r
<1> HIDE DEF q, r, u, v
<1>3. s \in Nat \ {0} BY Z3
<1>4. t \in 0..(s - 1)
  <2>1. b - v - 1 \in Nat /\ v \in Nat /\ p \in Nat BY <1>2
  <2>2. (b - v - 1) * p \in Nat /\ v * p \in Nat BY <2>1, MulNat
  <2>3. (b - v - 1) * p = p * b - v * p - p BY <2>1, Z3
  <2> QED BY <1>1, <1>3, <2>1, <2>2, <2>3
<1>5. m = u * s + t
  <2>1. m = (u * b + v) * p + r BY <1>1, <1>2
  <2>2. u \in Int /\ v \in Int /\ r \in Int BY <1>1, <1>2
  <2>3. (u * b + v) * p = (u * b) * p + v * p BY <2>2, Z3
  <2>4. (u * b) * p = u * (p * b) BY <2>2, Z3
  <2> QED BY <2>1, <2>2, <2>3, <2>4
<1> HIDE DEF s, t
<1>6. m \div s = u BY <1>2, <1>3, <1>4, <1>5, DivUnique
<1> QED BY <1>6 DEF s, u, q

(* %06d prints the numeral of the fraction: ParseInt reads it back. *)
LEMMA FractionDigitsType ==
    ASSUME NEW n \in Nat
    PROVE  FractionDigits(n) \in [1..Places -> Digit]
<1>1. n % FactorScale \in Nat BY FactorScaleAssumption, DivMod
<1>2. ASSUME NEW k \in 1..Places
      PROVE  ((n % FactorScale) \div Power[Places - k]) % Base \in Digit
  <2>1. Places - k \in 0..Places BY TextAssumption
  <2>2. Power[Places - k] \in Nat \ {0} BY <2>1, PowerType
  <2> DEFINE q == (n % FactorScale) \div Power[Places - k]
  <2>3. q \in Nat BY <1>1, <2>2, DivMod
  <2> HIDE DEF q
  <2>4. q % Base \in 0..(Base - 1) BY <2>3, TextAssumption, DivMod
  <2> QED BY <2>4 DEF q, Digit
<1> QED BY <1>2 DEF FractionDigits

LEMMA DigitsValue ==
    ASSUME NEW n \in Nat
    PROVE  ParseInt(FractionDigits(n)) = n % FactorScale
<1> DEFINE m == n % FactorScale    digits == FractionDigits(n)
<1>1. m \in 0..(FactorScale - 1) /\ m \in Nat BY FactorScaleAssumption, DivMod
<1>2. digits \in [1..Places -> Digit] BY FractionDigitsType
<1>3. \A k \in 1..Places : digits[k] = (m \div Power[Places - k]) % Base
  BY DEF FractionDigits
<1> HIDE DEF m, digits
<1>4. PICK f : /\ f[0] = 0
               /\ \A k \in 1..Places : f[k] = f[k - 1] * Base + digits[k]
               /\ ParseInt(digits) = f[Places]
  BY <1>2, ParseIntSteps, Zenon
<1> DEFINE N == {k \in Nat : k <= Places => f[k] = m \div Power[Places - k]}
<1>5. 0 \in N
  <2>1. m = 0 * FactorScale + m BY <1>1, FactorScaleAssumption
  <2>2. m \div FactorScale = 0 BY <1>1, <2>1, FactorScaleAssumption, DivUnique
  <2>3. Places - 0 = Places BY TextAssumption
  <2> QED BY <1>4, <2>2, <2>3, TextAssumption
<1>6. ASSUME NEW k \in N PROVE k + 1 \in N
  <2>1. CASE k + 1 <= Places
    <3>1. /\ k + 1 \in 1..Places /\ (k + 1) - 1 = k
          /\ Places - k \in 1..Places /\ Places - (k + 1) \in 0..Places
          /\ (Places - k) - 1 = Places - (k + 1)
      BY <2>1, TextAssumption
    <3> DEFINE p == Power[Places - (k + 1)]    q == m \div p
    <3>2. p \in Nat \ {0} BY <3>1, PowerType
    <3>3. Power[Places - k] = p * Base BY <3>1, PowerStep
    <3>4. f[k] = m \div (p * Base)
      <4>1. k <= Places BY <2>1, TextAssumption
      <4>2. f[k] = m \div Power[Places - k] BY <4>1
      <4> QED BY <3>3, <4>2
    <3>5. f[k] = q \div Base BY <1>1, <3>2, <3>4, DivDiv, TextAssumption
    <3>6. f[k + 1] = f[k] * Base + digits[k + 1] BY <1>4, <3>1
    <3>7. digits[k + 1] = q % Base BY <1>3, <3>1
    <3>8. q \in Nat BY <1>1, <3>2, DivMod
    <3> HIDE DEF p, q
    <3>9. q = (q \div Base) * Base + (q % Base) BY <3>8, DivMod, TextAssumption
    <3>10. f[k + 1] = q BY <3>5, <3>6, <3>7, <3>9
    <3> QED BY <3>1, <3>10 DEF p, q
  <2>2. CASE ~(k + 1 <= Places) BY <2>2
  <2> QED BY <2>1, <2>2
<1>7. N \in SUBSET Nat OBVIOUS
<1>8. N = Nat
  <2> HIDE DEF N
  <2> QED BY <1>5, <1>6, <1>7, NatSetInduction, Zenon
<1>9. f[Places] = m \div Power[0] BY <1>8, TextAssumption
<1>10. m \div 1 = m BY <1>1
<1> QED BY <1>4, <1>9, <1>10, PowerStep DEF m, digits


(* TrimRight drops zeros only: what is kept, padded again, is the numeral. *)
Kept(digits, z) ==
    /\ z \in 0..Places
    /\ \A k \in (z + 1)..Places : digits[k] = 0
    /\ z = 0 \/ digits[z] # 0

LEMMA KeptExists == ASSUME NEW digits PROVE \E z : Kept(digits, z)
<1> DEFINE Z == {z \in 0..Places : \A k \in (z + 1)..Places : digits[k] = 0}
<1>1. Places \in Z BY TextAssumption
<1>2. Z \in SUBSET Nat BY TextAssumption
<1>3. PICK z \in Z : \A y \in Z : z <= y
  <2> HIDE DEF Z
  <2> QED BY <1>1, <1>2, NatLeast, Zenon
<1>4. ASSUME z # 0, digits[z] = 0 PROVE FALSE
  <2>1. z - 1 \in 0..Places BY <1>4, TextAssumption
  <2>2. \A k \in ((z - 1) + 1)..Places : k = z \/ k \in (z + 1)..Places
    BY <1>4, TextAssumption
  <2>3. z - 1 \in Z BY <1>4, <2>1, <2>2
  <2> QED BY <1>2, <1>3, <2>3
<1> QED BY <1>3, <1>4, Zenon DEF Kept

LEMMA ZeroDigits ==
    ASSUME NEW digits \in [1..Places -> Digit], \A k \in 1..Places : digits[k] = 0
    PROVE  ParseInt(digits) = 0
<1>1. PICK f : /\ f[0] = 0
               /\ \A k \in 1..Places : f[k] = f[k - 1] * Base + digits[k]
               /\ ParseInt(digits) = f[Places]
  BY ParseIntSteps, Zenon
<1> DEFINE N == {n \in Nat : n <= Places => f[n] = 0}
<1>2. 0 \in N BY <1>1
<1>3. ASSUME NEW n \in N PROVE n + 1 \in N
  <2>1. CASE n + 1 <= Places
    <3>1. n + 1 \in 1..Places /\ (n + 1) - 1 = n /\ f[n] = 0 BY <2>1, TextAssumption
    <3>2. f[n + 1] = 0 * Base + 0 BY <1>1, <3>1
    <3> QED BY <3>2, TextAssumption
  <2>2. CASE ~(n + 1 <= Places) BY <2>2
  <2> QED BY <2>1, <2>2
<1>4. N \in SUBSET Nat OBVIOUS
<1>5. N = Nat
  <2> HIDE DEF N
  <2> QED BY <1>2, <1>3, <1>4, NatSetInduction, Zenon
<1>6. Places \in N BY <1>5, TextAssumption
<1>7. f[Places] = 0 BY <1>6, TextAssumption
<1> QED BY <1>1, <1>7, Zenon

LEMMA FormatFractionExact ==
    ASSUME NEW n \in Nat
    PROVE  \/ FormatFraction(n) = NoDot /\ n % FactorScale = 0
           \/ /\ FormatFraction(n) \in Digits
              /\ Len(FormatFraction(n)) <= Places
              /\ FractionPPM(FormatFraction(n)) = n % FactorScale
<1> DEFINE digits == FractionDigits(n)
           z == CHOOSE y \in 0..Places :
                     /\ \A k \in (y + 1)..Places : digits[k] = 0
                     /\ y = 0 \/ digits[y] # 0
           short == SubSeq(digits, 1, z)
<1>1. digits \in [1..Places -> Digit] BY FractionDigitsType
<1>2. ParseInt(digits) = n % FactorScale BY DigitsValue
<1>3. FormatFraction(n) = IF z = 0 THEN NoDot ELSE short BY Zenon DEF FormatFraction
<1> HIDE DEF digits
<1>4. Kept(digits, z)
  <2>1. PICK y : Kept(digits, y) BY KeptExists, Zenon
  <2> QED BY <2>1, Zenon DEF Kept
<1> HIDE DEF z
<1>5. CASE z = 0
  <2>1. \A k \in 1..Places : digits[k] = 0 BY <1>4, <1>5 DEF Kept
  <2>2. n % FactorScale = 0 BY <1>1, <1>2, <2>1, ZeroDigits
  <2> QED BY <1>3, <1>5, <2>2
<1>6. CASE z # 0
  <2>1. z \in 1..Places BY <1>4, <1>6, TextAssumption DEF Kept
  <2>2. /\ short \in Seq(Digit)
        /\ Len(short) = IF 1 <= z THEN z - 1 + 1 ELSE 0
        /\ \A i \in 1..(z - 1 + 1) : short[i] = digits[1 + i - 1]
    <3>1. 1 \in Int /\ z \in Int /\ \A i \in 1..z : digits[i] \in Digit
      BY <1>1, <2>1, TextAssumption
    <3> QED BY <3>1, SubSeqProperties
  <2>3. /\ Len(short) = z
        /\ short \in [1..z -> Digit]
        /\ \A k \in 1..z : short[k] = digits[k]
    <3> HIDE DEF short
    <3>1. Len(short) = z BY <2>1, <2>2
    <3>2. short \in [1..z -> Digit] BY <2>2, <3>1, LenProperties
    <3>3. ASSUME NEW k \in 1..z PROVE short[k] = digits[k]
      <4>1. k \in 1..(z - 1 + 1) /\ 1 + k - 1 = k BY <2>1
      <4>2. short[k] = digits[1 + k - 1] BY <2>2, <4>1, Zenon
      <4> QED BY <4>1, <4>2
    <3> QED BY <3>1, <3>2, <3>3
  <2> HIDE DEF short
  <2>4. short \in Digits
    <3>1. z \in 1..(Places + 1) BY <2>1, TextAssumption
    <3> QED BY <2>3, <3>1 DEF Digits
  <2>5. Padded(short) = digits
    <3>1. ASSUME NEW k \in 1..Places
          PROVE  (IF k <= z THEN short[k] ELSE 0) = digits[k]
      <4>1. CASE k <= z
        <5>1. k \in 1..z BY <2>1, <4>1, TextAssumption
        <5> QED BY <2>3, <4>1, <5>1
      <4>2. CASE ~(k <= z)
        <5>1. k \in (z + 1)..Places BY <2>1, <4>2, TextAssumption
        <5> QED BY <1>4, <4>2, <5>1 DEF Kept
      <4> QED BY <4>1, <4>2
    <3>2. Padded(short) = [k \in 1..Places |-> digits[k]]
      BY <2>3, <3>1, Zenon DEF Padded
    <3> QED BY <1>1, <3>2
  <2>6. FractionPPM(short) = n % FactorScale BY <1>2, <2>5, Zenon DEF FractionPPM
  <2>7. Len(short) <= Places BY <2>1, <2>3, TextAssumption
  <2> QED BY <1>3, <1>6, <2>4, <2>6, <2>7
<1> QED BY <1>5, <1>6


-----------------------------------------------------------------------------
(* What a text means, before int64. *)
Meaning(whole, fraction) ==
    whole * FactorScale + IF fraction = NoDot THEN 0 ELSE FractionPPM(fraction)

(* The digits of an accepted fraction are less than 1. *)
LEMMA FractionType ==
    ASSUME NEW fraction \in Digits, Len(fraction) <= Places
    PROVE  FractionPPM(fraction) \in 0..(FactorScale - 1)
<1>1. PICK n \in 1..(Places + 1) : fraction \in [1..n -> Digit] BY DEF Digits
<1>2. n \in Nat /\ Len(fraction) = n BY <1>1, TextAssumption
<1>3. 0 \in Digit BY TextAssumption DEF Digit
<1>4. ASSUME NEW k \in 1..Places
      PROVE  (IF k <= Len(fraction) THEN fraction[k] ELSE 0) \in Digit
  <2>1. CASE k <= n
    <3>1. k \in 1..n BY <1>2, <2>1, TextAssumption
    <3> QED BY <1>1, <1>2, <2>1, <3>1
  <2>2. CASE ~(k <= n) BY <1>2, <1>3, <2>2
  <2> QED BY <2>1, <2>2
<1>5. Padded(fraction) \in [1..Places -> Digit] BY <1>4, Zenon DEF Padded
<1>6. ParseInt(Padded(fraction)) \in 0..(FactorScale - 1) BY <1>5, FractionBound, Zenon
<1> QED BY <1>6, Zenon DEF FractionPPM

(* The fractional parts that WellFormed lets through. *)
LEMMA PartType ==
    ASSUME NEW whole, NEW fraction \in Fraction, WellFormed(whole, fraction)
    PROVE  (IF fraction = NoDot THEN 0 ELSE FractionPPM(fraction)) \in 0..(FactorScale - 1)
<1>1. CASE fraction = NoDot BY <1>1, FactorScaleAssumption
<1>2. CASE fraction # NoDot
  <2>1. fraction \in Digits /\ Len(fraction) <= Places
    BY <1>2, Zenon DEF WellFormed, Fraction
  <2> QED BY <1>2, <2>1, FractionType, Zenon
<1> QED BY <1>1, <1>2

(* A sum that wraps around is negative or below FactorScale: the test for  *)
(* a factor of at least 1 refuses it, so an accepted sum has not wrapped.  *)
LEMMA AcceptedExact ==
    ASSUME NEW whole \in Whole, NEW fraction \in Fraction, Accepted(whole, fraction)
    PROVE  /\ Sum(whole, fraction) = Meaning(whole, fraction)
           /\ Sum(whole, fraction) \in FactorScale..MaxInt64
<1> DEFINE part == IF fraction = NoDot THEN 0 ELSE FractionPPM(fraction)
           x == whole * FactorScale + part
<1>1. WellFormed(whole, fraction) BY DEF Accepted
<1>2. part \in 0..(FactorScale - 1) BY <1>1, PartType, Zenon
<1>3. whole \in Nat BY <1>1, TextAssumption DEF WellFormed, Whole
<1>4. /\ Meaning(whole, fraction) = x
      /\ Sum(whole, fraction) = Wrap(x)
      /\ Wrap(x) >= FactorScale
      /\ whole <= MaxInt64 \div FactorScale
  BY Zenon DEF Meaning, Sum, Accepted
<1> HIDE DEF part
<1>5. whole * FactorScale \in Nat /\ whole * FactorScale <= MaxInt64
  <2> DEFINE q == MaxInt64 \div FactorScale    r == MaxInt64 % FactorScale
  <2>1. q \in Nat /\ r \in Nat /\ MaxInt64 = q * FactorScale + r
    BY MaxInt64Assumption, FactorScaleAssumption, DivMod
  <2>2. q - whole \in Nat BY <1>3, <1>4, <2>1
  <2> HIDE DEF q, r
  <2>3. (q - whole) * FactorScale \in Nat /\ whole * FactorScale \in Nat
    BY <1>3, <2>2, MulNat, FactorScaleAssumption
  <2>4. (q - whole) * FactorScale = q * FactorScale - whole * FactorScale
    BY <1>3, <2>1, FactorScaleAssumption, Z3
  <2>5. q * FactorScale \in Nat BY <2>1, MulNat, FactorScaleAssumption
  <2> QED BY <2>1, <2>3, <2>4, <2>5
<1>6. x \in Nat /\ x < MaxInt64 + FactorScale
  BY <1>2, <1>5, FactorScaleAssumption, MaxInt64Assumption
<1> HIDE DEF x
<1>7. ~(x > MaxInt64) /\ Wrap(x) = x
  BY <1>4, <1>6, FactorScaleAssumption, MaxInt64Assumption DEF Wrap
<1> QED BY <1>4, <1>6, <1>7, FactorScaleAssumption, MaxInt64Assumption

(* FormatFactor prints a text that ParseFactor reads as the same factor. *)
LEMMA FormattedAccepted ==
    ASSUME NEW n \in FactorScale..MaxInt64
    PROVE  /\ Accepted(FormatWhole(n), FormatFraction(n))
           /\ Sum(FormatWhole(n), FormatFraction(n)) = n
<1> DEFINE whole == FormatWhole(n)    fraction == FormatFraction(n)
           part == IF fraction = NoDot THEN 0 ELSE FractionPPM(fraction)
<1>1. n \in Nat /\ n <= MaxInt64 /\ n >= FactorScale
  BY FactorScaleAssumption, MaxInt64Assumption
<1>2. /\ n \div FactorScale \in Nat
      /\ n % FactorScale \in 0..(FactorScale - 1)
      /\ n = (n \div FactorScale) * FactorScale + (n % FactorScale)
  BY <1>1, FactorScaleAssumption, DivMod
<1>3. whole \in Nat /\ whole = n \div FactorScale BY <1>2 DEF FormatWhole
<1>4. \/ fraction = NoDot /\ n % FactorScale = 0
      \/ /\ fraction \in Digits
         /\ Len(fraction) <= Places
         /\ FractionPPM(fraction) = n % FactorScale
  BY <1>1, FormatFractionExact, Zenon
<1> HIDE DEF whole, fraction
<1>5. part = n % FactorScale
  BY <1>4, SymbolAssumption, Zenon
<1>6. whole * FactorScale + part = n BY <1>2, <1>3, <1>5
<1>7. Sum(whole, fraction) = n
  <2>1. Sum(whole, fraction) = Wrap(whole * FactorScale + part) BY Zenon DEF Sum
  <2>2. Wrap(n) = n BY <1>1, MaxInt64Assumption DEF Wrap
  <2> QED BY <1>6, <2>1, <2>2, Zenon
<1>8. whole <= MaxInt64 \div FactorScale /\ whole <= MaxInt64
  <2> DEFINE q == MaxInt64 \div FactorScale    r == MaxInt64 % FactorScale
  <2>1. q \in Nat /\ r \in 0..(FactorScale - 1) /\ MaxInt64 = q * FactorScale + r
    BY MaxInt64Assumption, FactorScaleAssumption, DivMod
  <2> HIDE DEF q, r
  <2>2. ASSUME ~(whole <= q) PROVE FALSE
    <3>1. whole - q - 1 \in Nat BY <1>3, <2>1, <2>2
    <3>2. (whole - q - 1) * FactorScale \in Nat BY <3>1, MulNat, FactorScaleAssumption
    <3>3. (whole - q - 1) * FactorScale = whole * FactorScale - q * FactorScale - FactorScale
      BY <1>3, <2>1, FactorScaleAssumption, Z3
    <3>4. whole * FactorScale \in Nat /\ q * FactorScale \in Nat
      BY <1>3, <2>1, MulNat, FactorScaleAssumption
    <3>5. whole * FactorScale = n - (n % FactorScale) BY <1>2, <1>3, <3>4, FactorScaleAssumption
    <3>6. whole * FactorScale <= MaxInt64
      BY <1>1, <1>2, <3>5, FactorScaleAssumption, MaxInt64Assumption
    <3> QED BY <2>1, <3>2, <3>3, <3>4, <3>6, FactorScaleAssumption, MaxInt64Assumption
  <2>3. q <= MaxInt64
    <3>1. FactorScale - 1 \in Nat BY FactorScaleAssumption
    <3>2. q * (FactorScale - 1) \in Nat BY <2>1, <3>1, MulNat
    <3>3. q * (FactorScale - 1) = q * FactorScale - q BY <2>1, FactorScaleAssumption, Z3
    <3>4. q * FactorScale \in Nat BY <2>1, MulNat, FactorScaleAssumption
    <3> QED BY <2>1, <3>2, <3>3, <3>4, FactorScaleAssumption
  <2>4. whole <= q BY <2>2
  <2>5. whole <= MaxInt64 BY <1>3, <2>1, <2>3, <2>4, MaxInt64Assumption
  <2> QED BY <2>4, <2>5 DEF q
<1>9. WellFormed(whole, fraction)
  <2>1. whole # NotDigits BY <1>3, SymbolAssumption, Zenon
  <2>2. fraction # NotDigits BY <1>4, SymbolAssumption, Zenon
  <2>3. fraction # NoDot => Len(fraction) <= Places BY <1>4, Zenon
  <2> QED BY <1>8, <2>1, <2>2, <2>3 DEF WellFormed
<1>10. Accepted(whole, fraction)
  <2>1. Sum(whole, fraction) >= FactorScale BY <1>1, <1>7
  <2> QED BY <1>8, <1>9, <2>1, Zenon DEF Accepted
<1> QED BY <1>7, <1>10 DEF whole, fraction

(* A text that is accepted sets the factor it spells. *)
LEMMA EnableStep ==
    ASSUME NEW whole \in Whole, NEW fraction \in Fraction, Enable(whole, fraction)
    PROVE  TextIsExact'
<1>1. /\ Accepted(whole, fraction)
      /\ typed' = <<whole, fraction>>
      /\ ppm' = Sum(whole, fraction)
  BY Zenon DEF Enable
<1>2. typed'[1] = whole /\ typed'[2] = fraction BY <1>1
<1>3. /\ ppm' = Meaning(whole, fraction)
      /\ ppm' \in FactorScale..MaxInt64
  BY <1>1, AcceptedExact, Zenon
<1> DEFINE n == ppm'
<1>4. n \in FactorScale..MaxInt64 BY <1>3
<1> HIDE DEF n
<1>5. /\ Accepted(FormatWhole(n), FormatFraction(n))
      /\ Sum(FormatWhole(n), FormatFraction(n)) = n
  BY <1>4, FormattedAccepted, Zenon
<1>6. /\ n = typed'[1] * FactorScale
             + IF typed'[2] = NoDot THEN 0 ELSE FractionPPM(typed'[2])
  BY <1>2, <1>3, Zenon DEF Meaning, n
<1> QED BY <1>4, <1>5, <1>6, Zenon DEF TextIsExact, n

(* For every base, number of places, scale and text: the factor a rule is  *)
(* given is the one the command spells, it is at least 1 and fits int64,   *)
(* and the text printed for it is accepted as the same factor.             *)
THEOREM TextExact == TextSpec => []TextIsExact
<1>1. TextInit => TextIsExact BY DEF TextInit, TextIsExact
<1>2. TextIsExact /\ [TextNext]_<<vars, textVars>> => TextIsExact'
  <2> SUFFICES ASSUME TextIsExact, [TextNext]_<<vars, textVars>> PROVE TextIsExact'
    OBVIOUS
  <2>1. CASE \E whole \in Whole, fraction \in Fraction : Enable(whole, fraction)
    BY <2>1, EnableStep
  <2>2. CASE typed' = typed /\ ppm' = ppm BY <2>2, Zenon DEF TextIsExact
  <2> QED BY <2>1, <2>2, Zenon DEF TextNext, Traffic, textVars
<1> QED BY <1>1, <1>2, PTL DEF TextSpec

(* Setting and printing factors never touches a counter: the ticks beside  *)
(* the commands are the ticks of FactorSlices, and charge as exactly.      *)
THEOREM TextImplementsSlices == TextSpec => Spec
<1>1. TextInit => Init BY DEF TextInit
<1>2. [TextNext]_<<vars, textVars>> => [Next]_vars
  BY Zenon DEF TextNext, Traffic, Enable
<1> QED BY <1>1, <1>2, PTL DEF TextSpec, Spec

(* The run beside the commands: counters stay in their ranges and what is  *)
(* charged stays exact whatever texts the operator types.                  *)
THEOREM TextChargeIsExact == TextSpec => [](TypeOK /\ ExactFactor)
BY TextImplementsSlices, ChargeIsExact, SlicesTypeOK, PTL
=============================================================================
