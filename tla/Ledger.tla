------------------------------- MODULE Ledger -------------------------------
(***************************************************************************)
(* What factoring promises about a counter, without the database: the      *)
(* panel counts bytes, a settlement factors some bytes that were counted   *)
(* and not factored before, and the bytes it adds stay within one byte of  *)
(* the exact product.  Nothing else ever changes an account, except the    *)
(* panel starting it again at zero.                                        *)
(***************************************************************************)
EXTENDS Integers

CONSTANTS
    Accounts,       \* client counters
    FactorScale,    \* parts per 1.0 of a factor
    FactorExtras,   \* factor - FactorScale of the rules that may apply
    MaxCount        \* bound: bytes counted on an account

VARIABLES raw, charged, due, extra

vars == <<raw, charged, due, extra>>

Init ==
    /\ raw = [a \in Accounts |-> 0]
    /\ charged = [a \in Accounts |-> 0]
    /\ due = [a \in Accounts |-> 0]
    /\ extra = [a \in Accounts |-> 0]

Count(a, n) ==
    /\ raw' = [raw EXCEPT ![a] = @ + n]
    /\ UNCHANGED <<charged, due, extra>>

Restart(S) ==
    /\ raw' = [a \in Accounts |-> IF a \in S THEN 0 ELSE raw[a]]
    /\ charged' = [a \in Accounts |-> IF a \in S THEN 0 ELSE charged[a]]
    /\ due' = [a \in Accounts |-> IF a \in S THEN 0 ELSE due[a]]
    /\ extra' = [a \in Accounts |-> IF a \in S THEN 0 ELSE extra[a]]

(* A committed tick: n bytes of a are factored with factor extra f. *)
SettleAccount(a, n, f) ==
    /\ charged'[a] = charged[a] + n
    /\ charged'[a] <= raw[a]
    /\ due'[a] = due[a] + n * f
    /\ extra'[a] >= extra[a]
    /\ extra'[a] * FactorScale < due'[a] + FactorScale
    /\ n = 0 => extra'[a] = extra[a]

Settle ==
    /\ \A a \in Accounts :
          \E n \in 0..MaxCount, f \in FactorExtras : SettleAccount(a, n, f)
    /\ UNCHANGED raw

Next ==
    \/ \E a \in Accounts, n \in 1..MaxCount : Count(a, n)
    \/ \E S \in SUBSET Accounts : Restart(S)
    \/ Settle

Spec == Init /\ [][Next]_vars
=============================================================================
