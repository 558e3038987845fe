------------------------------- MODULE MCRules -------------------------------
(* Instances of Rules and Effective for TLC: emails and factors are interchangeable. *)
EXTENDS Effective, TLC

Symmetry == Permutations(Emails) \cup Permutations(Factors)
=============================================================================
