------------------------------- MODULE Checked -------------------------------
(***************************************************************************)
(* The u64 arithmetic every size in astroframe runs in.  A value that does *)
(* not read, or that does not fit, is Rust's None; the width of u64 is the *)
(* parameter MaxU, small in a model so that every overflow happens.        *)
(***************************************************************************)
EXTENDS Integers

CONSTANTS None,   \* Option::None
          MaxU    \* u64::MAX

ASSUME NoneAssumption == None \notin Int
ASSUME MaxUAssumption == MaxU \in Nat \ {0}

U == 0 .. MaxU
Option(S) == S \cup {None}

\* The value n when u64 holds it, otherwise None.
Fit(n) == IF n \in U THEN n ELSE None

\* checked_add and checked_mul, chained with and_then: None is absorbing.
CheckedAdd(a, b) == IF None \in {a, b} THEN None ELSE Fit(a + b)
CheckedMul(a, b) == IF None \in {a, b} THEN None ELSE Fit(a * b)

SaturatingMul(a, b) == IF a * b \in U THEN a * b ELSE MaxU
=============================================================================
