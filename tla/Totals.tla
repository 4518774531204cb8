------------------------------- MODULE Totals -------------------------------
(***************************************************************************)
(* Sums of naturals over a finite index set, written as a count of units   *)
(* rather than as a fold, so that TLC can evaluate them and the cardinality*)
(* theorems can be used to prove facts about them.  Unit number k of index *)
(* x is the pair <<x, k>>; an index with value f[x] owns f[x] units.       *)
(***************************************************************************)
EXTENDS Naturals, FiniteSets

UnitsOf(f, x) == {x} \X (1..f[x])

Units(f, S) == UNION {UnitsOf(f, x) : x \in S}

\* The sum of f[x] over the x of S.
Total(f, S) == Cardinality(Units(f, S))
=============================================================================
