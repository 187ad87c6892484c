--------------------------------- MODULE Sums ---------------------------------
(***************************************************************************)
(* Sums of the values of a function over a set, as the number of their     *)
(* units.  A sum written so can be reasoned about with the theorems on     *)
(* finite sets, where a fold would need an induction for each of its uses. *)
(***************************************************************************)
EXTENDS Integers, FiniteSets

\* One pair for each unit of f[x], for the x of S.
UnitsOver(f, S) == UNION { {x} \X (1..f[x]) : x \in S }

\* The sum of f over S, where f has natural values.
SumOver(f, S) == Cardinality(UnitsOver(f, S))
=============================================================================
