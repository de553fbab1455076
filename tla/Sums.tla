-------------------------------- MODULE Sums --------------------------------
(***************************************************************************)
(* The sum of a natural-valued function over a finite set.                 *)
(*                                                                         *)
(* The ledger's invariants equate a stored counter with a sum over rows.   *)
(* Writing the sum as a cardinality (every x in S contributes f[x] units,  *)
(* and the units of different rows are different) keeps it first-order:    *)
(* the lemmas of SumsProofs follow from the library's facts on finite sets *)
(* and no induction over the rows is needed.                               *)
(***************************************************************************)
EXTENDS Integers, FiniteSets

Units(S, f) == UNION {{x} \X (1..f[x]) : x \in S}

SumOver(S, f) == Cardinality(Units(S, f))
=============================================================================
