--------------------------------- MODULE Sums ---------------------------------
(***************************************************************************)
(* The sum of a function of natural numbers over a finite set, which the   *)
(* SQL of internal/modules/ledger/verify.go writes sum(amount).            *)
(*                                                                         *)
(* A sum is defined as the number of units in the set: one pair <<x, i>>   *)
(* for every i in 1 .. f[x].  It agrees with the recursive folds of the    *)
(* community modules (SumsAgree in module MCLedgerCore evaluates both),    *)
(* and, unlike them, its laws follow from facts about cardinality without  *)
(* an induction, so that module SumsTheorems proves them for every set.    *)
(***************************************************************************)
EXTENDS Integers, FiniteSets

\* The units that f assigns to the members of S.
Units(f, S) == UNION {{x} \X (1 .. f[x]) : x \in S}

\* The sum of f[x] over the members x of S.
SumOf(f, S) == Cardinality(Units(f, S))
===============================================================================
