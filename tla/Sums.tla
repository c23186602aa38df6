-------------------------------- MODULE Sums --------------------------------
(* The sum of finitely many natural numbers: tokens of requests, efficiencies  *)
(* of operators, time units of executions.  It counts units instead of folding *)
(* +, so that what is proved of a sum needs no induction.                      *)
EXTENDS Integers, FiniteSets

\* What a function of a finite set of keys holds for each of them, unit by unit.
Units(f) == UNION {{x} \X (1 .. f[x]) : x \in DOMAIN f}
Total(f) == Cardinality(Units(f))
=============================================================================
