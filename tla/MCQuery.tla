------------------------------- MODULE MCQuery -------------------------------
(* TLC instances of Query.                                                 *)
EXTENDS Query, TLC

\* A small daily quota and a monthly one that a second day uses up.
SmallQuotas == [p \in Periods |-> IF p = "day" THEN 1 ELSE 2]

WorkerSymmetry == Permutations(Workers)
=============================================================================
