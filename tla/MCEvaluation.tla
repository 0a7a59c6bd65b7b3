---------------------------- MODULE MCEvaluation -----------------------------
(* TLC instances of Evaluation.                                            *)
EXTENDS Evaluation

\* Of two documents the markers are in none, in the first or in both.
MCMarkersIn == {{}, {1}, {1, 2}}

\* A figure without a source, a claim that also cites a source never offered, and a fragment
\* too short to be a claim.
MCSentences ==
  {[markers |-> <<>>, figure |-> TRUE, short |-> FALSE],
   [markers |-> <<1, 9, 1>>, figure |-> TRUE, short |-> FALSE],
   [markers |-> <<1>>, figure |-> FALSE, short |-> TRUE]}

\* Every question's first passage must answer it.
MCFailUnders == {<<1, 1>>}
=============================================================================
