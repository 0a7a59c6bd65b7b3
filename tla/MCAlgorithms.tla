---------------------------- MODULE MCAlgorithms -----------------------------
(* TLC instances of Algorithms.                                            *)
EXTENDS Algorithms

\* A hosted model at prices that round, a local one that is free.
MCPrices == [local |-> <<0, 0>>, default |-> <<1, 3>>]
=============================================================================
