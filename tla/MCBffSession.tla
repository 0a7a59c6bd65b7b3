----------------------------- MODULE MCBffSession ----------------------------
(* TLC instances of BffSession.                                            *)
EXTENDS BffSession, TLC

Symmetry == Permutations(Logins) \cup Permutations(Requests)
=============================================================================
