----------------------------- MODULE MCIngestion -----------------------------
(***************************************************************************)
(* TLC instances of Ingestion: symmetry for the runs that check no         *)
(* liveness.                                                               *)
(***************************************************************************)
EXTENDS IngestionLifecycle, TLC

Symmetry == Permutations(Tasks) \cup Permutations(Docs)
=============================================================================
