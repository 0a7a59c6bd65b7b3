-------------------------- MODULE IngestionLifecycle -------------------------
(***************************************************************************)
(* Ingestion implements DocumentLifecycle: what the API shows of the       *)
(* Document row and of its chunks moves only as that module allows, as     *)
(* long as runs of one document do not overlap.                            *)
(***************************************************************************)
EXTENDS Ingestion

Lifecycle == INSTANCE DocumentLifecycle
  WITH reason <- [d \in Docs |-> Exists(d) /\ error[d] # "none"],
       searchable <- [d \in Docs |-> chunks[d] # {}]

(***************************************************************************)
(* Every step of the pipeline is one move of the observable lifecycle, or  *)
(* none: with queue waits inside the threshold and no re-ingestion         *)
(* command, the database, the workers and the sweep together implement     *)
(* the status machine of ADR-0005.                                         *)
(***************************************************************************)
ImplementsLifecycle == Lifecycle!Spec
=============================================================================
