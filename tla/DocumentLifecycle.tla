-------------------------- MODULE DocumentLifecycle --------------------------
(***************************************************************************)
(* What a document's owner can observe through the API while ingestion is  *)
(* single-flight: the status machine of models.py and ADR-0005, with the   *)
(* two things the status promises.  A document has a failure reason        *)
(* exactly while it is FAILED, and its passages can be searched exactly    *)
(* while it is READY.                                                      *)
(***************************************************************************)
CONSTANT Docs

VARIABLES status, reason, searchable

vars == <<status, reason, searchable>>

Init ==
  /\ status = [d \in Docs |-> "absent"]
  /\ reason = [d \in Docs |-> FALSE]
  /\ searchable = [d \in Docs |-> FALSE]

\* The document moves from one of the statuses `from` to `to`.
Move(d, from, to) ==
  /\ status[d] \in from
  /\ status' = [status EXCEPT ![d] = to]
  /\ reason' = [reason EXCEPT ![d] = to = "failed"]
  /\ searchable' = [searchable EXCEPT ![d] = to = "ready"]

Upload(d) == Move(d, {"absent"}, "pending")
Attempt(d) == Move(d, {"pending", "processing"}, "processing")
Succeed(d) == Move(d, {"processing"}, "ready")
Fail(d) == Move(d, {"pending", "processing"}, "failed")
Retry(d) == Move(d, {"failed"}, "pending")
Delete(d) == Move(d, {"pending", "processing", "ready", "failed"}, "deleted")

Next ==
  \E d \in Docs :
    Upload(d) \/ Attempt(d) \/ Succeed(d) \/ Fail(d) \/ Retry(d) \/ Delete(d)

Spec == Init /\ [][Next]_vars
=============================================================================
