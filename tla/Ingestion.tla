------------------------------ MODULE Ingestion ------------------------------
(***************************************************************************)
(* The document pipeline of the backend: upload, asynchronous ingestion by *)
(* Celery workers, retries, the stuck-document sweep, the operator's       *)
(* re-ingestion command and deletion, over one Postgres database.          *)
(*                                                                         *)
(* A step is one database transaction, or the part of one that ends at a   *)
(* read whose result a later part still uses.  Postgres runs them READ     *)
(* COMMITTED, so what one transaction read may be stale when it writes.    *)
(* Time is relative: age[d] is "now - Document.updated_at" and clock[r] is *)
(* how long a run has been executing, or waiting for its retry.            *)
(***************************************************************************)
EXTENDS Integers

CONSTANTS
  Docs,           \* documents
  Tasks,          \* Celery task messages, one per publish
  Commands,       \* runs of `manage.py reingest_documents`
  MaxRetries,     \* max_retries of the task
  SoftTimeLimit,  \* TENANTIQ_INGEST_SOFT_TIME_LIMIT
  TimeLimit,      \* TENANTIQ_INGEST_TIME_LIMIT
  ReapAfter,      \* TENANTIQ_INGEST_REAP_AFTER_SECONDS
  MaxQueueWait,   \* the longest a retry waits for its backoff and a worker
  MaxPieces,      \* bound: the most chunks a document is cut into
  Faults          \* the kinds of fault the environment may produce

Runs == Tasks \cup Commands

(***************************************************************************)
(* publish   a message does not reach the broker                           *)
(* redeliver the broker delivers a waiting message twice                   *)
(* worker    a process is killed (OOM, rollout, lost node)                 *)
(* database  a transaction errors out, before its commit or just after     *)
(* storage   the file store refuses a deletion, or the web process dies    *)
(*           before the on_commit hook                                     *)
(***************************************************************************)
FaultKinds == {"publish", "redeliver", "worker", "database", "storage"}

ASSUME RunsAssumption == Tasks \cap Commands = {}

\* The system check tenantiq.E001: `manage.py check` refuses to start.
RefusedByCheck == ReapAfter < 2 * TimeLimit

ASSUME TimingAssumption ==
  /\ MaxRetries \in Nat /\ MaxQueueWait \in Nat
  /\ SoftTimeLimit \in Nat /\ TimeLimit \in Nat /\ ReapAfter \in Nat
  /\ SoftTimeLimit <= TimeLimit
  /\ ~RefusedByCheck

ASSUME PiecesAssumption == MaxPieces \in Nat \ {0}

ASSUME FaultsAssumption == Faults \subseteq FaultKinds

VARIABLES
  status, error, attempts, age,  \* the Document row
  chunks,                        \* the Chunk rows of each document
  file,                          \* is the uploaded file in storage
  del, delSnap,                  \* the DELETE request in flight, what it saw
  pc, target, retries, clock,    \* the runs
  seen, snap                     \* what a run has read and still uses

rowVars == <<status, error, attempts, age>>
delVars == <<del, delSnap>>
runVars == <<pc, target, retries, clock, seen, snap>>
vars == <<rowVars, chunks, file, delVars, runVars>>

Present == {"pending", "processing", "ready", "failed"}
Status == Present \cup {"absent", "deleted"}
Exists(d) == status[d] \in Present

\* A chunk row: which attempt of which run wrote it, its index in the document.
Attempt == Runs \X (0 .. MaxRetries)
Chunk == [by : Attempt, index : 0 .. MaxPieces - 1]
ChunkSet(a, n) == [by : {a}, index : 0 .. n - 1]
Indexes(cs) == {c.index : c \in cs}

\* Past phase 1's commit, the work not yet given up.
Attempting == {"phase2", "working", "replacing", "committed"}
\* In a process: executing, or recording how the execution failed.
Live == Attempting \cup {"phase1", "entering", "timedout", "failing"}
Active == Live \cup {"queued"}
Pc == Active \cup {"unsent", "done"}

IsRetry(r) == pc[r] = "queued" /\ retries[r] > 0

TypeOK ==
  /\ status \in [Docs -> Status]
  /\ error \in [Docs -> {"none", "failure", "reaped"}]
  /\ attempts \in [Docs -> Nat]
  /\ age \in [Docs -> 0 .. ReapAfter + 1]
  /\ chunks \in [Docs -> SUBSET Chunk]
  /\ file \in [Docs -> BOOLEAN]
  /\ del \in [Docs -> {"idle", "deleting", "unlinking", "done"}]
  /\ delSnap \in [Docs -> SUBSET Chunk]
  /\ pc \in [Runs -> Pc]
  /\ target \in [Runs -> Docs]
  /\ retries \in [Runs -> 0 .. MaxRetries]
  /\ clock \in [Runs -> Nat]
  /\ seen \in [Runs -> Nat]
  /\ snap \in [Runs -> SUBSET Chunk]

Init ==
  /\ status = [d \in Docs |-> "absent"]
  /\ error = [d \in Docs |-> "none"]
  /\ attempts = [d \in Docs |-> 0]
  /\ age = [d \in Docs |-> 0]
  /\ chunks = [d \in Docs |-> {}]
  /\ file = [d \in Docs |-> FALSE]
  /\ del = [d \in Docs |-> "idle"]
  /\ delSnap = [d \in Docs |-> {}]
  /\ pc = [r \in Runs |-> "unsent"]
  /\ target \in [Runs -> Docs]
  /\ retries = [r \in Runs |-> 0]
  /\ clock = [r \in Runs |-> 0]
  /\ seen = [r \in Runs |-> 0]
  /\ snap = [r \in Runs |-> {}]

-----------------------------------------------------------------------------
(* Row updates.  A definition called a variant is the one after it with a  *)
(* plausible mistake; no specification uses it.                            *)

\* Variant: update_fields lack updated_at.
Unstamped(d) == UNCHANGED age
\* Every write sets updated_at to now.
Stamp(d) == age' = [age EXCEPT ![d] = 0]

\* Variant: an empty error is not written.
SetRowReason(d, s, e) ==
  /\ status' = [status EXCEPT ![d] = s]
  /\ error' = [error EXCEPT ![d] = IF e = "none" THEN @ ELSE e]
  /\ Stamp(d)
SetRow(d, s, e) ==
  /\ status' = [status EXCEPT ![d] = s]
  /\ error' = [error EXCEPT ![d] = e]
  /\ Stamp(d)

\* Variant: a save without update_fields inserts the row that is gone.
SaveInserts(d) == TRUE
\* save(update_fields=...) raises when its UPDATE matches no row.
SaveMatches(d) == Exists(d)

RunAt(r, l) == pc[r] = l
Goto(r, l) == pc' = [pc EXCEPT ![r] = l]

(***************************************************************************)
(* ingest_document.delay() in an on_commit hook: the row is committed      *)
(* already, so a publish that fails leaves the row without a task.         *)
(***************************************************************************)
Publish(t, d) ==
  /\ target[t] = d /\ RunAt(t, "unsent")
  /\ \/ Goto(t, "queued")
     \/ "publish" \in Faults /\ Goto(t, "done")
  /\ UNCHANGED <<target, retries, clock, seen, snap>>

-----------------------------------------------------------------------------
(* Requests.                                                               *)

Upload(d, t) ==
  /\ status[d] = "absent"
  /\ SetRow(d, "pending", "none")
  /\ file' = [file EXCEPT ![d] = TRUE]
  /\ Publish(t, d)
  /\ UNCHANGED <<attempts, chunks, delVars>>

\* Variant: the status is checked before the UPDATE, which takes any row.
ClaimAny(d) == Exists(d)
\* The conditional UPDATE claims FAILED -> PENDING; any other status is a 409.
Claim(d) == status[d] = "failed"

Retry(d, t) ==
  /\ Claim(d)
  /\ SetRow(d, "pending", "none")
  /\ Publish(t, d)
  /\ UNCHANGED <<attempts, chunks, file, delVars>>

\* Variant: the file goes first, before the row's delete is durable.
DeleteFileFirst(d) ==
  /\ Exists(d) /\ del[d] = "idle"
  /\ del' = [del EXCEPT ![d] = "deleting"]
  /\ delSnap' = [delSnap EXCEPT ![d] = chunks[d]]
  /\ file' = [file EXCEPT ![d] = FALSE]
  /\ UNCHANGED <<rowVars, chunks, runVars>>

\* document.delete() first deletes the chunks its statement can see.
DeleteChunks(d) ==
  /\ Exists(d) /\ del[d] = "idle"
  /\ del' = [del EXCEPT ![d] = "deleting"]
  /\ delSnap' = [delSnap EXCEPT ![d] = chunks[d]]
  /\ UNCHANGED <<rowVars, chunks, file, runVars>>

\* Variant: no foreign key.
Unreferenced(left) == FALSE

(***************************************************************************)
(* The row's delete and the commit.  The foreign key of a chunk inserted   *)
(* since the first statement fails the commit; then, as after any other    *)
(* error in the request, everything is rolled back and no hook runs.       *)
(***************************************************************************)
Referenced(left) == left # {}

DeleteCommit(d) ==
  LET left == chunks[d] \ delSnap[d] IN
  /\ del[d] = "deleting"
  /\ ~Referenced(left)
  /\ status' = [status EXCEPT ![d] = "deleted"]
  /\ chunks' = [chunks EXCEPT ![d] = left]
  /\ del' = [del EXCEPT ![d] = "unlinking"]
  /\ delSnap' = [delSnap EXCEPT ![d] = {}]
  /\ UNCHANGED <<error, attempts, age, file, runVars>>

DeleteRollback(d) ==
  /\ del[d] = "deleting"
  /\ del' = [del EXCEPT ![d] = "idle"]
  /\ delSnap' = [delSnap EXCEPT ![d] = {}]
  /\ UNCHANGED <<rowVars, chunks, file, runVars>>

\* The on_commit hook; a refused deletion is logged and orphans the file.
UnlinkFile(d) ==
  /\ del[d] = "unlinking"
  /\ del' = [del EXCEPT ![d] = "done"]
  /\ \/ file' = [file EXCEPT ![d] = FALSE]
     \/ "storage" \in Faults /\ UNCHANGED file
  /\ UNCHANGED <<rowVars, chunks, delSnap, runVars>>

-----------------------------------------------------------------------------
(* One run of run_ingestion.                                               *)

\* A worker takes the message and acknowledges it before it runs the task.
StartTask(t) ==
  /\ t \in Tasks /\ RunAt(t, "queued")
  /\ Goto(t, "phase1")
  /\ clock' = [clock EXCEPT ![t] = 0]
  /\ UNCHANGED <<rowVars, chunks, file, delVars, target, retries, seen, snap>>

\* The command picks documents by status, or those that hold chunks.
StartCommand(c) ==
  /\ c \in Commands /\ RunAt(c, "unsent") /\ Exists(target[c])
  /\ Goto(c, "phase1")
  /\ UNCHANGED <<rowVars, chunks, file, delVars, target, retries, clock, seen, snap>>

\* _abandon: the row is gone, so there is nothing left to do.
Abandon(r) ==
  /\ pc[r] \in {"phase1", "phase2"} /\ ~Exists(target[r])
  /\ Goto(r, "done")
  /\ UNCHANGED <<rowVars, chunks, file, delVars, target, retries, clock, seen, snap>>

Phase1Read(r) ==
  /\ RunAt(r, "phase1") /\ Exists(target[r])
  /\ seen' = [seen EXCEPT ![r] = attempts[target[r]]]
  /\ Goto(r, "entering")
  /\ UNCHANGED <<rowVars, chunks, file, delVars, target, retries, clock, snap>>

\* Variant: the count of the Celery task's own tries.
TaskTries(r) == retries[r] + 1
\* attempts + 1, computed from the value read, whatever the row holds now.
Tries(r) == seen[r] + 1

Phase1Write(r) ==
  /\ RunAt(r, "entering") /\ SaveMatches(target[r])
  /\ SetRow(target[r], "processing", "none")
  /\ attempts' = [attempts EXCEPT ![target[r]] = Tries(r)]
  /\ seen' = [seen EXCEPT ![r] = 0]
  /\ Goto(r, "phase2")
  /\ UNCHANGED <<chunks, file, delVars, target, retries, clock, snap>>

Phase2Read(r) ==
  /\ RunAt(r, "phase2") /\ Exists(target[r])
  /\ Goto(r, "working")
  /\ UNCHANGED <<rowVars, chunks, file, delVars, target, retries, clock, seen, snap>>

(***************************************************************************)
(* A PERMANENT_FAILURES exception, a soft limit in the work included.  The *)
(* save does not look at what the row holds now.                           *)
(***************************************************************************)
PermanentFailure(r) ==
  /\ RunAt(r, "working") /\ SaveMatches(target[r])
  /\ SetRow(target[r], "failed", "failure")
  /\ Goto(r, "done")
  /\ UNCHANGED <<attempts, chunks, file, delVars, target, retries, clock, seen, snap>>

\* The work succeeded: delete the chunks this statement can see.
DropOldChunks(r) ==
  /\ RunAt(r, "working") /\ file[target[r]]
  /\ snap' = [snap EXCEPT ![r] = chunks[target[r]]]
  /\ Goto(r, "replacing")
  /\ UNCHANGED <<rowVars, chunks, file, delVars, target, retries, clock, seen>>

(***************************************************************************)
(* Insert the new chunks, set READY, commit.  The unique (document, index) *)
(* constraint lets it through only if no chunk committed since the delete  *)
(* statement has an index of the new set; the row update needs the row.    *)
(* error is not among the fields saved.                                    *)
(***************************************************************************)
\* Variant: no constraint.
NotUnique(old, new) == TRUE
Unique(old, new) == Indexes(old) \cap Indexes(new) = {}

\* Variant: a file without extractable text is let through.
PiecesUnchecked == 0 .. MaxPieces
\* No pieces at all is a ParseError, so a commit has at least one.
Pieces == 1 .. MaxPieces

Phase2Commit(r) ==
  LET d == target[r]
      kept == chunks[d] \ snap[r]
  IN /\ RunAt(r, "replacing") /\ SaveMatches(d)
     /\ \E n \in Pieces :
          LET new == ChunkSet(<<r, retries[r]>>, n)
          IN Unique(kept, new) /\ chunks' = [chunks EXCEPT ![d] = kept \cup new]
     /\ SetRow(d, "ready", error[d])
     /\ snap' = [snap EXCEPT ![r] = {}]
     /\ Goto(r, "committed")
     /\ UNCHANGED <<attempts, file, delVars, target, retries, clock, seen>>

Return(r) ==
  /\ RunAt(r, "committed")
  /\ Goto(r, "done")
  /\ UNCHANGED <<rowVars, chunks, file, delVars, target, retries, clock, seen, snap>>

-----------------------------------------------------------------------------
(* How a run fails.                                                        *)

\* Variant: the limit is not looked at.
AlwaysRetries(t) == TRUE
RetriesLeft(t) == retries[t] < MaxRetries

(***************************************************************************)
(* An exception leaves the task.  autoretry_for republishes the message    *)
(* until the retries are exhausted; then on_failure runs.  A retry that    *)
(* cannot be published is rejected, and on_failure does not run.  The      *)
(* command does not catch it: the operator sees a traceback.               *)
(***************************************************************************)
Raise(r) ==
  /\ \/ /\ r \in Commands
        /\ Goto(r, "done")
        /\ UNCHANGED <<retries, clock>>
     \/ /\ r \in Tasks /\ RetriesLeft(r)
        /\ retries' = [retries EXCEPT ![r] = @ + 1]
        /\ clock' = [clock EXCEPT ![r] = 0]
        /\ Goto(r, "queued")
     \/ /\ r \in Tasks /\ RetriesLeft(r) /\ "publish" \in Faults
        /\ Goto(r, "done")
        /\ UNCHANGED <<retries, clock>>
     \/ /\ r \in Tasks /\ ~RetriesLeft(r)
        /\ Goto(r, "failing")
        /\ UNCHANGED <<retries, clock>>
  /\ seen' = [seen EXCEPT ![r] = 0]
  /\ snap' = [snap EXCEPT ![r] = {}]
  /\ UNCHANGED <<rowVars, chunks, file, delVars, target>>

(***************************************************************************)
(* Any error of the work that is not permanent (the embedder is down, the  *)
(* file is gone), a save that matches no row, an index that is taken, or   *)
(* a database error, the acknowledgement of a commit lost included.        *)
(* Everything not committed is rolled back.                                *)
(***************************************************************************)
TransientFailure(r) ==
  /\ \/ pc[r] \in {"working", "replacing"}
     \/ RunAt(r, "entering") /\ ~Exists(target[r])
     \/ "database" \in Faults
        /\ pc[r] \in {"phase1", "entering", "phase2", "committed", "timedout"}
  /\ Raise(r)

\* SoftTimeLimitExceeded outside the work: caught in the task, no retry.
SoftLimit(t) ==
  /\ t \in Tasks /\ clock[t] >= SoftTimeLimit
  /\ pc[t] \in {"phase1", "entering", "phase2", "replacing", "committed"}
  /\ Goto(t, "timedout")
  /\ seen' = [seen EXCEPT ![t] = 0]
  /\ snap' = [snap EXCEPT ![t] = {}]
  /\ UNCHANGED <<rowVars, chunks, file, delVars, target, retries, clock>>

\* Variant: READY is not excluded.
MarkableAny(d) == Exists(d)
\* mark_ingestion_failed: one UPDATE of the row unless it is READY or gone.
Markable(d) == Exists(d) /\ status[d] # "ready"

MarkFailed(t) ==
  LET d == target[t] IN
  /\ pc[t] \in {"timedout", "failing"}
  /\ IF Markable(d)
     THEN SetRow(d, "failed", "failure")
     ELSE UNCHANGED <<status, error, age>>
  /\ Goto(t, "done")
  /\ UNCHANGED <<attempts, chunks, file, delVars, target, retries, clock, seen, snap>>

\* An error in on_failure is only logged.
MarkFailedErrors(t) ==
  /\ RunAt(t, "failing") /\ "database" \in Faults
  /\ Goto(t, "done")
  /\ UNCHANGED <<rowVars, chunks, file, delVars, target, retries, clock, seen, snap>>

\* The process dies: the transaction is rolled back and on_failure never runs.
Dies(r) ==
  /\ Goto(r, "done")
  /\ seen' = [seen EXCEPT ![r] = 0]
  /\ snap' = [snap EXCEPT ![r] = {}]
  /\ UNCHANGED <<rowVars, chunks, file, delVars, target, retries, clock>>

HardLimit(t) == t \in Tasks /\ pc[t] \in Live /\ clock[t] = TimeLimit /\ Dies(t)

Killed(r) == "worker" \in Faults /\ pc[r] \in Live /\ Dies(r)

\* The broker hands out a message that waits unacknowledged a second time.
Redeliver(t, u) ==
  /\ "redeliver" \in Faults
  /\ t \in Tasks /\ RunAt(t, "queued") /\ RunAt(u, "unsent") /\ target[u] = target[t]
  /\ Goto(u, "queued")
  /\ retries' = [retries EXCEPT ![u] = retries[t]]
  /\ clock' = [clock EXCEPT ![u] = clock[t]]
  /\ UNCHANGED <<rowVars, chunks, file, delVars, target, seen, snap>>

-----------------------------------------------------------------------------
(* The sweep and the clock.                                                *)

\* Variant: the sweep looks for the wrong status.
StuckPending(d) == status[d] = "pending" /\ age[d] > ReapAfter

Stuck(d) == status[d] = "processing" /\ age[d] > ReapAfter

(***************************************************************************)
(* A sweep fails the stuck rows it can lock; one that somebody is writing  *)
(* is skipped, which is this action not taken for it.                      *)
(***************************************************************************)
Reap(d) ==
  /\ Stuck(d)
  /\ SetRow(d, "failed", "reaped")
  /\ UNCHANGED <<attempts, chunks, file, delVars, runVars>>

\* Ages beyond the threshold are alike.
Older(a) == IF a > ReapAfter THEN a ELSE a + 1

(***************************************************************************)
(* Time passes, unless the hard limit is due for a task or a retry has     *)
(* waited MaxQueueWait and starts now.  A command has no limit.            *)
(***************************************************************************)
Ticking(t) == pc[t] \in Live \/ IsRetry(t)

Tick ==
  /\ \A t \in Tasks :
       /\ pc[t] \in Live => clock[t] < TimeLimit
       /\ IsRetry(t) => clock[t] < MaxQueueWait
  /\ age' = [d \in Docs |-> Older(age[d])]
  /\ clock' = [r \in Runs |-> IF r \in Tasks /\ Ticking(r) THEN clock[r] + 1 ELSE clock[r]]
  /\ UNCHANGED <<status, error, attempts, chunks, file, delVars, pc, target, retries, seen, snap>>

-----------------------------------------------------------------------------
Request(d) ==
  \/ \E t \in Tasks : Upload(d, t) \/ Retry(d, t)
  \/ DeleteChunks(d) \/ DeleteCommit(d) \/ DeleteRollback(d) \/ UnlinkFile(d)

RunStep(r) ==
  \/ StartTask(r) \/ StartCommand(r)
  \/ Abandon(r) \/ Phase1Read(r) \/ Phase1Write(r) \/ Phase2Read(r)
  \/ PermanentFailure(r) \/ DropOldChunks(r) \/ Phase2Commit(r) \/ Return(r)
  \/ TransientFailure(r) \/ SoftLimit(r) \/ MarkFailed(r) \/ MarkFailedErrors(r)
  \/ HardLimit(r) \/ Killed(r)

Next ==
  \/ \E d \in Docs : Request(d) \/ Reap(d)
  \/ \E r \in Runs : RunStep(r)
  \/ \E t, u \in Tasks : Redeliver(t, u)
  \/ Tick

Spec == Init /\ [][Next]_vars

(***************************************************************************)
(* Fairness: a worker takes what is queued, the hard limit fires, beat     *)
(* keeps sending the sweep and workers run it, and time passes.  Nothing   *)
(* is assumed of the work itself, of the requests or of the command.       *)
(***************************************************************************)
Fairness ==
  /\ \A t \in Tasks : WF_vars(StartTask(t)) /\ WF_vars(HardLimit(t))
  /\ \A d \in Docs : WF_vars(Reap(d))
  /\ WF_vars(Tick)

FairSpec == Spec /\ Fairness

-----------------------------------------------------------------------------
(* What the pipeline promises in every configuration.                      *)

(***************************************************************************)
(* The sweep never meets a document whose Celery attempt is past phase 1   *)
(* and not over: such a document is younger than the threshold             *)
(* (app/checks.py, ADR-0023).                                              *)
(***************************************************************************)
NoLiveAttemptStuck ==
  \A t \in Tasks : pc[t] \in Attempting => ~Stuck(target[t])

(***************************************************************************)
(* The chunks of a document are always one whole set written by one run,   *)
(* whichever runs overlapped: the unique constraint and phase 2's single   *)
(* transaction never leave a mixture (ADR-0005, "all-or-nothing").         *)
(***************************************************************************)
OneWholeChunkSet ==
  \A d \in Docs :
    chunks[d] # {} => \E a \in Attempt, n \in 1 .. MaxPieces : chunks[d] = ChunkSet(a, n)

\* A READY document can be searched: its chunks are there.
ReadyIsSearchable == \A d \in Docs : status[d] = "ready" => chunks[d] # {}

(***************************************************************************)
(* "Delete means gone": no chunk outlives its document, even when an       *)
(* ingestion commits in the middle of the delete request.                  *)
(***************************************************************************)
NoOrphanChunks == \A d \in Docs : ~Exists(d) => chunks[d] = {}

\* A document that still lists always has its file (perform_destroy).
ListedHasFile == \A d \in Docs : Exists(d) => file[d]

\* No late run brings a deleted document back.
DeletedIsFinal == [][\A d \in Docs : status[d] = "deleted" => status'[d] = "deleted"]_vars

(***************************************************************************)
(* No document stays PROCESSING, however its attempts ended or died.       *)
(***************************************************************************)
ProcessingEnds == \A d \in Docs : status[d] = "processing" ~> status[d] # "processing"

-----------------------------------------------------------------------------
(* What it promises while runs of one document do not overlap.             *)

(***************************************************************************)
(* At most one run of a document is waiting or executing (ADR-0005,        *)
(* "single-flight").  A retry is accepted only when the run before it is   *)
(* over.                                                                   *)
(***************************************************************************)
SingleFlight ==
  \A r, q \in Runs :
    pc[r] \in Active /\ pc[q] \in Active /\ target[r] = target[q] => r = q

(***************************************************************************)
(* "A late or duplicate failing task can't stomp a success back to FAILED" *)
(* (ADR-0005): a document whose chunks one task committed is not FAILED by *)
(* another.  The re-ingestion command is left out: it may fail a document  *)
(* that keeps its chunks, and says so.                                     *)
(***************************************************************************)
NoSuccessStomped == \A d \in Docs : status[d] = "failed" => chunks[d] = {}

\* error is the reason of a FAILED document, and empty otherwise (models.py).
ErrorOnlyWhenFailed == \A d \in Docs : Exists(d) /\ status[d] # "failed" => error[d] = "none"

\* attempts counts every entry into PROCESSING (models.py, ADR-0005).
EveryAttemptCounted ==
  [][\A r \in Runs :
       pc[r] = "entering" /\ pc'[r] = "phase2"
         => attempts'[target[r]] = attempts[target[r]] + 1]_vars
=============================================================================
