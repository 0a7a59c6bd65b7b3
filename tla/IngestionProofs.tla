---------------------------- MODULE IngestionProofs ---------------------------
(***************************************************************************)
(* What Ingestion guarantees for every number of documents, tasks and      *)
(* commands, every limit the system checks accept and every set of faults. *)
(***************************************************************************)
EXTENDS IngestionLifecycle, TLAPS

USE RunsAssumption, TimingAssumption, PiecesAssumption, FaultsAssumption DEF RefusedByCheck

(***************************************************************************)
(* The types, one group of variables at a time.                            *)
(***************************************************************************)

\* Ages saturate one above the threshold.
LEMMA OlderBound == \A a \in 0 .. ReapAfter + 1 : Older(a) \in 0 .. ReapAfter + 1
BY DEF Older

\* What a run inserts are chunk rows.
LEMMA ChunkSetType ==
  ASSUME NEW r \in Runs, NEW k \in 0 .. MaxRetries, NEW n \in 1 .. MaxPieces
  PROVE  ChunkSet(<<r, k>>, n) \subseteq Chunk
BY DEF ChunkSet, Chunk, Attempt

\* Every request keeps the types.
LEMMA RequestType ==
  ASSUME TypeOK, NEW d \in Docs, Request(d)
  PROVE  TypeOK'
<1>1. ASSUME NEW t \in Tasks, Upload(d, t) PROVE TypeOK'
  BY <1>1 DEF TypeOK, Upload, Publish, SetRow, Stamp, Goto, RunAt, delVars, Status, Present, Pc,
     Active, Live, Attempting, Runs
<1>2. ASSUME NEW t \in Tasks, Retry(d, t) PROVE TypeOK'
  BY <1>2 DEF TypeOK, Retry, Publish, SetRow, Stamp, Goto, RunAt, delVars, Status, Present, Pc,
     Active, Live, Attempting, Runs
<1>3. CASE DeleteChunks(d)
  BY <1>3 DEF TypeOK, DeleteChunks, rowVars, runVars
<1>4. CASE DeleteCommit(d)
  BY <1>4 DEF TypeOK, DeleteCommit, runVars, Status
<1>5. CASE DeleteRollback(d)
  BY <1>5 DEF TypeOK, DeleteRollback, rowVars, runVars
<1>6. CASE UnlinkFile(d)
  BY <1>6 DEF TypeOK, UnlinkFile, rowVars, runVars
<1>7. QED
  BY <1>1, <1>2, <1>3, <1>4, <1>5, <1>6 DEF Request

\* Every step of a run but its failures keeps the types.
LEMMA WorkType ==
  ASSUME TypeOK, NEW r \in Runs,
         \/ StartTask(r) \/ StartCommand(r) \/ Abandon(r) \/ Phase1Read(r) \/ Phase1Write(r)
         \/ Phase2Read(r) \/ PermanentFailure(r) \/ DropOldChunks(r) \/ Phase2Commit(r)
         \/ Return(r)
  PROVE  TypeOK'
<1> USE DEF Goto, RunAt, rowVars, delVars, Pc, Active, Live, Attempting
<1>1. CASE StartTask(r)
  BY <1>1 DEF TypeOK, StartTask
<1>2. CASE StartCommand(r)
  BY <1>2 DEF TypeOK, StartCommand
<1>3. CASE Abandon(r)
  BY <1>3 DEF TypeOK, Abandon
<1>4. CASE Phase1Read(r)
  BY <1>4 DEF TypeOK, Phase1Read
<1>5. CASE Phase1Write(r)
  BY <1>5 DEF TypeOK, Phase1Write, Tries, SetRow, Stamp, Status, Present
<1>6. CASE Phase2Read(r)
  BY <1>6 DEF TypeOK, Phase2Read
<1>7. CASE PermanentFailure(r)
  BY <1>7 DEF TypeOK, PermanentFailure, SetRow, Stamp, Status, Present
<1>8. CASE DropOldChunks(r)
  BY <1>8 DEF TypeOK, DropOldChunks
<1>9. CASE Phase2Commit(r)
  <2>1. PICK n \in 1 .. MaxPieces :
          chunks' = [chunks EXCEPT ![target[r]] = (chunks[target[r]] \ snap[r])
                                                    \cup ChunkSet(<<r, retries[r]>>, n)]
    BY <1>9 DEF Phase2Commit, Pieces
  <2>2. ChunkSet(<<r, retries[r]>>, n) \subseteq Chunk
    BY ChunkSetType DEF TypeOK
  <2>3. chunks' \in [Docs -> SUBSET Chunk]
    BY <2>1, <2>2 DEF TypeOK
  <2>4. QED
    BY <1>9, <2>3, SMTT(30) DEF TypeOK, Phase2Commit, SetRow, Stamp, Status, Present
<1>10. CASE Return(r)
  BY <1>10 DEF TypeOK, Return
<1>11. QED
  BY <1>1, <1>2, <1>3, <1>4, <1>5, <1>6, <1>7, <1>8, <1>9, <1>10

\* So does every way a run fails or ends.
LEMMA FailureType ==
  ASSUME TypeOK, NEW r \in Runs,
         \/ TransientFailure(r) \/ SoftLimit(r) \/ MarkFailed(r) \/ MarkFailedErrors(r)
         \/ HardLimit(r) \/ Killed(r)
  PROVE  TypeOK'
<1> USE DEF Goto, RunAt, rowVars, delVars, Pc, Active, Live, Attempting
<1>1. CASE TransientFailure(r)
  BY <1>1 DEF TypeOK, TransientFailure, Raise, RetriesLeft
<1>2. CASE SoftLimit(r)
  BY <1>2 DEF TypeOK, SoftLimit
<1>3. CASE MarkFailed(r)
  BY <1>3 DEF TypeOK, MarkFailed, SetRow, Stamp, Status, Present
<1>4. CASE MarkFailedErrors(r)
  BY <1>4 DEF TypeOK, MarkFailedErrors
<1>5. CASE HardLimit(r) \/ Killed(r)
  BY <1>5 DEF TypeOK, HardLimit, Killed, Dies
<1>6. QED
  BY <1>1, <1>2, <1>3, <1>4, <1>5

\* So do the sweep, the broker and the clock.
LEMMA EnvironmentType ==
  ASSUME TypeOK,
         \/ \E d \in Docs : Reap(d)
         \/ \E t, u \in Tasks : Redeliver(t, u)
         \/ Tick
  PROVE  TypeOK'
<1>1. ASSUME NEW d \in Docs, Reap(d) PROVE TypeOK'
  BY <1>1 DEF TypeOK, Reap, SetRow, Stamp, delVars, runVars, Status, Present
<1>2. ASSUME NEW t \in Tasks, NEW u \in Tasks, Redeliver(t, u) PROVE TypeOK'
  BY <1>2 DEF TypeOK, Redeliver, Goto, RunAt, rowVars, delVars, Runs, Pc, Active
<1>3. CASE Tick
  <2>1. age' \in [Docs -> 0 .. ReapAfter + 1]
    BY <1>3, OlderBound DEF TypeOK, Tick
  <2>2. clock' \in [Runs -> Nat]
    BY <1>3 DEF TypeOK, Tick
  <2>3. QED
    BY <1>3, <2>1, <2>2 DEF TypeOK, Tick, delVars
<1>4. QED
  BY <1>1, <1>2, <1>3

LEMMA TypeInit == Init => TypeOK
BY DEF Init, TypeOK, Status, Present, Pc

LEMMA TypeStep == TypeOK /\ [Next]_vars => TypeOK'
<1> SUFFICES ASSUME TypeOK, [Next]_vars PROVE TypeOK'
  OBVIOUS
<1>1. ASSUME NEW d \in Docs, Request(d) PROVE TypeOK'
  BY <1>1, RequestType
<1>2. ASSUME NEW r \in Runs, RunStep(r) PROVE TypeOK'
  BY <1>2, WorkType, FailureType DEF RunStep
<1>3. CASE (\E d \in Docs : Reap(d)) \/ (\E t, u \in Tasks : Redeliver(t, u)) \/ Tick
  BY <1>3, EnvironmentType
<1>4. CASE UNCHANGED vars
  BY <1>4 DEF TypeOK, vars, rowVars, delVars, runVars
<1>5. QED
  BY <1>1, <1>2, <1>3, <1>4 DEF Next

(***************************************************************************)
(* Every variable of the pipeline keeps its type: ages and statuses of the *)
(* rows, the chunk rows, and the place and the counters of every run.      *)
(***************************************************************************)
THEOREM TypeCorrect == Spec => []TypeOK
BY TypeInit, TypeStep, PTL DEF Spec

-----------------------------------------------------------------------------
(***************************************************************************)
(* The sweep and the attempts.  An attempt's phase 1 stamped the row after *)
(* the attempt started, so the row is no older than the attempt, and the   *)
(* hard limit bounds the attempt.                                          *)
(***************************************************************************)
Stamped == \A t \in Tasks : pc[t] \in Attempting => age[target[t]] <= clock[t]
WithinLimit == \A t \in Tasks : pc[t] \in Live => clock[t] <= TimeLimit

AttemptAges == TypeOK /\ Stamped /\ WithinLimit

LEMMA AttemptAgesWork ==
  ASSUME AttemptAges, NEW r \in Runs,
         \/ StartTask(r) \/ StartCommand(r) \/ Abandon(r) \/ Phase1Read(r) \/ Phase1Write(r)
         \/ Phase2Read(r) \/ PermanentFailure(r) \/ DropOldChunks(r) \/ Phase2Commit(r)
         \/ Return(r)
  PROVE  Stamped' /\ WithinLimit'
<1> USE DEF AttemptAges, TypeOK, Stamped, WithinLimit, Attempting, Live, Goto, RunAt, rowVars,
            Runs
<1>1. CASE StartTask(r)
  BY <1>1 DEF StartTask
<1>2. CASE StartCommand(r)
  BY <1>2 DEF StartCommand
<1>3. CASE Abandon(r)
  BY <1>3 DEF Abandon
<1>4. CASE Phase1Read(r)
  BY <1>4 DEF Phase1Read
<1>5. CASE Phase1Write(r)
  BY <1>5 DEF Phase1Write, SetRow, Stamp
<1>6. CASE Phase2Read(r)
  BY <1>6 DEF Phase2Read
<1>7. CASE PermanentFailure(r)
  BY <1>7 DEF PermanentFailure, SetRow, Stamp
<1>8. CASE DropOldChunks(r)
  BY <1>8 DEF DropOldChunks
<1>9. CASE Phase2Commit(r)
  BY <1>9 DEF Phase2Commit, SetRow, Stamp
<1>10. CASE Return(r)
  BY <1>10 DEF Return
<1>11. QED
  BY <1>1, <1>2, <1>3, <1>4, <1>5, <1>6, <1>7, <1>8, <1>9, <1>10

LEMMA AttemptAgesFailure ==
  ASSUME AttemptAges, NEW r \in Runs,
         \/ TransientFailure(r) \/ SoftLimit(r) \/ MarkFailed(r) \/ MarkFailedErrors(r)
         \/ HardLimit(r) \/ Killed(r)
  PROVE  Stamped' /\ WithinLimit'
<1> USE DEF AttemptAges, TypeOK, Stamped, WithinLimit, Attempting, Live, Goto, RunAt, rowVars,
            Runs
<1>1. CASE TransientFailure(r)
  BY <1>1 DEF TransientFailure, Raise
<1>2. CASE SoftLimit(r)
  BY <1>2 DEF SoftLimit
<1>3. CASE MarkFailed(r)
  BY <1>3 DEF MarkFailed, SetRow, Stamp
<1>4. CASE MarkFailedErrors(r)
  BY <1>4 DEF MarkFailedErrors
<1>5. CASE HardLimit(r) \/ Killed(r)
  BY <1>5 DEF HardLimit, Killed, Dies
<1>6. QED
  BY <1>1, <1>2, <1>3, <1>4, <1>5

LEMMA AttemptAgesRequest ==
  ASSUME AttemptAges, NEW d \in Docs, Request(d)
  PROVE  Stamped' /\ WithinLimit'
<1> USE DEF AttemptAges, TypeOK, Stamped, WithinLimit, Attempting, Live, Goto, RunAt, rowVars,
            runVars, Runs
<1>1. ASSUME NEW t \in Tasks, Upload(d, t) PROVE Stamped' /\ WithinLimit'
  BY <1>1 DEF Upload, Publish, SetRow, Stamp
<1>2. ASSUME NEW t \in Tasks, Retry(d, t) PROVE Stamped' /\ WithinLimit'
  BY <1>2 DEF Retry, Publish, SetRow, Stamp
<1>3. CASE DeleteChunks(d) \/ DeleteCommit(d) \/ DeleteRollback(d) \/ UnlinkFile(d)
  BY <1>3 DEF DeleteChunks, DeleteCommit, DeleteRollback, UnlinkFile
<1>4. QED
  BY <1>1, <1>2, <1>3 DEF Request

LEMMA AttemptAgesEnvironment ==
  ASSUME AttemptAges,
         \/ \E d \in Docs : Reap(d)
         \/ \E t, u \in Tasks : Redeliver(t, u)
         \/ Tick
  PROVE  Stamped' /\ WithinLimit'
<1> USE DEF AttemptAges, TypeOK, Stamped, WithinLimit, Attempting, Live, rowVars, runVars, Runs
<1>1. ASSUME NEW d \in Docs, Reap(d) PROVE Stamped' /\ WithinLimit'
  BY <1>1 DEF Reap, SetRow, Stamp
<1>2. ASSUME NEW t \in Tasks, NEW u \in Tasks, Redeliver(t, u) PROVE Stamped' /\ WithinLimit'
  BY <1>2 DEF Redeliver, Goto, RunAt
<1>3. CASE Tick
  <2>1. \A d \in Docs : age'[d] <= age[d] + 1
    BY <1>3 DEF Tick, Older
  <2>2. \A t \in Tasks : pc[t] \in Live => clock'[t] = clock[t] + 1 /\ clock[t] < TimeLimit
    BY <1>3 DEF Tick, Ticking
  <2>3. pc' = pc /\ target' = target /\ age' \in [Docs -> Int]
    BY <1>3 DEF Tick, Older
  <2>4. Stamped'
    BY <2>1, <2>2, <2>3
  <2>5. WithinLimit'
    BY <2>2, <2>3
  <2>6. QED
    BY <2>4, <2>5
<1>4. QED
  BY <1>1, <1>2, <1>3

(***************************************************************************)
(* The sweep never meets an attempt that is past phase 1 and alive, for    *)
(* every threshold the system check accepts.                               *)
(***************************************************************************)
THEOREM SweepSparesLiveAttempts == Spec => []NoLiveAttemptStuck
<1>1. Init => AttemptAges
  BY TypeInit DEF Init, AttemptAges, Stamped, WithinLimit, Attempting, Live, Runs
<1>2. AttemptAges /\ [Next]_vars => AttemptAges'
  <2> SUFFICES ASSUME AttemptAges, [Next]_vars, TypeOK' PROVE Stamped' /\ WithinLimit'
    BY TypeStep DEF AttemptAges
  <2>1. ASSUME NEW d \in Docs, Request(d) PROVE Stamped' /\ WithinLimit'
    BY <2>1, AttemptAgesRequest
  <2>2. ASSUME NEW r \in Runs, RunStep(r) PROVE Stamped' /\ WithinLimit'
    BY <2>2, AttemptAgesWork, AttemptAgesFailure DEF RunStep
  <2>3. CASE (\E d \in Docs : Reap(d)) \/ (\E t, u \in Tasks : Redeliver(t, u)) \/ Tick
    BY <2>3, AttemptAgesEnvironment
  <2>4. CASE UNCHANGED vars
    BY <2>4 DEF AttemptAges, Stamped, WithinLimit, vars, rowVars, runVars
  <2>5. QED
    BY <2>1, <2>2, <2>3, <2>4 DEF Next
<1>3. AttemptAges => NoLiveAttemptStuck
  BY DEF AttemptAges, TypeOK, Stamped, WithinLimit, NoLiveAttemptStuck, Stuck, Live, Runs
<1>4. QED
  BY <1>1, <1>2, <1>3, PTL DEF Spec
-----------------------------------------------------------------------------
(***************************************************************************)
(* What the rows, the chunks and the file of a document say about each     *)
(* other.                                                                  *)
(***************************************************************************)

(***************************************************************************)
(* The on_commit hook runs only for a document that is gone.               *)
(***************************************************************************)
UnlinksDeleted == \A d \in Docs : del[d] = "unlinking" => status[d] = "deleted"

DocumentInv ==
  /\ TypeOK
  /\ NoOrphanChunks
  /\ ReadyIsSearchable
  /\ ListedHasFile
  /\ UnlinksDeleted

\* Requests keep the document consistent; a delete's foreign key is needed.
LEMMA DocumentRequest ==
  ASSUME DocumentInv, TypeOK', NEW d \in Docs, Request(d)
  PROVE  DocumentInv'
<1> USE DEF DocumentInv, TypeOK, NoOrphanChunks, ReadyIsSearchable, ListedHasFile, UnlinksDeleted,
            Exists, Present, rowVars, delVars
<1>1. ASSUME NEW t \in Tasks, Upload(d, t) PROVE DocumentInv'
  BY <1>1 DEF Upload, SetRow
<1>2. ASSUME NEW t \in Tasks, Retry(d, t) PROVE DocumentInv'
  BY <1>2 DEF Retry, Claim, SetRow
<1>3. CASE DeleteChunks(d)
  BY <1>3 DEF DeleteChunks
<1>4. CASE DeleteCommit(d)
  BY <1>4 DEF DeleteCommit, Referenced
<1>5. CASE DeleteRollback(d)
  BY <1>5 DEF DeleteRollback
<1>6. CASE UnlinkFile(d)
  BY <1>6 DEF UnlinkFile
<1>7. QED
  BY <1>1, <1>2, <1>3, <1>4, <1>5, <1>6 DEF Request

\* Of a run's steps only four write rows; the others leave them alone.
LEMMA DocumentRun ==
  ASSUME DocumentInv, TypeOK', NEW r \in Runs, RunStep(r)
  PROVE  DocumentInv'
<1> USE DEF DocumentInv, TypeOK, NoOrphanChunks, ReadyIsSearchable, ListedHasFile, UnlinksDeleted,
            Exists, Present, rowVars, delVars
<1>1. CASE Phase1Write(r)
  BY <1>1 DEF Phase1Write, SaveMatches, SetRow
<1>2. CASE PermanentFailure(r)
  BY <1>2 DEF PermanentFailure, SaveMatches, SetRow
<1>3. CASE Phase2Commit(r)
  <2>1. PICK n \in 1 .. MaxPieces :
          chunks' = [chunks EXCEPT ![target[r]] = (chunks[target[r]] \ snap[r])
                                                    \cup ChunkSet(<<r, retries[r]>>, n)]
    BY <1>3 DEF Phase2Commit, Pieces
  <2>2. [by |-> <<r, retries[r]>>, index |-> 0] \in ChunkSet(<<r, retries[r]>>, n)
    BY DEF ChunkSet
  <2>3. chunks'[target[r]] # {} /\ \A d \in Docs : d # target[r] => chunks'[d] = chunks[d]
    BY <2>1, <2>2
  <2>4. /\ status' = [status EXCEPT ![target[r]] = "ready"]
        /\ error' = error /\ file' = file /\ del' = del
        /\ target[r] \in Docs /\ Exists(target[r])
    BY <1>3 DEF Phase2Commit, SaveMatches, SetRow
  <2>5. QED
    BY <2>3, <2>4
<1>4. CASE MarkFailed(r)
  BY <1>4 DEF MarkFailed, Markable, SetRow
<1>5. CASE StartTask(r) \/ StartCommand(r) \/ Abandon(r) \/ Phase1Read(r) \/ Phase2Read(r)
           \/ DropOldChunks(r) \/ Return(r) \/ TransientFailure(r) \/ SoftLimit(r)
           \/ MarkFailedErrors(r) \/ HardLimit(r) \/ Killed(r)
  <2>1. UNCHANGED <<status, error, chunks, file, del>>
    BY <1>5 DEF StartTask, StartCommand, Abandon, Phase1Read, Phase2Read, DropOldChunks, Return,
       TransientFailure, Raise, SoftLimit, MarkFailedErrors, HardLimit, Killed, Dies
  <2>2. QED
    BY <2>1
<1>6. QED
  BY <1>1, <1>2, <1>3, <1>4, <1>5 DEF RunStep

LEMMA DocumentStep == DocumentInv /\ [Next]_vars => DocumentInv'
<1> SUFFICES ASSUME DocumentInv, [Next]_vars, TypeOK' PROVE DocumentInv'
  BY TypeStep DEF DocumentInv
<1> USE DEF DocumentInv, NoOrphanChunks, ReadyIsSearchable, ListedHasFile, UnlinksDeleted, Exists,
            Present, rowVars, delVars
<1>1. ASSUME NEW d \in Docs, Reap(d) PROVE DocumentInv'
  BY <1>1 DEF Reap, SetRow, Stuck, TypeOK
<1>2. CASE (\E t, u \in Tasks : Redeliver(t, u)) \/ Tick \/ UNCHANGED vars
  <2>1. UNCHANGED <<status, error, chunks, file, del>>
    BY <1>2 DEF Redeliver, Tick, vars
  <2>2. QED
    BY <2>1
<1>3. QED
  BY <1>1, <1>2, DocumentRequest, DocumentRun DEF Next

LEMMA DocumentInvariant == Spec => []DocumentInv
<1>1. Init => DocumentInv
  BY TypeInit DEF Init, DocumentInv, NoOrphanChunks, ReadyIsSearchable, ListedHasFile,
     UnlinksDeleted, Exists, Present
<1>2. QED
  BY <1>1, DocumentStep, PTL DEF Spec

(***************************************************************************)
(* Delete means gone: whatever ingestion commits while the request runs,   *)
(* no chunk outlives its document.                                         *)
(***************************************************************************)
THEOREM DeleteMeansGone == Spec => []NoOrphanChunks
<1>1. DocumentInv => NoOrphanChunks
  BY DEF DocumentInv
<1>2. QED
  BY <1>1, DocumentInvariant, PTL

(***************************************************************************)
(* A READY document has chunks: no commit, retry or delete of another run  *)
(* leaves one that the search would show as complete and find nothing in.  *)
(***************************************************************************)
THEOREM ReadyMeansSearchable == Spec => []ReadyIsSearchable
<1>1. DocumentInv => ReadyIsSearchable
  BY DEF DocumentInv
<1>2. QED
  BY <1>1, DocumentInvariant, PTL

(***************************************************************************)
(* A document that lists has its file: the file goes in the on_commit hook *)
(* of the delete, never in a delete that is rolled back.                   *)
(***************************************************************************)
THEOREM ListedMeansStored == Spec => []ListedHasFile
<1>1. DocumentInv => ListedHasFile
  BY DEF DocumentInv
<1>2. QED
  BY <1>1, DocumentInvariant, PTL

\* Every write of a row but an upload's insert is an UPDATE that matches the row.
LEMMA WritesMatchTheRow ==
  ASSUME TypeOK, [Next]_vars, NEW d \in Docs, status[d] = "deleted"
  PROVE  status'[d] = "deleted"
<1> USE DEF TypeOK, rowVars, delVars, SetRow, Exists, Present
<1>1. ASSUME NEW e \in Docs, Request(e) \/ Reap(e) PROVE status'[d] = "deleted"
  BY <1>1 DEF Request, Upload, Retry, Claim, DeleteChunks, DeleteCommit, DeleteRollback, UnlinkFile,
     Reap, Stuck
<1>2. ASSUME NEW r \in Runs, RunStep(r) PROVE status'[d] = "deleted"
  <2>1. CASE Phase1Write(r) \/ PermanentFailure(r) \/ Phase2Commit(r) \/ MarkFailed(r)
    BY <2>1 DEF Phase1Write, PermanentFailure, Phase2Commit, MarkFailed, SaveMatches, Markable
  <2>2. CASE ~(Phase1Write(r) \/ PermanentFailure(r) \/ Phase2Commit(r) \/ MarkFailed(r))
    BY <1>2, <2>2 DEF RunStep, StartTask, StartCommand, Abandon, Phase1Read, Phase2Read,
       DropOldChunks, Return, TransientFailure, Raise, SoftLimit, MarkFailedErrors, HardLimit,
       Killed, Dies
  <2>3. QED
    BY <2>1, <2>2
<1>3. CASE (\E t, u \in Tasks : Redeliver(t, u)) \/ Tick \/ UNCHANGED vars
  BY <1>3 DEF Redeliver, Tick, vars
<1>4. QED
  BY <1>1, <1>2, <1>3 DEF Next

(***************************************************************************)
(* No late run, retry or sweep brings a deleted document back: the saves   *)
(* with update_fields and the conditional updates match no row.            *)
(***************************************************************************)
THEOREM DeletedStaysDeleted == Spec => DeletedIsFinal
<1>1. TypeOK /\ [Next]_vars => [\A d \in Docs : status[d] = "deleted" => status'[d] = "deleted"]_vars
  BY WritesMatchTheRow
<1>2. QED
  BY <1>1, TypeCorrect, PTL DEF Spec, DeletedIsFinal

-----------------------------------------------------------------------------
(***************************************************************************)
(* Overlapping runs.  Attempt k of run r can have committed chunks only    *)
(* once it is past the commit, and an attempt commits once.  So a chunk    *)
(* set committed after a run deleted what it could see shares no row with  *)
(* what it saw, and being whole it holds index 0, which the run would      *)
(* insert again: the unique constraint refuses the second commit.          *)
(***************************************************************************)
PastCommit == {"committed", "timedout", "failing", "done"}
MayHaveCommitted(a) ==
  LET r == a[1] k == a[2] IN k < retries[r] \/ (k = retries[r] /\ pc[r] \in PastCommit)

Whole(cs) == cs # {} => \E a \in Attempt, n \in 1 .. MaxPieces : cs = ChunkSet(a, n)

Committed(cs) == \A c \in cs : MayHaveCommitted(c.by)

FreshOrSeen(r) ==
  pc[r] = "replacing" =>
    chunks[target[r]] \subseteq snap[r] \/ chunks[target[r]] \cap snap[r] = {}

ChunkInv ==
  /\ \A d \in Docs : Whole(chunks[d]) /\ Committed(chunks[d])
  /\ \A r \in Runs : Committed(snap[r]) /\ FreshOrSeen(r)

\* A message not sent yet counts no retries.
UnsentIsNew == \A r \in Runs : pc[r] = "unsent" => retries[r] = 0

LEMMA UnsentStep == TypeOK /\ UnsentIsNew /\ [Next]_vars => UnsentIsNew'
<1> SUFFICES ASSUME TypeOK, UnsentIsNew, [Next]_vars PROVE UnsentIsNew'
  OBVIOUS
<1> USE DEF TypeOK, UnsentIsNew, Goto, RunAt, runVars, Runs
<1>1. ASSUME NEW d \in Docs, Request(d) \/ Reap(d) PROVE UnsentIsNew'
  BY <1>1 DEF Request, Upload, Retry, Publish, DeleteChunks, DeleteCommit, DeleteRollback,
     UnlinkFile, Reap
<1>2. ASSUME NEW r \in Runs, RunStep(r) PROVE UnsentIsNew'
  <2>1. CASE TransientFailure(r)
    BY <2>1 DEF TransientFailure, Raise
  <2>2. CASE ~TransientFailure(r)
    BY <1>2, <2>2 DEF RunStep, StartTask, StartCommand, Abandon, Phase1Read, Phase1Write,
       Phase2Read, PermanentFailure, DropOldChunks, Phase2Commit, Return, SoftLimit, MarkFailed,
       MarkFailedErrors, HardLimit, Killed, Dies
  <2>3. QED
    BY <2>1, <2>2
<1>3. CASE (\E t, u \in Tasks : Redeliver(t, u)) \/ Tick \/ UNCHANGED vars
  BY <1>3 DEF Redeliver, Tick, vars
<1>4. QED
  BY <1>1, <1>2, <1>3 DEF Next

\* What an attempt may have committed, it may have committed ever after.
LEMMA CommittedPersists ==
  ASSUME TypeOK, UnsentIsNew, [Next]_vars, NEW a \in Attempt, MayHaveCommitted(a)
  PROVE  MayHaveCommitted(a)'
<1> DEFINE q == a[1]
<1>1. q \in Runs /\ a[2] \in 0 .. MaxRetries
  BY DEF Attempt
<1> USE <1>1 DEF TypeOK, UnsentIsNew, MayHaveCommitted, PastCommit, Goto, RunAt, runVars, Live,
            Attempting
<1>2. ASSUME NEW d \in Docs, Request(d) \/ Reap(d) PROVE MayHaveCommitted(a)'
  BY <1>2 DEF Request, Upload, Retry, Publish, DeleteChunks, DeleteCommit, DeleteRollback,
     UnlinkFile, Reap, Runs
<1>3. ASSUME NEW r \in Runs, RunStep(r) PROVE MayHaveCommitted(a)'
  <2>1. CASE TransientFailure(r)
    BY <2>1 DEF TransientFailure, Raise
  <2>2. CASE Phase2Commit(r)
    BY <2>2 DEF Phase2Commit
  <2>3. CASE StartTask(r) \/ StartCommand(r) \/ Abandon(r) \/ Phase1Read(r) \/ Phase1Write(r)
             \/ Phase2Read(r) \/ DropOldChunks(r)
    BY <2>3 DEF StartTask, StartCommand, Abandon, Phase1Read, Phase1Write, Phase2Read,
       DropOldChunks
  <2>4. CASE PermanentFailure(r) \/ Return(r) \/ SoftLimit(r) \/ MarkFailed(r) \/ MarkFailedErrors(r)
             \/ HardLimit(r) \/ Killed(r)
    BY <2>4 DEF PermanentFailure, Return, SoftLimit, MarkFailed, MarkFailedErrors, HardLimit,
       Killed, Dies
  <2>5. QED
    BY <1>3, <2>1, <2>2, <2>3, <2>4 DEF RunStep
<1>4. CASE (\E t, u \in Tasks : Redeliver(t, u)) \/ Tick \/ UNCHANGED vars
  BY <1>4 DEF Redeliver, Tick, vars, Runs
<1>5. QED
  BY <1>2, <1>3, <1>4 DEF Next

\* Two whole sets always meet at index 0.
LEMMA WholeHasFirst ==
  ASSUME NEW cs, cs # {}, Whole(cs)
  PROVE  0 \in Indexes(cs)
<1>1. PICK a \in Attempt, n \in 1 .. MaxPieces : cs = ChunkSet(a, n)
  BY DEF Whole
<1>2. [by |-> a, index |-> 0] \in cs
  BY <1>1 DEF ChunkSet
<1>3. QED
  BY <1>2 DEF Indexes

\* So a commit replaces everything the document had, or is refused.
LEMMA CommitReplaces ==
  ASSUME TypeOK, ChunkInv, NEW r \in Runs, Phase2Commit(r)
  PROVE  \E n \in 1 .. MaxPieces :
           chunks' = [chunks EXCEPT ![target[r]] = ChunkSet(<<r, retries[r]>>, n)]
<1> DEFINE d == target[r]
           kept == chunks[d] \ snap[r]
<1>1. d \in Docs /\ <<r, retries[r]>> \in Attempt
  BY DEF TypeOK, Attempt
<1>2. PICK n \in 1 .. MaxPieces :
        /\ Unique(kept, ChunkSet(<<r, retries[r]>>, n))
        /\ chunks' = [chunks EXCEPT ![d] = kept \cup ChunkSet(<<r, retries[r]>>, n)]
  BY DEF Phase2Commit, Pieces
<1>3. 0 \in Indexes(ChunkSet(<<r, retries[r]>>, n))
  <2>1. [by |-> <<r, retries[r]>>, index |-> 0] \in ChunkSet(<<r, retries[r]>>, n)
    BY DEF ChunkSet
  <2>2. QED
    BY <2>1 DEF Indexes
<1>4. kept = {}
  <2>1. CASE chunks[d] \subseteq snap[r]
    BY <2>1
  <2>2. CASE chunks[d] \cap snap[r] = {} /\ chunks[d] # {}
    <3>1. kept = chunks[d]
      BY <2>2
    <3>2. 0 \in Indexes(kept)
      BY <1>1, <2>2, <3>1, WholeHasFirst DEF ChunkInv
    <3>3. QED
      BY <1>2, <1>3, <3>2 DEF Unique
  <2>3. QED
    BY <2>1, <2>2 DEF ChunkInv, FreshOrSeen, Phase2Commit, RunAt
<1>5. kept \cup ChunkSet(<<r, retries[r]>>, n) = ChunkSet(<<r, retries[r]>>, n)
  BY <1>4
<1>6. QED
  BY <1>2, <1>5

WholeInv == TypeOK /\ UnsentIsNew /\ ChunkInv

\* Rows that were committed before a step were committed after it too.
LEMMA RowsStayCommitted ==
  ASSUME TypeOK, UnsentIsNew, [Next]_vars, NEW cs \in SUBSET Chunk, Committed(cs)
  PROVE  \A c \in cs : MayHaveCommitted(c.by)'
<1> SUFFICES ASSUME NEW c \in cs PROVE MayHaveCommitted(c.by)'
  OBVIOUS
<1>1. c.by \in Attempt /\ MayHaveCommitted(c.by)
  BY DEF Chunk, Committed
<1>2. QED
  BY <1>1, CommittedPersists

LEMMA CommitKeepsWhole ==
  ASSUME WholeInv, TypeOK', [Next]_vars, NEW r \in Runs, Phase2Commit(r)
  PROVE  ChunkInv'
<1> DEFINE d == target[r]
           a == <<r, retries[r]>>
<1>1. PICK n \in 1 .. MaxPieces : chunks' = [chunks EXCEPT ![d] = ChunkSet(a, n)]
  BY CommitReplaces DEF WholeInv
<1>2. /\ d \in Docs /\ a \in Attempt /\ pc[r] = "replacing"
      /\ pc' = [pc EXCEPT ![r] = "committed"] /\ retries' = retries /\ target' = target
      /\ snap' = [snap EXCEPT ![r] = {}]
  BY DEF Phase2Commit, WholeInv, TypeOK, Attempt, RunAt, Goto
<1>3. MayHaveCommitted(a)' /\ ~MayHaveCommitted(a)
  BY <1>2 DEF MayHaveCommitted, PastCommit, WholeInv, TypeOK
<1>4. \A c \in ChunkSet(a, n) : c.by = a
  BY DEF ChunkSet
<1>5. ASSUME NEW e \in Docs PROVE Whole(chunks'[e]) /\ Committed(chunks[e])'
  <2>1. CASE e = d
    <3>1. chunks'[e] = ChunkSet(a, n)
      BY <1>1, <1>2, <2>1 DEF WholeInv, TypeOK
    <3>2. QED
      BY <1>2, <1>3, <1>4, <3>1 DEF Whole, Committed
  <2>2. CASE e # d
    <3>1. chunks'[e] = chunks[e]
      BY <1>1, <2>2 DEF WholeInv, TypeOK
    <3>2. \A c \in chunks[e] : MayHaveCommitted(c.by)'
      BY RowsStayCommitted DEF WholeInv, TypeOK, ChunkInv
    <3>3. QED
      BY <3>1, <3>2 DEF WholeInv, ChunkInv, Committed
  <2>3. QED
    BY <2>1, <2>2
<1>6. ASSUME NEW q \in Runs PROVE Committed(snap[q])' /\ FreshOrSeen(q)'
  <2>1. CASE q = r
    BY <1>2, <2>1 DEF Committed, FreshOrSeen, WholeInv, TypeOK
  <2>2. CASE q # r
    <3>1. snap'[q] = snap[q] /\ pc'[q] = pc[q] /\ target'[q] = target[q]
      BY <1>2, <2>2 DEF WholeInv, TypeOK
    <3>2. Committed(snap[q])'
      BY <3>1, RowsStayCommitted DEF WholeInv, TypeOK, ChunkInv, Committed
    <3>3. CASE target[q] = d
      <4>1. chunks'[target[q]] = ChunkSet(a, n)
        BY <1>1, <1>2, <3>3 DEF WholeInv, TypeOK
      <4>2. ChunkSet(a, n) \cap snap[q] = {}
        BY <1>3, <1>4 DEF WholeInv, ChunkInv, Committed
      <4>3. QED
        BY <3>1, <3>2, <4>1, <4>2 DEF FreshOrSeen
    <3>4. CASE target[q] # d
      <4>1. chunks'[target[q]] = chunks[target[q]]
        BY <1>1, <3>4 DEF WholeInv, TypeOK
      <4>2. QED
        BY <3>1, <3>2, <4>1 DEF FreshOrSeen, WholeInv, ChunkInv
    <3>5. QED
      BY <3>3, <3>4
  <2>3. QED
    BY <2>1, <2>2
<1>7. QED
  BY <1>5, <1>6 DEF ChunkInv

LEMMA OtherStepsKeepWhole ==
  ASSUME WholeInv, TypeOK', [Next]_vars, target' = target,
         \A d \in Docs : chunks'[d] = chunks[d] \/ chunks'[d] = {},
         \A r \in Runs :
           \/ snap'[r] = {} /\ pc'[r] # "replacing"
           \/ snap'[r] = snap[r] /\ (pc'[r] = "replacing" => pc[r] = "replacing")
           \/ snap'[r] = chunks[target[r]] /\ chunks' = chunks
  PROVE  ChunkInv'
<1>1. ASSUME NEW d \in Docs PROVE Whole(chunks'[d]) /\ Committed(chunks[d])'
  <2>1. \A c \in chunks[d] : MayHaveCommitted(c.by)'
    BY RowsStayCommitted DEF WholeInv, TypeOK, ChunkInv
  <2>2. CASE chunks'[d] = chunks[d]
    BY <2>1, <2>2 DEF WholeInv, ChunkInv, Committed
  <2>3. CASE chunks'[d] = {}
    BY <2>3 DEF Whole, Committed
  <2>4. QED
    BY <2>2, <2>3
<1>2. ASSUME NEW r \in Runs PROVE Committed(snap[r])' /\ FreshOrSeen(r)'
  <2>1. target[r] \in Docs
    BY DEF WholeInv, TypeOK
  <2>2. CASE snap'[r] = {} /\ pc'[r] # "replacing"
    BY <2>2 DEF Committed, FreshOrSeen
  <2>3. CASE snap'[r] = snap[r] /\ (pc'[r] = "replacing" => pc[r] = "replacing")
    <3>1. Committed(snap[r])'
      BY <2>3, RowsStayCommitted DEF WholeInv, TypeOK, ChunkInv, Committed
    <3>2. FreshOrSeen(r)'
      BY <2>1, <2>3 DEF WholeInv, ChunkInv, FreshOrSeen
    <3>3. QED
      BY <3>1, <3>2
  <2>4. CASE snap'[r] = chunks[target[r]] /\ chunks' = chunks
    <3>1. Committed(snap[r])'
      BY <2>1, <2>4, RowsStayCommitted DEF WholeInv, TypeOK, ChunkInv, Committed
    <3>2. FreshOrSeen(r)'
      BY <2>4 DEF FreshOrSeen
    <3>3. QED
      BY <3>1, <3>2
  <2>5. QED
    BY <2>2, <2>3, <2>4
<1>3. QED
  BY <1>1, <1>2 DEF ChunkInv

LEMMA WholeStep == WholeInv /\ [Next]_vars => WholeInv'
<1> SUFFICES ASSUME WholeInv, [Next]_vars, TypeOK', UnsentIsNew' PROVE ChunkInv'
  BY TypeStep, UnsentStep DEF WholeInv
<1> USE DEF WholeInv, TypeOK, Goto, RunAt, delVars, runVars
<1>1. ASSUME NEW d \in Docs, Request(d) \/ Reap(d) PROVE ChunkInv'
  BY <1>1, OtherStepsKeepWhole DEF Request, Upload, Retry, Publish, DeleteChunks, DeleteCommit,
     Referenced, DeleteRollback, UnlinkFile, Reap, Runs
<1>2. ASSUME NEW r \in Runs, RunStep(r) PROVE ChunkInv'
  <2>1. CASE Phase2Commit(r)
    BY <2>1, CommitKeepsWhole
  <2>2. CASE TransientFailure(r)
    BY <2>2, OtherStepsKeepWhole DEF TransientFailure, Raise
  <2>3. CASE StartTask(r) \/ StartCommand(r) \/ Abandon(r) \/ Phase1Read(r) \/ Phase1Write(r)
             \/ Phase2Read(r) \/ DropOldChunks(r)
    BY <2>3, OtherStepsKeepWhole DEF StartTask, StartCommand, Abandon, Phase1Read, Phase1Write,
       Phase2Read, DropOldChunks
  <2>4. CASE PermanentFailure(r) \/ Return(r) \/ SoftLimit(r) \/ MarkFailed(r) \/ MarkFailedErrors(r)
             \/ HardLimit(r) \/ Killed(r)
    BY <2>4, OtherStepsKeepWhole DEF PermanentFailure, Return, SoftLimit, MarkFailed,
       MarkFailedErrors, HardLimit, Killed, Dies
  <2>5. QED
    BY <1>2, <2>1, <2>2, <2>3, <2>4 DEF RunStep
<1>3. CASE (\E t, u \in Tasks : Redeliver(t, u)) \/ Tick \/ UNCHANGED vars
  BY <1>3, OtherStepsKeepWhole DEF Redeliver, Tick, vars, Runs
<1>4. QED
  BY <1>1, <1>2, <1>3 DEF Next

(***************************************************************************)
(* However runs of a document overlap, retry or die, its chunks are always *)
(* one whole set written by one attempt.                                   *)
(***************************************************************************)
THEOREM ChunksAreOneAttempts == Spec => []OneWholeChunkSet
<1>1. Init => WholeInv
  BY TypeInit DEF Init, WholeInv, UnsentIsNew, ChunkInv, Whole, Committed, FreshOrSeen
<1>2. WholeInv => OneWholeChunkSet
  BY DEF WholeInv, ChunkInv, Whole, OneWholeChunkSet
<1>3. QED
  BY <1>1, <1>2, WholeStep, PTL DEF Spec
-----------------------------------------------------------------------------
(***************************************************************************)
(* While runs of one document do not overlap: single-flight itself, the    *)
(* status machine of ADR-0005, and the counts and reasons that rest on     *)
(* them.                                                                   *)
(***************************************************************************)

(***************************************************************************)
(* The threshold leaves room for a retry: an attempt that its hard limit   *)
(* ends, a wait in the queue and the part of the next attempt that comes   *)
(* before its stamp.  The re-ingestion command takes no claim, a message   *)
(* delivered twice runs twice, and a database that loses its answer has a  *)
(* READY document ingested again.                                          *)
(***************************************************************************)
OneAtATime ==
  /\ Commands = {}
  /\ Faults \cap {"redeliver", "database"} = {}
  /\ 2 * TimeLimit + MaxQueueWait <= ReapAfter

(***************************************************************************)
(* What the row shows of an active run: never a status that an upload or a *)
(* retry could start another one from.                                     *)
(***************************************************************************)
ShownWhileActive(r) ==
  LET shown == status[target[r]] IN
  /\ pc[r] \in Active => shown \notin {"absent", "failed"}
  /\ pc[r] \in {"queued", "phase1", "entering"} => shown # "ready"
  /\ pc[r] = "queued" /\ retries[r] = 0 => shown # "processing"
  /\ pc[r] \in {"phase2", "working", "replacing", "failing"} => shown \in {"processing", "deleted"}
  /\ pc[r] = "committed" => shown \in {"ready", "deleted"}

\* How long ago the row of an active run may have been stamped: by this attempt, or
\* by the one before it, which the hard limit ended, and a wait in the queue since.
Fresh(r) ==
  pc[r] \in Active /\ status[target[r]] = "processing" =>
    /\ pc[r] \in Attempting => age[target[r]] <= clock[r]
    /\ pc[r] = "queued" => age[target[r]] <= TimeLimit + clock[r]
    /\ age[target[r]] <= TimeLimit + MaxQueueWait + clock[r]

ClockBounded(r) ==
  /\ pc[r] \in Live => clock[r] <= TimeLimit
  /\ IsRetry(r) => clock[r] <= MaxQueueWait

\* What a run read of its row is what its first write overwrites.
ReadIsCurrent(r) == pc[r] = "entering" => seen[r] = attempts[target[r]]

\* A message not sent yet counts no retries.
FirstIfUnsent(r) == pc[r] = "unsent" => retries[r] = 0

RunFits(r) ==
  ShownWhileActive(r) /\ Fresh(r) /\ ClockBounded(r) /\ ReadIsCurrent(r) /\ FirstIfUnsent(r)

\* The status tells whether there are chunks and a reason.
StatusTells(d) ==
  /\ chunks[d] # {} <=> status[d] = "ready"
  /\ Exists(d) => (error[d] # "none" <=> status[d] = "failed")
  /\ del[d] = "deleting" => Exists(d)

FlightInv ==
  /\ TypeOK
  /\ SingleFlight
  /\ \A r \in Runs : RunFits(r)
  /\ \A d \in Docs : StatusTells(d)

-----------------------------------------------------------------------------
(***************************************************************************)
(* A step touches one run and its document, or one document, or the clock. *)
(***************************************************************************)
SameRow(d) ==
  /\ status'[d] = status[d] /\ error'[d] = error[d] /\ attempts'[d] = attempts[d]
  /\ age'[d] = age[d] /\ chunks'[d] = chunks[d] /\ del'[d] = del[d]
SameRun(r) ==
  pc'[r] = pc[r] /\ retries'[r] = retries[r] /\ clock'[r] = clock[r] /\ seen'[r] = seen[r]

LEMMA UntouchedFits ==
  ASSUME NEW r \in Runs, RunFits(r), target' = target, SameRun(r), SameRow(target[r])
  PROVE  RunFits(r)'
BY DEF RunFits, ShownWhileActive, Fresh, ClockBounded, IsRetry, ReadIsCurrent,
     FirstIfUnsent, SameRun, SameRow

LEMMA UntouchedTells ==
  ASSUME NEW d \in Docs, StatusTells(d), SameRow(d)
  PROVE  StatusTells(d)'
BY DEF StatusTells, Exists, SameRow

LEMMA RunMoves ==
  ASSUME FlightInv, TypeOK', NEW r \in Runs, target' = target,
         \A q \in Runs \ {r} : SameRun(q) /\ (pc[q] \in Active => target[q] # target[r]),
         \A d \in Docs \ {target[r]} : SameRow(d),
         RunFits(r)', StatusTells(target[r])'
  PROVE  FlightInv'
<1>1. ASSUME NEW q \in Runs, q # r, pc[q] \in Active PROVE RunFits(q)'
  <2>1. SameRow(target[q])
    BY <1>1 DEF FlightInv, TypeOK
  <2>2. QED
    BY <1>1, <2>1, UntouchedFits DEF FlightInv
<1>2. ASSUME NEW q \in Runs, q # r, pc[q] \notin Active PROVE RunFits(q)'
  BY <1>2 DEF FlightInv, RunFits, ShownWhileActive, Fresh, ClockBounded, IsRetry, ReadIsCurrent,
     FirstIfUnsent, SameRun, Active, Live, Attempting
<1>3. SingleFlight'
  <2> SUFFICES ASSUME NEW p \in Runs, NEW q \in Runs, pc'[p] \in Active, pc'[q] \in Active,
                      target[p] = target[q]
               PROVE  p = q
    BY DEF SingleFlight
  <2>1. CASE p # r /\ q # r
    BY <2>1 DEF FlightInv, SingleFlight, SameRun
  <2>2. CASE p = r \/ q = r
    BY <2>2 DEF SameRun
  <2>3. QED
    BY <2>1, <2>2
<1>4. \A d \in Docs : StatusTells(d)'
  BY UntouchedTells DEF FlightInv
<1>5. QED
  BY <1>1, <1>2, <1>3, <1>4 DEF FlightInv

LEMMA RowMoves ==
  ASSUME FlightInv, TypeOK', NEW d \in Docs, UNCHANGED runVars,
         \A e \in Docs \ {d} : SameRow(e), StatusTells(d)',
         \A r \in Runs : target[r] = d => RunFits(r)'
  PROVE  FlightInv'
<1>1. SingleFlight' /\ target' = target /\ \A r \in Runs : SameRun(r)
  BY DEF FlightInv, SingleFlight, runVars, SameRun
<1>2. ASSUME NEW r \in Runs PROVE RunFits(r)'
  <2>1. target[r] \in Docs
    BY DEF FlightInv, TypeOK
  <2>2. QED
    BY <1>1, <2>1, UntouchedFits DEF FlightInv
<1>3. \A e \in Docs : StatusTells(e)'
  BY UntouchedTells DEF FlightInv
<1>4. QED
  BY <1>1, <1>2, <1>3 DEF FlightInv

-----------------------------------------------------------------------------
(* The requests and the sweep.                                             *)

\* An upload or a retry finds no run of the document active.
LEMMA FlightStarts ==
  ASSUME OneAtATime, FlightInv, TypeOK', NEW d \in Docs, NEW t \in Tasks, Upload(d, t) \/ Retry(d, t)
  PROVE  FlightInv'
<1>1. /\ t \in Runs /\ target[t] = d /\ target' = target /\ pc[t] = "unsent"
      /\ status[d] \in {"absent", "failed"} /\ chunks' = chunks /\ attempts' = attempts /\ del' = del
      /\ status' = [status EXCEPT ![d] = "pending"] /\ error' = [error EXCEPT ![d] = "none"]
      /\ age' = [age EXCEPT ![d] = 0] /\ UNCHANGED <<retries, clock, seen>>
      /\ \E l \in {"queued", "done"} : pc' = [pc EXCEPT ![t] = l]
  BY DEF Upload, Retry, Claim, SetRow, Stamp, Publish, RunAt, Goto, delVars, Runs
<1>2. \A q \in Runs : pc[q] \in Active => target[q] # d
  BY <1>1 DEF FlightInv, RunFits, ShownWhileActive
<1>3. \A q \in Runs \ {t} : SameRun(q)
  BY <1>1 DEF SameRun, FlightInv, TypeOK
<1>4. \A e \in Docs \ {d} : SameRow(e)
  BY <1>1 DEF SameRow, FlightInv, TypeOK
<1>5. status'[d] = "pending" /\ error'[d] = "none" /\ chunks'[d] = {} /\ del'[d] = del[d]
  BY <1>1 DEF FlightInv, TypeOK, StatusTells
<1>6. pc'[t] \in {"queued", "done"} /\ retries'[t] = 0
  BY <1>1 DEF FlightInv, TypeOK, RunFits, FirstIfUnsent
<1>7. RunFits(t)'
  BY <1>1, <1>5, <1>6 DEF RunFits, ShownWhileActive, Fresh, ClockBounded, IsRetry, ReadIsCurrent,
     FirstIfUnsent, Live, Attempting
<1>8. StatusTells(d)'
  BY <1>1, <1>5 DEF StatusTells, Exists, Present, FlightInv
<1>9. QED
  BY <1>1, <1>2, <1>3, <1>4, <1>7, <1>8, RunMoves

LEMMA FlightRow ==
  ASSUME OneAtATime, FlightInv, TypeOK', NEW d \in Docs,
         \/ DeleteChunks(d) \/ DeleteCommit(d) \/ DeleteRollback(d) \/ UnlinkFile(d) \/ Reap(d)
  PROVE  FlightInv'
<1>1. /\ UNCHANGED runVars /\ UNCHANGED attempts
      /\ \A e \in Docs \ {d} : SameRow(e)
  BY DEF DeleteChunks, DeleteCommit, DeleteRollback, UnlinkFile, Reap, SetRow, Stamp, rowVars,
     delVars, runVars, SameRow, FlightInv, TypeOK
<1>2. CASE DeleteChunks(d) \/ DeleteRollback(d) \/ UnlinkFile(d)
  <2>1. /\ status'[d] = status[d] /\ error'[d] = error[d] /\ attempts'[d] = attempts[d]
        /\ age'[d] = age[d] /\ chunks'[d] = chunks[d]
        /\ del'[d] = "deleting" => Exists(d)
    BY <1>2 DEF DeleteChunks, DeleteRollback, UnlinkFile, rowVars, FlightInv, TypeOK
  <2>2. StatusTells(d)'
    BY <2>1 DEF FlightInv, StatusTells, Exists
  <2>3. ASSUME NEW r \in Runs, target[r] = d PROVE RunFits(r)'
    BY <1>1, <2>1, <2>3 DEF runVars, FlightInv, RunFits, ShownWhileActive, Fresh, ClockBounded,
       IsRetry, ReadIsCurrent, FirstIfUnsent
  <2>4. QED
    BY <1>1, <2>2, <2>3, RowMoves
<1>3. CASE DeleteCommit(d)
  <2>1. /\ status'[d] = "deleted" /\ error'[d] = error[d] /\ attempts'[d] = attempts[d]
        /\ age'[d] = age[d] /\ chunks'[d] = {} /\ del'[d] = "unlinking"
    BY <1>3 DEF DeleteCommit, Referenced, FlightInv, TypeOK
  <2>2. StatusTells(d)'
    BY <2>1 DEF StatusTells, Exists, Present
  <2>3. ASSUME NEW r \in Runs, target[r] = d PROVE RunFits(r)'
    BY <1>1, <2>1, <2>3 DEF runVars, FlightInv, RunFits, ShownWhileActive, Fresh, ClockBounded,
       IsRetry, ReadIsCurrent, FirstIfUnsent
  <2>4. QED
    BY <1>1, <2>2, <2>3, RowMoves
<1>4. CASE Reap(d)
  <2>1. /\ status[d] = "processing" /\ age[d] > ReapAfter
        /\ status'[d] = "failed" /\ error'[d] = "reaped" /\ chunks'[d] = chunks[d]
        /\ del'[d] = del[d]
    BY <1>4 DEF Reap, Stuck, SetRow, delVars, FlightInv, TypeOK
  <2>2. StatusTells(d)'
    BY <2>1 DEF FlightInv, StatusTells, Exists, Present
  <2>3. ASSUME NEW r \in Runs, target[r] = d PROVE pc[r] \notin Active
    <3>1. clock[r] \in Nat /\ age[d] \in Nat /\ retries[r] \in Nat
      BY DEF FlightInv, TypeOK
    <3>2. pc[r] \in Live => clock[r] <= TimeLimit
      BY DEF FlightInv, RunFits, ClockBounded
    <3>3. pc[r] = "queued" => clock[r] <= MaxQueueWait
      BY <2>1, <2>3, <3>1 DEF FlightInv, RunFits, ShownWhileActive, ClockBounded, IsRetry
    <3>4. pc[r] \in Active => age[d] <= TimeLimit + MaxQueueWait + clock[r]
      BY <2>1, <2>3 DEF FlightInv, RunFits, Fresh
    <3>5. pc[r] = "queued" => age[d] <= TimeLimit + clock[r]
      BY <2>1, <2>3 DEF FlightInv, RunFits, Fresh, Active
    <3>6. QED
      BY <2>1, <3>1, <3>2, <3>3, <3>4, <3>5 DEF OneAtATime, Active
  <2>4. ASSUME NEW r \in Runs, target[r] = d PROVE RunFits(r)'
    BY <1>1, <2>3, <2>4 DEF runVars, FlightInv, RunFits, ShownWhileActive, Fresh, ClockBounded,
       IsRetry, ReadIsCurrent, FirstIfUnsent, Active, Live, Attempting
  <2>5. QED
    BY <1>1, <2>2, <2>4, RowMoves
<1>5. QED
  BY <1>2, <1>3, <1>4

-----------------------------------------------------------------------------
(* The steps of a run.                                                     *)

\* Steps that leave the rows alone: the run moves on, or ends.
LEMMA FlightQuiet ==
  ASSUME OneAtATime, FlightInv, TypeOK', NEW r \in Runs,
         \/ StartTask(r) \/ Abandon(r) \/ Phase1Read(r) \/ Phase2Read(r) \/ DropOldChunks(r)
         \/ Return(r) \/ TransientFailure(r) \/ SoftLimit(r) \/ HardLimit(r) \/ Killed(r)
  PROVE  FlightInv'
<1>1. /\ target' = target /\ pc[r] \in Active
      /\ UNCHANGED <<status, error, attempts, age, chunks, del>>
  BY DEF StartTask, Abandon, Phase1Read, Phase2Read, DropOldChunks, Return, TransientFailure,
     Raise, SoftLimit, HardLimit, Killed, Dies, OneAtATime, rowVars, delVars, RunAt, Active, Live,
     Attempting
<1>2. \A q \in Runs \ {r} : SameRun(q)
  <2> USE DEF SameRun, FlightInv, TypeOK, Goto
  <2>1. CASE StartTask(r) \/ Abandon(r) \/ Phase1Read(r) \/ Phase2Read(r) \/ DropOldChunks(r)
             \/ Return(r)
    BY <2>1 DEF StartTask, Abandon, Phase1Read, Phase2Read, DropOldChunks, Return
  <2>2. CASE TransientFailure(r)
    BY <2>2 DEF TransientFailure, Raise
  <2>3. CASE SoftLimit(r) \/ HardLimit(r) \/ Killed(r)
    BY <2>3 DEF SoftLimit, HardLimit, Killed, Dies
  <2>4. QED
    BY <2>1, <2>2, <2>3
<1>3. \A q \in Runs \ {r} : pc[q] \in Active => target[q] # target[r]
  BY <1>1 DEF FlightInv, SingleFlight
<1>4. \A d \in Docs : SameRow(d)
  BY <1>1 DEF SameRow
<1>5. RunFits(r)'
  <2> DEFINE d == target[r]
  <2> USE DEF RunFits, ShownWhileActive, Fresh, ClockBounded, IsRetry, ReadIsCurrent,
     FirstIfUnsent, Active, Live, Attempting, Goto, RunAt
  <2>1. /\ RunFits(r) /\ d \in Docs /\ age[d] \in Nat /\ clock[r] \in Nat
        /\ retries[r] \in 0 .. MaxRetries /\ clock' \in [Runs -> Nat]
        /\ pc \in [Runs -> Pc] /\ retries \in [Runs -> 0 .. MaxRetries] /\ clock \in [Runs -> Nat]
        /\ seen \in [Runs -> Nat] /\ target'[r] = d
    BY <1>1 DEF FlightInv, TypeOK
  <2>2. CASE StartTask(r)
    BY <1>1, <2>1, <2>2 DEF StartTask
  <2>3. CASE Abandon(r) \/ Return(r)
    BY <1>1, <2>1, <2>3 DEF Abandon, Return
  <2>4. CASE Phase1Read(r)
    BY <1>1, <2>1, <2>4 DEF Phase1Read, Exists, Present
  <2>5. CASE Phase2Read(r) \/ DropOldChunks(r)
    BY <1>1, <2>1, <2>5 DEF Phase2Read, DropOldChunks
  <2>6. CASE TransientFailure(r)
    <3>1. pc[r] \in {"working", "replacing"} \/ (pc[r] = "entering" /\ ~Exists(d))
      BY <2>6 DEF TransientFailure, OneAtATime
    <3>2. /\ status[d] \in {"processing", "deleted"}
          /\ status[d] = "processing" => age[d] <= clock[r] /\ clock[r] <= TimeLimit
      <4>1. status[d] \in Status
        BY <2>1 DEF FlightInv, TypeOK
      <4>2. QED
        BY <2>1, <3>1, <4>1 DEF Exists, Status
    <3>3. \/ pc'[r] = "queued" /\ retries'[r] = retries[r] + 1 /\ clock'[r] = 0
          \/ pc'[r] = "done"
          \/ pc'[r] = "failing" /\ clock'[r] = clock[r]
      BY <2>1, <2>6 DEF TransientFailure, Raise
    <3>4. clock[r] <= TimeLimit
      BY <2>1, <3>1
    <3>5. status'[d] = status[d] /\ age'[d] = age[d]
      BY <1>1
    <3>6. QED
      BY <2>1, <3>2, <3>3, <3>4, <3>5
  <2>7. CASE SoftLimit(r)
    BY <1>1, <2>1, <2>7 DEF SoftLimit
  <2>8. CASE HardLimit(r) \/ Killed(r)
    BY <1>1, <2>1, <2>8 DEF HardLimit, Killed, Dies
  <2>9. QED
    BY <2>2, <2>3, <2>4, <2>5, <2>6, <2>7, <2>8
<1>6. StatusTells(target[r])'
  BY <1>1 DEF FlightInv, TypeOK, StatusTells, Exists
<1>7. QED
  BY <1>1, <1>2, <1>3, <1>4, <1>5, <1>6, RunMoves DEF FlightInv, TypeOK

\* Steps that write the row: phase 1, phase 2's end, and the failures.
LEMMA FlightWrites ==
  ASSUME OneAtATime, FlightInv, TypeOK', NEW r \in Runs,
         Phase1Write(r) \/ PermanentFailure(r) \/ Phase2Commit(r) \/ MarkFailed(r)
  PROVE  FlightInv'
<1> DEFINE d == target[r]
<1>1. /\ d \in Docs /\ target' = target /\ pc[r] \in Active /\ UNCHANGED <<del, retries, clock>>
      /\ \E l \in {"phase2", "done", "committed"} : pc' = [pc EXCEPT ![r] = l]
  BY DEF Phase1Write, PermanentFailure, Phase2Commit, MarkFailed, delVars, RunAt, Goto, Active, Live,
     Attempting, FlightInv, TypeOK
<1>2. \A q \in Runs \ {r} : SameRun(q)
  BY <1>1 DEF Phase1Write, PermanentFailure, Phase2Commit, MarkFailed, SameRun, FlightInv, TypeOK
<1>3. \A q \in Runs \ {r} : pc[q] \in Active => target[q] # d
  BY <1>1 DEF FlightInv, SingleFlight
<1>4. \A e \in Docs \ {d} : SameRow(e)
  <2> USE DEF SameRow, SetRow, Stamp, delVars, FlightInv, TypeOK
  <2>1. CASE Phase1Write(r) \/ PermanentFailure(r) \/ MarkFailed(r)
    BY <2>1 DEF Phase1Write, PermanentFailure, MarkFailed
  <2>2. CASE Phase2Commit(r)
    BY <2>2 DEF Phase2Commit
  <2>3. QED
    BY <2>1, <2>2
<1>5. RunFits(r) /\ StatusTells(d) /\ status[d] \in Status /\ clock[r] \in Nat
  BY <1>1 DEF FlightInv, TypeOK
<1>6. RunFits(r)' /\ StatusTells(d)'
  <2> USE DEF RunFits, ShownWhileActive, Fresh, ClockBounded, IsRetry, ReadIsCurrent,
     FirstIfUnsent, Active, Live, Attempting
  <2>1. CASE Phase1Write(r)
    <3>1. /\ status[d] \in {"pending", "processing"} /\ pc'[r] = "phase2" /\ pc[r] = "entering"
          /\ status'[d] = "processing" /\ error'[d] = "none" /\ age'[d] = 0 /\ chunks'[d] = chunks[d]
      BY <1>5, <2>1 DEF Phase1Write, SaveMatches, Exists, Present, SetRow, Stamp, RunAt, Goto,
         FlightInv, TypeOK
    <3>2. RunFits(r)'
      BY <1>1, <1>5, <3>1
    <3>3. StatusTells(d)'
      BY <1>1, <1>5, <3>1 DEF StatusTells, Exists, Present
    <3>4. QED
      BY <3>2, <3>3
  <2>2. CASE PermanentFailure(r)
    <3>1. /\ status[d] = "processing" /\ pc'[r] = "done"
          /\ status'[d] = "failed" /\ error'[d] = "failure" /\ chunks'[d] = chunks[d]
      BY <1>5, <2>2 DEF PermanentFailure, SaveMatches, Exists, Present, SetRow, RunAt, Goto,
         FlightInv, TypeOK
    <3>2. RunFits(r)'
      BY <3>1
    <3>3. StatusTells(d)'
      BY <1>1, <1>5, <3>1 DEF StatusTells, Exists, Present
    <3>4. QED
      BY <3>2, <3>3
  <2>3. CASE Phase2Commit(r)
    <3>1. /\ status[d] = "processing" /\ pc'[r] = "committed" /\ pc[r] = "replacing"
          /\ status'[d] = "ready" /\ error'[d] = error[d] /\ chunks'[d] # {}
      <4>1. PICK n \in 1 .. MaxPieces :
              chunks' = [chunks EXCEPT ![d] = (chunks[d] \ snap[r]) \cup ChunkSet(<<r, retries[r]>>, n)]
        BY <2>3 DEF Phase2Commit, Pieces
      <4>2. [by |-> <<r, retries[r]>>, index |-> 0] \in ChunkSet(<<r, retries[r]>>, n)
        BY DEF ChunkSet
      <4>3. chunks'[d] # {}
        BY <1>1, <4>1, <4>2 DEF FlightInv, TypeOK
      <4>4. /\ pc[r] = "replacing" /\ Exists(d) /\ error' = [error EXCEPT ![d] = error[d]]
            /\ status' = [status EXCEPT ![d] = "ready"] /\ pc' = [pc EXCEPT ![r] = "committed"]
        BY <2>3 DEF Phase2Commit, SaveMatches, SetRow, RunAt, Goto
      <4>5. status[d] = "processing"
        BY <1>5, <4>4 DEF Exists, Present
      <4>6. QED
        BY <1>1, <4>3, <4>4, <4>5 DEF FlightInv, TypeOK
    <3>2. RunFits(r)'
      BY <1>1, <1>5, <3>1
    <3>3. StatusTells(d)'
      BY <1>1, <1>5, <3>1 DEF StatusTells, Exists, Present
    <3>4. QED
      BY <3>2, <3>3
  <2>4. CASE MarkFailed(r)
    <3>1. /\ pc'[r] = "done" /\ chunks'[d] = chunks[d]
          /\ \/ /\ status[d] \in {"pending", "processing"}
                /\ status'[d] = "failed" /\ error'[d] = "failure"
             \/ status'[d] = status[d] /\ error'[d] = error[d]
      BY <1>5, <2>4 DEF MarkFailed, Markable, Exists, Present, SetRow, RunAt, Goto, FlightInv, TypeOK
    <3>2. RunFits(r)'
      BY <3>1
    <3>3. StatusTells(d)'
      BY <1>1, <1>5, <3>1 DEF StatusTells, Exists, Present
    <3>4. QED
      BY <3>2, <3>3
  <2>5. QED
    BY <2>1, <2>2, <2>3, <2>4
<1>7. QED
  BY <1>1, <1>2, <1>3, <1>4, <1>6, RunMoves

LEMMA FlightTick ==
  ASSUME OneAtATime, FlightInv, TypeOK', Tick
  PROVE  FlightInv'
<1>1. /\ UNCHANGED <<status, error, attempts, chunks, del, pc, target, retries, seen>>
      /\ Runs = Tasks
  BY DEF Tick, delVars, OneAtATime, Runs
<1>2. \A d \in Docs : age[d] \in Nat /\ age'[d] \in Nat /\ age'[d] <= age[d] + 1
  BY DEF Tick, Older, FlightInv, TypeOK
<1>3. \A r \in Runs : /\ clock[r] \in Nat
                      /\ pc[r] \in Live => clock[r] < TimeLimit
                      /\ IsRetry(r) => clock[r] < MaxQueueWait
                      /\ clock'[r] = IF Ticking(r) THEN clock[r] + 1 ELSE clock[r]
  BY <1>1 DEF Tick, FlightInv, TypeOK
<1>4. ASSUME NEW r \in Runs PROVE RunFits(r)'
  <2>1. /\ ShownWhileActive(r)' /\ ReadIsCurrent(r)' /\ FirstIfUnsent(r)'
    BY <1>1 DEF FlightInv, RunFits, ShownWhileActive, ReadIsCurrent, FirstIfUnsent
  <2>2. ClockBounded(r)'
    BY <1>1, <1>3 DEF ClockBounded, IsRetry, Ticking, FlightInv, RunFits
  <2>3. Fresh(r)'
    <3> SUFFICES ASSUME pc[r] \in Active, status[target[r]] = "processing"
                 PROVE  Fresh(r)'
      BY <1>1 DEF Fresh
    <3>1. Ticking(r)
      BY DEF Ticking, IsRetry, Active, FlightInv, RunFits, ShownWhileActive, TypeOK
    <3>2. target[r] \in Docs /\ clock'[r] = clock[r] + 1 /\ Fresh(r)
      BY <1>3, <3>1 DEF FlightInv, TypeOK, RunFits
    <3>3. QED
      BY <1>1, <1>2, <1>3, <3>2 DEF Fresh
  <2>4. QED
    BY <2>1, <2>2, <2>3 DEF RunFits
<1>5. SingleFlight' /\ \A d \in Docs : StatusTells(d)'
  BY <1>1 DEF FlightInv, SingleFlight, StatusTells, Exists
<1>6. QED
  BY <1>4, <1>5 DEF FlightInv

LEMMA FlightStep ==
  ASSUME OneAtATime, FlightInv, [Next]_vars
  PROVE  FlightInv'
<1>1. TypeOK'
  BY TypeStep DEF FlightInv
<1>2. ASSUME NEW d \in Docs, Request(d) \/ Reap(d) PROVE FlightInv'
  BY <1>1, <1>2, FlightStarts, FlightRow DEF Request
<1>3. ASSUME NEW r \in Runs, RunStep(r) PROVE FlightInv'
  <2>1. ~StartCommand(r) /\ ~MarkFailedErrors(r)
    BY DEF StartCommand, MarkFailedErrors, OneAtATime
  <2>2. QED
    BY <1>1, <1>3, <2>1, FlightQuiet, FlightWrites DEF RunStep
<1>4. ASSUME NEW t \in Tasks, NEW u \in Tasks PROVE ~Redeliver(t, u)
  BY DEF Redeliver, OneAtATime
<1>5. CASE UNCHANGED vars
  BY <1>1, <1>5 DEF vars, rowVars, delVars, runVars, FlightInv, SingleFlight, RunFits,
     ShownWhileActive, Fresh, ClockBounded, IsRetry, ReadIsCurrent, FirstIfUnsent, StatusTells, Exists
<1>6. QED
  BY <1>1, <1>2, <1>3, <1>4, <1>5, FlightTick DEF Next

LEMMA FlightInit == Init => FlightInv
<1> SUFFICES ASSUME Init PROVE FlightInv
  OBVIOUS
<1>1. TypeOK /\ SingleFlight
  BY TypeInit DEF Init, SingleFlight, Active, Live, Attempting
<1>2. ASSUME NEW r \in Runs PROVE RunFits(r)
  BY DEF Init, RunFits, ShownWhileActive, Fresh, ClockBounded, IsRetry, ReadIsCurrent,
     FirstIfUnsent, Active, Live, Attempting
<1>3. ASSUME NEW d \in Docs PROVE StatusTells(d)
  BY DEF Init, StatusTells, Exists, Present
<1>4. QED
  BY <1>1, <1>2, <1>3 DEF FlightInv

LEMMA FlightInvariant ==
  ASSUME OneAtATime
  PROVE  Spec => []FlightInv
BY FlightInit, FlightStep, PTL DEF Spec

(***************************************************************************)
(* At most one run of a document waits or executes, for every number of    *)
(* uploads and retries, every limit and every threshold with room for a    *)
(* retry's wait.                                                           *)
(***************************************************************************)
THEOREM RunsAreSingleFlight ==
  ASSUME OneAtATime
  PROVE  Spec => []SingleFlight
<1>1. FlightInv => SingleFlight
  BY DEF FlightInv
<1>2. QED
  BY <1>1, FlightInvariant, PTL

(***************************************************************************)
(* Then a document has an error only while it is FAILED, though phase 2    *)
(* does not clear it.                                                      *)
(***************************************************************************)
THEOREM ErrorMeansFailed ==
  ASSUME OneAtATime
  PROVE  Spec => []ErrorOnlyWhenFailed
<1>1. FlightInv => ErrorOnlyWhenFailed
  BY DEF FlightInv, StatusTells, ErrorOnlyWhenFailed
<1>2. QED
  BY <1>1, FlightInvariant, PTL

(***************************************************************************)
(* Then no failing task stomps a success: what ADR-0005 says of late and   *)
(* duplicate tasks holds exactly because there is none.                    *)
(***************************************************************************)
THEOREM SuccessIsNotStomped ==
  ASSUME OneAtATime
  PROVE  Spec => []NoSuccessStomped
<1>1. FlightInv => NoSuccessStomped
  BY DEF FlightInv, StatusTells, NoSuccessStomped
<1>2. QED
  BY <1>1, FlightInvariant, PTL

\* Only phase 1's write changes the count of a document, and only its run's.
LEMMA CountsItsAttempt ==
  ASSUME OneAtATime, FlightInv, [Next]_vars,
         NEW r \in Runs, pc[r] = "entering", pc'[r] = "phase2"
  PROVE  attempts'[target[r]] = attempts[target[r]] + 1
<1>1. Phase1Write(r)
  <2> USE DEF Goto, RunAt, FlightInv, TypeOK
  <2>1. ASSUME NEW d \in Docs, Request(d) \/ Reap(d) PROVE FALSE
    BY <2>1 DEF Request, Upload, Retry, Publish, DeleteChunks, DeleteCommit, DeleteRollback,
       UnlinkFile, Reap, runVars, Runs
  <2>2. ASSUME NEW q \in Runs, RunStep(q) PROVE q = r /\ Phase1Write(q)
    <3>1. CASE TransientFailure(q)
      BY <3>1 DEF TransientFailure, Raise
    <3>2. CASE ~TransientFailure(q)
      BY <2>2, <3>2 DEF RunStep, StartTask, StartCommand, Abandon, Phase1Read, Phase1Write,
         Phase2Read, PermanentFailure, DropOldChunks, Phase2Commit, Return, SoftLimit, MarkFailed,
         MarkFailedErrors, HardLimit, Killed, Dies
    <3>3. QED
      BY <3>1, <3>2
  <2>3. ~((\E t, u \in Tasks : Redeliver(t, u)) \/ Tick \/ UNCHANGED vars)
    BY DEF Redeliver, Tick, vars, runVars, Runs
  <2>4. QED
    BY <2>1, <2>2, <2>3 DEF Next
<1>2. attempts' = [attempts EXCEPT ![target[r]] = seen[r] + 1]
  BY <1>1 DEF Phase1Write, Tries
<1>3. seen[r] = attempts[target[r]]
  BY DEF FlightInv, RunFits, ReadIsCurrent
<1>4. QED
  BY <1>2, <1>3 DEF FlightInv, TypeOK

(***************************************************************************)
(* Then the attempt count, read in one transaction and written in another, *)
(* loses no attempt.                                                       *)
(***************************************************************************)
THEOREM AttemptsAreCounted ==
  ASSUME OneAtATime
  PROVE  Spec => EveryAttemptCounted
<1>1. FlightInv /\ [Next]_vars
        => [\A r \in Runs : pc[r] = "entering" /\ pc'[r] = "phase2"
              => attempts'[target[r]] = attempts[target[r]] + 1]_vars
  BY CountsItsAttempt
<1>2. QED
  BY <1>1, FlightInvariant, PTL DEF Spec, EveryAttemptCounted

-----------------------------------------------------------------------------
(***************************************************************************)
(* The status machine.  StatusTells gives the values the refinement maps:  *)
(* a reason is shown exactly in FAILED, passages are found exactly in      *)
(* READY, so a step that keeps StatusTells moves them as the status moves. *)
(***************************************************************************)
Reasons == [d \in Docs |-> Exists(d) /\ error[d] # "none"]
Found == [d \in Docs |-> chunks[d] # {}]

LEMMA ReasonsFollowStatus ==
  ASSUME \A d \in Docs : StatusTells(d)
  PROVE  /\ Reasons = [d \in Docs |-> status[d] = "failed"]
         /\ Found = [d \in Docs |-> status[d] = "ready"]
BY DEF StatusTells, Reasons, Found, Exists, Present

LEMMA MoveOfTheRow ==
  ASSUME FlightInv, FlightInv', NEW d \in Docs, NEW from, NEW to,
         status[d] \in from, status' = [status EXCEPT ![d] = to]
  PROVE  Lifecycle!Move(d, from, to)
<1>1. /\ Reasons = [e \in Docs |-> status[e] = "failed"]
      /\ Found = [e \in Docs |-> status[e] = "ready"]
  BY ReasonsFollowStatus DEF FlightInv
<1>2. /\ Reasons' = [e \in Docs |-> status'[e] = "failed"]
      /\ Found' = [e \in Docs |-> status'[e] = "ready"]
  BY DEF FlightInv, StatusTells, Reasons, Found, Exists, Present
<1>3. /\ Reasons' = [Reasons EXCEPT ![d] = to = "failed"]
      /\ Found' = [Found EXCEPT ![d] = to = "ready"]
  BY <1>1, <1>2 DEF FlightInv, TypeOK
<1>4. QED
  BY <1>3 DEF Lifecycle!Move, Reasons, Found

\* The steps that write no row show nothing.
LEMMA QuietSteps ==
  ASSUME FlightInv, UNCHANGED <<status, error, chunks>>
  PROVE  UNCHANGED Lifecycle!vars
BY DEF Lifecycle!vars, Exists

LEMMA EveryStepIsAMove ==
  ASSUME OneAtATime, FlightInv, [Next]_vars
  PROVE  [Lifecycle!Next]_(Lifecycle!vars)
<1>1. FlightInv'
  BY FlightStep
<1> USE DEF Lifecycle!Next, Lifecycle!Upload, Lifecycle!Attempt, Lifecycle!Succeed, Lifecycle!Fail,
            Lifecycle!Retry, Lifecycle!Delete
<1>2. ASSUME NEW d \in Docs, NEW t \in Tasks, Upload(d, t) \/ Retry(d, t)
      PROVE  Lifecycle!Next
  BY <1>1, <1>2, MoveOfTheRow DEF Upload, Retry, Claim, SetRow
<1>3. ASSUME NEW d \in Docs, DeleteCommit(d) \/ Reap(d) PROVE Lifecycle!Next
  <2>1. CASE DeleteCommit(d)
    <3>1. /\ status[d] \in {"pending", "processing", "ready", "failed"}
          /\ status' = [status EXCEPT ![d] = "deleted"]
      BY <2>1 DEF DeleteCommit, FlightInv, StatusTells, Exists, Present
    <3>2. \A from : status[d] \in from => Lifecycle!Move(d, from, "deleted")
      BY <1>1, <3>1, MoveOfTheRow
    <3>3. Lifecycle!Move(d, {"pending", "processing", "ready", "failed"}, "deleted")
      BY <3>1, <3>2
    <3>4. QED
      BY <3>3
  <2>2. CASE Reap(d)
    <3>1. status[d] \in {"pending", "processing"} /\ status' = [status EXCEPT ![d] = "failed"]
      BY <2>2 DEF Reap, Stuck, SetRow
    <3>2. \A from : status[d] \in from => Lifecycle!Move(d, from, "failed")
      BY <1>1, <3>1, MoveOfTheRow
    <3>3. Lifecycle!Move(d, {"pending", "processing"}, "failed")
      BY <3>1, <3>2
    <3>4. QED
      BY <3>3
  <2>3. QED
    BY <1>3, <2>1, <2>2
<1>4. ASSUME NEW d \in Docs, DeleteChunks(d) \/ DeleteRollback(d) \/ UnlinkFile(d)
      PROVE  UNCHANGED Lifecycle!vars
  BY <1>4, QuietSteps DEF DeleteChunks, DeleteRollback, UnlinkFile, rowVars
<1>5. ASSUME NEW r \in Runs, Phase1Write(r) \/ PermanentFailure(r) \/ Phase2Commit(r)
      PROVE  Lifecycle!Next
  <2> DEFINE d == target[r]
  <2>1. /\ d \in Docs /\ status[d] \in Present /\ ShownWhileActive(r)
    BY <1>5 DEF Phase1Write, PermanentFailure, Phase2Commit, SaveMatches, Exists, FlightInv, TypeOK,
       RunFits
  <2>2. CASE Phase1Write(r)
    <3>1. status[d] \in {"pending", "processing"} /\ status' = [status EXCEPT ![d] = "processing"]
      BY <2>1, <2>2 DEF Phase1Write, SetRow, RunAt, ShownWhileActive, Present, Active, Live
    <3>2. \A from : status[d] \in from => Lifecycle!Move(d, from, "processing")
      BY <1>1, <2>1, <3>1, MoveOfTheRow
    <3>3. Lifecycle!Move(d, {"pending", "processing"}, "processing")
      BY <3>1, <3>2
    <3>4. QED
      BY <2>1, <3>3
  <2>3. CASE PermanentFailure(r)
    <3>1. status[d] \in {"pending", "processing"} /\ status' = [status EXCEPT ![d] = "failed"]
      BY <2>1, <2>3 DEF PermanentFailure, SetRow, RunAt, ShownWhileActive, Present
    <3>2. \A from : status[d] \in from => Lifecycle!Move(d, from, "failed")
      BY <1>1, <2>1, <3>1, MoveOfTheRow
    <3>3. Lifecycle!Move(d, {"pending", "processing"}, "failed")
      BY <3>1, <3>2
    <3>4. QED
      BY <2>1, <3>3
  <2>4. CASE Phase2Commit(r)
    <3>1. status[d] \in {"processing"} /\ status' = [status EXCEPT ![d] = "ready"]
      BY <2>1, <2>4 DEF Phase2Commit, SetRow, RunAt, ShownWhileActive, Present
    <3>2. \A from : status[d] \in from => Lifecycle!Move(d, from, "ready")
      BY <1>1, <2>1, <3>1, MoveOfTheRow
    <3>3. Lifecycle!Move(d, {"processing"}, "ready")
      BY <3>1, <3>2
    <3>4. QED
      BY <2>1, <3>3
  <2>5. QED
    BY <1>5, <2>2, <2>3, <2>4
<1>6. ASSUME NEW r \in Runs, MarkFailed(r) PROVE [Lifecycle!Next]_(Lifecycle!vars)
  <2> DEFINE d == target[r]
  <2>0. d \in Docs
    BY DEF FlightInv, TypeOK
  <2>1. CASE Markable(d)
    <3>1. status[d] \in {"pending", "processing"} /\ status' = [status EXCEPT ![d] = "failed"]
      BY <1>6, <2>1 DEF MarkFailed, Markable, SetRow, FlightInv, RunFits, ShownWhileActive, Exists,
         Present, Active, Live
    <3>2. \A from : status[d] \in from => Lifecycle!Move(d, from, "failed")
      BY <1>1, <2>0, <3>1, MoveOfTheRow
    <3>3. Lifecycle!Move(d, {"pending", "processing"}, "failed")
      BY <3>1, <3>2
    <3>4. QED
      BY <2>0, <3>3
  <2>2. CASE ~Markable(d)
    BY <1>6, <2>2, QuietSteps DEF MarkFailed
  <2>3. QED
    BY <2>1, <2>2
<1>7. ASSUME NEW r \in Runs, RunStep(r) PROVE [Lifecycle!Next]_(Lifecycle!vars)
  <2>1. CASE StartTask(r) \/ StartCommand(r) \/ Abandon(r) \/ Phase1Read(r) \/ Phase2Read(r)
             \/ DropOldChunks(r) \/ Return(r) \/ TransientFailure(r) \/ SoftLimit(r)
             \/ MarkFailedErrors(r) \/ HardLimit(r) \/ Killed(r)
    <3>1. UNCHANGED <<status, error, chunks>>
      BY <2>1 DEF StartTask, StartCommand, Abandon, Phase1Read, Phase2Read, DropOldChunks, Return,
         TransientFailure, Raise, SoftLimit, MarkFailedErrors, HardLimit, Killed, Dies, rowVars
    <3>2. QED
      BY <3>1, QuietSteps
  <2>2. QED
    BY <1>5, <1>6, <1>7, <2>1 DEF RunStep
<1>8. CASE Tick \/ (\E t, u \in Tasks : Redeliver(t, u)) \/ UNCHANGED vars
  BY <1>8, QuietSteps DEF Tick, Redeliver, vars, rowVars
<1>9. QED
  BY <1>2, <1>3, <1>4, <1>7, <1>8 DEF Next, Request

(***************************************************************************)
(* The database, the workers and the sweep implement the status machine:   *)
(* whatever the interleaving, what the API shows of a document moves only  *)
(* along the arrows of ADR-0005, with a reason exactly in FAILED and       *)
(* passages exactly in READY.                                              *)
(***************************************************************************)
THEOREM PipelineImplementsLifecycle ==
  ASSUME OneAtATime
  PROVE  Spec => ImplementsLifecycle
<1>1. Init => Lifecycle!Init
  BY DEF Init, Lifecycle!Init, Exists, Present
<1>2. FlightInv /\ [Next]_vars => [Lifecycle!Next]_(Lifecycle!vars)
  BY EveryStepIsAMove
<1>3. QED
  BY <1>1, <1>2, FlightInvariant, PTL DEF Spec, Lifecycle!Spec, ImplementsLifecycle
=============================================================================
