# TenantIQ: models and proofs

TLA+ models of TenantIQ, a multi-tenant document question-answering service:
a Django API with Celery workers over Postgres and Redis (`src/backend`), and a
Next.js frontend that keeps the tokens on its server side (`src/frontend`).
TLC checks the models on small instances; for the ingestion pipeline, the session, the queries,
the tenants, the answers, the documents screen and the evaluation, TLAPS
proves what the runs check for every value of the constants, liveness excepted.

## Inventory of the system

| Component | State | Operations | Module |
|---|---|---|---|
| Ingestion worker (`ingestion.py`, `tasks.py`) | the Document row, Chunk rows; the task message and its retry count | phase 1 (PENDING → PROCESSING), the work, phase 2 (chunks and READY), permanent and transient failures, retries, soft and hard limits, `on_failure` | `Ingestion` |
| Sweep (`reap_stuck_documents`, `checks.py`, beat schedule) | the age of a PROCESSING row | fail rows older than the threshold; system check E001 | `Ingestion` |
| Document requests (`views.py`) | Document, Chunk rows, the file | upload, retry, delete, each with its `on_commit` hook | `Ingestion` |
| Re-ingestion command | — | `run_ingestion` outside Celery | `Ingestion` |
| BFF session, refresh, proxy (`session.ts`, `session-refresh.ts`, `app/api/[...path]/route.ts`) | session cookie, records in the memory of the Next process | find, patch, drop and sweep records; refresh; forward; end the session on a 401 | `BffSession` |
| Sign-in, sign-out, OIDC client (`app/api/auth/*`, `oidc.ts`) | transaction cookie | start, callback, exchange, sign-out | `BffSession` |
| Token verification (`auth/verifier.py`, `auth/authentication.py`) | cached signing keys | accept or refuse a token | `BffSession`, `Tenancy` |
| Query endpoint, throttles and quotas (`views.py`, `throttling.py`) | counters in the Redis cache, the usage rows | gate, record, retrieve, stream, charge | `Query` |
| Tenant isolation (`tenant_context.py`, `middleware.py`, row-level security) | a context variable per thread, a setting per transaction | activate, clear, filter | `Tenancy` |
| Request logging (`log_context.py`, `middleware.py`) | the fields of the running work | enter, carry on a message, restore | `Tenancy` |
| Retrieval, prompts, citations (`retrieval.py`, `rag.py`, `generation.py`, backfill) | chunks and their vectors | search, number the sources, stream, resolve, open; embed again | `Answers`, `Citations` |
| Chunking, parsing, fencing, embedding (`chunking.py`, `parsing.py`, `guardrails.py`, `embeddings.py`) | — | text in, pieces, fenced sources and vectors out | `Chunking`, `Fence`, `Embedding` |
| Usage summary and daily series (`usage.py`, `views.py`) | — | prices, rows, ranges of days | `UsageReport` |
| Evaluation harness (`app/eval`) | a scratch tenant and its files | ingest, score, judge, report, clean up | `Scoring`, `Evaluation` |
| Documents screen (`DocumentsScreen.tsx`, `DocumentUpload.tsx`, `documents.ts`) | rows, one chain of polls, the row being deleted | poll, upload, delete, try again | `DocumentsScreen` |
| Ask screen, dashboards, UI primitives, migrations, deployment | — | presentation, configuration | not modelled |

What makes the parts hard, and what correct means for each:

* **Ingestion.** Runs of one document overlap (a late retry and the tenant's own
  retry, a redelivered message, the operator's command), each over two
  transactions at READ COMMITTED, while the document is deleted, reaped or
  retried, and processes die at any point. Correct: a document's chunks are
  always one whole set of one attempt; READY means searchable; no chunk
  outlives its document; a listed document has its file; deletion is final;
  PROCESSING ends; the sweep spares live attempts; and, while queue waits fit the
  threshold, runs do not overlap and the row moves only as ADR-0005 draws it.
* **Session.** Every `await` is a point where another tab, refresh or sign-out
  runs. One cookie name is shared by all tabs; cookies arrive later than the
  answer that sets them. Correct: an ended session is not revived by a refresh
  under way; a session ends only for a definite reason and never because
  something was unreachable; no PKCE verifier outlives its attempt.
* **Queries.** The gate and the record of a quota are apart, the window can roll
  over between them, the cache fails open, and a stream ends in six ways.
  Correct: bounded overshoot, nobody denied for what was not used, and each
  answer charged exactly if the model produced its text.
* **Tenants.** Threads are reused, contexts nest, hooks and streams outlive the
  view, and two layers (Python and Postgres) each hold a tenant. Correct: each
  layer alone scopes every access; nothing is left behind; lines name their work.
* **Answers.** The corpus is ingested again, deleted and embedded again under an
  answer. Correct: a citation opens its own passage or none; a search never
  compares vectors of two models.
* **Algorithms.** Boundaries, batches and day ranges. Correct: what a definition
  without steps says.
* **Evaluation.** Files obey no transaction, runs die, models and judges fail in
  part. Correct: nothing is left behind that a later run would measure, and a
  report and an exit status follow from this run.
* **Documents screen.** Polls outlive what asked for them, and React runs the
  effect again only after it was asked to. Correct: never silently out of date;
  a deleted row does not come back.

`PROJECT.json` lists all components and, under `hazards`, each such place at its line.

## Modules

| Module | What it is |
|---|---|
| `Ingestion` | the pipeline: requests, runs, failures, sweep, clock |
| `DocumentLifecycle` | the abstract status machine that the owner of a document sees |
| `IngestionLifecycle` | the refinement mapping from `Ingestion` to `DocumentLifecycle` |
| `IngestionProofs` | types; the sweep spares live attempts; the document and its chunks; what holds while runs do not overlap, and the refinement |
| `BffSession` | sign-in, sessions, refresh and proxy, provider and clock |
| `BffSessionProofs` | the session theorems |
| `Query` | the throttles, quotas, stream and charge of one tenant's queries |
| `Tenancy` | threads, contexts, transactions and log fields |
| `Answers`, on `Citations` | corpus, search, stream and citations; the resolution of markers |
| `Chunking`, `Fence`, `Embedding`, `UsageReport` | pure algorithms as functions |
| `Algorithms` | builds their inputs step by step and states what their results must be |
| `Evaluation`, on `Scoring` | runs of the harness; metrics, claims, verdicts, report and failures as functions |
| `DocumentsScreen` | the list of documents and its polls |
| `AlgorithmsProofs` | what the pure algorithms compute, for inputs of every length |
| `QueryProofs`, `TenancyProofs`, `AnswersProofs`, `EvaluationProofs`, `DocumentsScreenProofs` | the theorems of each |
| `MC*` | the TLC instance of each: symmetry, and the values of constants a cfg cannot write |

### Ingestion

A step is one transaction, or the part of one up to a read whose result is used
later in it. `run_ingestion` becomes `Phase1Read`, `Phase1Write`, `Phase2Read`,
then `PermanentFailure`, `TransientFailure` or `DropOldChunks`, `Phase2Commit`
and `Return`. What parsing, redaction, chunking and embedding compute is
abstracted to success with 1 to `MaxPieces` chunks, a permanent failure (a `PERMANENT_FAILURES`
exception) or a transient one. `phase 2`'s delete and insert are two steps
because the delete statement sees only what is committed when it runs: a
concurrent run's chunks stay, and then the unique `(document, index)` constraint
(`Unique`) refuses the insert. `document.delete()` is split the same way, and the foreign key
(`Referenced`) refuses its commit.

Celery is modelled from how the code uses it: a message is acknowledged when the
task starts (`StartTask`), `autoretry_for` publishes it again until `MaxRetries`
(`Raise`), the soft limit raises inside the task (`SoftLimit`: inside the work
it is one of `PERMANENT_FAILURES`), the hard limit kills the
process (`HardLimit`) and `on_failure` marks the row (`MarkFailed`). `Reap` fails
one stuck row; a row locked by somebody else is skipped, which is `Reap` not
taken. Time is relative: `age[d]` is now minus `updated_at`, saturating
one above the threshold, and `clock[r]` is how long a run has executed or its
retry has waited.

| Constant | Setting |
|---|---|
| `SoftTimeLimit`, `TimeLimit`, `ReapAfter` | `TENANTIQ_INGEST_SOFT_TIME_LIMIT`, `_TIME_LIMIT`, `_REAP_AFTER_SECONDS` |
| `MaxRetries` | `max_retries` of the task |
| `MaxQueueWait` | the longest backoff and wait for a worker; the code does not bound it |
| `MaxPieces` | bound: chunks per document |
| `Faults` | which kinds of fault happen: `publish`, `redeliver`, `worker`, `database`, `storage` |

`TimingAssumption` contains the system check: `manage.py check` refuses
`ReapAfter < 2 * TimeLimit` (`RefusedByCheck`).

`DocumentLifecycle` has three variables: the status, whether a failure reason
is shown and whether passages can be searched. `IngestionLifecycle` maps `reason` to a
non-empty `error` of an existing row and `searchable` to a non-empty chunk set.

### BffSession

A step is what a handler runs between two awaits. A cookie is attached when a
request leaves the browser and written when its response arrives. One attempt
`l` stands for a sign-in with its state and verifier, its grant at the provider
and the session id minted for it.

| Code | Actions |
|---|---|
| `auth/login` | `StartLogin` |
| `auth/callback` | `Callback` (up to the exchange), `Exchange`, `ExchangeFails`, `LandLogin` (the response arrives) |
| `auth/logout` | `SignOut`, `NoSession` |
| the proxy and `page.tsx` | `Send`, `NoSession`, `Admit`, `RefreshUnavailable`, `UpstreamDown`, `Relay`, `Receive` |
| `ensureFreshSession` | `Admit` (before its await), `Renew`, `RefreshFailed` (after it) |
| `postToTokenEndpoint` | `Grants`, `Rejects`, `Unreachable` |
| `verifier.py` | `Verify` |
| `session.ts` | `Found`, `Swept`, `Patch`, `Drop`, `NeedsRefresh`, `Outlive`, `ForgetTx`, `ForgetSession` |

The provider is modelled from what the client relies on: it issues numbered
tokens for a grant, honours a refresh token while the grant is active and, with
`Rotation`, only the last one. `docs/devlog.md:665` counts on Keycloak's default,
no rotation, so the runs use `Rotation = FALSE`. `Faults` selects `unreachable`,
`lost` (granted, but the answer does not arrive), `truncated` (the answer breaks
off after its status line), `upstream`, `denied` and `keys`.

Timing assumption in the module: the refresh skew (30 s) and Django's leeway
(60 s) are 90 seconds together, and a proxy call that found its token fresh, or
has just renewed it, reaches Django sooner (`Carries`, used by `Expire`). Without it a request
could stall until its token runs out and the 401 would end the session.

### Query

A step is one command to the cache or one exchange with the client. `Gate` is a
throttle's `allow_request` (it only reads), `Recording` the charge in
`QueryView.post`: `Seed` is `cache.add` of a window's counter, `Bump` its
`incr`, each its own command; `Skip` and the `cache` fault are the fail-open branches.
`Retrieve`, `Emit`, `EndAnswer`, `Disconnect` and `Close` are the generator of
`_stream_and_account` with its `finally`. A counter is keyed by period and stamp and
expires a minute past its window (`Expire`, external), so never in it. The burst
rate is the framework's sliding window and is a choice (`Arrive`).

### Tenancy

`conn[t]` is the stack of a connection's settings, the session's at the bottom and one
per transaction or savepoint: `set_config(..., true)` writes the top (`SetLocal`), a
released savepoint hands its value down (`Closed`), a rollback drops it.
`ByManager`, `ByPolicy` and `SavedFor` are the rows that each layer lets through and the
tenant a saved row lands in. A web thread goes from `Begin` through the view, its
`on_commit` hooks, `ClearTenant`, the stream's frames and its close; a worker through
`StartTask`, `StartSweep` or `StartEvaluation`, contexts (`Enter`, `Exit`), `Retry` and
`EndWork`. With `Nests = TRUE` a context may be entered inside another tenant's: TLC then
finds that after it the setting stays the inner tenant's while the variable is
restored, so `ActsForItsTenant` fails. No production code nests two tenants, and the runs use `FALSE`.

### Answers and Citations

`Ingest` replaces a document's rows by rows with new keys, `StartBackfill` reads the
chunks of another model and `WriteBackfill` writes vectors by key, `Ask` is one search
over the chunks of the configured model. The text of an answer is the sequence of the
numbers it mentions, and `Finish` resolves them (`Resolve`). A local model's connection that
ends early looks like the end of the text, so `Finish` stands for both.

### Algorithms

`Chunking` (extraction limits, `_boundary_cut`, `_next_start`, `chunk_text`), `Fence`
(`neutralize_untrusted_text`, `fence_source`), `Embedding` (both backends' calls, batches,
validation) and `UsageReport` (prices, ranges, daily rows, both views) translate their
functions; `Algorithms` builds an input one element at a time, so every input up to the bounds is a
state, and each invariant compares the function with a definition without steps. A
character is a symbol of a four-letter alphabet, a text to embed a number, an instant a tick of a day; `ChangeType`
makes the file one that is not read at all. The hosted provider may send any vectors in any order, one twice, one of no
input, too many, too few or none (`Entries`), or refuse (`Refusals`: no answer, and the statuses at the boundaries of what a refusal means); the
local server answers in order, at worst short or with one too many. The code checks only how many vectors came, the hosted
provider's of each batch and the local server's in total: a reply that repeats an index in place of another, or local batches one
short and one too long, pass with a text that has another's vector. `EveryTextItsVector` therefore promises a text its own
vector only where the indexes of each reply are distinct and of its batch, and states of a failure what decides it and
whether `PermanentFailures` of `ingestion.py` fails the document at once. The local server's refusals are always retried, its 400
for a text that is too long as well.

### Scoring and Evaluation

Everything between `CreateTenant` and the tenant's removal is one transaction (`work`),
while `files` obey none; `Kill` strikes at any step and `run` counts the runs, so a run meets what an
earlier one left. `Score`, `ScoreOutside`, `JudgeFails`, `JudgeRefusal` and `JudgeAnswer` each handle one
question; `aborted` is a database error that the judging loop swallows. `DropFails` is the storage or the database
failing while the tenant is dropped, before a run or in its `finally`, where the exception replaces what the run
returned or raised: Python exits with 1, and what was not dropped waits for the next run. `CreateFails` and `Fail` are the
other exceptions that nothing catches. `Scoring` holds
the metrics as pairs of numbers, claims, verdicts (`CoerceVerdicts`), the report and the failures
that decide the exit status. `Kept` is `SelectSeq` said by position, and sums are folds of a sequence of numbers,
so that both can be proved about. A dataset without a question of the corpus is measured too (`CheckIngested` goes on to the
questions outside it); its means are 0, as `mean` has it, so that the bound on recall speaks of the others.

### DocumentsScreen

A step is a handler or a continuation. `generation` is the state that a handler bumps, `effect`
the one the effect last ran for; `RunEffect` stops the old chain (`Cleanup`) and starts
one with a poll. A poll is read at the server (`PollAnswered`), and lands later (`ShowList`,
`ShowFailure`). `DeleteDone` filters the row and bumps. PENDING and PROCESSING are "in flight", READY
and FAILED "settled", which is all that `isInFlight` tells apart; other clients retry and delete (`ServerMoves`).

### Variants

A definition whose comment starts with "Variant:" is the definition after it
with a plausible mistake: a dropped guard, a missing constraint, a wrong field
list. No specification uses one. `PROJECT.json` pairs each property with a
variant that TLC finds to break it, which shows that the property depends on that line of the code.

## Runs

| Run | Configuration | Shows |
|---|---|---|
| `ingestion_overlap` | 1 document, 2 tasks, 1 command, every fault, no retries | overlapping runs, deletion, reaping and crashes never mix or orphan chunks; READY is searchable; a listed document has its file; deletion is final |
| `ingestion_single_flight` | 1 document, 3 tasks, 1 retry each, `TimeLimit` 2, `MaxQueueWait` 1, `ReapAfter` 5 | with `2 * TimeLimit + MaxQueueWait <= ReapAfter` runs never overlap, attempts are counted, reasons are shown only while FAILED, and the pipeline implements `DocumentLifecycle` |
| `ingestion_liveness` | 1 document, 2 tasks, 1 retry, retries that wait longer than the threshold, `FairSpec` | PROCESSING ends; the sweep never meets an attempt past phase 1 |
| `session` | 2 attempts, 2 requests, 1 refresh per grant, `unreachable`, `lost`, `upstream` | ended sessions stay ended, sessions end only for a reason, verifiers do not outlive attempts |
| `query` | 2 workers, 3 queries, a daily quota of 1 and a monthly one of 2, 3 days of two months, 1 cache outage, every fault | a window is overrun by at most the other workers and the outages; counters keep what was recorded in their window; only a used quota denies; every answer of the model is charged once |
| `tenancy` | 1 web thread, 2 workers, 2 tenants, 3 requests | each layer alone scopes every access; nothing is left; lines name their work |
| `answers` | 2 documents of one chunk, ingested twice, 2 models, 1 question, 2 mentions | citations open their passage or nothing; a search stays in one vector space |
| `algorithms` | texts of 8 characters in up to 3 pages, targets of 1 and 2 tokens and overlaps of 0 to 2; passages of 5 symbols; 3 texts in batches of 1 to 3, each reply of up to one vector too many; 2 usage rows over 4 days; answers of 7 pieces | every character is chunked within the limits; a source cannot close its fence or write `<<SYS>>` or `[INST]`; every text gets its own vector, or the error that the first bad reply calls for; the daily series agrees with the summary; citations are the mentions |
| `evaluation` | 2 runs, 2 documents, 2 questions of the corpus and 1 outside it, 2 sentences per answer | a clean-up that gets through leaves no tenant, and what another leaves the next run can drop, rolled back files excepted; a report follows from its own run; the exit status tells the outcome |
| `documents_screen` | 2 documents, 2 deletions, 3 runs of the effect, 3 failures in a row | the screen is never silently out of date; a removed row stays removed |
| `stomped_success`, `chunk_fragments` | as below | the findings below |

The bounds. *Ingestion*: the hazards are about one document's row and chunks, and
nothing couples documents, so one document is enough; they need two runs in
flight, and a third party (the command, or a third task after two retries of the
document) that commits in between. Two pieces per document give sets that overlap in part.
`TimeLimit` 1 or 2 is enough because only the order of limit, wait and
threshold matters; `ReapAfter` is the least value that the system check allows, or the least
that also covers a wait. *Session*: two attempts with two requests give concurrent
refreshes of one session, a sign-out during a refresh, and a callback that meets
another tab's transaction; one refresh per grant gives a stale and a current
token, and a provider that does not rotate goes on issuing the last one.
*Query*: two workers pass one gate together, three queries use up a quota and are denied,
two days end a daily window inside a month and three end the month. *Tenancy*: a thread is
reused by both tenants and a task runs beside the request that queued it; three requests leave one after a retry. *Answers*: a document is
replaced once under an answer and another stays. *Algorithms*: eight characters hold three chunks with
overlaps and a page break; three batches of one text, or two batches of two and one, let a bad reply follow a good one and come before another bad one.
*Evaluation*: the second run meets the first one's remains; the similarities lie on both sides of the floor, and those outside
the corpus at it as well (a passage of the corpus exactly at the floor is left to the proof). *Documents screen*: two deletions overlap, one with a poll of the chain before it and one of the chain after it.
Symmetry is used only in runs without liveness. Deadlock is checked in the ingestion and
session runs; in the others the inputs are bounded and the system stops when they are used up (an idle
documents screen asks for nothing).

Fairness (`Ingestion!Fairness`) is weak fairness of a worker taking a queued
message, of the hard limit (the pool enforces it), of `Reap` (beat sends the sweep
every period and it commits per document) and of the clock. Nothing is assumed of the work, of the
requests or of the command: a task that hangs is ended by the hard limit, and
a killed one by the sweep. No other module states liveness.

### Findings

Each is a run in which TLC finds the statement of a comment or an ADR violated.

* `stomped_success`: a late run's permanent failure sets FAILED a document that
  another run made READY; ADR-0005 says a late or duplicate failing task cannot.
  The guard is in `mark_ingestion_failed` only, not in the save of
  `run_ingestion`. It takes a retry that waits past the threshold.
* `chunk_fragments`: the overlap looks for a space only and starts at the earliest one character
  after the chunk, so a heading shorter than the overlap is stored as "ompany", "mpany" and
  so on, one chunk each; `chunking.py` says that repeated context begins on a whole word.

Other places where the code and its text differ, which the models show with other constants
or leave to a choice, and no run reports:

* Ingestion: phase 2 does not write `error`, so a reason written meanwhile stays on a
  READY document when runs overlap (`models.py` says empty otherwise); `attempts` is read, incremented and
  written without a lock; a worker killed before phase 1 commits leaves a PENDING
  document that no message, sweep or retry will serve. `ErrorOnlyWhenFailed` and
  `EveryAttemptCounted` hold in `ingestion_single_flight` because runs do not overlap there.
* Session, each by adding the fault to `BffSession.cfg`: a token answer that breaks off after its 200 counts as
  a rejection and ends the session (`truncated`; `session-refresh.ts:51` says an unreachable provider must not); while
  Django cannot fetch the signing keys it answers 401 and the proxy ends the session (`keys`); a sign-in that
  the provider answers with an error leaves its transaction cookie for ten minutes (`denied`). With
  `Rotation` the second of two concurrent refreshes ends the session that the first renewed.
* Query: a retrieval that fails has already taken its unit, though the throttle's docstring speaks of requests "it actually serves".
* Answers: a local model's stream without its done line is taken for a whole answer. `worst_case_prompt_tokens`
  leaves the length of the question out.
* Algorithms: "<|" becomes "<| " and "|>" becomes " |>", so both are still in a neutralized passage, though `guardrails.py:88-89` says
  of its tokens that the exact one no longer appears; of the other four it is so (`FenceIsItsOwn`). A PDF's limit counts one newline more than its text has; a reply with a repeated index passes, though
  `embeddings.py` speaks of refusing "a partial or mismatched set" where it counts.
* Evaluation: every run that raises or is killed after storing a file leaves it, and nothing
  cleans it up (`NothingLeftBehind` says of which runs); a clean-up that itself fails leaves the tenant until the next run, although
  `evaluate` "cleans up the scratch tenant either way"; an outage of the embedder ends with a traceback
  and status 1, not 2; a database error swallowed while judging aborts the transaction, whose commit then
  rolls back in silence; the verdict on the floor says "refuses nothing" or that it refuses answerable questions also where
  a floor lies between two scores outside the corpus or equals the worst score inside it.
* Documents screen: a poll answered before a deletion may show the row again until the effect
  runs; a poll that succeeds clears the message of a deletion that failed; the end of one deletion closes the
  confirmation of another row. Ask screen: an answer that ends in an error frame is also announced as
  "Answer complete", against the comment there that a failure is not announced.

## Theorems

| Theorem | Assumes | Argument |
|---|---|---|
| `IngestionProofs!TypeCorrect` | — | `TypeOK` is inductive |
| `IngestionProofs!SweepSparesLiveAttempts` | the system check | `AttemptAges` |
| `IngestionProofs!DeleteMeansGone`, `ReadyMeansSearchable`, `ListedMeansStored` | — | `DocumentInv` |
| `IngestionProofs!DeletedStaysDeleted` | — | `WritesMatchTheRow` |
| `IngestionProofs!ChunksAreOneAttempts` | — | `WholeInv` |
| `IngestionProofs!RunsAreSingleFlight`, `ErrorMeansFailed`, `SuccessIsNotStomped`, `AttemptsAreCounted`, `PipelineImplementsLifecycle` | `OneAtATime` | `FlightInv` |
| `BffSessionProofs!SessionTypeCorrect`, `EndedSessionsStayEnded` | — | `SessionInv` |
| `BffSessionProofs!SessionsEndOnlyWhenOver` | `Healthy`: no rotation, no `truncated`, no `keys` | `OverInv` |
| `BffSessionProofs!NoVerifierOutlivesItsAttempt` | no `denied` | `TxInv` |
| `QueryProofs!QueryTypeCorrect`, `CountersKeepWhatWasRecorded` | finitely many workers | `CountsInv` |
| `QueryProofs!QuotaIsNearlyKept` | the same | `OvershootInv` |
| `QueryProofs!OnlyAUsedQuotaDenies`, `AnswersAreChargedOnce` | the same | `CountsInv`; `LedgerInv` |
| `TenancyProofs!TenancyTypeCorrect`, `WorkActsForItsTenant`, `NothingIsLeft`, `LinesNameTheirOwnWork` | `~Nests` | `TenancyInv` |
| `AnswersProofs!AnswersTypeCorrect`, `CitationsOpenTheirPassage`, `SearchesOneSpace` | finitely many documents | `AnswersInv` |
| `EvaluationProofs!EvaluationTypeCorrect`, `RunsCleanUp`, `StatusTellsOutcome` | the bounds | `EvaluationInv` |
| `EvaluationProofs!ReportIsSoundAlways` | the same | `ReportInv`; the lemmas on `Scoring` |
| `DocumentsScreenProofs!ScreenTypeCorrect`, `StaleScreensAskOrSay`, `RemovedRowsStayAway` | — | `ChainInv`; `ScreenInv` |
| `AlgorithmsProofs!EveryCharacterChunkedAlways` | the bounds | `FileInv`, `SpansFit` |
| `AlgorithmsProofs!FenceIsItsOwnAlways` | the same | `PassageType`, `Neutral` |
| `AlgorithmsProofs!CitationsAreTheMentionsAlways` | the same | `PiecesType`, `Resolved` |
| `AlgorithmsProofs!DaysAgreeWithSummaryAlways` | the same; prices are pairs of naturals | `UsageInv` |
| `AlgorithmsProofs!EveryTextItsVectorAlways` | the same | `CallInv`, `Upto`, `Decided` |

All hold for any number of documents, tasks, commands, attempts, requests, workers, threads,
tenants, questions and runs, for texts and lists of any length, and for any
set of faults beyond the ones named. TLC has checked each invariant as an invariant
of the run of its module. The assumptions beside the bounds:

* `OneAtATime` (of the flight theorems) is `Commands = {}`, no `redeliver` and no `database` fault, and
  `2 * TimeLimit + MaxQueueWait <= ReapAfter`. Each part is needed: the command takes no claim, a redelivered
  message runs twice, a commit whose answer is lost is retried on a READY row, and without the last
  the sweep fails the row of a retry that still waits, whose owner starts another run. The code
  ensures `2 * TimeLimit <= ReapAfter`; no setting bounds the wait in the queue. `stomped_success` is
  what happens without that bound.
* `Healthy` and "no `denied`" are what the findings about the session show to be needed.
* `~Nests`: no code enters a context inside another tenant's.
* The bounds of `Evaluation`: documents are numbered from 1, similarities and the configured floor are
  integers (steps), at least one passage is retrieved.
* The bounds of `Algorithms` are positive, sizes of batches and chunks too (the code reads each from a setting,
  and passes the batch size to `range` as its step); the overlap is any integer, since the code takes none for a negative one; prices are naturals, as the price table has them.

The arguments:

* *The sweep.* `NoLiveAttemptStuck` is not inductive: an attempt's age is
  bounded only through its clock. The invariant adds that a row under an attempt
  past phase 1 is no older than the attempt's clock, that no clock passes
  `TimeLimit`, and so that the age stays within `ReapAfter`. Another run or a retry only makes the row younger.
* *Documents.* `DocumentInv` joins the three properties with `UnlinksDeleted`
  (a file is unlinked only once the row is gone), without which `ListedHasFile`
  is not preserved. `DeletedIsFinal` follows from what each write asks of the row before it.
* *Chunks.* That a set is whole is not inductive: a run that saw an old set
  when it deleted might later meet part of it. `WholeInv` adds that each row was
  written by an attempt that may have committed, that a run's snapshot holds
  such rows only, and that a chunk set is either the one a run saw or disjoint from
  it. The unique index on sets that all start at 0 then forbids a union of two.
* *Flight.* `FlightInv` says which statuses an active run can see (`ShownWhileActive`: none that an upload or a
  retry may start from) and how old its row may be (`Fresh`: by the clock of this attempt, or by a whole attempt
  and a wait), so that `Reap` finds no row whose run is still to finish. It adds what a run read
  before its write (`ReadIsCurrent`). The refinement then takes one case per action: each is a
  transition of `DocumentLifecycle` or leaves status, reason and passages alone.
* *Sessions.* `SessionInv` says that only an attempt that was answered has a record and that
  a request under way names one. So `Exchange` alone creates a record, and `Patch`
  cannot revive one. `OverInv` adds that a rejection was given by a provider whose
  grant has ended, that a record without a refresh token belongs to a grant that never had
  one, and that a proxy call never carries an expired token, so that each place
  that drops a record has its reason.
* *Queries.* `CountsInv`: windows that have not begun are untouched, and a worker about to increment
  has seen its window begin. `OvershootInv` counts, for each window, the workers between gate and
  increment (`UnderWay`): what is recorded and under way exceeds the limit by at most the other workers
  and the outages (`RoomForUnderWay`). `LedgerInv`: text exists only in an open stream.
* *Tenants.* `TenancyInv` lists the shapes that a thread's open contexts, the stack of its connection and its
  context variable can have together (`Outside`, `Inside`, `InsideTwice`), and at which points of its work
  (`LayersFit`); the labels of lines and messages follow the work (`LabelsFit`, `QueueFits`).
* *Answers.* `AnswersInv`: keys in the corpus are distinct and below the next one, so a source that is still
  there is the passage it was (`SourcesFit`). `Resolve` is a fold over a text; what it yields for
  every length is proved by induction on numbers in first-order form (`EveryNumber`: a set
  that holds 0 and is closed under + 1 is `Nat`, from the well-foundedness of `<`).
* *Evaluation.* `EvaluationInv`: each file has a committed row, a document of the open transaction or a
  rolled back run (`FilesNamed`), which the order in `_drop_scratch_tenant` preserves (files before rows) wherever it
  is killed or fails;
  a run that gets on has all results of the steps behind it (`ResultsWhole`). For the status,
  `GapIsBetween` shows that worst and best similarity exist and bound the others.
* *Reports.* `ReportIsSound` speaks of the end only. `ReportInv` says why it holds there: the corpus is
  this run's, since the tenant began without a row (`CorpusWhole`, from `TenantHolds`); no document has two entries in the
  transaction (`WorkWhole`), so that a ranking of distinct passages finds at most as many as answer the question and,
  when K has room for all documents, all of them (`ScoresFit`, by `RankingFinds`); and each answer has one verdict for
  each claim it cites, a support only where the judge gave it (`AnswersFit`, by `CoercedFits` for any payload). The numbers
  follow from the folds: means of ordered fractions are ordered (`MeansOrdered`), a mean of what is at most 1 is at
  most 1 (`MeanAtMostOne`), the three counts of verdicts add up to the cited claims (`VerdictsAdd`, `SumAdds`).
* *Algorithms.* The state invariants are types of the inputs; the work is in what functions compute for
  inputs of every length. A fold is proved equal to the last of a sequence of values that starts
  and steps as the fold does (`IterationExists`, by `EveryNumber`); a recursive function by the same induction
  on the part that is left (`EveryPosition`). *Chunks*: the spans of
  the text from an offset on fit it (`SpansFit`), from the last offset back. That a chunk never ends before the one before
  it needs `CutsGrow`: what a window's cut takes in, a later window that begins before it takes in too, because a better
  separator in the later window lies beyond the earlier one, or the later window begins at the full stop of the
  separator itself. *Fence*: each replacement leaves no occurrence of
  its token and brings in none of those replaced before, since no symbol it writes begins one (`Neutral`); that is said of the four
  bracketed tokens, for the other two it is false.
  *Citations*: after each piece the resolved numbers are those of the markers that are complete, in order
  of their first end (`Resolved`). *Days*: a day's row, the sum over days and the sum over the rows within the range
  are folds over one list of rows, so that daily and summary totals agree term by term. *Embedding*: sorting by index is a
  permutation that puts each entry at its rank, repeated indexes or not (`EveryPlaceTaken`), and at its input's place where the indexes are distinct (`ByIndexFollowsInputs`);
  after k batches without an error the vectors are those of the first k batches' texts (`Upto`). Errors are a fold over the verdicts
  on each reply: the first that is an error is the result (`Decided`), the first bad reply is the first with such a verdict
  (`FirstBadDecides`), and `StatusMeans` says which status gives which.
* *Documents screen.* `ChainInv`: only the last run of the effect has a chain, and a chain that goes on
  has failures left. `ScreenInv` adds that what was filtered is gone at the server (`RemovedAreGone`)
  and that an answer of the current chain was read after it (`AnswerIsRecent`).

Only model-checked: `ProcessingEnds`, since liveness under fairness is out of the proof system's
reach. Every safety and action property of a passing run is proved.

## Plan

The modules of the inventory are done and their safety properties proved. What a next step would add: a fake
judge's word test as a function, the Ask screen's frame parser, and the window of the burst rate.

## Not modelled

The patterns of redaction, the hashing embedder, distances, prompt wording, the wire formats of model clients and
judges (text or numerics, taken as outcomes); the burst rate's window (the framework's);
the Ask screen (one answer streams at a time, since its form is disabled while it
does) and the frame parser; dashboards and UI primitives (no state that anything reads back); migrations and
deployment (declarative: the constraints and kill behaviour that the models rely on
are in them). In the session: path and header allowlists, the CSRF check, body
streaming, discovery caches, the contents of tokens and a restart of the Next process, which ends every session
at once as `session.ts` documents. In ingestion: row-level security, which `Tenancy` covers; a run is taken to see its
own tenant's rows. On the documents screen: announcements, upload progress and leaving the screen.

## Running

    tlc -config IngestionOverlap.cfg MCIngestion.tla
    tlc -config BffSession.cfg MCBffSession.tla        # about two minutes
    tlc -config Query.cfg MCQuery.tla                  # and so on: X.cfg with MCX.tla
    tlc -config ChunkFragments.cfg MCAlgorithms.tla    # finds its violation
    tlapm IngestionProofs.tla                          # and so on: each *Proofs.tla
