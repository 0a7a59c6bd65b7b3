--------------------------- MODULE DocumentsScreen ---------------------------
(***************************************************************************)
(* The screen that lists a tenant's documents and polls while some of them *)
(* are being ingested.                                                     *)
(*                                                                         *)
(* React runs the handlers and continuations one at a time, but the effect *)
(* that owns the polling runs again only some time after the state it      *)
(* depends on was set, and answers land when they will.  Every run of the  *)
(* effect starts a chain of polls; the next one stops it.  The map of the  *)
(* statuses last seen, which only words announcements, is left out: it     *)
(* changes with the rows.                                                  *)
(***************************************************************************)
EXTENDS Naturals, FiniteSets

CONSTANTS
  Documents,
  Requests,               \* bound: delete requests sent
  MaxGenerations,         \* bound: runs of the effect
  MaxConsecutiveFailures

ASSUME DocumentsScreenBounds ==
  MaxGenerations \in Nat \ {0} /\ MaxConsecutiveFailures \in Nat \ {0}

\* PENDING and PROCESSING are in flight; READY and FAILED are settled.
Status == {"in flight", "settled"}
Generations == 1 .. MaxGenerations

VARIABLES
  server,      \* the status of each document: none before its upload, gone after its deletion
  rows,        \* the status each document is shown with: none for no row
  loaded,      \* whether a list was ever shown
  failure,     \* whether a failure is shown
  action,      \* the row whose deletion is being confirmed or carried out
  requests,    \* the delete requests
  upload,      \* whether an upload was saved whose answer is on its way
  generation, effect,  \* the generation asked for, and the last one the effect ran for
  chain,       \* the polls of each run of the effect
  removed      \* history: the documents whose deletion the screen was told of

pageVars == <<rows, loaded, failure, action>>
effectVars == <<generation, effect, chain>>
vars == <<server, pageVars, requests, upload, effectVars, removed>>

Listing == [Documents -> Status \cup {"none"}]
\* The answer of GET /api/documents, if it were given now.
Listed == [d \in Documents |-> IF server[d] = "gone" THEN "none" ELSE server[d]]
Nothing == [d \in Documents |-> "none"]

\* A chain before its effect runs, and once there is nothing left of it.
NoChain == [at |-> "none", answer |-> Nothing, failures |-> 0, moving |-> FALSE]
NoAction == [on |-> {}, is |-> "none"]
NoRequest == [on |-> {}, is |-> "none"]
Done == [on |-> {}, is |-> "done"]

TypeOK ==
  /\ server \in [Documents -> Status \cup {"none", "gone"}]
  /\ rows \in Listing /\ {loaded, failure, upload} \subseteq BOOLEAN
  /\ action \in [on : SUBSET Documents, is : {"none", "confirming", "deleting"}]
  /\ Cardinality(action.on) = (IF action.is = "none" THEN 0 ELSE 1)
  /\ requests \in [Requests -> [on : SUBSET Documents, is : {"none", "sent", "answered", "failed", "done"}]]
  /\ generation \in Generations /\ effect \in 0 .. generation
  /\ chain \in [Generations -> [at : {"none", "asked", "answered", "failed", "waiting"}, answer : Listing,
                                failures : 0 .. MaxConsecutiveFailures, moving : BOOLEAN]]
  /\ \A g \in Generations : chain[g] # NoChain => g <= effect
  /\ removed \subseteq Documents

Init ==
  /\ server \in [Documents -> {"none"} \cup Status]
  /\ rows = Nothing /\ loaded = FALSE /\ failure = FALSE /\ action = NoAction
  /\ requests = [q \in Requests |-> NoRequest] /\ upload = FALSE
  /\ generation = 1 /\ effect = 0 /\ chain = [g \in Generations |-> NoChain]
  /\ removed = {}
-----------------------------------------------------------------------------
(* The effect and its polls *)

\* Variant: the cleanup clears the timer and leaves a poll under way alone.
CleanupTimer(c) == IF c.at = "waiting" THEN NoChain ELSE c
\* The cleanup of a run of the effect: its timer is cleared, and a poll under way is aborted
\* or, where its answer is there already, finds the chain stopped and does nothing.
Cleanup(c) == NoChain

RunEffect ==
  /\ effect # generation
  /\ effect' = generation
  /\ chain' = [g \in Generations |->
       CASE g = generation -> [NoChain EXCEPT !.at = "asked"]
         [] g = effect -> Cleanup(chain[g])
         [] OTHER -> chain[g]]
  /\ UNCHANGED <<server, pageVars, requests, upload, generation, removed>>

\* The API answers a poll, or it fails on the way: unreachable, refused, expired.
PollAnswered(g) ==
  /\ chain[g].at = "asked"
  /\ chain' = [chain EXCEPT ![g].at = "answered", ![g].answer = Listed]
  /\ UNCHANGED <<server, pageVars, requests, upload, generation, effect, removed>>

PollFailed(g) ==
  /\ chain[g].at = "asked"
  /\ chain' = [chain EXCEPT ![g].at = "failed"]
  /\ UNCHANGED <<server, pageVars, requests, upload, generation, effect, removed>>

ShowList(g) ==
  LET moving == \E d \in Documents : chain[g].answer[d] = "in flight"
  IN /\ chain[g].at = "answered"
     /\ rows' = chain[g].answer /\ loaded' = TRUE /\ failure' = FALSE
     /\ chain' = [chain EXCEPT ![g] =
          [NoChain EXCEPT !.at = IF moving THEN "waiting" ELSE "none", !.moving = moving]]
     /\ UNCHANGED <<server, action, requests, upload, generation, effect, removed>>

\* Variant: one failure more.
KeepsTryingOnceMore(c) == c.moving /\ c.failures <= MaxConsecutiveFailures
\* Whether to go on after a failure: only while work is known to be in flight, and only after
\* a few in a row.
KeepsTrying(c) == c.moving /\ c.failures < MaxConsecutiveFailures

\* Variant: a chain that gives up does so in silence.
ShowFailureWhileTrying(g) ==
  LET c == [chain[g] EXCEPT !.failures = @ + 1]
  IN /\ chain[g].at = "failed"
     /\ failure' = (failure \/ KeepsTrying(c))
     /\ chain' = [chain EXCEPT ![g] = [c EXCEPT !.at = IF KeepsTrying(c) THEN "waiting" ELSE "none"]]
     /\ UNCHANGED <<server, rows, loaded, action, requests, upload, generation, effect, removed>>

ShowFailure(g) ==
  LET c == [chain[g] EXCEPT !.failures = @ + 1]
  IN /\ chain[g].at = "failed"
     /\ failure' = TRUE
     /\ chain' = [chain EXCEPT ![g] = [c EXCEPT !.at = IF KeepsTrying(c) THEN "waiting" ELSE "none"]]
     /\ UNCHANGED <<server, rows, loaded, action, requests, upload, generation, effect, removed>>

TimerFires(g) ==
  /\ chain[g].at = "waiting"
  /\ chain' = [chain EXCEPT ![g].at = "asked"]
  /\ UNCHANGED <<server, pageVars, requests, upload, generation, effect, removed>>
-----------------------------------------------------------------------------
(* What the user does *)

\* Asks the effect to run again.
Bump == generation < MaxGenerations /\ generation' = generation + 1

TryAgain ==
  /\ failure /\ Bump
  /\ UNCHANGED <<server, pageVars, requests, upload, effect, chain, removed>>

\* Every row but the one in question has its delete button, even while that one is deleted.
AskDelete(d) ==
  /\ rows[d] # "none" /\ d \notin action.on
  /\ action' = [on |-> {d}, is |-> "confirming"]
  /\ UNCHANGED <<server, rows, loaded, failure, requests, upload, effectVars, removed>>

CancelDelete ==
  /\ action.is = "confirming" /\ \E d \in action.on : rows[d] # "none"
  /\ action' = NoAction
  /\ UNCHANGED <<server, rows, loaded, failure, requests, upload, effectVars, removed>>

ConfirmDelete(d, q) ==
  /\ action = [on |-> {d}, is |-> "confirming"] /\ rows[d] # "none"
  /\ requests[q] = NoRequest
  /\ requests' = [requests EXCEPT ![q] = [on |-> {d}, is |-> "sent"]]
  /\ action' = [action EXCEPT !.is = "deleting"]
  /\ UNCHANGED <<server, rows, loaded, failure, upload, effectVars, removed>>

\* The CSRF cookie is gone: the page has been open across a sign-in.
ConfirmStale ==
  /\ action.is = "confirming" /\ \E d \in action.on : rows[d] # "none"
  /\ action' = NoAction /\ failure' = TRUE
  /\ UNCHANGED <<server, rows, loaded, requests, upload, effectVars, removed>>

\* 204, or the 404 that counts as one.
DeleteDone(d, q) ==
  /\ requests[q] = [on |-> {d}, is |-> "answered"] /\ Bump
  /\ requests' = [requests EXCEPT ![q] = Done]
  /\ action' = NoAction /\ failure' = FALSE
  /\ rows' = [rows EXCEPT ![d] = "none"] /\ removed' = removed \cup {d}
  /\ UNCHANGED <<server, loaded, upload, effect, chain>>

DeleteFailed(q) ==
  /\ requests[q].is = "failed"
  /\ requests' = [requests EXCEPT ![q] = Done]
  /\ action' = NoAction /\ failure' = TRUE
  /\ UNCHANGED <<server, rows, loaded, upload, effectVars, removed>>

\* The row comes from the list that the bump asks for.
Uploaded ==
  /\ upload /\ Bump /\ upload' = FALSE
  /\ UNCHANGED <<server, pageVars, requests, effect, chain, removed>>

\* The answer to an upload is lost: the form says so, and the list is not asked for again.
UploadLost ==
  /\ upload /\ upload' = FALSE
  /\ UNCHANGED <<server, pageVars, requests, effectVars, removed>>
-----------------------------------------------------------------------------
(* The API, its workers and its other clients *)

SaveUpload(d) ==
  /\ ~upload /\ server[d] = "none"
  /\ upload' = TRUE /\ server' = [server EXCEPT ![d] = "in flight"]
  /\ UNCHANGED <<pageVars, requests, effectVars, removed>>

\* Ingestion moves on, another client retries a failed document or deletes one.
ServerMoves(d) ==
  /\ server[d] \in Status
  /\ \E to \in (Status \cup {"gone"}) \ {server[d]} : server' = [server EXCEPT ![d] = to]
  /\ UNCHANGED <<pageVars, requests, upload, effectVars, removed>>

ServeDelete(d, q) ==
  /\ requests[q] = [on |-> {d}, is |-> "sent"]
  /\ server' = [server EXCEPT ![d] = "gone"]
  /\ \E is \in {"answered", "failed"} : requests' = [requests EXCEPT ![q].is = is]
  /\ UNCHANGED <<pageVars, upload, effectVars, removed>>

RefuseDelete(q) ==
  /\ requests[q].is = "sent"
  /\ requests' = [requests EXCEPT ![q].is = "failed"]
  /\ UNCHANGED <<server, pageVars, upload, effectVars, removed>>

Next ==
  \/ RunEffect
  \/ \E g \in Generations :
       PollAnswered(g) \/ PollFailed(g) \/ ShowList(g) \/ ShowFailure(g) \/ TimerFires(g)
  \/ TryAgain \/ CancelDelete \/ ConfirmStale \/ Uploaded \/ UploadLost
  \/ \E d \in Documents : AskDelete(d) \/ SaveUpload(d) \/ ServerMoves(d)
  \/ \E d \in Documents, q \in Requests :
       ConfirmDelete(d, q) \/ DeleteDone(d, q) \/ ServeDelete(d, q)
  \/ \E q \in Requests : DeleteFailed(q) \/ RefuseDelete(q)

Spec == Init /\ [][Next]_vars
-----------------------------------------------------------------------------
\* A new list is on its way, or will be once the effect runs or a timer fires.
Watching ==
  effect # generation \/ chain[effect].at # "none"

\* What the screen shows is never silently out of date: while it shows no list yet, a
\* document as being ingested, or one whose deletion it was told of, it goes on asking or
\* shows a failure, whose button asks again.  Giving up after failures, a deletion that clears
\* another's failure and an answer from before a deletion all meet here.
WatchedOrSaid ==
  (\/ ~loaded
   \/ \E d \in Documents : rows[d] = "in flight" \/ (d \in removed /\ rows[d] # "none"))
  => Watching \/ failure

\* A deleted row does not come back: a poll that was answered before the deletion can show
\* it only until the effect has run again, never after, however late it lands.
RemovedStaysRemoved ==
  [][\A d \in removed : rows[d] = "none" /\ rows'[d] # "none" => effect # generation]_vars
=============================================================================
