------------------------ MODULE DocumentsScreenProofs ------------------------
(***************************************************************************)
(* What DocumentsScreen guarantees for every set of documents, every       *)
(* number of deletions under way and every limit on the failures in a row. *)
(***************************************************************************)
EXTENDS DocumentsScreen, FiniteSetTheorems, TLAPS

USE DocumentsScreenBounds

(***************************************************************************)
(* The types, with the two facts the types of a chain rest on: a chain     *)
(* that goes on has failures left, and only the last run of the effect has *)
(* one.                                                                    *)
(***************************************************************************)
Chains == [at : {"none", "asked", "answered", "failed", "waiting"}, answer : Listing,
           failures : 0 .. MaxConsecutiveFailures, moving : BOOLEAN]

FailuresLeft == \A g \in Generations : chain[g].at # "none" => chain[g].failures < MaxConsecutiveFailures
OneChain == \A g \in Generations : chain[g] # NoChain => g = effect

ChainInv == TypeOK /\ FailuresLeft /\ OneChain

LEMMA NoChainType == NoChain \in Chains /\ NoChain.at = "none" /\ NoChain.failures = 0
BY DEF NoChain, Chains, Nothing, Listing

\* The dialog is about one document or none.
LEMMA ActionTypes ==
  /\ Cardinality(NoAction.on) = 0
  /\ \A d \in Documents : Cardinality({d}) = 1
BY FS_EmptySet, FS_Singleton DEF NoAction

LEMMA ChainInit == Init => ChainInv
<1> SUFFICES ASSUME Init PROVE ChainInv
  OBVIOUS
<1>1. NoChain \in Chains /\ chain = [g \in Generations |-> NoChain]
  BY NoChainType DEF Init
<1>2. FailuresLeft /\ OneChain
  BY <1>1, NoChainType DEF FailuresLeft, OneChain
<1>3. action \in [on : SUBSET Documents, is : {"none", "confirming", "deleting"}]
      /\ Cardinality(action.on) = 0 /\ action.is = "none"
  BY ActionTypes DEF Init, NoAction
<1>4. requests \in [Requests -> [on : SUBSET Documents, is : {"none", "sent", "answered", "failed", "done"}]]
  BY DEF Init, NoRequest
<1>5. chain \in [Generations -> Chains] /\ \A g \in Generations : chain[g] = NoChain
  BY <1>1
<1>6. server \in [Documents -> Status \cup {"none", "gone"}] /\ rows \in Listing
  BY DEF Init, Listing, Nothing
<1>7. /\ {loaded, failure, upload} \subseteq BOOLEAN /\ removed \subseteq Documents
      /\ generation \in Generations /\ effect \in 0 .. generation
  <2>1. loaded = FALSE /\ failure = FALSE /\ upload = FALSE /\ removed = {}
    BY DEF Init
  <2>2. generation = 1 /\ effect = 0
    BY DEF Init
  <2>3. {loaded, failure, upload} \subseteq BOOLEAN
    BY <2>1
  <2>4. QED
    BY <2>1, <2>2, <2>3 DEF Generations
<1>8. TypeOK
  BY <1>3, <1>4, <1>5, <1>6, <1>7 DEF TypeOK, Chains
<1>9. QED
  BY <1>2, <1>8 DEF ChainInv

\* The poll of the only chain moves on.
LEMMA ChainPoll ==
  ASSUME ChainInv, NEW g \in Generations,
         PollAnswered(g) \/ PollFailed(g) \/ ShowList(g) \/ ShowFailure(g) \/ TimerFires(g)
  PROVE  ChainInv' /\ g = effect
<1>1. g = effect /\ chain[g] \in Chains /\ chain[g].failures + 1 <= MaxConsecutiveFailures
  <2>1. chain[g].at # "none" /\ chain[g] \in Chains
    BY DEF PollAnswered, PollFailed, ShowList, ShowFailure, TimerFires, ChainInv, TypeOK, Chains
  <2>2. chain[g] # NoChain /\ chain[g].failures < MaxConsecutiveFailures
    BY <2>1, NoChainType DEF ChainInv, FailuresLeft
  <2>3. QED
    BY <2>1, <2>2 DEF ChainInv, OneChain, Chains
<1>2. /\ chain' \in [Generations -> Chains]
      /\ \A h \in Generations : h # g => chain'[h] = chain[h]
      /\ chain'[g].at # "none" => chain'[g].failures < MaxConsecutiveFailures
  <2>0. chain \in [Generations -> Chains]
    BY DEF ChainInv, TypeOK, Chains
  <2>1. CASE PollAnswered(g)
    <3>1. Listed \in Listing
      BY DEF ChainInv, TypeOK, Listed, Listing
    <3> DEFINE c == [chain[g] EXCEPT !.at = "answered", !.answer = Listed]
    <3>2. c \in Chains /\ c.failures = chain[g].failures
      BY <1>1, <3>1 DEF Chains
    <3>3. chain' = [chain EXCEPT ![g] = c]
      BY <1>1, <2>0, <2>1 DEF PollAnswered
    <3> HIDE DEF c
    <3>4. QED
      BY <1>1, <2>0, <3>2, <3>3 DEF Chains
  <2>2. CASE PollFailed(g) \/ TimerFires(g)
    BY <1>1, <2>0, <2>2 DEF PollFailed, TimerFires, Chains
  <2>3. CASE ShowList(g)
    <3> DEFINE moving == \E d \in Documents : chain[g].answer[d] = "in flight"
               c == [NoChain EXCEPT !.at = IF moving THEN "waiting" ELSE "none", !.moving = moving]
    <3>1. chain' = [chain EXCEPT ![g] = c]
      BY <2>3 DEF ShowList
    <3>2. moving \in BOOLEAN
      OBVIOUS
    <3> HIDE DEF moving
    <3>3. c \in Chains /\ c.failures = 0
      BY <3>2, NoChainType DEF Chains
    <3> HIDE DEF c
    <3>4. QED
      BY <2>0, <3>1, <3>3 DEF Chains
  <2>4. CASE ShowFailure(g)
    <3> DEFINE c == [chain[g] EXCEPT !.failures = @ + 1]
               e == [c EXCEPT !.at = IF KeepsTrying(c) THEN "waiting" ELSE "none"]
    <3>1. chain' = [chain EXCEPT ![g] = e]
      BY <2>4 DEF ShowFailure
    <3>2. c \in Chains
      BY <1>1 DEF Chains
    <3> HIDE DEF c
    <3>3. e \in Chains /\ (e.at # "none" => e.failures < MaxConsecutiveFailures)
      BY <3>2 DEF Chains, KeepsTrying
    <3> HIDE DEF e
    <3>4. QED
      BY <2>0, <3>1, <3>3 DEF Chains
  <2>5. QED
    BY <2>1, <2>2, <2>3, <2>4
<1>3. /\ UNCHANGED <<server, action, requests, upload, generation, effect, removed>>
      /\ rows' \in Listing /\ {loaded', failure'} \subseteq BOOLEAN
  BY <1>1 DEF PollAnswered, PollFailed, ShowList, ShowFailure, TimerFires, pageVars, ChainInv,
     TypeOK, Chains
<1>4. effect' = effect
  BY <1>3
<1>5. FailuresLeft' /\ OneChain'
  BY <1>1, <1>2, <1>4 DEF ChainInv, FailuresLeft, OneChain
<1>6. TypeOK'
  BY <1>1, <1>2, <1>3 DEF ChainInv, TypeOK, Chains
<1>7. QED
  BY <1>1, <1>5, <1>6 DEF ChainInv

LEMMA ChainEffect ==
  ASSUME ChainInv, RunEffect
  PROVE  /\ ChainInv' /\ effect' = generation
         /\ chain'[generation] = [NoChain EXCEPT !.at = "asked"]
<1>1. /\ generation \in Generations /\ effect' = generation /\ effect # generation
      /\ effect \in 0 .. generation /\ chain \in [Generations -> Chains]
      /\ UNCHANGED <<server, pageVars, requests, upload, generation, removed>>
  BY DEF ChainInv, TypeOK, RunEffect, Chains
<1>2. \A g \in Generations :
        chain'[g] = IF g = generation THEN [NoChain EXCEPT !.at = "asked"] ELSE NoChain
  <2>1. \A g \in Generations :
          chain'[g] = CASE g = generation -> [NoChain EXCEPT !.at = "asked"]
                        [] g = effect -> NoChain
                        [] OTHER -> chain[g]
    BY DEF RunEffect, Cleanup
  <2>2. QED
    BY <1>1, <2>1 DEF ChainInv, OneChain
<1>3. chain' \in [Generations -> Chains]
  <2>1. [NoChain EXCEPT !.at = "asked"] \in Chains
    BY NoChainType DEF Chains
  <2>2. chain' = [g \in Generations |-> chain'[g]]
    BY DEF RunEffect
  <2>3. \A g \in Generations : chain'[g] \in Chains
    BY <1>2, <2>1, NoChainType
  <2>4. QED
    BY <2>2, <2>3
<1>4. FailuresLeft' /\ OneChain'
  <2>1. [NoChain EXCEPT !.at = "asked"].failures = 0
    BY NoChainType DEF Chains
  <2>2. \A g \in Generations :
          chain'[g].at # "none" => chain'[g].failures < MaxConsecutiveFailures
    <3> SUFFICES ASSUME NEW g \in Generations, chain'[g].at # "none"
                 PROVE  chain'[g].failures < MaxConsecutiveFailures
      OBVIOUS
    <3>1. g = generation
      BY <1>2, NoChainType
    <3>2. chain'[g] = [NoChain EXCEPT !.at = "asked"]
      BY <1>2, <3>1
    <3>3. chain'[g].failures = 0
      BY <2>1, <3>2
    <3>4. QED
      BY <3>3
  <2>3. FailuresLeft'
    BY <2>2 DEF FailuresLeft
  <2>4. \A g \in Generations : g # effect' => chain'[g] = NoChain
    BY <1>1, <1>2
  <2>5. OneChain'
    BY <2>4 DEF OneChain
  <2>6. QED
    BY <2>3, <2>5
<1>5. TypeOK'
  BY <1>1, <1>2, <1>3 DEF ChainInv, TypeOK, pageVars, Chains, Generations
<1>6. QED
  BY <1>1, <1>2, <1>4, <1>5 DEF ChainInv

\* What the user and the API do leaves the polls alone.
LEMMA ChainOther ==
  ASSUME ChainInv, UNCHANGED <<effect, chain>>,
         generation' = generation \/ Bump,
         server' \in [Documents -> Status \cup {"none", "gone"}],
         rows' \in Listing, {loaded', failure', upload'} \subseteq BOOLEAN,
         action' \in [on : SUBSET Documents, is : {"none", "confirming", "deleting"}],
         Cardinality(action'.on) = (IF action'.is = "none" THEN 0 ELSE 1),
         requests' \in [Requests -> [on : SUBSET Documents,
                                     is : {"none", "sent", "answered", "failed", "done"}]],
         removed' \subseteq Documents
  PROVE  ChainInv'
<1>1. generation' \in Generations /\ effect' \in 0 .. generation'
  BY DEF ChainInv, TypeOK, Bump, Generations
<1>2. FailuresLeft' /\ OneChain'
  BY DEF ChainInv, FailuresLeft, OneChain
<1>3. TypeOK'
  BY <1>1 DEF ChainInv, TypeOK
<1>4. QED
  BY <1>2, <1>3 DEF ChainInv

LEMMA ChainUser ==
  ASSUME ChainInv,
         \/ TryAgain \/ CancelDelete \/ ConfirmStale \/ Uploaded \/ UploadLost
         \/ \E d \in Documents : AskDelete(d) \/ SaveUpload(d) \/ ServerMoves(d)
         \/ \E d \in Documents, q \in Requests :
              ConfirmDelete(d, q) \/ DeleteDone(d, q) \/ ServeDelete(d, q)
         \/ \E q \in Requests : DeleteFailed(q) \/ RefuseDelete(q)
  PROVE  ChainInv' /\ UNCHANGED <<effect, chain>>
<1> USE DEF pageVars, effectVars
<1>1. NoAction \in [on : SUBSET Documents, is : {"none", "confirming", "deleting"}]
      /\ NoAction.is = "none" /\ Cardinality(NoAction.on) = 0
  BY ActionTypes DEF NoAction
<1>2. Done \in [on : SUBSET Documents, is : {"none", "sent", "answered", "failed", "done"}]
  BY DEF Done
<1>3. TypeOK
  BY DEF ChainInv
<1>4. CASE TryAgain \/ Uploaded \/ UploadLost
  BY <1>3, <1>4, ChainOther DEF TryAgain, Uploaded, UploadLost, TypeOK, Bump
<1>5. CASE CancelDelete \/ ConfirmStale
  BY <1>1, <1>3, <1>5, ChainOther DEF CancelDelete, ConfirmStale, TypeOK
<1>6. ASSUME NEW d \in Documents, AskDelete(d) PROVE ChainInv' /\ UNCHANGED <<effect, chain>>
  BY <1>3, <1>6, ActionTypes, ChainOther DEF AskDelete, TypeOK
<1>7. ASSUME NEW d \in Documents, SaveUpload(d) \/ ServerMoves(d)
      PROVE  ChainInv' /\ UNCHANGED <<effect, chain>>
  <2>1. server' \in [Documents -> Status \cup {"none", "gone"}]
    BY <1>3, <1>7 DEF SaveUpload, ServerMoves, TypeOK, Status
  <2>2. QED
    BY <1>3, <1>7, <2>1, ChainOther DEF SaveUpload, ServerMoves, TypeOK
<1>8. ASSUME NEW d \in Documents, NEW q \in Requests, ConfirmDelete(d, q)
      PROVE  ChainInv' /\ UNCHANGED <<effect, chain>>
  BY <1>3, <1>8, ActionTypes, ChainOther DEF ConfirmDelete, TypeOK
<1>9. ASSUME NEW d \in Documents, NEW q \in Requests, DeleteDone(d, q)
      PROVE  ChainInv' /\ UNCHANGED <<effect, chain>>
  <2>1. rows' \in Listing
    BY <1>3, <1>9 DEF DeleteDone, TypeOK, Listing
  <2>2. QED
    BY <1>1, <1>2, <1>3, <1>9, <2>1, ChainOther DEF DeleteDone, TypeOK
<1>10. ASSUME NEW d \in Documents, NEW q \in Requests, ServeDelete(d, q)
       PROVE  ChainInv' /\ UNCHANGED <<effect, chain>>
  BY <1>3, <1>10, ChainOther DEF ServeDelete, TypeOK
<1>11. ASSUME NEW q \in Requests, DeleteFailed(q) PROVE ChainInv' /\ UNCHANGED <<effect, chain>>
  BY <1>1, <1>2, <1>3, <1>11, ChainOther DEF DeleteFailed, TypeOK
<1>12. ASSUME NEW q \in Requests, RefuseDelete(q) PROVE ChainInv' /\ UNCHANGED <<effect, chain>>
  BY <1>3, <1>12, ChainOther DEF RefuseDelete, TypeOK
<1>13. QED
  BY <1>4, <1>5, <1>6, <1>7, <1>8, <1>9, <1>10, <1>11, <1>12

LEMMA ChainStep == ChainInv /\ [Next]_vars => ChainInv'
<1> SUFFICES ASSUME ChainInv, [Next]_vars PROVE ChainInv'
  OBVIOUS
<1>1. CASE UNCHANGED vars
  BY <1>1 DEF ChainInv, TypeOK, FailuresLeft, OneChain, vars, pageVars, effectVars
<1>2. QED
  BY <1>1, ChainEffect, ChainPoll, ChainUser DEF Next

(***************************************************************************)
(* Every variable of the screen keeps its type: a chain of polls counts at *)
(* most the failures it may make in a row, and the dialog is about one     *)
(* document.                                                               *)
(***************************************************************************)
THEOREM ScreenTypeCorrect == Spec => []TypeOK
<1>1. ChainInv => TypeOK
  BY DEF ChainInv
<1>2. QED
  BY <1>1, ChainInit, ChainStep, PTL DEF Spec

-----------------------------------------------------------------------------
(***************************************************************************)
(* What the screen was told is gone is gone from the API for good, and a   *)
(* list that the current run of the effect has in hand was given after the *)
(* deletions the screen was told of: each of them asked for a new run.     *)
(***************************************************************************)
RemovedAreGone ==
  /\ \A d \in removed : server[d] = "gone"
  /\ \A q \in Requests, d \in Documents :
       requests[q] = [on |-> {d}, is |-> "answered"] => server[d] = "gone"

AnswerIsRecent ==
  effect = generation /\ chain[effect].at = "answered"
    => \A d \in removed : chain[effect].answer[d] = "none"

ScreenInv == ChainInv /\ RemovedAreGone /\ AnswerIsRecent /\ WatchedOrSaid

LEMMA ScreenInit == Init => ScreenInv
<1> SUFFICES ASSUME Init PROVE ScreenInv
  OBVIOUS
<1>1. effect # generation /\ removed = {} /\ \A q \in Requests : requests[q].is = "none"
  BY DEF Init, NoRequest
<1>2. RemovedAreGone /\ AnswerIsRecent
  BY <1>1 DEF RemovedAreGone, AnswerIsRecent
<1>3. WatchedOrSaid
  BY <1>1 DEF WatchedOrSaid, Watching
<1>4. QED
  BY <1>2, <1>3, ChainInit DEF ScreenInv

\* A new run of the effect is asked for.
LEMMA BumpAsks ==
  ASSUME ChainInv, Bump, effect' = effect
  PROVE  effect' # generation'
BY DEF ChainInv, TypeOK, Bump, Generations

\* A deletion is final: the API gives no document the status of one that is gone.
LEMMA GoneStep ==
  ASSUME ChainInv, RemovedAreGone, [Next]_vars
  PROVE  RemovedAreGone'
<1> USE DEF RemovedAreGone, pageVars, effectVars
<1>0. TypeOK
  BY DEF ChainInv
<1>1. CASE RunEffect \/ UNCHANGED vars
  BY <1>1 DEF RunEffect, vars
<1>2. ASSUME NEW g \in Generations,
             PollAnswered(g) \/ PollFailed(g) \/ ShowList(g) \/ ShowFailure(g) \/ TimerFires(g)
      PROVE  RemovedAreGone'
  BY <1>2 DEF PollAnswered, PollFailed, ShowList, ShowFailure, TimerFires
<1>3. CASE TryAgain \/ CancelDelete \/ ConfirmStale \/ Uploaded \/ UploadLost
           \/ \E d \in Documents : AskDelete(d)
  <2>1. UNCHANGED <<server, requests, removed>>
    BY <1>3 DEF TryAgain, CancelDelete, ConfirmStale, Uploaded, UploadLost, AskDelete
  <2>2. QED
    BY <2>1
<1>4. ASSUME NEW d \in Documents, SaveUpload(d) \/ ServerMoves(d) PROVE RemovedAreGone'
  <2>1. UNCHANGED <<requests, removed>> /\ removed \subseteq Documents /\ server[d] # "gone"
    BY <1>0, <1>4 DEF SaveUpload, ServerMoves, Status, TypeOK
  <2>2. \A e \in Documents : e # d => server'[e] = server[e]
    BY <1>0, <1>4 DEF SaveUpload, ServerMoves, TypeOK
  <2>3. QED
    BY <2>1, <2>2
<1>5. ASSUME NEW d \in Documents, NEW q \in Requests,
             ConfirmDelete(d, q) \/ DeleteDone(d, q) \/ ServeDelete(d, q)
      PROVE  RemovedAreGone'
  <2>1. CASE ConfirmDelete(d, q)
    BY <1>0, <2>1 DEF ConfirmDelete, TypeOK
  <2>2. CASE DeleteDone(d, q)
    BY <1>0, <2>2 DEF DeleteDone, Done, TypeOK
  <2>3. CASE ServeDelete(d, q)
    <3>1. server' = [server EXCEPT ![d] = "gone"] /\ removed' = removed
      BY <2>3 DEF ServeDelete
    <3>2. requests'[q].on = {d} /\ \A p \in Requests : p # q => requests'[p] = requests[p]
      BY <1>0, <2>3 DEF ServeDelete, TypeOK
    <3>3. \A e \in Documents : server[e] = "gone" => server'[e] = "gone"
      BY <1>0, <3>1 DEF TypeOK
    <3>4. ASSUME NEW p \in Requests, NEW e \in Documents, requests'[p] = [on |-> {e}, is |-> "answered"]
          PROVE  server'[e] = "gone"
      <4>1. CASE p = q
        <5>1. e \in {d}
          BY <3>2, <3>4, <4>1
        <5>2. QED
          BY <1>0, <3>1, <5>1 DEF TypeOK
      <4>2. CASE p # q
        BY <3>2, <3>3, <3>4, <4>2
      <4>3. QED
        BY <4>1, <4>2
    <3>5. QED
      BY <1>0, <3>1, <3>3, <3>4 DEF TypeOK
  <2>4. QED
    BY <1>5, <2>1, <2>2, <2>3
<1>6. ASSUME NEW q \in Requests, DeleteFailed(q) \/ RefuseDelete(q) PROVE RemovedAreGone'
  BY <1>0, <1>6 DEF DeleteFailed, RefuseDelete, Done, TypeOK
<1>7. QED
  BY <1>1, <1>2, <1>3, <1>4, <1>5, <1>6 DEF Next

\* A poll of the current run that is answered lists none of the removed documents.
LEMMA RecentStep ==
  ASSUME ScreenInv, [Next]_vars
  PROVE  AnswerIsRecent'
<1> USE DEF ScreenInv, AnswerIsRecent, pageVars, effectVars
<1>1. CASE RunEffect
  <2>1. chain'[generation].at = "asked" /\ effect' = generation
    BY <1>1, ChainEffect, NoChainType DEF Chains
  <2>2. QED
    BY <2>1
<1>2. ASSUME NEW g \in Generations, PollAnswered(g) PROVE AnswerIsRecent'
  <2>1. g = effect /\ UNCHANGED <<generation, effect, removed>> /\ removed \subseteq Documents
    BY <1>2, ChainPoll DEF PollAnswered, ChainInv, TypeOK
  <2>2. chain'[g].answer = Listed
    BY <1>2 DEF PollAnswered, ChainInv, TypeOK
  <2>3. \A d \in removed : Listed[d] = "none"
    BY <2>1 DEF Listed, RemovedAreGone
  <2>4. QED
    BY <2>1, <2>2, <2>3
<1>3. ASSUME NEW g \in Generations, PollFailed(g) \/ ShowList(g) \/ ShowFailure(g) \/ TimerFires(g)
      PROVE  AnswerIsRecent'
  <2>1. g = effect /\ UNCHANGED <<generation, effect, removed>>
    BY <1>3, ChainPoll DEF PollFailed, ShowList, ShowFailure, TimerFires
  <2>2. chain'[g].at # "answered"
    <3>1. chain \in [Generations -> Chains]
      BY DEF ChainInv, TypeOK, Chains
    <3>2. CASE PollFailed(g) \/ TimerFires(g)
      BY <3>1, <3>2 DEF PollFailed, TimerFires, Chains
    <3>3. CASE ShowList(g)
      BY <3>1, <3>3, NoChainType DEF ShowList, Chains
    <3>4. CASE ShowFailure(g)
      BY <3>1, <3>4 DEF ShowFailure, Chains
    <3>5. QED
      BY <1>3, <3>2, <3>3, <3>4
  <2>3. QED
    BY <2>1, <2>2
<1>4. ASSUME NEW d \in Documents, NEW q \in Requests, DeleteDone(d, q) PROVE AnswerIsRecent'
  BY <1>4, BumpAsks DEF DeleteDone
<1>5. CASE TryAgain \/ Uploaded
  BY <1>5, BumpAsks DEF TryAgain, Uploaded
<1>6. CASE \/ CancelDelete \/ ConfirmStale \/ UploadLost \/ UNCHANGED vars
           \/ \E d \in Documents : AskDelete(d) \/ SaveUpload(d) \/ ServerMoves(d)
           \/ \E d \in Documents, q \in Requests : ConfirmDelete(d, q) \/ ServeDelete(d, q)
           \/ \E q \in Requests : DeleteFailed(q) \/ RefuseDelete(q)
  <2>1. UNCHANGED <<generation, effect, chain, removed>>
    BY <1>6 DEF CancelDelete, ConfirmStale, UploadLost, vars, AskDelete, SaveUpload, ServerMoves,
       ConfirmDelete, ServeDelete, DeleteFailed, RefuseDelete
  <2>2. QED
    BY <2>1
<1>7. QED
  BY <1>1, <1>2, <1>3, <1>4, <1>5, <1>6 DEF Next

\* The screen goes on asking until it shows a settled list or a failure.
LEMMA WatchedStep ==
  ASSUME ScreenInv, [Next]_vars
  PROVE  WatchedOrSaid'
<1> USE DEF ScreenInv, WatchedOrSaid, Watching, pageVars, effectVars
<1>1. CASE RunEffect
  <2>1. chain'[generation].at = "asked" /\ effect' = generation
    BY <1>1, ChainEffect, NoChainType DEF Chains
  <2>2. QED
    BY <2>1
<1>2. ASSUME NEW g \in Generations, ShowList(g) PROVE WatchedOrSaid'
  <2>1. g = effect /\ UNCHANGED <<generation, effect, removed>> /\ loaded' /\ rows' = chain[g].answer
        /\ chain[g].at = "answered" /\ removed \subseteq Documents
    BY <1>2, ChainPoll DEF ShowList, ChainInv, TypeOK
  <2>2. CASE \E d \in Documents : chain[g].answer[d] = "in flight"
    <3>1. chain'[g].at = "waiting"
      BY <1>2, <2>2, NoChainType DEF ShowList, ChainInv, TypeOK, Chains
    <3>2. QED
      BY <2>1, <3>1
  <2>3. CASE ~ \E d \in Documents : chain[g].answer[d] = "in flight"
    BY <2>1, <2>3 DEF AnswerIsRecent
  <2>4. QED
    BY <2>2, <2>3
<1>3. ASSUME NEW g \in Generations, PollAnswered(g) \/ PollFailed(g) \/ TimerFires(g)
      PROVE  WatchedOrSaid'
  <2>1. g = effect /\ UNCHANGED <<generation, effect>>
    BY <1>3, ChainPoll DEF PollAnswered, PollFailed, TimerFires
  <2>2. chain'[g].at # "none"
    <3>1. chain \in [Generations -> Chains]
      BY DEF ChainInv, TypeOK, Chains
    <3>2. QED
      BY <1>3, <3>1 DEF PollAnswered, PollFailed, TimerFires, Chains
  <2>3. QED
    BY <2>1, <2>2
<1>4. ASSUME NEW g \in Generations, ShowFailure(g) PROVE WatchedOrSaid'
  BY <1>4 DEF ShowFailure
<1>5. ASSUME NEW d \in Documents, NEW q \in Requests, DeleteDone(d, q) PROVE WatchedOrSaid'
  BY <1>5, BumpAsks DEF DeleteDone
<1>6. CASE \/ TryAgain \/ Uploaded
  BY <1>6, BumpAsks DEF TryAgain, Uploaded
<1>7. CASE \/ CancelDelete \/ ConfirmStale \/ UploadLost \/ UNCHANGED vars
           \/ \E d \in Documents : AskDelete(d) \/ SaveUpload(d) \/ ServerMoves(d)
           \/ \E d \in Documents, q \in Requests : ConfirmDelete(d, q) \/ ServeDelete(d, q)
           \/ \E q \in Requests : DeleteFailed(q) \/ RefuseDelete(q)
  <2>1. UNCHANGED <<generation, effect, chain, removed, rows, loaded>> /\ (failure => failure')
    BY <1>7 DEF CancelDelete, ConfirmStale, UploadLost, vars, AskDelete, SaveUpload, ServerMoves,
       ConfirmDelete, ServeDelete, DeleteFailed, RefuseDelete
  <2>2. QED
    BY <2>1
<1>8. QED
  BY <1>1, <1>2, <1>3, <1>4, <1>5, <1>6, <1>7 DEF Next

LEMMA ScreenInvariant == Spec => []ScreenInv
<1>1. ScreenInv /\ [Next]_vars => ScreenInv'
  BY ChainStep, GoneStep, RecentStep, WatchedStep DEF ScreenInv
<1>2. QED
  BY <1>1, ScreenInit, PTL DEF Spec

(***************************************************************************)
(* What the screen shows is never silently out of date: while anything it  *)
(* shows may still change it asks again, or says that it failed.           *)
(***************************************************************************)
THEOREM StaleScreensAskOrSay == Spec => []WatchedOrSaid
<1>1. ScreenInv => WatchedOrSaid
  BY DEF ScreenInv
<1>2. QED
  BY <1>1, ScreenInvariant, PTL

\* Only a list shows a row again, and the list of the current run is recent.
LEMMA NoneComesBack ==
  ASSUME ScreenInv, [Next]_vars, NEW d \in removed, rows[d] = "none", rows'[d] # "none"
  PROVE  effect # generation
<1> USE DEF ScreenInv, pageVars, effectVars
<1>1. PICK g \in Generations : ShowList(g)
  <2>1. rows \in Listing /\ d \in Documents
    BY DEF ChainInv, TypeOK
  <2>2. ASSUME NEW e \in Documents, NEW q \in Requests, DeleteDone(e, q) PROVE FALSE
    BY <2>1, <2>2 DEF DeleteDone, Listing
  <2>3. UNCHANGED rows \/ (\E e \in Documents, q \in Requests : DeleteDone(e, q))
        \/ \E g \in Generations : ShowList(g)
    BY DEF Next, RunEffect, PollAnswered, PollFailed, ShowFailure, TimerFires, TryAgain,
       CancelDelete, ConfirmStale, Uploaded, UploadLost, AskDelete, SaveUpload, ServerMoves,
       ConfirmDelete, ServeDelete, DeleteFailed, RefuseDelete, vars
  <2>4. QED
    BY <2>2, <2>3
<1>2. g = effect /\ chain[g].at = "answered" /\ rows' = chain[g].answer
  BY <1>1, ChainPoll DEF ShowList
<1>3. QED
  BY <1>2 DEF AnswerIsRecent

(***************************************************************************)
(* A deleted row comes back only in the moment before the effect runs      *)
(* again, in a list that was asked for before the deletion; never later.   *)
(***************************************************************************)
THEOREM RemovedRowsStayAway == Spec => RemovedStaysRemoved
<1>1. ScreenInv /\ [Next]_vars
        => [\A d \in removed : rows[d] = "none" /\ rows'[d] # "none" => effect # generation]_vars
  BY NoneComesBack
<1>2. QED
  BY <1>1, ScreenInvariant, PTL DEF Spec, RemovedStaysRemoved
=============================================================================
