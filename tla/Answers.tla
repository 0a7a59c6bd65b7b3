------------------------------- MODULE Answers -------------------------------
(***************************************************************************)
(* What an answer cites: the chunks of a tenant, replaced by every         *)
(* ingestion and embedded again by the backfill, the search of one         *)
(* question, the stream of its answer and the citations resolved from the  *)
(* markers the model wrote.                                                *)
(*                                                                         *)
(* Retrieval is one transaction and the stream runs outside any, so        *)
(* ingestions, deletions, backfills and a change of the configured model   *)
(* interleave with it.  An answer's text is the sequence of the numbers    *)
(* its markers mention; how the text arrives in pieces is in Citations.    *)
(***************************************************************************)
EXTENDS Citations

CONSTANTS
  Documents,    \* documents of the tenant
  Questions,    \* questions asked
  Models,       \* embedding models a deployment may configure
  TopK,         \* most chunks a search returns
  MaxChunks,    \* bound: chunks of one ingestion
  MaxVersions,  \* bound: ingestions of one document
  MaxMentions,  \* bound: markers of one answer
  None

Ids == 1 .. (MaxChunks * MaxVersions * Cardinality(Documents))

ASSUME AnswersBounds == {TopK, MaxChunks, MaxVersions, MaxMentions} \subseteq Nat \ {0}
ASSUME AnswersNone == None \notin Models
ASSUME AnswersDocuments == IsFiniteSet(Documents)

Chunk == [id : Ids, document : Documents, index : Nat, version : Nat, model : Models, space : Models]
Source == [id : Ids, document : Documents, index : Nat, version : Nat]
Citation == [number : Nat, source : Source]

VARIABLES
  chunks,             \* the Chunk rows: model is the column embedding_model, space the
                      \* model that really made the vector
  version, nextId,    \* ingestions of each document, the table's sequence of keys
  active,             \* the embedding model configured
  backfill, pending,  \* the running backfill's model, and the chunks it read
  pc,                 \* a question: asked, streamed, ended; refused is the flag of the citations frame
  sources, space,     \* what its search returned, nearest first, and its query's space
  asOf,               \* history: the versions of the documents it searched
  text, citations     \* the answer so far, and its terminal event

corpusVars == <<chunks, version, nextId>>
backfillVars == <<backfill, pending>>
answerVars == <<pc, sources, space, asOf, text, citations>>
vars == <<corpusVars, active, backfillVars, answerVars>>

TypeOK ==
  /\ chunks \subseteq Chunk
  /\ version \in [Documents -> Nat] /\ nextId \in Nat
  /\ active \in Models /\ backfill \in Models \cup {None} /\ pending \subseteq Chunk
  /\ pc \in [Questions -> {"new", "stream", "answered", "refused", "failed", "oversized"}]
  /\ \A q \in Questions :
       /\ sources[q] \in Seq(Source) /\ Len(sources[q]) <= TopK
       /\ text[q] \in Seq(Nat)
       /\ citations[q] \in Seq(Citation) /\ Len(citations[q]) <= Len(sources[q])
  /\ space \in [Questions -> Models \cup {None}]

Init ==
  /\ chunks = {} /\ version = [d \in Documents |-> 0] /\ nextId = 1
  /\ active \in Models /\ backfill = None /\ pending = {}
  /\ pc = [q \in Questions |-> "new"]
  /\ sources = [q \in Questions |-> <<>>] /\ space = [q \in Questions |-> None]
  /\ asOf = [q \in Questions |-> version]
  /\ text = [q \in Questions |-> <<>>] /\ citations = [q \in Questions |-> <<>>]

(***************************************************************************)
(* The corpus                                                              *)
(***************************************************************************)

Of(d) == {c \in chunks : c.document = d}

\* Variant: new rows take the keys of the old.
IngestInPlace(d, n, m) ==
  /\ version[d] < MaxVersions
  /\ version' = [version EXCEPT ![d] = @ + 1]
  /\ LET first == IF Of(d) = {} THEN nextId ELSE Min({c.id : c \in Of(d)}) IN
       /\ chunks' = (chunks \ Of(d)) \cup
            {[id |-> first + i, document |-> d, index |-> i, version |-> version[d] + 1,
              model |-> m, space |-> m] : i \in 0 .. (n - 1)}
       /\ nextId' = Max({nextId, first + n})
  /\ UNCHANGED <<active, backfillVars, answerVars>>

\* An ingestion replaces a document's chunks by new rows with new keys; it may have
\* taken its embedder before the model was switched.
Ingest(d, n, m) ==
  /\ version[d] < MaxVersions
  /\ version' = [version EXCEPT ![d] = @ + 1]
  /\ chunks' = (chunks \ Of(d)) \cup
       {[id |-> nextId + i, document |-> d, index |-> i, version |-> version[d] + 1,
         model |-> m, space |-> m] : i \in 0 .. (n - 1)}
  /\ nextId' = nextId + n
  /\ UNCHANGED <<active, backfillVars, answerVars>>

\* A deleted document takes its chunks with it and never comes back.
Delete(d) ==
  /\ version[d] \in 1 .. MaxVersions
  /\ chunks' = chunks \ Of(d)
  /\ version' = [version EXCEPT ![d] = MaxVersions + 1]
  /\ UNCHANGED <<nextId, active, backfillVars, answerVars>>

\* A deployment configures another embedding model of the same width.
SwitchModel(m) ==
  /\ m # active /\ active' = m
  /\ UNCHANGED <<corpusVars, backfillVars, answerVars>>

\* backfill_embeddings reads the chunks of another model's vectors, embeds their
\* texts and writes the vectors back by key; rows deleted meanwhile are no longer
\* there to update.
StartBackfill ==
  /\ backfill = None
  /\ backfill' = active
  /\ pending' = {c \in chunks : c.model # active}
  /\ pending' # {}
  /\ UNCHANGED <<corpusVars, active, answerVars>>

Reembedded(c) == [c EXCEPT !.model = backfill, !.space = backfill]

WriteBackfill ==
  /\ backfill # None
  /\ chunks' = {IF \E p \in pending : p.id = c.id THEN Reembedded(c) ELSE c : c \in chunks}
  /\ backfill' = None /\ pending' = {}
  /\ UNCHANGED <<version, nextId, active, answerVars>>

(***************************************************************************)
(* A question                                                              *)
(***************************************************************************)

\* Variant: whatever model embedded them.
CandidatesOfAnyModel == chunks

\* The chunks a search ranks: those embedded by the model that embeds the question.
Candidates == {c \in chunks : c.model = active}

AsSource(c) == [id |-> c.id, document |-> c.document, index |-> c.index, version |-> c.version]

\* Retrieval: at most TopK candidates clear the similarity floor, nearest first, and
\* are numbered in that order; the distances are the data's.
Ask(q) ==
  /\ pc[q] = "new"
  /\ \E n \in 0 .. TopK : \E found \in kSubset(n, Candidates) : \E s \in SetToAllKPermutations(found) :
       /\ Len(s) = n
       /\ sources' = [sources EXCEPT ![q] = [i \in 1 .. n |-> AsSource(s[i])]]
  /\ space' = [space EXCEPT ![q] = active]
  /\ asOf' = [asOf EXCEPT ![q] = version]
  /\ pc' = [pc EXCEPT ![q] = "stream"]
  /\ UNCHANGED <<corpusVars, active, backfillVars, text, citations>>

\* The model's text goes on to its next marker, a source's number or an invented one.
Emit(q) ==
  /\ pc[q] = "stream" /\ sources[q] # <<>> /\ Len(text[q]) < MaxMentions
  /\ \E n \in 1 .. (TopK + 1) : text' = [text EXCEPT ![q] = Append(@, n)]
  /\ UNCHANGED <<corpusVars, active, backfillVars, pc, sources, space, asOf, citations>>

\* Variant: a marker mentioned again cites again.
FinishRepeating(q) ==
  /\ pc[q] = "stream" /\ sources[q] # <<>>
  /\ citations' = [citations EXCEPT ![q] = ResolveAll(sources[q], text[q])]
  /\ pc' = [pc EXCEPT ![q] = "answered"]
  /\ UNCHANGED <<corpusVars, active, backfillVars, sources, space, asOf, text>>

\* The model's text ends, whole or because its connection did: nothing tells them
\* apart, and the citations frame ends the stream.
Finish(q) ==
  /\ pc[q] = "stream" /\ sources[q] # <<>>
  /\ citations' = [citations EXCEPT ![q] = Resolve(sources[q], text[q])]
  /\ pc' = [pc EXCEPT ![q] = "answered"]
  /\ UNCHANGED <<corpusVars, active, backfillVars, sources, space, asOf, text>>

\* Nothing was found: a refusal, and no call to the model.
Refuse(q) ==
  /\ pc[q] = "stream" /\ sources[q] = <<>>
  /\ pc' = [pc EXCEPT ![q] = "refused"]
  /\ UNCHANGED <<corpusVars, active, backfillVars, sources, space, asOf, text, citations>>

\* The model fails at any point: an error frame ends the stream, with no citations.
Fail(q) ==
  /\ pc[q] = "stream" /\ sources[q] # <<>>
  /\ pc' = [pc EXCEPT ![q] = "failed"]
  /\ UNCHANGED <<corpusVars, active, backfillVars, sources, space, asOf, text, citations>>

\* A prompt that cannot fit the local model's window is refused before it is sent.
GuardContext(q) ==
  /\ pc[q] = "stream" /\ sources[q] # <<>> /\ text[q] = <<>>
  /\ pc' = [pc EXCEPT ![q] = "oversized"]
  /\ UNCHANGED <<corpusVars, active, backfillVars, sources, space, asOf, text, citations>>

Next ==
  \/ \E d \in Documents, n \in 1 .. MaxChunks, m \in Models : Ingest(d, n, m)
  \/ \E d \in Documents : Delete(d)
  \/ \E m \in Models : SwitchModel(m)
  \/ StartBackfill \/ WriteBackfill
  \/ \E q \in Questions :
       Ask(q) \/ Emit(q) \/ Finish(q) \/ Refuse(q) \/ Fail(q) \/ GuardContext(q)

Spec == Init /\ [][Next]_vars

(***************************************************************************)
(* Properties                                                              *)
(***************************************************************************)

\* GET /api/chunks/<id>: the row a citation opens now, if there is one.
Opened(c) == {row \in chunks : row.id = c.source.id}

\* However the corpus changed since the search, a citation opens the passage the model was
\* given or nothing, never another passage; and nothing only because its document was
\* ingested again or deleted: a backfill or a change of model never breaks one.
OpensItsPassage ==
  \A q \in Questions : \A i \in DOMAIN citations[q] :
    LET c == citations[q][i]
    IN /\ \A row \in Opened(c) : AsSource(row) = c.source
       /\ Opened(c) = {} => version[c.source.document] > asOf[q][c.source.document]

\* A search compares vectors of one space: while models change and a backfill runs,
\* every source was embedded by the model that embedded the question.
OneSpace ==
  [][\A q \in Questions : pc[q] = "new" /\ pc'[q] = "stream" =>
       \A i \in DOMAIN sources'[q] : \A c \in chunks :
         c.id = sources'[q][i].id => c.space = space'[q]]_vars
=============================================================================
