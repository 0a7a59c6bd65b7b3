----------------------------- MODULE Evaluation ------------------------------
(***************************************************************************)
(* The evaluation harness: runs of `python -m app.eval.run` one after      *)
(* another, each of which drops the scratch tenant an earlier one left,    *)
(* ingests the corpus into a new one, scores every question, has the       *)
(* answers judged if asked to, and drops the tenant again.                 *)
(*                                                                         *)
(* All between the creation of the tenant and its removal is one           *)
(* transaction, while stored files obey none.  A run may be killed at any  *)
(* step; an embedder, a model, the storage or the database may fail, in    *)
(* the clean-up too.  A document makes one chunk here; what chunks are is  *)
(* in Chunking.                                                            *)
(***************************************************************************)
EXTENDS Scoring

CONSTANTS
  Documents,     \* the corpus, numbered in the order of their names
  InCorpus, OutOfCorpus,  \* how many questions the corpus answers, and does not
  K, Floor,      \* passages retrieved, and the similarity below which they are dropped
  Similarities, OutSimilarities,  \* bounds: similarities of the nearest passage, in steps
  MarkersIn,     \* bound: the sets of documents a marker may appear in
  Sentences,     \* bound: kinds of sentences a model writes
  MaxSentences,  \* bound: sentences of an answer
  FailUnders,    \* bound: scores a run may require
  MaxRuns        \* bound: runs

ASSUME EvaluationBounds == /\ Documents \subseteq Nat \ {0} /\ Documents # {}
                           /\ {InCorpus, OutOfCorpus, MaxSentences} \subseteq Nat
                           /\ {K, MaxRuns} \subseteq Nat \ {0}
                           /\ {Floor} \cup Similarities \cup OutSimilarities \subseteq Int
                           /\ MarkersIn \subseteq SUBSET Documents

Questions == 1 .. InCorpus

VARIABLES
  run, pc,     \* the runs begun and where the last one is
  faithful,    \* its arguments: judge the answers
  home,        \* the document each question's marker is in
  tenant,      \* whether the scratch tenant is in the database
  rows,        \* its committed documents, <<run, document>>
  files,       \* the stored files, named as the documents are
  work,        \* the documents of the open transaction: [doc, status, marks]
  aborted,     \* whether a failed statement has aborted that transaction
  rolledBack,  \* history: the runs whose transaction did not commit
  corpus,      \* the documents whose chunks are measured
  scores, outside, answers,  \* the results so far
  error,       \* what the run failed of
  failUnder, exit  \* the score it requires, and its exit status

databaseVars == <<tenant, rows, files, work, aborted, rolledBack>>
resultVars == <<corpus, scores, outside, answers>>
argumentVars == <<run, faithful, home>>
vars == <<pc, argumentVars, databaseVars, resultVars, error, failUnder, exit>>

Inside == {"ingest", "run", "score", "outside", "judge", "leave"}
Steps == Inside \cup {"before", "after"}

TypeOK ==
  /\ run \in 0 .. MaxRuns /\ pc \in Steps \cup {"idle", "ended", "killed"}
  /\ faithful \in BOOLEAN /\ home \in [Questions -> Documents]
  /\ tenant \in BOOLEAN /\ aborted \in BOOLEAN
  /\ rows \subseteq (1 .. MaxRuns) \X Documents /\ files \subseteq (1 .. MaxRuns) \X Documents
  /\ \A w \in work : w.doc \in Documents /\ w.marks \subseteq Questions
                     /\ w.status \in {"PENDING", "READY", "FAILED"}
  /\ rolledBack \subseteq 1 .. MaxRuns /\ corpus \subseteq (1 .. MaxRuns) \X Documents
  /\ Len(scores) <= InCorpus /\ Len(outside) <= OutOfCorpus /\ Len(answers) <= InCorpus
  /\ error \in {"none", "DatasetError", "EvaluationError", "drop", "other"}
  /\ failUnder \in FailUnders \cup {<<>>} /\ exit \in {-1, 0, 1, 2}
-----------------------------------------------------------------------------
Init ==
  /\ run = 0 /\ pc = "idle" /\ faithful = FALSE /\ home = [q \in Questions |-> Min(Documents)]
  /\ tenant = FALSE /\ rows = {} /\ files = {} /\ work = {} /\ aborted = FALSE /\ rolledBack = {}
  /\ corpus = {} /\ scores = <<>> /\ outside = <<>> /\ answers = <<>>
  /\ error = "none" /\ failUnder = <<>> /\ exit = -1

Datasets == [documents : {{}, Documents}, unique : BOOLEAN, markers : [Questions -> MarkersIn]]

NoResults == corpus' = {} /\ scores' = <<>> /\ outside' = <<>> /\ answers' = <<>>

\* A run begins: it loads the dataset, and ends at once when that is inconsistent.
LoadDataset ==
  /\ pc \in {"idle", "ended", "killed"} /\ run < MaxRuns
  /\ run' = run + 1 /\ faithful' \in BOOLEAN
  /\ NoResults /\ failUnder' = <<>>
  /\ \E dataset \in Datasets :
       \/ /\ Valid(dataset)
          /\ home' = [q \in Questions |-> CHOOSE d \in Documents : d \in dataset.markers[q]]
          /\ pc' = "before" /\ error' = "none" /\ exit' = -1
       \/ /\ ~Valid(dataset)
          /\ pc' = "ended" /\ error' = "DatasetError" /\ exit' = 2 /\ UNCHANGED home
  /\ UNCHANGED databaseVars

\* Variant: the rows go first, and the files with nothing left to name them.
DropRowsFirst ==
  /\ pc \in {"before", "after"} /\ tenant /\ rows # {}
  /\ rows' = {}
  /\ UNCHANGED <<pc, argumentVars, tenant, files, work, aborted, rolledBack, resultVars, error, failUnder, exit>>

\* _drop_scratch_tenant, before a run and after it: the files, then the rows, then the tenant.
DropFile ==
  /\ pc \in {"before", "after"} /\ tenant
  /\ rows \cap files # {}
  /\ files' = files \ {CHOOSE f \in rows \cap files : \A g \in rows \cap files : f[2] <= g[2]}
  /\ UNCHANGED <<pc, argumentVars, tenant, rows, work, aborted, rolledBack, resultVars, error, failUnder, exit>>

DropRows ==
  /\ pc \in {"before", "after"} /\ tenant /\ rows # {} /\ rows \cap files = {}
  /\ rows' = {}
  /\ UNCHANGED <<pc, argumentVars, tenant, files, work, aborted, rolledBack, resultVars, error, failUnder, exit>>

DropTenant ==
  /\ pc \in {"before", "after"} /\ tenant /\ rows = {}
  /\ tenant' = FALSE
  /\ UNCHANGED <<pc, argumentVars, rows, files, work, aborted, rolledBack, resultVars, error, failUnder, exit>>

\* An exception that nothing catches ends Python with 1, and no report is made.
Dies(e) ==
  /\ NoResults
  /\ pc' = "ended" /\ error' = e /\ exit' = 1
  /\ UNCHANGED <<argumentVars, databaseVars, failUnder>>

\* The storage or the database fails while the tenant is dropped (or an embedder cannot be
\* built before that): the rest of it stays, and an exception under way is replaced.
DropFails == pc \in {"before", "after"} /\ tenant /\ Dies("drop")

\* The tenant commits by itself; the transaction begins after it.
CreateTenant ==
  /\ pc = "before" /\ ~tenant
  /\ tenant' = TRUE /\ pc' = "ingest"
  /\ UNCHANGED <<argumentVars, rows, files, work, aborted, rolledBack, resultVars, error, failUnder, exit>>

CreateFails == pc = "before" /\ ~tenant /\ Dies("other")

\* An exception leaves the transaction: its rows are gone, its files are not.
Raise(e) ==
  /\ NoResults
  /\ error' = e /\ pc' = "after"
  /\ work' = {} /\ aborted' = FALSE /\ rolledBack' = rolledBack \cup {run}
  /\ UNCHANGED <<argumentVars, tenant, rows, files, failUnder, exit>>

\* Any other error in the block: of the storage, the database or its commit, the embedder, a
\* task that would be retried, a model that cannot be built.
Fail == pc \in Inside /\ Raise("other")

Unsaved == Documents \ {w.doc : w \in work}

SaveDocument ==
  /\ pc = "ingest" /\ Unsaved # {}
  /\ work' = work \cup {[doc |-> Min(Unsaved), status |-> "PENDING", marks |-> {}]}
  /\ files' = files \cup {<<run, Min(Unsaved)>>}
  /\ pc' = "run"
  /\ UNCHANGED <<argumentVars, tenant, rows, aborted, rolledBack, resultVars, error, failUnder, exit>>

\* run_ingestion: the document becomes READY, with the markers redaction left in it, or
\* FAILED for good.
IngestDocument ==
  /\ pc = "run"
  /\ LET w == CHOOSE x \in work : x.status = "PENDING"
     IN \E marks \in SUBSET {q \in Questions : home[q] = w.doc}, status \in {"READY", "FAILED"} :
          /\ status = "FAILED" => marks = {}
          /\ work' = (work \ {w}) \cup {[w EXCEPT !.status = status, !.marks = marks]}
  /\ pc' = "ingest"
  /\ UNCHANGED <<argumentVars, tenant, rows, files, aborted, rolledBack, resultVars, error, failUnder, exit>>

\* Once all are ingested the chunks the tenant has are the corpus.
CheckIngested ==
  /\ pc = "ingest" /\ Unsaved = {}
  /\ \/ /\ \A w \in work : w.status = "READY"
        /\ corpus' = rows \cup {<<run, w.doc>> : w \in work}
        /\ pc' = IF InCorpus = 0 THEN "outside" ELSE "score"
        /\ UNCHANGED <<argumentVars, databaseVars, scores, outside, answers, error, failUnder, exit>>
     \/ (\E w \in work : w.status # "READY") /\ Raise("EvaluationError")

\* The rankings nearest_chunks may return.
Rankings == {f \in [1 .. Min({K, Cardinality(work)}) -> work] : IsInjective(f)}

\* The next question of the corpus: no chunk left that answers it is an error of the run.
Score ==
  /\ pc = "score" /\ Len(scores) < InCorpus
  /\ LET q == Len(scores) + 1
         total == Cardinality({w \in work : IsRelevant(w, q)})
     IN \/ /\ total > 0
           /\ \E ranking \in Rankings, top \in Similarities :
                scores' = Append(scores, [relevance |-> [i \in DOMAIN ranking |-> IsRelevant(ranking[i], q)],
                                          total |-> total, top |-> top])
           /\ pc' = IF q = InCorpus THEN "outside" ELSE pc
           /\ UNCHANGED <<argumentVars, databaseVars, corpus, outside, answers, error, failUnder, exit>>
        \/ total = 0 /\ Raise("EvaluationError")

\* The nearest passage of a question the corpus cannot answer.
ScoreOutside ==
  /\ pc = "outside" /\ Len(outside) < OutOfCorpus
  /\ \E top \in OutSimilarities : outside' = Append(outside, top)
  /\ UNCHANGED <<pc, argumentVars, databaseVars, corpus, scores, answers, error, failUnder, exit>>

ScoredAll ==
  /\ pc = "outside" /\ Len(outside) = OutOfCorpus
  /\ pc' = IF faithful THEN "judge" ELSE "leave"
  /\ UNCHANGED <<argumentVars, databaseVars, resultVars, error, failUnder, exit>>

Answered(answer) ==
  /\ answers' = Append(answers, answer)
  /\ UNCHANGED <<pc, argumentVars, tenant, rows, files, work, rolledBack, corpus, scores, outside, error, failUnder, exit>>

Gap == [error |-> TRUE, refused |-> FALSE, claims |-> <<>>, verdicts |-> <<>>, backed |-> {}]
Judging == pc = "judge" /\ Len(answers) < InCorpus

\* Variant: a failed question falls through and is recorded a second time.
JudgeFailsTwice ==
  /\ Judging
  /\ answers' = answers \o <<Gap, Gap>> /\ aborted' = aborted
  /\ UNCHANGED <<pc, argumentVars, tenant, rows, files, work, rolledBack, corpus, scores, outside, error, failUnder, exit>>

\* A retrieval, a stream or a judge that fails is a gap; a statement that fails aborts the
\* transaction, and every later question of the run with it.
JudgeFails ==
  /\ Judging
  /\ Answered(Gap) /\ (aborted' = aborted \/ aborted' = TRUE)

\* The refusal of a question without sources is its one sentence.
JudgeRefusal ==
  /\ Judging /\ ~aborted /\ scores[Len(answers) + 1].top < Floor
  /\ Answered([Gap EXCEPT !.error = FALSE, !.refused = TRUE,
                          !.claims = SplitClaims(<<[markers |-> <<>>, figure |-> FALSE, short |-> FALSE]>>, 0)])
  /\ UNCHANGED aborted

Entries(claims) == [index : 0 .. Len(claims), verdict : {"supported", "unsupported", "unclear"}]

\* A question whose nearest passage clears the floor is offered the passages that do.  A judge's
\* payload may skip a claim, rule twice or name one it was not asked about; a word outside the
\* enum is taken as unclear.  backed is history: the claims it called supported.
JudgeAnswer ==
  /\ Judging /\ ~aborted /\ scores[Len(answers) + 1].top >= Floor
  /\ \E available \in 1 .. Len(scores[Len(answers) + 1].relevance),
        sentences \in BoundedSeq(Sentences, MaxSentences) :
       LET claims == SplitClaims(sentences, available)
           asked == Kept(claims, IsCited)
           expected == [i \in DOMAIN asked |-> asked[i].index]
       IN \E entries \in IF asked = <<>> THEN {<<>>} ELSE BoundedSeq(Entries(claims), 2) :
            Answered([error |-> FALSE, refused |-> FALSE, claims |-> claims,
                      verdicts |-> CoerceVerdicts(entries, expected),
                      backed |-> {i \in Range(expected) : [index |-> i, verdict |-> "supported"] \in Range(entries)}])
  /\ UNCHANGED aborted

JudgedAll ==
  /\ pc = "judge" /\ Len(answers) = InCorpus
  /\ pc' = "leave"
  /\ UNCHANGED <<argumentVars, databaseVars, resultVars, error, failUnder, exit>>

\* The end of the block commits, which on an aborted transaction rolls back without an error.
Leave ==
  /\ pc = "leave"
  /\ rows' = IF aborted THEN rows ELSE rows \cup {<<run, w.doc>> : w \in work}
  /\ rolledBack' = IF aborted THEN rolledBack \cup {run} ELSE rolledBack
  /\ work' = {} /\ aborted' = FALSE /\ pc' = "after"
  /\ UNCHANGED <<argumentVars, tenant, files, resultVars, error, failUnder, exit>>

\* main: aborted runs exit 2, an exception it does not know ends Python with 1, and a
\* measurement exits 1 when it failed.
Exit ==
  /\ pc = "after" /\ ~tenant
  /\ failUnder' \in FailUnders \cup {<<>>}
  /\ exit' = CASE error = "EvaluationError" -> 2
               [] error = "other" -> 1
               [] OTHER -> IF Failures(scores, outside, failUnder') = {} THEN 0 ELSE 1
  /\ pc' = "ended"
  /\ UNCHANGED <<argumentVars, databaseVars, resultVars, error>>

\* The process is killed: the open transaction, if there is one, rolls back.
Kill ==
  /\ pc \in Steps
  /\ NoResults /\ pc' = "killed" /\ work' = {} /\ aborted' = FALSE
  /\ rolledBack' = IF pc \in {"before", "after"} THEN rolledBack ELSE rolledBack \cup {run}
  /\ UNCHANGED <<argumentVars, tenant, rows, files, error, failUnder, exit>>

Next ==
  \/ LoadDataset \/ DropFile \/ DropRows \/ DropTenant \/ DropFails \/ CreateTenant \/ CreateFails
  \/ Fail \/ SaveDocument \/ IngestDocument \/ CheckIngested \/ Score \/ ScoreOutside \/ ScoredAll
  \/ JudgeFails \/ JudgeRefusal \/ JudgeAnswer \/ JudgedAll \/ Leave \/ Exit \/ Kill

Spec == Init /\ [][Next]_vars
-----------------------------------------------------------------------------
\* A run that gets through its clean-up leaves neither the scratch tenant nor a document of
\* it, its own or an interrupted run's.  Whatever a run is stopped by, in the clean-up too, a
\* file it leaves is named by a row of a tenant that is still there, for the next run to drop,
\* unless its transaction was rolled back after the file was stored, which nothing in the
\* harness cleans up (_drop_scratch_tenant).
NothingLeftBehind ==
  /\ pc = "ended" /\ error \notin {"DatasetError", "drop"} => ~tenant /\ rows = {}
  /\ pc \in {"ended", "killed"} =>
       \A f \in files : f[1] \in rolledBack \/ (tenant /\ f \in rows)

\* A run with a report to print, which it made before it dropped the tenant.
Reported == pc = "after" /\ ~tenant /\ error = "none"

\* What a report says follows from this run's corpus and no other's: the metrics agree with
\* each other, every cited claim of a measured answer has one verdict, a support counted is
\* one the judge gave, failed questions count in no score, and a floor that is said to
\* separate the questions does.
ReportIsSound ==
  Reported =>
    LET r == AsDict(scores, outside, answers, 1 .. K)
        f == r.faithfulness
        tops == {scores[i].top : i \in DOMAIN scores}
    IN /\ corpus = {<<run, d>> : d \in Documents}
       /\ AtMost(r.means.hit[1], r.means.mrr) /\ AtMost(r.means.mrr, r.means.hit[K])
       /\ \A k \in 1 .. K : AtMost(r.means.precision[k], <<1, 1>>) /\ AtMost(r.means.recall[k], <<1, 1>>)
       /\ InCorpus > 0 /\ K >= Cardinality(Documents) => ~Less(r.means.recall[K], <<1, 1>>)
       /\ f.supported + f.unsupported + f.unclear = f.cited /\ f.cited <= f.claims
       /\ f.measured = Cardinality({i \in DOMAIN answers : ~answers[i].error})
       /\ \A i \in DOMAIN answers : \A j \in DOMAIN answers[i].verdicts :
            LET v == answers[i].verdicts[j]
            IN v.index = CitedClaims(answers[i])[j].index
                 /\ (v.verdict = "supported" => v.index \in answers[i].backed)
       /\ (r.gap # <<>> /\ r.gap[1] > 0) =>
            LET said == VerdictOnConfiguredFloor(Floor, WorstInCorpus(scores), BestOutOfCorpus(outside))
            IN /\ said = "separates" => \A t \in tops, o \in Range(outside) : o < Floor /\ Floor <= t
               /\ said = "refuses nothing" => \E o \in Range(outside) : o >= Floor
               /\ said = "refuses answerable" => \E t \in tops : t <= Floor

\* The exit status tells a pipeline what happened: 0 is a whole measurement in which some
\* floor separates the questions and the required score is reached, 2 a run that measured
\* nothing for a reason the harness knows, and 1 everything else.
ExitTellsOutcome ==
  pc = "ended" =>
    /\ exit = 2 <=> error \in {"DatasetError", "EvaluationError"}
    /\ exit = 0 =>
         /\ error = "none" /\ Len(scores) = InCorpus /\ Len(outside) = OutOfCorpus
         /\ \A i \in DOMAIN scores, j \in DOMAIN outside : scores[i].top > outside[j]
         /\ failUnder # <<>> => ~Less(Means(scores, {1}).hit[1], failUnder)
    /\ faithful /\ exit \in {0, 1} /\ error = "none" => Len(answers) = InCorpus
=============================================================================
