------------------------------- MODULE Scoring -------------------------------
(***************************************************************************)
(* What the evaluation computes: the metrics of a ranked search, the       *)
(* claims of an answer and a judge's verdicts on them, and the report.     *)
(*                                                                         *)
(* A fraction is <<numerator, denominator>>.  An answer is the sequence of *)
(* its sentences, [markers, figure, short]: the sources it cites, whether  *)
(* it states a figure and whether it is too short to be a claim.           *)
(***************************************************************************)
EXTENDS Integers, Sequences, SequencesExt, FiniteSetsExt

Plus(f, g) == <<f[1] * g[2] + g[1] * f[2], f[2] * g[2]>>
Less(f, g) == f[1] * g[2] < g[1] * f[2]
AtMost(f, g) == f[1] * g[2] <= g[1] * f[2]
SumOf(numbers) == FoldLeft(LAMBDA n, x : n + x, 0, numbers)
Total(seq, number(_)) == SumOf([i \in DOMAIN seq |-> number(seq[i])])
Share(n, of) == IF of = 0 THEN <<0, 1>> ELSE <<n, of>>

PlusAll(fractions) == FoldLeft(LAMBDA f, g : Plus(f, g), <<0, 1>>, fractions)
MeanOf(fractions) ==
  LET sum == PlusAll(fractions)
  IN IF fractions = <<>> THEN <<0, 1>> ELSE <<sum[1], sum[2] * Len(fractions)>>

\* The elements at the chosen positions, in their order, and those that pass a test: what
\* SelectSeq gives, defined without recursion so that it can be proved about.
Those(seq, chosen) ==
  [n \in 1 .. Cardinality(chosen) |->
     seq[CHOOSE i \in chosen : Cardinality({j \in chosen : j <= i}) = n]]
Kept(seq, Passes(_)) == Those(seq, {i \in DOMAIN seq : Passes(seq[i])})
-----------------------------------------------------------------------------
\* relevance: for each rank whether the passage found there answers the question.
TopK(relevance, k) == SubSeq(relevance, 1, Min({k, Len(relevance)}))
HitsIn(relevance) == Total(relevance, LAMBDA r : IF r THEN 1 ELSE 0)

PrecisionAtK(relevance, k) == Share(HitsIn(TopK(relevance, k)), Len(TopK(relevance, k)))
RecallAtK(relevance, total, k) == <<HitsIn(TopK(relevance, k)), total>>
HitAtK(relevance, k) == IF HitsIn(TopK(relevance, k)) > 0 THEN <<1, 1>> ELSE <<0, 1>>
ReciprocalRank(relevance) ==
  LET ranks == {i \in DOMAIN relevance : relevance[i]}
  IN IF ranks = {} THEN <<0, 1>> ELSE <<1, Min(ranks)>>

IsRelevant(chunk, question) == question \in chunk.marks
-----------------------------------------------------------------------------
CitedNumbers(markers) ==
  FoldLeft(LAMBDA seen, n : IF n \in Range(seen) THEN seen ELSE Append(seen, n), <<>>, markers)

\* Claims are numbered from 0, over the sentences that are kept.
SplitClaims(sentences, available) ==
  LET kept == Kept(sentences, LAMBDA s : ~s.short)
  IN [i \in DOMAIN kept |->
        LET cited == CitedNumbers(kept[i].markers)
        IN [index |-> i - 1, cited |-> cited, figure |-> kept[i].figure,
            invented |-> Kept(cited, LAMBDA n : n \notin 1 .. available)]]

IsCited(claim) == claim.cited # <<>>
CitedClaims(answer) == Kept(answer.claims, IsCited)
UncitedNumeric(answer) == Kept(answer.claims, LAMBDA c : c.figure /\ ~IsCited(c))
Invented(answer) == FlattenSeq([i \in DOMAIN answer.claims |-> answer.claims[i].invented])

\* Variant: a claim the judge skipped counts as supported.
CoerceLeniently(entries, expected) ==
  [i \in DOMAIN expected |->
     LET about == {j \in DOMAIN entries : entries[j].index = expected[i]}
     IN [index |-> expected[i],
         verdict |-> IF about = {} THEN "supported" ELSE entries[Max(about)].verdict]]

\* One verdict for each claim asked about, the last one given; unclear where there is none.
CoerceVerdicts(entries, expected) ==
  [i \in DOMAIN expected |->
     LET about == {j \in DOMAIN entries : entries[j].index = expected[i]}
     IN [index |-> expected[i],
         verdict |-> IF about = {} THEN "unclear" ELSE entries[Max(about)].verdict]]

Ruled(answer, verdict) == Total(answer.verdicts, LAMBDA v : IF v.verdict = verdict THEN 1 ELSE 0)

\* Grounding over the answers that were measured, never over those whose call failed.
Measured(answers) == Kept(answers, LAMBDA a : ~a.error)
Faithfulness(answers) ==
  LET measured == Measured(answers)
      claims == Total(measured, LAMBDA a : Len(a.claims))
      cited == Total(measured, LAMBDA a : Len(CitedClaims(a)))
      supported == Total(measured, LAMBDA a : Ruled(a, "supported"))
  IN [answers |-> Len(answers), measured |-> Len(measured), claims |-> claims, cited |-> cited,
      supported |-> supported,
      unsupported |-> Total(measured, LAMBDA a : Ruled(a, "unsupported")),
      unclear |-> Total(measured, LAMBDA a : Ruled(a, "unclear")),
      uncitedNumeric |-> Total(measured, LAMBDA a : Len(UncitedNumeric(a))),
      invented |-> Total(measured, LAMBDA a : Len(Invented(a))),
      grounded |-> Share(supported, claims), faithfulness |-> Share(supported, cited),
      coverage |-> Share(cited, claims)]
-----------------------------------------------------------------------------
\* scores: for each question of the corpus [relevance, total, top], top being the similarity
\* of the nearest passage; outside: that similarity for each question the corpus cannot answer.
Means(scores, cutoffs) ==
  LET over(metric(_)) == MeanOf([i \in DOMAIN scores |-> metric(scores[i])])
  IN [hit |-> [k \in cutoffs |-> over(LAMBDA s : HitAtK(s.relevance, k))],
      precision |-> [k \in cutoffs |-> over(LAMBDA s : PrecisionAtK(s.relevance, k))],
      recall |-> [k \in cutoffs |-> over(LAMBDA s : RecallAtK(s.relevance, s.total, k))],
      mrr |-> over(LAMBDA s : ReciprocalRank(s.relevance))]

WorstInCorpus(scores) == Min({scores[i].top : i \in DOMAIN scores})
BestOutOfCorpus(outside) == Max(Range(outside))
Separation(scores, outside) ==
  IF scores = <<>> \/ outside = <<>> THEN <<>>
  ELSE <<WorstInCorpus(scores) - BestOutOfCorpus(outside)>>

\* Where the configured floor sits, said only when some floor separates the questions.
VerdictOnConfiguredFloor(configured, low, high) ==
  IF configured <= high THEN "refuses nothing"
  ELSE IF configured >= low THEN "refuses answerable"
  ELSE "separates"

AsDict(scores, outside, answers, cutoffs) ==
  [means |-> Means(scores, cutoffs), gap |-> Separation(scores, outside),
   faithfulness |-> Faithfulness(answers)]

\* Variant: a gap of zero passes.
FailuresAtZero(scores, outside, failUnder) ==
  {f \in {"hit@1", "gap"} :
     \/ f = "hit@1" /\ failUnder # <<>> /\ Less(Means(scores, {1}).hit[1], failUnder)
     \/ f = "gap" /\ Separation(scores, outside) # <<>> /\ Separation(scores, outside)[1] < 0}

\* Why a run fails; failUnder is empty where no score is required.
Failures(scores, outside, failUnder) ==
  {f \in {"hit@1", "gap"} :
     \/ f = "hit@1" /\ failUnder # <<>> /\ Less(Means(scores, {1}).hit[1], failUnder)
     \/ f = "gap" /\ Separation(scores, outside) # <<>> /\ Separation(scores, outside)[1] <= 0}
-----------------------------------------------------------------------------
\* A dataset is [documents, unique, markers]: its documents, whether the ids of its questions
\* are unique, and of each question of the corpus the documents its marker appears in.
Valid(dataset) ==
  /\ dataset.documents # {} /\ dataset.unique
  /\ \A q \in DOMAIN dataset.markers : Cardinality(dataset.markers[q]) = 1
=============================================================================
