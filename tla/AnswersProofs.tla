---------------------------- MODULE AnswersProofs ----------------------------
(***************************************************************************)
(* What Answers guarantees for every corpus, every number of questions and *)
(* models, and answers of every length.                                    *)
(***************************************************************************)
EXTENDS Answers, SequenceTheorems, FiniteSetTheorems, WellFoundedInduction, TLAPS

(***************************************************************************)
(* Induction                                                               *)
(***************************************************************************)

\* A set of numbers that holds 0 and with a number the next one holds all.
LEMMA EveryNumber ==
  ASSUME NEW T, T \subseteq Nat, 0 \in T, \A k \in T : k + 1 \in T
  PROVE  T = Nat
<1> SUFFICES ASSUME Nat \ T # {} PROVE FALSE
  OBVIOUS
<1>1. PICK x \in Nat \ T : \A y \in Nat \ T : <<y, x>> \notin OpToRel(<, Nat)
  BY WFMin, NatLessThanWellFounded, Nat \ T \subseteq Nat
<1>2. x # 0 /\ x - 1 \in Nat /\ x - 1 < x
  OBVIOUS
<1>3. x - 1 \in T
  BY <1>1, <1>2 DEF OpToRel
<1>4. (x - 1) + 1 = x
  OBVIOUS
<1> QED
  BY <1>3, <1>4

\* The largest of some of the first numbers.
LEMMA LargestOf ==
  ASSUME NEW n \in Nat, NEW u \in SUBSET (1 .. n), u # {}
  PROVE  Max(u) \in u /\ \A x \in u : x <= Max(u)
<1> DEFINE T == {k \in Nat : \A w \in SUBSET (1 .. k) : w # {} => \E x \in w : \A y \in w : x >= y}
<1>1. 0 \in T
  <2>1. \A w \in SUBSET (1 .. 0) : w = {}
    OBVIOUS
  <2> QED
    BY <2>1
<1>2. ASSUME NEW k \in T PROVE k + 1 \in T
  <2> SUFFICES ASSUME NEW w \in SUBSET (1 .. (k + 1)), w # {}
               PROVE  \E x \in w : \A y \in w : x >= y
    OBVIOUS
  <2>1. CASE k + 1 \in w
    BY <2>1
  <2>2. CASE k + 1 \notin w
    <3>1. w \in SUBSET (1 .. k)
      BY <2>2
    <3> QED
      BY <3>1
  <2> QED
    BY <2>1, <2>2
<1>3. T = Nat
  <2> HIDE DEF T
  <2>1. T \subseteq Nat
    BY DEF T
  <2> QED
    BY <1>1, <1>2, <2>1, EveryNumber
<1>4. \E x \in u : \A y \in u : x >= y
  BY <1>3
<1>5. Max(u) \in u /\ \A y \in u : Max(u) >= y
  BY <1>4 DEF Max
<1> QED
  BY <1>5

(***************************************************************************)
(* The citations of an answer                                              *)
(***************************************************************************)

\* One step of Resolve, and a function that is Resolve on the first numbers of a text:
\* on a set of positions, what the numbers at these positions resolve to.
Mention(s, done, n) ==
  IF n \in DOMAIN s /\ \A i \in DOMAIN done : done[i].number # n THEN Append(done, Cite(s, n)) ELSE done

Resolves(it, s, numbers, n) ==
  it = [u \in SUBSET (1 .. n) |->
          IF u = {} THEN <<>> ELSE Mention(s, it[u \ {Max(u)}], numbers[Max(u)])]

LEMMA ResolutionExists ==
  ASSUME NEW s, NEW numbers, NEW n \in Nat
  PROVE  \E it : Resolves(it, s, numbers, n)
<1> DEFINE T == {k \in Nat : \E it : Resolves(it, s, numbers, k)}
<1>1. 0 \in T
  <2> DEFINE it == [u \in SUBSET (1 .. 0) |-> <<>>]
  <2>1. \A u \in SUBSET (1 .. 0) : u = {}
    OBVIOUS
  <2>2. Resolves(it, s, numbers, 0)
    BY <2>1 DEF Resolves
  <2> QED
    BY <2>2
<1>2. ASSUME NEW k \in T PROVE k + 1 \in T
  <2>1. PICK it : Resolves(it, s, numbers, k)
    OBVIOUS
  <2> DEFINE jt == [u \in SUBSET (1 .. (k + 1)) |->
                      IF k + 1 \in u THEN Mention(s, it[u \ {k + 1}], numbers[k + 1]) ELSE it[u]]
  <2>2. ASSUME NEW u \in SUBSET (1 .. (k + 1)) 
        PROVE  jt[u] = IF u = {} THEN <<>> ELSE Mention(s, jt[u \ {Max(u)}], numbers[Max(u)])
    <3>1. CASE k + 1 \in u
      <4>1. Max(u) = k + 1
        <5>1. k \in Nat /\ k + 1 \in Nat /\ u # {}
          BY <3>1
        <5>2. Max(u) \in u /\ k + 1 <= Max(u)
          BY <3>1, <5>1, LargestOf
        <5>3. Max(u) \in 1 .. (k + 1)
          BY <5>2
        <5> QED
          BY <5>1, <5>2, <5>3
      <4>2. u \ {k + 1} \in SUBSET (1 .. (k + 1)) /\ k + 1 \notin u \ {k + 1}
        OBVIOUS
      <4>3. jt[u \ {k + 1}] = it[u \ {k + 1}]
        BY <4>2
      <4> QED
        BY <3>1, <4>1, <4>3
    <3>2. CASE k + 1 \notin u
      <4>1. u \in SUBSET (1 .. k) /\ jt[u] = it[u]
        BY <3>2
      <4>2. it[u] = IF u = {} THEN <<>> ELSE Mention(s, it[u \ {Max(u)}], numbers[Max(u)])
        BY <2>1, <4>1 DEF Resolves
      <4>3. jt[u \ {Max(u)}] = it[u \ {Max(u)}]
        <5>1. u \ {Max(u)} \in SUBSET (1 .. (k + 1)) /\ k + 1 \notin u \ {Max(u)}
          BY <3>2
        <5> QED
          BY <5>1
      <4> QED
        BY <4>1, <4>2, <4>3
    <3> QED
      BY <3>1, <3>2
  <2>3. Resolves(jt, s, numbers, k + 1)
    <3>1. \A u \in SUBSET (1 .. (k + 1)) :
            jt[u] = IF u = {} THEN <<>> ELSE Mention(s, jt[u \ {Max(u)}], numbers[Max(u)])
      BY <2>2
    <3>2. jt = [u \in SUBSET (1 .. (k + 1)) |-> jt[u]]
      OBVIOUS
    <3> HIDE DEF jt
    <3> QED
      BY <3>1, <3>2 DEF Resolves
  <2> QED
    BY <2>3
<1> HIDE DEF T
<1>3. T = Nat
  <2>1. T \subseteq Nat
    BY DEF T
  <2> QED
    BY <1>1, <1>2, <2>1, EveryNumber
<1> QED
  BY <1>3 DEF T

\* What citations must be: each cites a source by its number, and none repeats another.
Cites(s, done) ==
  /\ done \in Seq({Cite(s, n) : n \in DOMAIN s})
  /\ \A i, j \in DOMAIN done : done[i].number = done[j].number => i = j

LEMMA MentionCites ==
  ASSUME NEW s, NEW done, NEW n, Cites(s, done)
  PROVE  Cites(s, Mention(s, done, n))
<1>1. CASE n \in DOMAIN s /\ \A i \in DOMAIN done : done[i].number # n
  <2> DEFINE C == {Cite(s, k) : k \in DOMAIN s}
             more == Append(done, Cite(s, n))
  <2>1. Cite(s, n) \in C /\ Cite(s, n).number = n /\ done \in Seq(C)
    BY <1>1 DEF Cites, Cite
  <2> HIDE DEF C
  <2>2. /\ more \in Seq(C) /\ Len(done) \in Nat /\ Len(more) = Len(done) + 1
        /\ \A i \in 1 .. Len(done) : more[i] = done[i]
        /\ more[Len(done) + 1] = Cite(s, n)
    BY <2>1, AppendProperties, LenProperties
  <2>3. DOMAIN done = 1 .. Len(done) /\ DOMAIN more = 1 .. (Len(done) + 1)
    BY <2>1, <2>2, LenProperties
  <2> HIDE DEF more
  <2>4. \A i, j \in DOMAIN more : more[i].number = more[j].number => i = j
    <3> SUFFICES ASSUME NEW i \in DOMAIN more, NEW j \in DOMAIN more, more[i].number = more[j].number
                 PROVE  i = j
      OBVIOUS
    <3>1. CASE i \in DOMAIN done /\ j \in DOMAIN done
      BY <2>2, <2>3, <3>1 DEF Cites
    <3>2. CASE i = Len(done) + 1 /\ j \in DOMAIN done
      BY <1>1, <2>1, <2>2, <2>3, <3>2
    <3>3. CASE i \in DOMAIN done /\ j = Len(done) + 1
      BY <1>1, <2>1, <2>2, <2>3, <3>3
    <3> QED
      BY <2>2, <2>3, <3>1, <3>2, <3>3
  <2>5. Cites(s, more)
    BY <2>2, <2>4 DEF Cites, C
  <2> QED
    BY <1>1, <2>5 DEF Mention, more
<1>2. CASE ~(n \in DOMAIN s /\ \A i \in DOMAIN done : done[i].number # n)
  BY <1>2 DEF Mention
<1> QED
  BY <1>1, <1>2

LEMMA ResolutionCites ==
  ASSUME NEW s, NEW numbers, NEW n \in Nat, NEW it, Resolves(it, s, numbers, n), NEW u \in SUBSET (1 .. n)
  PROVE  Cites(s, it[u])
<1> DEFINE T == {k \in Nat : k <= n => \A w \in SUBSET (1 .. k) : Cites(s, it[w])}
<1>1. it[{}] = <<>>
  BY DEF Resolves
<1>2. 0 \in T
  <2>1. \A w \in SUBSET (1 .. 0) : w = {}
    OBVIOUS
  <2>2. Cites(s, <<>>)
    BY DEF Cites
  <2> QED
    BY <1>1, <2>1, <2>2
<1>3. ASSUME NEW k \in T PROVE k + 1 \in T
  <2>k. k \in Nat /\ k + 1 \in Nat
    OBVIOUS
  <2> SUFFICES ASSUME k + 1 <= n, NEW w \in SUBSET (1 .. (k + 1)) PROVE Cites(s, it[w])
    BY <2>k
  <2>1. CASE w = {}
    <3>1. Cites(s, <<>>)
      BY DEF Cites
    <3> QED
      BY <1>1, <2>1, <3>1
  <2>2. CASE w # {}
    <3>1. Max(w) \in w /\ \A x \in w : x <= Max(w)
      BY <2>k, <2>2, LargestOf
    <3>2. w \ {Max(w)} \in SUBSET (1 .. k)
      <4>1. Max(w) \in 1 .. (k + 1)
        BY <3>1
      <4>2. ASSUME NEW x \in w, x # Max(w) PROVE x \in 1 .. k
        <5>1. x \in 1 .. (k + 1) /\ x <= Max(w)
          BY <3>1
        <5> QED
          BY <2>k, <4>1, <4>2, <5>1
      <4> QED
        BY <4>2
    <3>3. Cites(s, it[w \ {Max(w)}])
      BY <2>k, <3>2
    <3>4. w \in SUBSET (1 .. n)
      OBVIOUS
    <3>5. it[w] = Mention(s, it[w \ {Max(w)}], numbers[Max(w)])
      BY <2>2, <3>4 DEF Resolves
    <3> QED
      BY <3>3, <3>5, MentionCites
  <2> QED
    BY <2>1, <2>2
<1> HIDE DEF T
<1>4. T = Nat
  <2>1. T \subseteq Nat
    BY DEF T
  <2> QED
    BY <1>2, <1>3, <2>1, EveryNumber
<1> QED
  BY <1>4 DEF T

\* Whatever numbers a model wrote: every citation is of a source that was offered, with
\* its number, and there are no more citations than sources.
LEMMA ResolveCites ==
  ASSUME NEW S, NEW s \in Seq(S), NEW numbers \in Seq(Nat)
  PROVE  Cites(s, Resolve(s, numbers)) /\ Len(Resolve(s, numbers)) <= Len(s)
<1> DEFINE n == Len(numbers)
           it == CHOOSE f : Resolves(f, s, numbers, n)
           done == Resolve(s, numbers)
<1>1. n \in Nat /\ DOMAIN numbers = 1 .. n
  BY LenProperties
<1>2. Resolves(it, s, numbers, n)
  <2>1. \E f : Resolves(f, s, numbers, n)
    BY <1>1, ResolutionExists
  <2> QED
    BY <2>1
<1>3. done = it[1 .. n]
  <2>1. done = (CHOOSE f : f = [u \in SUBSET (DOMAIN numbers) |->
                  IF u = {} THEN <<>> ELSE Mention(s, f[u \ {Max(u)}], numbers[Max(u)])])[DOMAIN numbers]
    BY DEF Resolve, FoldLeft, MapThenFoldSet, Mention
  <2> QED
    BY <1>1, <2>1 DEF Resolves
<1> HIDE DEF n, it
<1>4. Cites(s, it[1 .. n])
  BY <1>1, <1>2, ResolutionCites
<1>5. Cites(s, done)
  BY <1>3, <1>4
<1> HIDE DEF done
<1>6. Len(done) <= Len(s)
  <2> DEFINE C == {Cite(s, k) : k \in DOMAIN s}
             f == [i \in 1 .. Len(done) |-> done[i].number]
  <2>1. done \in Seq(C)
    BY <1>5 DEF Cites
  <2>2. \A c \in C : c.number \in DOMAIN s
    BY DEF Cite
  <2> HIDE DEF C
  <2>3. Len(done) \in Nat /\ DOMAIN done = 1 .. Len(done) /\ \A i \in 1 .. Len(done) : done[i] \in C
    BY <2>1, LenProperties, ElementOfSeq
  <2>4. Len(s) \in Nat /\ DOMAIN s = 1 .. Len(s)
    BY LenProperties
  <2>5. f \in [1 .. Len(done) -> 1 .. Len(s)]
    BY <2>2, <2>3, <2>4
  <2>6. \A i, j \in 1 .. Len(done) : f[i] = f[j] => i = j
    BY <1>5, <2>3 DEF Cites
  <2>7. f \in Injection(1 .. Len(done), 1 .. Len(s))
    BY <2>5, <2>6 DEF Injection, IsInjective
  <2> HIDE DEF f
  <2>8. Cardinality(1 .. Len(done)) <= Cardinality(1 .. Len(s))
    BY <2>4, <2>7, FS_Interval, FS_Injection
  <2>9. \A k \in Nat : Cardinality(1 .. k) = k
    BY FS_Interval
  <2> QED
    BY <2>3, <2>4, <2>8, <2>9
<1> QED
  BY <1>5, <1>6 DEF done

(***************************************************************************)
(* The invariant                                                           *)
(***************************************************************************)

\* Every row has a key of its own that was given out, and the vector its model made.
Rows == [id : Nat \ {0}, document : Documents, index : Nat, version : Nat, model : Models, space : Models]

CorpusFits ==
  /\ nextId \in Nat \ {0} /\ version \in [Documents -> 0 .. (MaxVersions + 1)]
  /\ \A c \in chunks \cup pending : c \in Rows /\ c.id < nextId
  /\ \A c \in chunks : c.model = c.space
  /\ \A c, e \in chunks : c.id = e.id => c = e

\* The keys given out, counted by the ingestions that took them.
Ingested == {p \in Documents \X (1 .. MaxVersions) : p[2] <= version[p[1]]}
KeysBounded == nextId <= MaxChunks * Cardinality(Ingested) + 1

\* A source names the row it was read from for as long as there is one; it goes only when
\* its document is ingested again or deleted.
Passages == [id : Nat \ {0}, document : Documents, index : Nat, version : Nat]

StillOpens(q, s) ==
  /\ s.id < nextId
  /\ \A row \in chunks : row.id = s.id => AsSource(row) = s
  /\ (\A row \in chunks : row.id # s.id) => version[s.document] > asOf[q][s.document]

SourcesFit(q) ==
  /\ asOf[q] \in [Documents -> Nat] /\ \A d \in Documents : asOf[q][d] <= version[d]
  /\ sources[q] \in Seq(Passages) /\ Len(sources[q]) <= TopK
  /\ \A i \in DOMAIN sources[q] : StillOpens(q, sources[q][i])
  /\ pc[q] = "new" => sources[q] = <<>>

\* The citations are of these sources.
AnswerFits(q) ==
  /\ pc[q] \in {"new", "stream", "answered", "refused", "failed", "oversized"}
  /\ space[q] \in Models \cup {None} /\ text[q] \in Seq(Nat)
  /\ Cites(sources[q], citations[q]) /\ Len(citations[q]) <= Len(sources[q])
  /\ pc[q] \in {"new", "stream"} => citations[q] = <<>>

\* Every variable of the questions holds something for each.
Shapes ==
  /\ pc = [q \in Questions |-> pc[q]] /\ sources = [q \in Questions |-> sources[q]]
  /\ space = [q \in Questions |-> space[q]] /\ asOf = [q \in Questions |-> asOf[q]]
  /\ text = [q \in Questions |-> text[q]] /\ citations = [q \in Questions |-> citations[q]]

AnswersInv ==
  /\ CorpusFits /\ KeysBounded
  /\ active \in Models /\ backfill \in Models \cup {None}
  /\ Shapes
  /\ \A q \in Questions : SourcesFit(q) /\ AnswerFits(q)

(***************************************************************************)
(* The corpus changes                                                      *)
(***************************************************************************)

\* Ingested grows with the versions, and is as large as all ingestions at most.
LEMMA IngestionsAreFew ==
  ASSUME CorpusFits, KeysBounded
  PROVE  /\ IsFiniteSet(Ingested) /\ Cardinality(Ingested) \in Nat
         /\ \A c \in chunks \cup pending : c \in Chunk
         /\ \A k \in Nat \ {0} : k < nextId => k \in Ids
<1> DEFINE All == Documents \X (1 .. MaxVersions)
<1>1. /\ MaxVersions \in Nat \ {0} /\ MaxChunks \in Nat \ {0} /\ IsFiniteSet(Documents)
      /\ Cardinality(Documents) \in Nat
  BY AnswersBounds, AnswersDocuments, FS_CardinalityType
<1>2. IsFiniteSet(1 .. MaxVersions) /\ Cardinality(1 .. MaxVersions) = MaxVersions
  BY <1>1, FS_Interval, SMTT(30)
<1>3. IsFiniteSet(All) /\ Cardinality(All) = Cardinality(Documents) * MaxVersions
  BY <1>1, <1>2, FS_Product
<1>4. IsFiniteSet(Ingested) /\ Cardinality(Ingested) \in Nat /\ Cardinality(Ingested) <= Cardinality(All)
  <2>1. Ingested \in SUBSET All
    BY DEF Ingested
  <2> QED
    BY <1>3, <2>1, FS_Subset, FS_CardinalityType
<1>5. nextId <= MaxChunks * MaxVersions * Cardinality(Documents) + 1
  <2> DEFINE a == Cardinality(Documents)
             b == Cardinality(Ingested)
  <2>1. b <= a * MaxVersions /\ a * MaxVersions \in Nat
    BY <1>1, <1>3, <1>4
  <2>2. a \in Nat /\ b \in Nat
    BY <1>1, <1>4
  <2>3. nextId \in Nat /\ nextId <= MaxChunks * b + 1
    BY DEF CorpusFits, KeysBounded
  <2> HIDE DEF a, b
  <2>4. MaxChunks * b <= MaxChunks * (a * MaxVersions)
    BY <1>1, <2>1, <2>2
  <2>5. MaxChunks * (a * MaxVersions) = MaxChunks * MaxVersions * a
    BY <1>1, <2>2
  <2> QED
    BY <1>1, <2>2, <2>3, <2>4, <2>5 DEF a
<1>6. ASSUME NEW k \in Nat \ {0}, k < nextId PROVE k \in Ids
  <2> DEFINE bound == MaxChunks * MaxVersions * Cardinality(Documents)
  <2>1. bound \in Nat /\ nextId \in Nat /\ nextId <= bound + 1
    BY <1>1, <1>5 DEF CorpusFits
  <2> HIDE DEF bound
  <2>2. k \in 1 .. bound
    BY <1>6, <2>1
  <2> QED
    BY <2>2 DEF Ids, bound
<1>7. ASSUME NEW c \in chunks \cup pending PROVE c \in Chunk
  BY <1>6 DEF CorpusFits, Rows, Chunk
<1> QED
  BY <1>4, <1>6, <1>7

\* What a source needs of a change of the corpus: keys are not given again, versions only
\* grow, and a row that goes takes its document's version with it.
LEMMA SourcesStay ==
  ASSUME CorpusFits, NEW q \in Questions, SourcesFit(q), nextId' \in Nat, nextId <= nextId',
         \A d \in Documents : version'[d] \in Nat /\ version[d] <= version'[d],
         \A row \in chunks' : row.id < nextId =>
           \E old \in chunks : old.id = row.id /\ AsSource(old) = AsSource(row),
         \A old \in chunks : (\E row \in chunks' : row.id = old.id) \/ version[old.document] < version'[old.document],
         UNCHANGED <<pc, sources, asOf>>
  PROVE  SourcesFit(q)'
<1>1. ASSUME NEW i \in DOMAIN sources[q] PROVE StillOpens(q, sources[q][i])'
  <2> DEFINE s == sources[q][i]
  <2>1. s \in Passages /\ StillOpens(q, s)
    BY LenProperties, ElementOfSeq DEF SourcesFit
  <2> HIDE DEF s
  <2>2. s.id \in Nat /\ s.id < nextId /\ s.document \in Documents /\ nextId \in Nat
    BY <2>1 DEF Passages, StillOpens, CorpusFits
  <2>3. s.id < nextId'
    BY <2>2
  <2>4. ASSUME NEW row \in chunks', row.id = s.id PROVE AsSource(row) = s
    <3>1. PICK old \in chunks : old.id = row.id /\ AsSource(old) = AsSource(row)
      BY <2>2, <2>4
    <3> QED
      BY <2>1, <2>4, <3>1 DEF StillOpens
  <2>5. ASSUME \A row \in chunks' : row.id # s.id
        PROVE  version'[s.document] > asOf'[q][s.document]
    <3>1. /\ version[s.document] \in Nat /\ version'[s.document] \in Nat /\ asOf[q][s.document] \in Nat
          /\ asOf[q][s.document] <= version[s.document] /\ version[s.document] <= version'[s.document]
      BY <2>2 DEF SourcesFit, CorpusFits
    <3>2. CASE \E old \in chunks : old.id = s.id
      <4>1. PICK old \in chunks : old.id = s.id
        BY <3>2
      <4>2. old.document = s.document
        BY <2>1, <4>1 DEF StillOpens, AsSource
      <4>3. version[s.document] < version'[s.document]
        BY <2>5, <4>1, <4>2
      <4> QED
        BY <3>1, <4>3
    <3>3. CASE \A old \in chunks : old.id # s.id
      <4>1. version[s.document] > asOf[q][s.document]
        BY <2>1, <3>3 DEF StillOpens
      <4> QED
        BY <3>1, <4>1
    <3> QED
      BY <3>2, <3>3
  <2>6. s = sources'[q][i]
    BY DEF s
  <2> QED
    BY <2>3, <2>4, <2>5, <2>6 DEF StillOpens, AsSource
<1>2. ASSUME NEW d \in Documents PROVE asOf'[q][d] <= version'[d]
  <2>1. asOf[q][d] \in Nat /\ version[d] \in Nat /\ asOf[q][d] <= version[d]
    BY DEF SourcesFit, CorpusFits
  <2> QED
    BY <2>1
<1> QED
  BY <1>1, <1>2 DEF SourcesFit

\* An answer is its question's alone.
LEMMA AnswersStay ==
  ASSUME NEW q, AnswerFits(q), pc'[q] = pc[q], sources'[q] = sources[q], space'[q] = space[q],
         text'[q] = text[q], citations'[q] = citations[q]
  PROVE  AnswerFits(q)'
BY DEF AnswerFits, Cites

\* The keys of an ingestion are new, so no source takes its rows for others.
LEMMA IngestFits ==
  ASSUME AnswersInv, NEW d \in Documents, NEW n \in 1 .. MaxChunks, NEW m \in Models, Ingest(d, n, m)
  PROVE  AnswersInv'
<1> DEFINE Row(i) == [id |-> nextId + i, document |-> d, index |-> i, version |-> version[d] + 1,
                      model |-> m, space |-> m]
           New == {Row(i) : i \in 0 .. (n - 1)}
<1>1. /\ chunks' = (chunks \ Of(d)) \cup New /\ nextId' = nextId + n
      /\ version' = [version EXCEPT ![d] = @ + 1] /\ version[d] < MaxVersions
      /\ UNCHANGED <<active, backfill, pending, pc, sources, space, asOf, text, citations>>
  BY DEF Ingest, backfillVars, answerVars
<1>2. /\ nextId \in Nat \ {0} /\ version \in [Documents -> 0 .. (MaxVersions + 1)]
      /\ MaxVersions \in Nat \ {0} /\ MaxChunks \in Nat \ {0} /\ n \in Nat \ {0} /\ n <= MaxChunks
  BY AnswersBounds DEF AnswersInv, CorpusFits
<1>3. nextId' \in Nat \ {0} /\ nextId < nextId' /\ nextId <= nextId'
  BY <1>1, <1>2
<1>4. /\ version' \in [Documents -> 0 .. (MaxVersions + 1)] /\ version'[d] = version[d] + 1
      /\ \A e \in Documents : version'[e] \in Nat /\ version[e] <= version'[e]
  BY <1>1, <1>2
<1>5. ASSUME NEW c \in New
      PROVE  /\ c \in Rows /\ nextId <= c.id /\ c.id < nextId' /\ c.model = c.space
             /\ \A e \in New : c.id = e.id => c = e
  <2>1. PICK i \in 0 .. (n - 1) : c = Row(i)
    OBVIOUS
  <2>2. c \in Rows /\ nextId <= c.id /\ c.id < nextId' /\ c.model = c.space
    BY <1>1, <1>2, <2>1 DEF Rows
  <2>3. ASSUME NEW e \in New, c.id = e.id PROVE c = e
    <3>1. PICK j \in 0 .. (n - 1) : e = Row(j)
      OBVIOUS
    <3>2. nextId + i = nextId + j
      BY <2>1, <2>3, <3>1
    <3>3. i = j
      BY <1>2, <3>2
    <3> QED
      BY <2>1, <3>1, <3>3
  <2> QED
    BY <2>2, <2>3
<1> HIDE DEF New
<1>6. CorpusFits'
  <2>1. ASSUME NEW c \in chunks' \cup pending' PROVE c \in Rows /\ c.id < nextId'
    <3>1. CASE c \in New
      BY <1>5, <3>1
    <3>2. CASE c \in chunks \cup pending
      <4>1. c \in Rows /\ c.id < nextId
        BY <3>2 DEF AnswersInv, CorpusFits
      <4>2. c.id \in Nat
        BY <4>1 DEF Rows
      <4> QED
        BY <1>2, <1>3, <4>1, <4>2
    <3> QED
      BY <1>1, <3>1, <3>2
  <2>2. \A c \in chunks' : c.model = c.space
    BY <1>1, <1>5 DEF AnswersInv, CorpusFits
  <2>3. \A c \in chunks : c.id \in Nat /\ c.id < nextId
    BY DEF AnswersInv, CorpusFits, Rows
  <2>4. \A c \in New : c.id \in Nat /\ nextId <= c.id
    BY <1>5 DEF Rows
  <2>5. \A c, e \in chunks' : c.id = e.id => c = e
    <3> SUFFICES ASSUME NEW c \in chunks', NEW e \in chunks', c.id = e.id PROVE c = e
      OBVIOUS
    <3>1. CASE c \in chunks /\ e \in chunks
      BY <3>1 DEF AnswersInv, CorpusFits
    <3>2. CASE c \in New /\ e \in New
      BY <1>5, <3>2
    <3>3. ~(c \in New /\ e \in chunks) /\ ~(c \in chunks /\ e \in New)
      BY <1>2, <2>3, <2>4
    <3> QED
      BY <1>1, <3>1, <3>2, <3>3
  <2> QED
    BY <1>3, <1>4, <2>1, <2>2, <2>5 DEF CorpusFits
<1>7. KeysBounded'
  <2> DEFINE p == <<d, version[d] + 1>>
  <2>1. Ingested' = Ingested \cup {p}
    <3>1. ASSUME NEW e \in Documents, NEW v \in 1 .. MaxVersions
          PROVE  v <= version'[e] <=> v <= version[e] \/ <<e, v>> = p
      <4>1. CASE e = d
        BY <1>1, <1>2, <4>1
      <4>2. CASE e # d
        BY <1>1, <1>2, <4>2
      <4> QED
        BY <4>1, <4>2
    <3>2. p \in Documents \X (1 .. MaxVersions)
      BY <1>1, <1>2
    <3> HIDE DEF p
    <3> QED
      BY <3>1, <3>2 DEF Ingested
  <2>2. p \notin Ingested
    BY <1>2 DEF Ingested
  <2>3. IsFiniteSet(Ingested) /\ Cardinality(Ingested) \in Nat
    BY IngestionsAreFew DEF AnswersInv
  <2> HIDE DEF p
  <2>4. Cardinality(Ingested') = Cardinality(Ingested) + 1
    BY <2>1, <2>2, <2>3, FS_AddElement
  <2> DEFINE b == Cardinality(Ingested)
  <2>5. nextId <= MaxChunks * b + 1 /\ b \in Nat
    BY <2>3 DEF AnswersInv, KeysBounded
  <2> HIDE DEF b
  <2>6. nextId + n <= MaxChunks * (b + 1) + 1
    BY <1>2, <2>5
  <2> QED
    BY <1>1, <2>4, <2>6 DEF KeysBounded, b
<1>8. ASSUME NEW q \in Questions PROVE SourcesFit(q)' /\ AnswerFits(q)'
  <2>1. ASSUME NEW row \in chunks', row.id < nextId
        PROVE  \E old \in chunks : old.id = row.id /\ AsSource(old) = AsSource(row)
    <3>1. row \notin New
      <4>1. ASSUME row \in New PROVE FALSE
        <5>1. row.id \in Nat /\ nextId <= row.id
          BY <1>5, <4>1 DEF Rows
        <5> QED
          BY <1>2, <2>1, <5>1
      <4> QED
        BY <4>1
    <3> QED
      BY <1>1, <3>1
  <2>2. ASSUME NEW old \in chunks
        PROVE  (\E row \in chunks' : row.id = old.id) \/ version[old.document] < version'[old.document]
    <3>1. CASE old \in Of(d)
      BY <1>2, <1>4, <3>1 DEF Of
    <3> QED
      BY <1>1, <3>1
  <2>3. SourcesFit(q) /\ AnswerFits(q) /\ CorpusFits
    BY DEF AnswersInv
  <2>4. SourcesFit(q)'
    BY <1>1, <1>3, <1>4, <2>1, <2>2, <2>3, SourcesStay
  <2> QED
    BY <1>1, <2>3, <2>4, AnswersStay
<1>9. Shapes'
  BY <1>1 DEF AnswersInv, Shapes
<1> QED
  BY <1>1, <1>6, <1>7, <1>8, <1>9 DEF AnswersInv

LEMMA DeleteFits ==
  ASSUME AnswersInv, NEW d \in Documents, Delete(d)
  PROVE  AnswersInv'
<1>1. /\ chunks' = chunks \ Of(d) /\ version' = [version EXCEPT ![d] = MaxVersions + 1]
      /\ version[d] \in 1 .. MaxVersions /\ nextId' = nextId
      /\ UNCHANGED <<active, backfill, pending, pc, sources, space, asOf, text, citations>>
  BY DEF Delete, backfillVars, answerVars
<1>2. /\ nextId \in Nat \ {0} /\ version \in [Documents -> 0 .. (MaxVersions + 1)]
      /\ MaxVersions \in Nat \ {0} /\ MaxChunks \in Nat \ {0}
  BY AnswersBounds DEF AnswersInv, CorpusFits
<1>3. /\ version' \in [Documents -> 0 .. (MaxVersions + 1)] /\ version[d] < version'[d]
      /\ \A e \in Documents : version'[e] \in Nat /\ version[e] <= version'[e]
  BY <1>1, <1>2
<1>4. CorpusFits'
  BY <1>1, <1>3 DEF AnswersInv, CorpusFits
<1>5. KeysBounded'
  <2>1. Ingested \subseteq Ingested'
    <3>1. \A e \in Documents, v \in 1 .. MaxVersions : v <= version[e] => v <= version'[e]
      BY <1>2, <1>3
    <3> QED
      BY <3>1 DEF Ingested
  <2>2. IsFiniteSet(Ingested') /\ Cardinality(Ingested') \in Nat
    <3>1. IsFiniteSet(Documents \X (1 .. MaxVersions))
      <4>1. IsFiniteSet(1 .. MaxVersions)
        BY <1>2, FS_Interval
      <4> QED
        BY <4>1, AnswersDocuments, FS_Product
    <3>2. Ingested' \in SUBSET (Documents \X (1 .. MaxVersions))
      BY DEF Ingested
    <3> QED
      BY <3>1, <3>2, FS_Subset, FS_CardinalityType
  <2>3. Cardinality(Ingested) <= Cardinality(Ingested') /\ Cardinality(Ingested) \in Nat
    BY <2>1, <2>2, FS_Subset, FS_CardinalityType
  <2> DEFINE a == Cardinality(Ingested)
             b == Cardinality(Ingested')
  <2>4. nextId <= MaxChunks * a + 1 /\ a \in Nat /\ b \in Nat /\ a <= b
    BY <2>2, <2>3 DEF AnswersInv, KeysBounded
  <2> HIDE DEF a, b
  <2>5. nextId <= MaxChunks * b + 1
    <3>1. MaxChunks * a <= MaxChunks * b /\ MaxChunks * a \in Nat /\ MaxChunks * b \in Nat
      BY <1>2, <2>4
    <3> QED
      BY <1>2, <2>4, <3>1
  <2> QED
    BY <1>1, <2>5 DEF KeysBounded, b
<1>6. ASSUME NEW q \in Questions PROVE SourcesFit(q)' /\ AnswerFits(q)'
  <2>1. \A row \in chunks' : \E old \in chunks : old.id = row.id /\ AsSource(old) = AsSource(row)
    BY <1>1
  <2>2. \A old \in chunks : (\E row \in chunks' : row.id = old.id) \/ version[old.document] < version'[old.document]
    BY <1>1, <1>3 DEF Of
  <2>3. SourcesFit(q) /\ AnswerFits(q) /\ CorpusFits
    BY DEF AnswersInv
  <2>4. nextId' \in Nat /\ nextId <= nextId'
    BY <1>1, <1>2
  <2>5. SourcesFit(q)'
    BY <1>1, <1>3, <2>1, <2>2, <2>3, <2>4, SourcesStay
  <2> QED
    BY <1>1, <2>3, <2>5, AnswersStay
<1> QED
  BY <1>1, <1>4, <1>5, <1>6 DEF AnswersInv, Shapes

\* A backfill gives rows new vectors of one model and leaves their keys and passages.
LEMMA WriteBackfillFits ==
  ASSUME AnswersInv, WriteBackfill
  PROVE  AnswersInv'
<1> DEFINE Written(c) == IF \E p \in pending : p.id = c.id THEN Reembedded(c) ELSE c
<1>1. /\ backfill \in Models /\ chunks' = {Written(c) : c \in chunks} /\ backfill' = None /\ pending' = {}
      /\ UNCHANGED <<version, nextId, active, pc, sources, space, asOf, text, citations>>
  BY DEF AnswersInv, WriteBackfill, answerVars
<1>2. ASSUME NEW c \in chunks
      PROVE  /\ Written(c) \in Rows /\ Written(c).id = c.id /\ Written(c).model = Written(c).space
             /\ AsSource(Written(c)) = AsSource(c) /\ c.id < nextId
  <2>1. c \in Rows /\ c.model = c.space /\ c.id < nextId
    BY DEF AnswersInv, CorpusFits
  <2>2. Written(c) \in {c, Reembedded(c)}
    OBVIOUS
  <2>3. /\ Reembedded(c) \in Rows /\ Reembedded(c).id = c.id
        /\ Reembedded(c).model = Reembedded(c).space /\ AsSource(Reembedded(c)) = AsSource(c)
    BY <1>1, <2>1 DEF Reembedded, Rows, AsSource
  <2> HIDE DEF Written
  <2> QED
    BY <2>1, <2>2, <2>3
<1> HIDE DEF Written
<1>3. CorpusFits'
  <2>1. \A c \in chunks' \cup pending' : c \in Rows /\ c.id < nextId'
    BY <1>1, <1>2
  <2>2. \A c \in chunks' : c.model = c.space
    BY <1>1, <1>2
  <2>3. \A c, e \in chunks' : c.id = e.id => c = e
    BY <1>1, <1>2 DEF AnswersInv, CorpusFits
  <2> QED
    BY <1>1, <2>1, <2>2, <2>3 DEF AnswersInv, CorpusFits
<1>4. KeysBounded'
  BY <1>1 DEF AnswersInv, KeysBounded, Ingested
<1>5. ASSUME NEW q \in Questions PROVE SourcesFit(q)' /\ AnswerFits(q)'
  <2>1. \A row \in chunks' : \E old \in chunks : old.id = row.id /\ AsSource(old) = AsSource(row)
    BY <1>1, <1>2
  <2>2. \A old \in chunks : \E row \in chunks' : row.id = old.id
    BY <1>1, <1>2
  <2>3. SourcesFit(q) /\ AnswerFits(q) /\ CorpusFits
    BY DEF AnswersInv
  <2>4. /\ nextId' \in Nat /\ nextId <= nextId'
        /\ \A d \in Documents : version'[d] \in Nat /\ version[d] <= version'[d]
    BY <1>1, <2>3 DEF CorpusFits
  <2>5. SourcesFit(q)'
    BY <1>1, <2>1, <2>2, <2>3, <2>4, SourcesStay
  <2> QED
    BY <1>1, <2>3, <2>5, AnswersStay
<1> QED
  BY <1>1, <1>3, <1>4, <1>5 DEF AnswersInv, Shapes

\* What does not touch the rows or the questions.
LEMMA ModelsChangeFits ==
  ASSUME AnswersInv, StartBackfill \/ (\E m \in Models : SwitchModel(m)) \/ UNCHANGED vars
  PROVE  AnswersInv'
<1>1. /\ UNCHANGED <<chunks, version, nextId, pc, sources, space, asOf, text, citations>>
      /\ active' \in Models /\ backfill' \in Models \cup {None} /\ pending' \subseteq chunks \cup pending
  BY DEF AnswersInv, StartBackfill, SwitchModel, vars, corpusVars, backfillVars, answerVars
<1>2. CorpusFits' /\ KeysBounded'
  BY <1>1 DEF AnswersInv, CorpusFits, KeysBounded, Ingested
<1>3. ASSUME NEW q \in Questions PROVE SourcesFit(q)' /\ AnswerFits(q)'
  <2>1. SourcesFit(q) /\ AnswerFits(q)
    BY DEF AnswersInv
  <2>2. SourcesFit(q)'
    BY <1>1, <2>1 DEF SourcesFit, StillOpens, AsSource
  <2> QED
    BY <1>1, <2>1, <2>2, AnswersStay
<1> QED
  BY <1>1, <1>2, <1>3 DEF AnswersInv, Shapes

(***************************************************************************)
(* A question goes on                                                      *)
(***************************************************************************)

\* A question's step leaves the corpus and the other questions as they are.
LEMMA QuestionStep ==
  ASSUME AnswersInv, NEW q \in Questions, UNCHANGED <<chunks, version, nextId, active, backfill, pending>>,
         Shapes', SourcesFit(q)', AnswerFits(q)',
         \A o \in Questions \ {q} :
           /\ pc'[o] = pc[o] /\ sources'[o] = sources[o] /\ space'[o] = space[o]
           /\ asOf'[o] = asOf[o] /\ text'[o] = text[o] /\ citations'[o] = citations[o]
  PROVE  AnswersInv'
<1>1. CorpusFits' /\ KeysBounded'
  BY DEF AnswersInv, CorpusFits, KeysBounded, Ingested
<1>2. ASSUME NEW o \in Questions \ {q} PROVE SourcesFit(o)' /\ AnswerFits(o)'
  <2>1. SourcesFit(o) /\ AnswerFits(o)
    BY DEF AnswersInv
  <2>2. SourcesFit(o)'
    BY <2>1, SMTT(30) DEF SourcesFit, StillOpens, AsSource
  <2> QED
    BY <2>1, <2>2, AnswersStay
<1> QED
  BY <1>1, <1>2 DEF AnswersInv

\* The rows a search may return are finitely many, and what it returns are such rows.
LEMMA FoundRows ==
  ASSUME AnswersInv, NEW n \in 0 .. TopK, NEW found \in kSubset(n, Candidates),
         NEW s \in SetToAllKPermutations(found), Len(s) = n
  PROVE  \A i \in 1 .. n : s[i] \in Candidates
<1>1. IsFiniteSet(chunks)
  <2> DEFINE f == [c \in chunks |-> c.id]
  <2>1. f \in [chunks -> 1 .. nextId]
    BY DEF AnswersInv, CorpusFits, Rows
  <2>2. \A c, e \in chunks : f[c] = f[e] => c = e
    BY DEF AnswersInv, CorpusFits
  <2>3. f \in Injection(chunks, 1 .. nextId)
    BY <2>1, <2>2 DEF Injection, IsInjective
  <2>4. IsFiniteSet(1 .. nextId)
    BY FS_Interval DEF AnswersInv, CorpusFits
  <2> HIDE DEF f
  <2> QED
    BY <2>3, <2>4, FS_Injection
<1>2. PICK w \in SUBSET found : s \in SetToSeqs(w)
  BY DEF SetToAllKPermutations
<1>3. w \subseteq Candidates /\ IsFiniteSet(w)
  <2>1. w \in SUBSET Candidates /\ w \in SUBSET chunks
    BY DEF kSubset, Candidates
  <2> QED
    BY <1>1, <2>1, FS_Subset
<1>4. Cardinality(w) \in Nat
  BY <1>3, FS_CardinalityType
<1>5. s \in [1 .. Cardinality(w) -> w]
  BY <1>2 DEF SetToSeqs
<1>6. Len(s) = Cardinality(w)
  BY <1>4, <1>5
<1> QED
  BY <1>3, <1>5, <1>6

\* The sources of a search are rows it found, each with its own key.
LEMMA AskFits ==
  ASSUME AnswersInv, NEW q \in Questions, Ask(q)
  PROVE  AnswersInv'
<1>a. PICK n \in 0 .. TopK : \E found \in kSubset(n, Candidates) : \E s \in SetToAllKPermutations(found) :
        Len(s) = n /\ sources' = [sources EXCEPT ![q] = [i \in 1 .. n |-> AsSource(s[i])]]
  BY DEF Ask
<1>b. PICK found \in kSubset(n, Candidates) : \E s \in SetToAllKPermutations(found) :
        Len(s) = n /\ sources' = [sources EXCEPT ![q] = [i \in 1 .. n |-> AsSource(s[i])]]
  BY <1>a
<1>1. PICK s \in SetToAllKPermutations(found) :
        Len(s) = n /\ sources' = [sources EXCEPT ![q] = [i \in 1 .. n |-> AsSource(s[i])]]
  BY <1>b
<1>2. /\ pc[q] = "new" /\ pc' = [pc EXCEPT ![q] = "stream"]
      /\ space' = [space EXCEPT ![q] = active] /\ asOf' = [asOf EXCEPT ![q] = version]
      /\ UNCHANGED <<chunks, version, nextId, active, backfill, pending, text, citations>>
  BY DEF Ask, corpusVars, backfillVars
<1>3. Shapes'
  BY <1>1, <1>2 DEF AnswersInv, Shapes
<1>4. /\ pc'[q] = "stream" /\ sources'[q] = [i \in 1 .. n |-> AsSource(s[i])]
      /\ space'[q] = active /\ asOf'[q] = version /\ citations'[q] = <<>> /\ text'[q] = text[q]
  BY <1>1, <1>2 DEF AnswersInv, Shapes, AnswerFits
<1>5. ASSUME NEW i \in 1 .. n
      PROVE  s[i] \in chunks /\ AsSource(s[i]) \in Passages /\ StillOpens(q, AsSource(s[i]))'
  <2>1. s[i] \in chunks
    BY <1>1, FoundRows DEF Candidates
  <2>2. s[i] \in Rows /\ s[i].id < nextId
    BY <2>1 DEF AnswersInv, CorpusFits
  <2>3. AsSource(s[i]) \in Passages /\ AsSource(s[i]).id = s[i].id
    BY <2>2 DEF AsSource, Rows, Passages
  <2>4. \A row \in chunks : row.id = s[i].id => row = s[i]
    BY <2>1 DEF AnswersInv, CorpusFits
  <2> QED
    BY <1>2, <2>1, <2>2, <2>3, <2>4 DEF StillOpens, AsSource
<1>6. SourcesFit(q)'
  <2>1. version \in [Documents -> Nat]
    BY DEF AnswersInv, CorpusFits
  <2>2. n \in Nat /\ n <= TopK
    BY AnswersBounds
  <2> DEFINE given == [i \in 1 .. n |-> AsSource(s[i])]
  <2>3. given \in Seq(Passages) /\ Len(given) = n /\ DOMAIN given = 1 .. n
    BY <1>5, <2>2
  <2>4. \A i \in DOMAIN given : StillOpens(q, given[i])'
    BY <1>5, <2>3
  <2>5. \A d \in Documents : asOf'[q][d] <= version'[d]
    BY <1>2, <1>4, <2>1
  <2>6. sources'[q] = given
    BY <1>4
  <2> HIDE DEF given
  <2>7. \A i \in DOMAIN sources'[q] : StillOpens(q, sources[q][i])'
    BY <2>4, <2>6
  <2> QED
    BY <1>2, <1>4, <2>1, <2>2, <2>3, <2>5, <2>6, <2>7 DEF SourcesFit
<1>7. AnswerFits(q)'
  <2>1. Cites(sources'[q], <<>>)
    BY DEF Cites
  <2>2. Len(sources'[q]) \in Nat
    BY <1>6, LenProperties DEF SourcesFit
  <2>3. active \in Models /\ text[q] \in Seq(Nat)
    BY DEF AnswersInv, AnswerFits
  <2> QED
    BY <1>4, <2>1, <2>2, <2>3 DEF AnswerFits
<1>8. \A o \in Questions \ {q} :
        /\ pc'[o] = pc[o] /\ sources'[o] = sources[o] /\ space'[o] = space[o]
        /\ asOf'[o] = asOf[o] /\ text'[o] = text[o] /\ citations'[o] = citations[o]
  BY <1>1, <1>2 DEF AnswersInv, Shapes
<1> QED
  BY <1>2, <1>3, <1>6, <1>7, <1>8, QuestionStep

\* A source is offered for as long as its answer streams, and cited from the text alone.
LEMMA EmitFits ==
  ASSUME AnswersInv, NEW q \in Questions, Emit(q)
  PROVE  AnswersInv'
<1>1. PICK n \in 1 .. (TopK + 1) : text' = [text EXCEPT ![q] = Append(@, n)]
  BY DEF Emit
<1>2. UNCHANGED <<chunks, version, nextId, active, backfill, pending, pc, sources, space, asOf, citations>>
  BY DEF Emit, corpusVars, backfillVars
<1>3. SourcesFit(q) /\ AnswerFits(q) /\ Shapes
  BY DEF AnswersInv
<1>4. SourcesFit(q)'
  BY <1>2, <1>3 DEF SourcesFit, StillOpens, AsSource
<1>5. AnswerFits(q)'
  <2>1. text'[q] = Append(text[q], n) /\ n \in Nat /\ text[q] \in Seq(Nat)
    BY <1>1, <1>3 DEF Shapes, AnswerFits
  <2>2. text'[q] \in Seq(Nat)
    BY <2>1, AppendProperties
  <2> QED
    BY <1>2, <1>3, <2>2 DEF AnswerFits, Cites
<1>6. Shapes' /\ \A o \in Questions \ {q} : text'[o] = text[o]
  BY <1>1, <1>2, <1>3 DEF Shapes
<1> QED
  BY <1>2, <1>4, <1>5, <1>6, QuestionStep

LEMMA FinishFits ==
  ASSUME AnswersInv, NEW q \in Questions, Finish(q)
  PROVE  AnswersInv'
<1>1. /\ citations' = [citations EXCEPT ![q] = Resolve(sources[q], text[q])]
      /\ pc' = [pc EXCEPT ![q] = "answered"]
      /\ UNCHANGED <<chunks, version, nextId, active, backfill, pending, sources, space, asOf, text>>
  BY DEF Finish, corpusVars, backfillVars
<1>2. SourcesFit(q) /\ AnswerFits(q) /\ Shapes
  BY DEF AnswersInv
<1>3. citations'[q] = Resolve(sources[q], text[q]) /\ pc'[q] = "answered"
  BY <1>1, <1>2 DEF Shapes
<1>4. SourcesFit(q)'
  BY <1>1, <1>2, <1>3 DEF SourcesFit, StillOpens, AsSource
<1>5. AnswerFits(q)'
  <2>1. Cites(sources[q], citations'[q]) /\ Len(citations'[q]) <= Len(sources[q])
    BY <1>2, <1>3, ResolveCites DEF SourcesFit, AnswerFits
  <2> QED
    BY <1>1, <1>2, <1>3, <2>1 DEF AnswerFits, Cites
<1>6. Shapes' /\ \A o \in Questions \ {q} : pc'[o] = pc[o] /\ citations'[o] = citations[o]
  BY <1>1, <1>2 DEF Shapes
<1> QED
  BY <1>1, <1>4, <1>5, <1>6, QuestionStep

\* A stream that ends without citations.
LEMMA EndsWithoutCitations ==
  ASSUME AnswersInv, NEW q \in Questions, Refuse(q) \/ Fail(q) \/ GuardContext(q)
  PROVE  AnswersInv'
<1>1. /\ pc[q] = "stream"
      /\ \E end \in {"refused", "failed", "oversized"} : pc' = [pc EXCEPT ![q] = end]
      /\ UNCHANGED <<chunks, version, nextId, active, backfill, pending, sources, space, asOf, text, citations>>
  BY DEF Refuse, Fail, GuardContext, corpusVars, backfillVars
<1>2. SourcesFit(q) /\ AnswerFits(q) /\ Shapes
  BY DEF AnswersInv
<1>3. pc'[q] \in {"refused", "failed", "oversized"}
  BY <1>1, <1>2 DEF Shapes
<1>4. SourcesFit(q)'
  BY <1>1, <1>2, <1>3 DEF SourcesFit, StillOpens, AsSource
<1>5. AnswerFits(q)'
  BY <1>1, <1>2, <1>3 DEF AnswerFits, Cites
<1>6. Shapes' /\ \A o \in Questions \ {q} : pc'[o] = pc[o]
  BY <1>1, <1>2 DEF Shapes
<1> QED
  BY <1>1, <1>4, <1>5, <1>6, QuestionStep

(***************************************************************************)
(* The theorems                                                            *)
(***************************************************************************)

LEMMA AnswersInvStarts == Init => AnswersInv
<1> SUFFICES ASSUME Init PROVE AnswersInv
  OBVIOUS
<1>1. MaxVersions \in Nat \ {0} /\ MaxChunks \in Nat \ {0} /\ TopK \in Nat
  BY AnswersBounds
<1>2. CorpusFits
  BY <1>1 DEF Init, CorpusFits
<1>3. KeysBounded
  <2>1. Ingested = {}
    BY <1>1 DEF Init, Ingested
  <2> QED
    BY <1>1, <2>1, FS_EmptySet DEF Init, KeysBounded
<1>4. Shapes
  BY DEF Init, Shapes
<1>5. ASSUME NEW q \in Questions PROVE SourcesFit(q) /\ AnswerFits(q)
  <2>1. /\ pc[q] = "new" /\ sources[q] = <<>> /\ space[q] = None /\ asOf[q] = version
        /\ text[q] = <<>> /\ citations[q] = <<>>
    BY DEF Init
  <2>2. Cites(<<>>, <<>>)
    BY DEF Cites
  <2>3. version \in [Documents -> Nat]
    BY DEF Init
  <2>4. SourcesFit(q)
    BY <1>1, <2>1, <2>3 DEF SourcesFit
  <2> QED
    BY <2>1, <2>2, <2>4 DEF AnswerFits
<1> QED
  BY <1>2, <1>3, <1>4, <1>5 DEF Init, AnswersInv

LEMMA AnswersInvHolds == Spec => []AnswersInv
<1>1. AnswersInv /\ [Next]_vars => AnswersInv'
  BY IngestFits, DeleteFits, WriteBackfillFits, ModelsChangeFits, AskFits, EmitFits, FinishFits,
     EndsWithoutCitations DEF Next
<1> QED
  BY AnswersInvStarts, <1>1, PTL DEF Spec

\* Every variable keeps its type: no more keys are given out than the bounds allow, and
\* an answer has no more citations than it had sources, however often its text repeats one.
THEOREM AnswersTypeCorrect == Spec => []TypeOK
<1>1. AnswersInv => TypeOK
  <2> SUFFICES ASSUME AnswersInv PROVE TypeOK
    OBVIOUS
  <2>1. /\ chunks \subseteq Chunk /\ pending \subseteq Chunk
        /\ \A k \in Nat \ {0} : k < nextId => k \in Ids
    BY IngestionsAreFew DEF AnswersInv
  <2>2. version \in [Documents -> Nat] /\ nextId \in Nat
    BY DEF AnswersInv, CorpusFits
  <2>3. pc \in [Questions -> {"new", "stream", "answered", "refused", "failed", "oversized"}]
    BY DEF AnswersInv, Shapes, AnswerFits
  <2>4. space \in [Questions -> Models \cup {None}]
    BY DEF AnswersInv, Shapes, AnswerFits
  <2>5. ASSUME NEW q \in Questions
        PROVE  /\ sources[q] \in Seq(Source) /\ Len(sources[q]) <= TopK /\ text[q] \in Seq(Nat)
               /\ citations[q] \in Seq(Citation) /\ Len(citations[q]) <= Len(sources[q])
    <3>1. SourcesFit(q) /\ AnswerFits(q)
      BY DEF AnswersInv
    <3> DEFINE s == sources[q]
    <3>2. /\ Len(s) \in Nat /\ DOMAIN s = 1 .. Len(s) /\ s \in [1 .. Len(s) -> Passages]
      BY <3>1, LenProperties DEF SourcesFit
    <3>3. ASSUME NEW i \in 1 .. Len(s) PROVE s[i] \in Source
      <4>1. s[i] \in Passages /\ s[i].id < nextId
        BY <3>1, <3>2 DEF SourcesFit, StillOpens
      <4> QED
        BY <2>1, <4>1 DEF Passages, Source
    <3>4. s \in Seq(Source)
      <4>1. s \in [1 .. Len(s) -> Source]
        BY <3>2, <3>3
      <4> QED
        BY <3>2, <4>1
    <3>5. citations[q] \in Seq({Cite(s, n) : n \in DOMAIN s})
      BY <3>1 DEF AnswerFits, Cites
    <3>6. {Cite(s, n) : n \in DOMAIN s} \subseteq Citation
      BY <3>2, <3>3 DEF Cite, Citation
    <3>7. citations[q] \in Seq(Citation)
      BY <3>5, <3>6, SeqMonotonic
    <3> QED
      BY <3>1, <3>4, <3>7 DEF SourcesFit, AnswerFits
  <2> QED
    BY <2>1, <2>2, <2>3, <2>4, <2>5 DEF TypeOK, AnswersInv
<1> QED
  BY <1>1, AnswersInvHolds, PTL

\* A citation opens the passage the model was given, or nothing because its document was
\* ingested again or deleted since the search: never another passage.
THEOREM CitationsOpenTheirPassage == Spec => []OpensItsPassage
<1>1. AnswersInv => OpensItsPassage
  <2> SUFFICES ASSUME AnswersInv, NEW q \in Questions, NEW i \in DOMAIN citations[q]
               PROVE  LET c == citations[q][i]
                      IN /\ \A row \in Opened(c) : AsSource(row) = c.source
                         /\ Opened(c) = {} => version[c.source.document] > asOf[q][c.source.document]
    BY DEF OpensItsPassage
  <2>1. SourcesFit(q) /\ AnswerFits(q)
    BY DEF AnswersInv
  <2>2. PICK n \in DOMAIN sources[q] : citations[q][i] = Cite(sources[q], n)
    <3> DEFINE C == {Cite(sources[q], n) : n \in DOMAIN sources[q]}
    <3>1. citations[q] \in Seq(C)
      BY <2>1 DEF AnswerFits, Cites
    <3> HIDE DEF C
    <3>2. citations[q][i] \in C
      BY <3>1, LenProperties, ElementOfSeq
    <3> QED
      BY <3>2 DEF C
  <2>3. citations[q][i].source = sources[q][n] /\ StillOpens(q, sources[q][n])
    BY <2>1, <2>2 DEF Cite, SourcesFit
  <2> QED
    BY <2>3 DEF StillOpens, Opened
<1> QED
  BY <1>1, AnswersInvHolds, PTL

\* A search compares the question with vectors of its own model's space only, whatever
\* switch of models and whatever backfill is under way.
THEOREM SearchesOneSpace == Spec => OneSpace
<1>1. ASSUME AnswersInv, [Next]_vars
      PROVE  \A q \in Questions : pc[q] = "new" /\ pc'[q] = "stream" =>
               \A i \in DOMAIN sources'[q] : \A c \in chunks :
                 c.id = sources'[q][i].id => c.space = space'[q]
  <2> SUFFICES ASSUME NEW q \in Questions, pc[q] = "new", pc'[q] = "stream"
               PROVE  \A i \in DOMAIN sources'[q] : \A c \in chunks :
                        c.id = sources'[q][i].id => c.space = space'[q]
    OBVIOUS
  <2>1. Shapes
    BY <1>1 DEF AnswersInv
  <2>2. Ask(q)
    <3>1. pc' # pc
      OBVIOUS
    <3>2. PICK o \in Questions : Ask(o) \/ Emit(o) \/ Finish(o) \/ Refuse(o) \/ Fail(o) \/ GuardContext(o)
      BY <1>1, <3>1 DEF Next, vars, answerVars, Ingest, Delete, SwitchModel, StartBackfill, WriteBackfill
    <3>3. pc' = [pc EXCEPT ![o] = pc'[o]] \/ pc' = pc
      BY <2>1, <3>2 DEF Ask, Emit, Finish, Refuse, Fail, GuardContext, Shapes
    <3>4. o = q
      BY <2>1, <3>1, <3>3 DEF Shapes
    <3> QED
      BY <3>2, <3>4 DEF Emit, Finish, Refuse, Fail, GuardContext
  <2>3. PICK n \in 0 .. TopK : \E found \in kSubset(n, Candidates) : \E s \in SetToAllKPermutations(found) :
          Len(s) = n /\ sources' = [sources EXCEPT ![q] = [i \in 1 .. n |-> AsSource(s[i])]]
    BY <2>2 DEF Ask
  <2>4. PICK found \in kSubset(n, Candidates) : \E s \in SetToAllKPermutations(found) :
          Len(s) = n /\ sources' = [sources EXCEPT ![q] = [i \in 1 .. n |-> AsSource(s[i])]]
    BY <2>3
  <2>5. PICK s \in SetToAllKPermutations(found) :
          Len(s) = n /\ sources' = [sources EXCEPT ![q] = [i \in 1 .. n |-> AsSource(s[i])]]
    BY <2>4
  <2>6. sources'[q] = [i \in 1 .. n |-> AsSource(s[i])] /\ space'[q] = active
    BY <2>1, <2>2, <2>5 DEF Shapes, Ask
  <2>7. ASSUME NEW i \in 1 .. n, NEW c \in chunks, c.id = AsSource(s[i]).id
        PROVE  c.space = active
    <3>1. s[i] \in chunks /\ s[i].model = active
      BY <1>1, <2>5, FoundRows DEF Candidates
    <3>2. c = s[i]
      BY <1>1, <2>7, <3>1 DEF AnswersInv, CorpusFits, AsSource
    <3> QED
      BY <1>1, <3>1, <3>2 DEF AnswersInv, CorpusFits
  <2> QED
    BY <2>6, <2>7
<1> QED
  BY <1>1, AnswersInvHolds, PTL DEF Spec, OneSpace
=============================================================================
