-------------------------- MODULE AlgorithmsProofs ---------------------------
(***************************************************************************)
(* What the pure parts of the pipeline compute, for inputs of every length *)
(* and all limits.                                                         *)
(***************************************************************************)
EXTENDS Algorithms, SequenceTheorems, FiniteSetTheorems, WellFoundedInduction, TLAPS

(***************************************************************************)
(* Induction and folds                                                     *)
(***************************************************************************)

\* A set of numbers that holds 0 and with a number the next one holds all.
LEMMA EveryNumber ==
  ASSUME NEW T, T \subseteq Nat, 0 \in T, \A k \in T : k + 1 \in T
  PROVE  T = Nat
<1> SUFFICES ASSUME Nat \ T # {} PROVE FALSE
  OBVIOUS
<1>1. PICK x \in Nat \ T : \A y \in Nat \ T : <<y, x>> \notin OpToRel(<, Nat)
  BY WFMin, NatLessThanWellFounded, Nat \ T \subseteq Nat
<1>2. x # 0 /\ x - 1 \in Nat /\ x - 1 < x
  OBVIOUS
<1>3. x - 1 \in T
  BY <1>1, <1>2 DEF OpToRel
<1>4. (x - 1) + 1 = x
  OBVIOUS
<1> QED
  BY <1>3, <1>4

\* The largest of some of the first numbers.
LEMMA LargestOf ==
  ASSUME NEW n \in Nat, NEW u \in SUBSET (1 .. n), u # {}
  PROVE  Max(u) \in u /\ \A x \in u : x <= Max(u)
<1> DEFINE T == {k \in Nat : \A w \in SUBSET (1 .. k) : w # {} => \E x \in w : \A y \in w : x >= y}
<1>1. 0 \in T
  <2>1. \A w \in SUBSET (1 .. 0) : w = {}
    OBVIOUS
  <2> QED
    BY <2>1
<1>2. ASSUME NEW k \in T PROVE k + 1 \in T
  <2> SUFFICES ASSUME NEW w \in SUBSET (1 .. (k + 1)), w # {}
               PROVE  \E x \in w : \A y \in w : x >= y
    OBVIOUS
  <2>1. CASE k + 1 \in w
    BY <2>1
  <2>2. CASE k + 1 \notin w
    <3>1. w \in SUBSET (1 .. k)
      BY <2>2
    <3> QED
      BY <3>1
  <2> QED
    BY <2>1, <2>2
<1>3. T = Nat
  <2> HIDE DEF T
  <2>1. T \subseteq Nat
    BY DEF T
  <2> QED
    BY <1>1, <1>2, <2>1, EveryNumber
<1>4. \E x \in u : \A y \in u : x >= y
  BY <1>3
<1>5. Max(u) \in u /\ \A y \in u : Max(u) >= y
  BY <1>4 DEF Max
<1> QED
  BY <1>5

\* The first numbers, one more at a time.
LEMMA FirstNumbers ==
  /\ 1 .. 0 = {}
  /\ \A k \in Nat : 1 .. (k + 1) # {} /\ Max(1 .. (k + 1)) = k + 1 /\ (1 .. (k + 1)) \ {k + 1} = 1 .. k
<1>1. 1 .. 0 = {}
  OBVIOUS
<1>2. ASSUME NEW k \in Nat PROVE 1 .. (k + 1) # {} /\ Max(1 .. (k + 1)) = k + 1 /\ (1 .. (k + 1)) \ {k + 1} = 1 .. k
  <2>1. k + 1 \in 1 .. (k + 1) /\ k + 1 \in Nat /\ 1 .. (k + 1) \in SUBSET (1 .. (k + 1))
    OBVIOUS
  <2>2. Max(1 .. (k + 1)) \in 1 .. (k + 1) /\ k + 1 <= Max(1 .. (k + 1))
    BY <2>1, LargestOf
  <2>3. Max(1 .. (k + 1)) = k + 1
    BY <2>2
  <2>4. (1 .. (k + 1)) \ {k + 1} = 1 .. k
    OBVIOUS
  <2> QED
    BY <2>1, <2>3, <2>4
<1> QED
  BY <1>1, <1>2

\* What holds at the end and, from the positions after it, at each position, holds at all.
LEMMA EveryPosition ==
  ASSUME NEW n \in Nat, NEW T, n + 1 \in T,
         \A i \in 1 .. n : (\A j \in (i + 1) .. (n + 1) : j \in T) => i \in T
  PROVE  \A i \in 1 .. (n + 1) : i \in T
<1> DEFINE U == {k \in Nat : \A j \in 1 .. (n + 1) : j >= n + 1 - k => j \in T}
<1>1. 0 \in U
  OBVIOUS
<1>2. ASSUME NEW k \in U PROVE k + 1 \in U
  <2>1. k \in Nat /\ k + 1 \in Nat /\ \A j \in 1 .. (n + 1) : j >= n + 1 - k => j \in T
    OBVIOUS
  <2>2. ASSUME NEW j \in 1 .. (n + 1), j >= n + 1 - (k + 1), ~(j >= n + 1 - k) PROVE j \in T
    <3>1. j \in 1 .. n /\ \A i \in (j + 1) .. (n + 1) : i \in 1 .. (n + 1) /\ i >= n + 1 - k
      BY <2>1, <2>2
    <3> QED
      BY <2>1, <3>1
  <2> QED
    BY <2>1, <2>2
<1> HIDE DEF U
<1>3. U = Nat
  <2>1. U \subseteq Nat
    BY DEF U
  <2> QED
    BY <1>1, <1>2, <2>1, EveryNumber
<1>4. n \in U
  BY <1>3
<1>5. \A j \in 1 .. (n + 1) : j >= n + 1 - n => j \in T
  BY <1>4 DEF U
<1> QED
  BY <1>5

\* A fold of a sequence, on every set of its positions: F takes what the positions before
\* the last one gave and the element at the last.
Iterates(it, F, base, seq, n) ==
  it = [u \in SUBSET (1 .. n) |-> IF u = {} THEN base ELSE F[<<it[u \ {Max(u)}], seq[Max(u)]>>]]

LEMMA IterationExists ==
  ASSUME NEW A, NEW B, NEW F \in [A \X B -> A], NEW base \in A, NEW seq \in Seq(B)
  PROVE  \E it \in [SUBSET (1 .. Len(seq)) -> A] : Iterates(it, F, base, seq, Len(seq))
<1> DEFINE n == Len(seq)
           T == {k \in Nat : k <= n => \E it \in [SUBSET (1 .. k) -> A] : Iterates(it, F, base, seq, k)}
<1>n. n \in Nat /\ \A i \in 1 .. n : seq[i] \in B
  BY LenProperties, ElementOfSeq
<1>1. 0 \in T
  <2> DEFINE it == [u \in SUBSET (1 .. 0) |-> base]
  <2>1. \A u \in SUBSET (1 .. 0) : u = {}
    OBVIOUS
  <2>2. Iterates(it, F, base, seq, 0) /\ it \in [SUBSET (1 .. 0) -> A]
    BY <2>1 DEF Iterates
  <2> QED
    BY <2>2
<1>2. ASSUME NEW k \in T PROVE k + 1 \in T
  <2>k. k \in Nat /\ k + 1 \in Nat
    OBVIOUS
  <2> SUFFICES ASSUME k + 1 <= n
               PROVE  \E it \in [SUBSET (1 .. (k + 1)) -> A] : Iterates(it, F, base, seq, k + 1)
    BY <2>k
  <2>1. PICK it \in [SUBSET (1 .. k) -> A] : Iterates(it, F, base, seq, k)
    <3>1. k <= n
      BY <2>k, <1>n
    <3>2. k <= n => \E it \in [SUBSET (1 .. k) -> A] : Iterates(it, F, base, seq, k)
      OBVIOUS
    <3> QED
      BY <3>1, <3>2
  <2> DEFINE jt == [u \in SUBSET (1 .. (k + 1)) |->
                      IF k + 1 \in u THEN F[<<it[u \ {k + 1}], seq[k + 1]>>] ELSE it[u]]
  <2>2. ASSUME NEW u \in SUBSET (1 .. (k + 1))
        PROVE  jt[u] \in A /\ jt[u] = IF u = {} THEN base ELSE F[<<jt[u \ {Max(u)}], seq[Max(u)]>>]
    <3>1. CASE k + 1 \in u
      <4>1. Max(u) = k + 1
        <5>1. Max(u) \in u /\ k + 1 <= Max(u)
          BY <3>1, <2>k, LargestOf
        <5>2. Max(u) \in 1 .. (k + 1)
          BY <5>1
        <5> QED
          BY <2>k, <5>1, <5>2
      <4>2. u \ {k + 1} \in SUBSET (1 .. (k + 1)) /\ u \ {k + 1} \in SUBSET (1 .. k) /\ k + 1 \notin u \ {k + 1}
        BY <2>k
      <4>3. jt[u \ {k + 1}] = it[u \ {k + 1}]
        BY <4>2
      <4>4. it[u \ {k + 1}] \in A /\ seq[k + 1] \in B
        BY <4>2, <1>n, <2>k
      <4> QED
        BY <3>1, <4>1, <4>3, <4>4
    <3>2. CASE k + 1 \notin u
      <4>1. u \in SUBSET (1 .. k) /\ jt[u] = it[u]
        BY <3>2, <2>k
      <4>2. it[u] = IF u = {} THEN base ELSE F[<<it[u \ {Max(u)}], seq[Max(u)]>>]
        BY <2>1, <4>1 DEF Iterates
      <4>3. jt[u \ {Max(u)}] = it[u \ {Max(u)}]
        <5>1. u \ {Max(u)} \in SUBSET (1 .. (k + 1)) /\ k + 1 \notin u \ {Max(u)}
          BY <3>2
        <5> QED
          BY <5>1
      <4> QED
        BY <4>1, <4>2, <4>3
    <3> QED
      BY <3>1, <3>2
  <2>3. jt = [u \in SUBSET (1 .. (k + 1)) |-> jt[u]]
    OBVIOUS
  <2> HIDE DEF jt
  <2>4. Iterates(jt, F, base, seq, k + 1)
    BY <2>2, <2>3 DEF Iterates
  <2>5. jt \in [SUBSET (1 .. (k + 1)) -> A]
    BY <2>2, <2>3
  <2> QED
    BY <2>4, <2>5
<1> HIDE DEF T
<1>3. T = Nat
  <2>1. T \subseteq Nat
    BY DEF T
  <2> QED
    BY <1>1, <1>2, <2>1, EveryNumber
<1>4. n \in T /\ n <= n
  BY <1>n, <1>3
<1>5. n <= n => \E it \in [SUBSET (1 .. n) -> A] : Iterates(it, F, base, seq, n)
  BY <1>4 DEF T
<1> QED
  BY <1>4, <1>5

(***************************************************************************)
(* The fence around a source                                               *)
(***************************************************************************)

\* What a passage is made of once it is spaced out.
Space == " "
Alphabet == Symbols \cup {Space}

NoPair(c, s) == \A i \in 1 .. Len(s) - 1 : ~(s[i] = c /\ s[i + 1] = c)

SplitStep(c, done, x) ==
  IF done # <<>> /\ x = c /\ Last(done) = c THEN done \o <<Space, x>> ELSE Append(done, x)

LEMMA PairIsSeq ==
  ASSUME NEW S, NEW a \in S, NEW b \in S
  PROVE  <<a, b>> \in Seq(S) /\ Len(<<a, b>>) = 2 /\ <<a, b>>[1] = a /\ <<a, b>>[2] = b
OBVIOUS

LEMMA ConcatPair ==
  ASSUME NEW S, NEW s \in Seq(S), NEW a \in S, NEW b \in S, NEW t, t = s \o <<a, b>>
  PROVE  /\ t \in Seq(S) /\ Len(t) = Len(s) + 2 /\ \A i \in 1 .. Len(s) : t[i] = s[i]
         /\ t[Len(s) + 1] = a /\ t[Len(s) + 2] = b
<1> DEFINE n == Len(s)
           e == <<a, b>>
<1>1. n \in Nat /\ e \in Seq(S) /\ Len(e) = 2 /\ e[1] = a /\ e[2] = b /\ t = s \o e
  BY LenProperties, PairIsSeq
<1> HIDE DEF e
<1>2. /\ t \in Seq(S) /\ Len(t) = Len(s) + Len(e)
      /\ \A i \in 1 .. Len(s) + Len(e) : t[i] = IF i <= Len(s) THEN s[i] ELSE e[i - Len(s)]
  BY <1>1, ConcatProperties
<1>3. Len(t) = n + 2 /\ \A i \in 1 .. n + 2 : t[i] = IF i <= n THEN s[i] ELSE e[i - n]
  BY <1>1, <1>2
<1> HIDE DEF n
<1>4. n + 1 \in 1 .. n + 2 /\ n + 2 \in 1 .. n + 2 /\ ~(n + 1 <= n) /\ ~(n + 2 <= n) /\ (n + 1) - n = 1 /\ (n + 2) - n = 2
  BY <1>1
<1>5. t[n + 1] = e[1] /\ t[n + 2] = e[2]
  BY <1>3, <1>4
<1>6. \A i \in 1 .. n : i \in 1 .. n + 2 /\ i <= n
  BY <1>1
<1> QED
  BY <1>1, <1>2, <1>3, <1>5, <1>6 DEF n

LEMMA SplitStepType ==
  ASSUME NEW c, NEW done \in Seq(Alphabet), NEW x \in Alphabet
  PROVE  SplitStep(c, done, x) \in Seq(Alphabet)
<1>1. <<Space, x>> \in Seq(Alphabet)
  <2>1. Space \in Alphabet
    BY DEF Alphabet
  <2> QED
    BY <2>1, PairIsSeq
<1>2. done \o <<Space, x>> \in Seq(Alphabet) /\ Append(done, x) \in Seq(Alphabet)
  BY <1>1, ConcatProperties, AppendProperties
<1> QED
  BY <1>2 DEF SplitStep

\* SplitRuns reads a text symbol by symbol.
LEMMA SplitRunsSteps ==
  ASSUME NEW c, NEW text \in Seq(Alphabet)
  PROVE  \E r : /\ r[0] = <<>> /\ r[Len(text)] = SplitRuns(c, text)
                /\ \A k \in 0 .. Len(text) - 1 : r[k + 1] = SplitStep(c, r[k], text[k + 1])
<1> DEFINE n == Len(text)
           F == [x \in Seq(Alphabet) \X Alphabet |-> SplitStep(c, x[1], x[2])]
           Fold(f) == f = [u \in SUBSET (1 .. n) |->
                             IF u = {} THEN <<>> ELSE SplitStep(c, f[u \ {Max(u)}], text[Max(u)])]
           it == CHOOSE f : Fold(f)
           r == [k \in 0 .. n |-> it[1 .. k]]
<1>n. n \in Nat /\ DOMAIN text = 1 .. n /\ \A i \in 1 .. n : text[i] \in Alphabet
  BY LenProperties, ElementOfSeq
<1>1. \E f : Fold(f)
  <2>1. F \in [Seq(Alphabet) \X Alphabet -> Seq(Alphabet)] /\ <<>> \in Seq(Alphabet)
    BY SplitStepType
  <2> HIDE DEF F
  <2>2. PICK f \in [SUBSET (1 .. n) -> Seq(Alphabet)] : Iterates(f, F, <<>>, text, n)
    BY <2>1, IterationExists
  <2>3. ASSUME NEW u \in SUBSET (1 .. n), u # {}
        PROVE  F[<<f[u \ {Max(u)}], text[Max(u)]>>] = SplitStep(c, f[u \ {Max(u)}], text[Max(u)])
    <3>1. Max(u) \in u /\ u \ {Max(u)} \in SUBSET (1 .. n)
      BY <1>n, <2>3, LargestOf
    <3>2. f[u \ {Max(u)}] \in Seq(Alphabet) /\ text[Max(u)] \in Alphabet
      BY <1>n, <3>1
    <3> QED
      BY <3>2 DEF F
  <2>4. Fold(f)
    BY <2>2, <2>3 DEF Iterates
  <2> QED
    BY <2>4
<1>2. Fold(it)
  BY <1>1
<1>3. SplitRuns(c, text) = it[1 .. n]
  BY <1>n DEF SplitRuns, FoldLeft, MapThenFoldSet, SplitStep, Space
<1> HIDE DEF it, n
<1>4. r[0] = <<>>
  <2>1. 0 \in 0 .. n /\ {} \in SUBSET (1 .. n) /\ 1 .. 0 = {}
    BY <1>n, FirstNumbers
  <2>2. it[{}] = <<>>
    BY <1>2, <2>1
  <2> QED
    BY <2>1, <2>2
<1>5. ASSUME NEW k \in 0 .. n - 1 PROVE r[k + 1] = SplitStep(c, r[k], text[k + 1])
  <2>1. k \in Nat /\ k \in 0 .. n /\ k + 1 \in 0 .. n /\ 1 .. (k + 1) \in SUBSET (1 .. n)
    BY <1>n
  <2>2. 1 .. (k + 1) # {} /\ Max(1 .. (k + 1)) = k + 1 /\ (1 .. (k + 1)) \ {k + 1} = 1 .. k
    BY <2>1, FirstNumbers
  <2>3. it[1 .. (k + 1)] = SplitStep(c, it[1 .. k], text[k + 1])
    BY <1>2, <2>1, <2>2
  <2> QED
    BY <2>1, <2>3
<1>6. r[n] = SplitRuns(c, text)
  BY <1>n, <1>3
<1> HIDE DEF r
<1> QED
  BY <1>4, <1>5, <1>6 DEF n

Brackets == {"[", "]"}

\* What a text read so far was made into: it ends as the text does, and where the text has
\* no two brackets of a kind together, nor has it.
SplitSoFar(c, text, done, k) ==
  /\ done \in Seq(Alphabet)
  /\ k = 0 => done = <<>>
  /\ k > 0 => Len(done) > 0 /\ done[Len(done)] = text[k]
  /\ \A d \in Brackets : d = c \/ NoPair(d, text) => NoPair(d, done)

LEMMA SplitStepParts ==
  ASSUME NEW c \in Brackets, NEW text \in Seq(Alphabet), NEW k \in 0 .. Len(text) - 1, NEW done,
         SplitSoFar(c, text, done, k)
  PROVE  SplitSoFar(c, text, SplitStep(c, done, text[k + 1]), k + 1)
<1> DEFINE x == text[k + 1]
           more == SplitStep(c, done, x)
           n == Len(done)
<1>1. /\ Len(text) \in Nat /\ k + 1 \in 1 .. Len(text) /\ x \in Alphabet
      /\ done \in Seq(Alphabet) /\ n \in Nat /\ more \in Seq(Alphabet)
  <2>1. Len(text) \in Nat /\ k + 1 \in 1 .. Len(text)
    BY LenProperties
  <2>2. x \in Alphabet
    BY <2>1, ElementOfSeq
  <2>3. done \in Seq(Alphabet) /\ n \in Nat
    BY LenProperties DEF SplitSoFar
  <2> QED
    BY <2>1, <2>2, <2>3, SplitStepType
<1>2. k > 0 => n > 0 /\ done[n] = text[k]
  BY DEF SplitSoFar
<1>3. n = 0 <=> done = <<>>
  BY <1>1, EmptySeq
<1>4. k = 0 => done = <<>>
  BY DEF SplitSoFar
<1>b. \A d \in Brackets : d # Space
  BY DEF Brackets, Space
<1>5. CASE done # <<>> /\ x = c /\ Last(done) = c
  <2>1. more = done \o <<Space, x>>
    BY <1>5 DEF SplitStep
  <2>2. Space \in Alphabet
    BY DEF Alphabet
  <2> HIDE DEF more, x
  <2>3. /\ Len(more) = n + 2 /\ \A i \in 1 .. n : more[i] = done[i]
        /\ more[n + 1] = Space /\ more[n + 2] = x
    BY <1>1, <2>1, <2>2, ConcatPair
  <2> HIDE DEF n
  <2>4. ASSUME NEW d \in Brackets, d = c \/ NoPair(d, text) PROVE NoPair(d, more)
    <3>1. NoPair(d, done)
      BY <2>4 DEF SplitSoFar
    <3>2. SUFFICES ASSUME NEW i \in 1 .. n + 1, more[i] = d, more[i + 1] = d PROVE FALSE
      BY <1>1, <2>3 DEF NoPair
    <3>3. CASE i \in 1 .. n - 1
      BY <1>1, <2>3, <3>1, <3>2, <3>3 DEF NoPair, n
    <3>4. CASE i = n \/ i = n + 1
      BY <1>b, <1>1, <2>3, <3>2, <3>4
    <3> QED
      BY <1>1, <3>3, <3>4
  <2>5. \A d \in Brackets : d = c \/ NoPair(d, text) => NoPair(d, more)
    BY <2>4
  <2>6. k + 1 # 0 /\ Len(more) > 0 /\ more[Len(more)] = text[k + 1]
    BY <1>1, <2>3 DEF x
  <2>7. SplitSoFar(c, text, more, k + 1)
    BY <1>1, <2>5, <2>6 DEF SplitSoFar
  <2> QED
    BY <2>7 DEF more, x
<1>6. CASE ~(done # <<>> /\ x = c /\ Last(done) = c)
  <2>1. more = Append(done, x)
    BY <1>6 DEF SplitStep
  <2>0. ~(n > 0 /\ x = c /\ done[n] = c)
    BY <1>6, <1>1, <1>3 DEF Last
  <2> HIDE DEF more, x, n
  <2>2. Len(more) = n + 1 /\ (\A i \in 1 .. n : more[i] = done[i]) /\ more[n + 1] = x
    BY <1>1, <2>1, AppendProperties DEF n
  <2>4. ASSUME NEW d \in Brackets, d = c \/ NoPair(d, text) PROVE NoPair(d, more)
    <3>1. NoPair(d, done)
      BY <2>4 DEF SplitSoFar
    <3>2. SUFFICES ASSUME NEW i \in 1 .. n, more[i] = d, more[i + 1] = d PROVE FALSE
      BY <1>1, <2>2 DEF NoPair
    <3>3. CASE i \in 1 .. n - 1
      BY <1>1, <2>2, <3>1, <3>2, <3>3 DEF NoPair, n
    <3>4. CASE i = n
      <4>1. n > 0 /\ done[n] = d /\ x = d
        BY <1>1, <2>2, <3>2, <3>4
      <4>2. k > 0 /\ text[k] = d
        BY <1>1, <1>2, <1>3, <1>4, <4>1
      <4>3. NoPair(d, text)
        BY <2>0, <2>4, <4>1
      <4>4. k \in 1 .. Len(text) - 1
        BY <1>1, <4>2
      <4> QED
        BY <4>1, <4>2, <4>3, <4>4 DEF NoPair, x
    <3> QED
      BY <1>1, <3>3, <3>4
  <2>5. \A d \in Brackets : d = c \/ NoPair(d, text) => NoPair(d, more)
    BY <2>4
  <2>6. k + 1 # 0 /\ Len(more) > 0 /\ more[Len(more)] = text[k + 1]
    BY <1>1, <2>2 DEF x
  <2>7. SplitSoFar(c, text, more, k + 1)
    BY <1>1, <2>5, <2>6 DEF SplitSoFar
  <2> QED
    BY <2>7 DEF more, x
<1> QED
  BY <1>5, <1>6

LEMMA SplitRunsParts ==
  ASSUME NEW c \in Brackets, NEW text \in Seq(Alphabet)
  PROVE  /\ SplitRuns(c, text) \in Seq(Alphabet)
         /\ \A d \in Brackets : d = c \/ NoPair(d, text) => NoPair(d, SplitRuns(c, text))
<1> DEFINE n == Len(text)
<1>1. PICK r : /\ r[0] = <<>> /\ r[n] = SplitRuns(c, text)
               /\ \A k \in 0 .. n - 1 : r[k + 1] = SplitStep(c, r[k], text[k + 1])
  BY SplitRunsSteps
<1> DEFINE T == {k \in Nat : k <= n => SplitSoFar(c, text, r[k], k)}
<1>n. n \in Nat
  BY LenProperties
<1>2. 0 \in T
  <2>1. <<>> \in Seq(Alphabet) /\ \A d : NoPair(d, <<>>)
    BY EmptySeq DEF NoPair
  <2>2. SplitSoFar(c, text, <<>>, 0)
    BY <2>1 DEF SplitSoFar
  <2> QED
    BY <1>1, <2>2
<1>3. ASSUME NEW k \in T PROVE k + 1 \in T
  <2>1. k \in Nat /\ (k <= n => SplitSoFar(c, text, r[k], k))
    OBVIOUS
  <2>2. ASSUME k + 1 <= n PROVE SplitSoFar(c, text, r[k + 1], k + 1)
    <3>1. k \in 0 .. n - 1 /\ SplitSoFar(c, text, r[k], k)
      BY <1>n, <2>1, <2>2
    <3>2. r[k + 1] = SplitStep(c, r[k], text[k + 1])
      BY <1>1, <3>1
    <3> QED
      BY <3>1, <3>2, SplitStepParts
  <2> QED
    BY <2>1, <2>2
<1> HIDE DEF T
<1>4. T = Nat
  <2>1. T \subseteq Nat
    BY DEF T
  <2> QED
    BY <1>2, <1>3, <2>1, EveryNumber
<1>5. SplitSoFar(c, text, r[n], n)
  BY <1>n, <1>4 DEF T
<1> QED
  BY <1>1, <1>5 DEF SplitSoFar

\* A token occurs where its symbols follow one another.
LEMMA OccursAt ==
  ASSUME NEW S, NEW token \in Seq(S), NEW s \in Seq(S), NEW i \in Nat \ {0}
  PROVE  Occurs(token, s, i) <=>
           /\ i + Len(token) - 1 <= Len(s)
           /\ \A q \in 1 .. Len(token) : s[i + q - 1] = token[q]
<1> DEFINE m == Len(token)
           window == SubSeq(s, i, i + m - 1)
<1>1. m \in Nat /\ Len(s) \in Nat
  BY LenProperties
<1>2. ASSUME i + m - 1 <= Len(s)
      PROVE  window = token <=> \A q \in 1 .. m : s[i + q - 1] = token[q]
  <2> HIDE DEF m
  <2>1. \A j \in i .. i + m - 1 : s[j] \in S
    <3>1. \A j \in 1 .. Len(s) : s[j] \in S
      BY ElementOfSeq
    <3> QED
      BY <1>1, <1>2, <3>1
  <2>2. /\ window \in Seq(S)
        /\ Len(window) = IF i <= i + m - 1 THEN (i + m - 1) - i + 1 ELSE 0
        /\ \A q \in 1 .. (i + m - 1) - i + 1 : window[q] = s[i + q - 1]
    <3>1. i \in Int /\ i + m - 1 \in Int
      BY <1>1
    <3> QED
      BY <2>1, <3>1, SubSeqProperties
  <2> HIDE DEF window
  <2>3. (i + m - 1) - i + 1 = m /\ (i <= i + m - 1 <=> m > 0)
    BY <1>1
  <2>4. Len(window) = m /\ \A q \in 1 .. m : window[q] = s[i + q - 1]
    BY <1>1, <2>2, <2>3
  <2>5. Len(token) = m
    BY DEF m
  <2>6. (\A q \in 1 .. m : window[q] = token[q]) => window = token
    BY <2>2, <2>4, <2>5, SeqEqual
  <2> QED
    BY <2>4, <2>6
<1> QED
  BY <1>2 DEF Occurs

\* s is the text from a position on with blanks put in: h says where each symbol went.
Spaces(h, text, from, s) ==
  /\ h \in [from .. Len(text) -> 1 .. Len(s)]
  /\ \A p \in from .. Len(text) : s[h[p]] = text[p]
  /\ \A p, q \in from .. Len(text) : p < q => h[p] < h[q]
  /\ \A j \in 1 .. Len(s) : s[j] # Space => \E p \in from .. Len(text) : h[p] = j

\* A stretch of symbols of the spaced text was one stretch before.
LEMMA Window ==
  ASSUME NEW text \in Seq(Alphabet), NEW s \in Seq(Alphabet), NEW h, Spaces(h, text, 1, s),
         NEW token \in Seq(Alphabet), \A q \in 1 .. Len(token) : token[q] # Space,
         token # <<>>, NEW j \in 1 .. Len(s), Occurs(token, s, j)
  PROVE  \E p \in 1 .. Len(text) :
           Occurs(token, text, p) /\ \A q \in 1 .. Len(token) : h[p + q - 1] = j + q - 1
<1> DEFINE n == Len(text)
           m == Len(token)
<1>1. n \in Nat /\ m \in Nat \ {0} /\ Len(s) \in Nat /\ j \in Nat \ {0}
  BY LenProperties, EmptySeq
<1>2. j + m - 1 <= Len(s) /\ \A q \in 1 .. m : s[j + q - 1] = token[q]
  BY <1>1, OccursAt
<1>3. s[j] = token[1]
  <2>1. 1 \in 1 .. m /\ j + 1 - 1 = j
    BY <1>1
  <2> QED
    BY <1>2, <2>1
<1> HIDE DEF n, m
<1>h. /\ h \in [1 .. n -> 1 .. Len(s)]
      /\ \A p \in 1 .. n : s[h[p]] = text[p]
      /\ \A p, q \in 1 .. n : p < q => h[p] < h[q]
      /\ \A k \in 1 .. Len(s) : s[k] # Space => \E p \in 1 .. n : h[p] = k
  BY DEF Spaces, n
<1>4. PICK p \in 1 .. n : h[p] = j
  <2>1. token[1] # Space
    BY <1>1 DEF m
  <2> QED
    BY <1>3, <1>h, <2>1
<1> DEFINE T == {q \in Nat : q < m => p + q <= n /\ h[p + q] = j + q}
<1>5. 0 \in T
  BY <1>1, <1>4
<1>6. ASSUME NEW q \in T PROVE q + 1 \in T
  <2>1. q \in Nat /\ q + 1 \in Nat
    OBVIOUS
  <2>2. ASSUME q + 1 < m PROVE p + (q + 1) <= n /\ h[p + (q + 1)] = j + (q + 1)
    <3>1. p + q \in 1 .. n /\ h[p + q] = j + q
      BY <1>1, <2>1, <2>2
    <3>2. j + (q + 1) \in 1 .. Len(s) /\ s[j + (q + 1)] # Space
      <4>1. q + 2 \in 1 .. m /\ j + (q + 2) - 1 = j + (q + 1) /\ j + (q + 1) \in 1 .. Len(s)
        BY <1>1, <1>2, <2>1, <2>2
      <4>2. s[j + (q + 1)] = token[q + 2] /\ token[q + 2] # Space
        BY <1>2, <4>1 DEF m
      <4> QED
        BY <4>1, <4>2
    <3>3. PICK b \in 1 .. n : h[b] = j + (q + 1)
      BY <1>h, <3>2
    <3>4. p + q < b
      <4>1. b # p + q /\ h[p + q] < h[b]
        <5>1. j + q # j + (q + 1) /\ j + q < j + (q + 1)
          BY <1>1, <2>1
        <5> QED
          BY <3>1, <3>3, <5>1
      <4>2. ~(b < p + q)
        <5> SUFFICES ASSUME b < p + q PROVE FALSE
          OBVIOUS
        <5>1. h[b] < h[p + q] /\ h[b] \in Int /\ h[p + q] \in Int
          BY <1>1, <1>h, <2>1, <3>1, <3>3
        <5> QED
          BY <4>1, <5>1
      <4> QED
        BY <2>1, <3>1, <4>1, <4>2
    <3>5. ~(p + (q + 1) < b)
      <4> SUFFICES ASSUME p + (q + 1) < b PROVE FALSE
        OBVIOUS
      <4>1. p + (q + 1) \in 1 .. n /\ p + q < p + (q + 1) /\ h[p + (q + 1)] \in 1 .. Len(s)
        BY <1>1, <1>h, <2>1, <3>1
      <4>2. j + q < h[p + (q + 1)] /\ h[p + (q + 1)] < j + (q + 1)
        BY <1>h, <3>1, <3>3, <4>1
      <4> QED
        BY <1>1, <2>1, <4>1, <4>2
    <3>6. b = p + (q + 1)
      BY <2>1, <3>4, <3>5
    <3> QED
      BY <3>3, <3>6
  <2> QED
    BY <2>1, <2>2
<1> HIDE DEF T
<1>7. T = Nat
  <2>1. T \subseteq Nat
    BY DEF T
  <2> QED
    BY <1>5, <1>6, <2>1, EveryNumber
<1>8. ASSUME NEW q \in 1 .. m PROVE p + q - 1 \in 1 .. n /\ h[p + q - 1] = j + q - 1
  <2>1. q - 1 \in Nat /\ q - 1 < m /\ p + (q - 1) = p + q - 1 /\ j + (q - 1) = j + q - 1
    BY <1>1
  <2>2. p + (q - 1) <= n /\ h[p + (q - 1)] = j + (q - 1)
    BY <1>7, <2>1 DEF T
  <2> QED
    BY <2>1, <2>2
<1>9. Occurs(token, text, p)
  <2>1. p + m - 1 <= n
    <3>1. m \in 1 .. m /\ n \in Nat
      BY <1>1
    <3>2. p + m - 1 \in 1 .. n
      BY <1>8, <3>1
    <3> QED
      BY <3>1, <3>2
  <2>2. \A q \in 1 .. m : text[p + q - 1] = token[q]
    BY <1>2, <1>8, <1>h
  <2> QED
    BY <2>1, <2>2, OccursAt DEF m, n
<1> QED
  BY <1>8, <1>9 DEF m, n

\* What ReplaceToken makes of the text from i on, given what it makes of the text further on.
RestAt(text, c, rest, i) ==
  IF i > Len(text) THEN <<>>
  ELSE IF Occurs(c.token, text, i) THEN c.safe \o rest[i + Len(c.token)]
  ELSE <<text[i]>> \o rest[i + 1]

Rests(rest, text, c, from) == rest = [i \in from .. Len(text) + 1 |-> RestAt(text, c, rest, i)]

LEMMA RestLooksAhead ==
  ASSUME NEW text, Len(text) \in Nat, NEW c, Len(c.token) \in Nat \ {0}, NEW i \in 1 .. Len(text) + 1,
         NEW f, NEW g, \A j \in (i + 1) .. (Len(text) + 1) : f[j] = g[j]
  PROVE  RestAt(text, c, f, i) = RestAt(text, c, g, i)
<1>1. CASE i > Len(text)
  BY <1>1 DEF RestAt
<1>2. CASE i <= Len(text) /\ Occurs(c.token, text, i)
  <2>1. i + Len(c.token) \in (i + 1) .. (Len(text) + 1)
    BY <1>2 DEF Occurs
  <2>2. f[i + Len(c.token)] = g[i + Len(c.token)]
    BY <2>1
  <2> QED
    BY <1>2, <2>2 DEF RestAt
<1>3. CASE i <= Len(text) /\ ~Occurs(c.token, text, i)
  <2>1. i + 1 \in (i + 1) .. (Len(text) + 1)
    BY <1>3
  <2>2. f[i + 1] = g[i + 1]
    BY <2>1
  <2> QED
    BY <1>3, <2>2 DEF RestAt
<1> QED
  BY <1>1, <1>2, <1>3

LEMMA RestExists ==
  ASSUME NEW text, Len(text) \in Nat, NEW c, Len(c.token) \in Nat \ {0}
  PROVE  \E rest : Rests(rest, text, c, 1)
<1> DEFINE n == Len(text)
           T == {i \in 1 .. n + 1 : \E rest : Rests(rest, text, c, i)}
<1>1. n + 1 \in T
  <2> DEFINE f == [i \in n + 1 .. n + 1 |-> <<>>]
  <2>1. \A i \in n + 1 .. n + 1 : RestAt(text, c, f, i) = <<>>
    BY DEF RestAt
  <2>2. Rests(f, text, c, n + 1)
    BY <2>1 DEF Rests
  <2> QED
    BY <2>2
<1>2. ASSUME NEW i \in 1 .. n, \A j \in (i + 1) .. (n + 1) : j \in T PROVE i \in T
  <2>1. i + 1 \in T
    BY <1>2
  <2>2. PICK f : Rests(f, text, c, i + 1)
    BY <2>1
  <2> DEFINE g == [j \in i .. n + 1 |-> IF j = i THEN RestAt(text, c, f, i) ELSE f[j]]
  <2>3. \A j \in (i + 1) .. (n + 1) : g[j] = f[j]
    OBVIOUS
  <2>4. ASSUME NEW j \in i .. n + 1 PROVE g[j] = RestAt(text, c, g, j)
    <3>1. RestAt(text, c, g, j) = RestAt(text, c, f, j)
      <4>1. j \in 1 .. n + 1 /\ \A k \in (j + 1) .. (n + 1) : g[k] = f[k]
        BY <2>3
      <4> HIDE DEF g
      <4> QED
        BY <4>1, RestLooksAhead
    <3>2. CASE j = i
      BY <3>1, <3>2
    <3>3. CASE j # i
      <4>1. j \in i + 1 .. n + 1 /\ g[j] = f[j]
        BY <3>3
      <4>2. f[j] = RestAt(text, c, f, j)
        BY <2>2, <4>1 DEF Rests
      <4> QED
        BY <3>1, <4>1, <4>2
    <3> QED
      BY <3>2, <3>3
  <2>5. g = [j \in i .. n + 1 |-> g[j]]
    OBVIOUS
  <2> HIDE DEF g
  <2>6. Rests(g, text, c, i)
    BY <2>4, <2>5 DEF Rests
  <2> QED
    BY <2>6
<1> HIDE DEF T
<1>3. 1 \in T
  <2>1. \A i \in 1 .. (n + 1) : i \in T
    BY <1>1, <1>2, EveryPosition
  <2> QED
    BY <2>1
<1> QED
  BY <1>3 DEF T

LEMMA ReplaceTokenSteps ==
  ASSUME NEW text, Len(text) \in Nat, NEW c, Len(c.token) \in Nat \ {0}
  PROVE  \E rest : /\ rest[1] = ReplaceToken(text, c) /\ rest[Len(text) + 1] = <<>>
                   /\ \A i \in 1 .. Len(text) :
                        rest[i] = IF Occurs(c.token, text, i) THEN c.safe \o rest[i + Len(c.token)]
                                  ELSE <<text[i]>> \o rest[i + 1]
<1> DEFINE rest == CHOOSE f : Rests(f, text, c, 1)
<1>1. Rests(rest, text, c, 1)
  BY RestExists
<1>2. ReplaceToken(text, c) = rest[1]
  BY DEF ReplaceToken, Rests, RestAt
<1> HIDE DEF rest
<1>3. \A i \in 1 .. Len(text) + 1 : rest[i] = RestAt(text, c, rest, i)
  BY <1>1 DEF Rests
<1>4. rest[Len(text) + 1] = <<>>
  <2>1. Len(text) + 1 \in 1 .. Len(text) + 1 /\ Len(text) + 1 > Len(text)
    OBVIOUS
  <2>2. rest[Len(text) + 1] = RestAt(text, c, rest, Len(text) + 1)
    BY <1>3, <2>1
  <2> QED
    BY <2>1, <2>2 DEF RestAt
<1>5. \A i \in 1 .. Len(text) :
        rest[i] = IF Occurs(c.token, text, i) THEN c.safe \o rest[i + Len(c.token)]
                  ELSE <<text[i]>> \o rest[i + 1]
  BY <1>3 DEF RestAt
<1> QED
  BY <1>2, <1>4, <1>5

\* The places of a token's symbols in what replaces it, then those of the text behind it.
Placed(sl, h, text, i, m, b) ==
  [p \in i .. Len(text) |-> IF p < i + m THEN sl[p - i + 1] ELSE h[p] + b]

LEMMA SpacesBehind ==
  ASSUME NEW text \in Seq(Alphabet), NEW i \in 1 .. Len(text),
         NEW token \in Seq(Alphabet), token # <<>>, Occurs(token, text, i),
         NEW safe \in Seq(Alphabet), NEW sl, Spaces(sl, token, 1, safe),
         NEW s \in Seq(Alphabet), NEW h, Spaces(h, text, i + Len(token), s)
  PROVE  Spaces(Placed(sl, h, text, i, Len(token), Len(safe)), text, i, safe \o s)
<1> DEFINE n == Len(text)
           m == Len(token)
           b == Len(safe)
           g == Placed(sl, h, text, i, m, b)
           t == safe \o s
<1>1. n \in Nat /\ m \in Nat \ {0} /\ b \in Nat /\ Len(s) \in Nat /\ i \in 1 .. n
  BY LenProperties, EmptySeq
<1>2. i + m - 1 <= n /\ \A q \in 1 .. m : text[i + q - 1] = token[q]
  BY OccursAt
<1>3. /\ Len(t) = b + Len(s) /\ t \in Seq(Alphabet)
      /\ \A j \in 1 .. b + Len(s) : t[j] = IF j <= b THEN safe[j] ELSE s[j - b]
  BY ConcatProperties
<1>g. g = [p \in i .. n |-> IF p < i + m THEN sl[p - i + 1] ELSE h[p] + b]
  BY DEF Placed
<1>s. /\ sl \in [1 .. m -> 1 .. b]
      /\ \A q \in 1 .. m : safe[sl[q]] = token[q]
      /\ \A q, r \in 1 .. m : q < r => sl[q] < sl[r]
      /\ \A j \in 1 .. b : safe[j] # Space => \E q \in 1 .. m : sl[q] = j
  BY DEF Spaces
<1>h. /\ h \in [i + m .. n -> 1 .. Len(s)]
      /\ \A p \in i + m .. n : s[h[p]] = text[p]
      /\ \A p, q \in i + m .. n : p < q => h[p] < h[q]
      /\ \A j \in 1 .. Len(s) : s[j] # Space => \E p \in i + m .. n : h[p] = j
  BY DEF Spaces
<1> HIDE DEF g, t, n, m, b
<1>4. ASSUME NEW p \in i .. n, p < i + m
      PROVE  /\ p - i + 1 \in 1 .. m /\ g[p] = sl[p - i + 1] /\ g[p] \in 1 .. b
             /\ t[g[p]] = text[p]
  <2>1. p - i + 1 \in 1 .. m /\ i + (p - i + 1) - 1 = p
    BY <1>1, <1>4
  <2>2. g[p] = sl[p - i + 1] /\ sl[p - i + 1] \in 1 .. b
    BY <1>4, <1>g, <1>s, <2>1
  <2>3. t[g[p]] = safe[g[p]]
    BY <1>1, <1>3, <2>2
  <2>4. safe[g[p]] = token[p - i + 1] /\ token[p - i + 1] = text[p]
    BY <1>2, <1>s, <2>1, <2>2
  <2> QED
    BY <2>1, <2>2, <2>3, <2>4
<1>5. ASSUME NEW p \in i .. n, ~(p < i + m)
      PROVE  /\ p \in i + m .. n /\ g[p] = h[p] + b /\ h[p] \in 1 .. Len(s)
             /\ g[p] \in b + 1 .. b + Len(s) /\ t[g[p]] = text[p]
  <2>1. p \in i + m .. n
    BY <1>1, <1>5
  <2>2. g[p] = h[p] + b /\ h[p] \in 1 .. Len(s)
    BY <1>5, <1>g, <1>h, <2>1
  <2>3. g[p] \in b + 1 .. b + Len(s) /\ g[p] - b = h[p]
    BY <1>1, <2>2
  <2>4. t[g[p]] = s[h[p]]
    BY <1>1, <1>3, <2>3
  <2> QED
    BY <1>h, <2>1, <2>2, <2>3, <2>4
<1>6. g \in [i .. n -> 1 .. Len(t)] /\ \A p \in i .. n : t[g[p]] = text[p]
  <2>1. \A p \in i .. n : g[p] \in 1 .. Len(t)
    <3> SUFFICES ASSUME NEW p \in i .. n PROVE g[p] \in 1 .. Len(t)
      OBVIOUS
    <3>1. CASE p < i + m
      BY <1>1, <1>3, <1>4, <3>1
    <3>2. CASE ~(p < i + m)
      BY <1>1, <1>3, <1>5, <3>2
    <3> QED
      BY <3>1, <3>2
  <2>2. g = [p \in i .. n |-> g[p]]
    BY <1>g
  <2> QED
    BY <1>4, <1>5, <2>1, <2>2
<1>7. ASSUME NEW p \in i .. n, NEW q \in i .. n, p < q PROVE g[p] < g[q]
  <2>1. CASE q < i + m
    <3>1. p < i + m
      BY <1>1, <1>7, <2>1
    <3>2. p - i + 1 \in 1 .. m /\ q - i + 1 \in 1 .. m /\ p - i + 1 < q - i + 1
      BY <1>1, <1>4, <1>7, <2>1, <3>1
    <3>3. sl[p - i + 1] < sl[q - i + 1]
      BY <1>s, <3>2
    <3> QED
      BY <1>4, <2>1, <3>1, <3>3
  <2>2. CASE p < i + m /\ ~(q < i + m)
    <3>1. g[p] \in 1 .. b /\ g[q] \in b + 1 .. b + Len(s)
      BY <1>4, <1>5, <2>2
    <3> QED
      BY <1>1, <3>1
  <2>3. CASE ~(p < i + m) /\ ~(q < i + m)
    <3>1. h[p] < h[q] /\ g[p] = h[p] + b /\ g[q] = h[q] + b /\ h[p] \in Int /\ h[q] \in Int
      <4>1. /\ p \in i + m .. n /\ g[p] = h[p] + b /\ h[p] \in 1 .. Len(s)
            /\ q \in i + m .. n /\ g[q] = h[q] + b /\ h[q] \in 1 .. Len(s)
        BY <1>5, <2>3
      <4>2. h[p] < h[q]
        BY <1>7, <1>h, <4>1
      <4> QED
        BY <4>1, <4>2
    <3> QED
      BY <1>1, <3>1
  <2> QED
    BY <2>1, <2>2, <2>3
<1>8. ASSUME NEW j \in 1 .. Len(t), t[j] # Space PROVE \E p \in i .. n : g[p] = j
  <2>1. CASE j <= b
    <3>0. j \in 1 .. b /\ safe[j] # Space
      BY <1>1, <1>3, <1>8, <2>1
    <3>1. PICK q \in 1 .. m : sl[q] = j
      BY <1>s, <3>0
    <3>2. i + q - 1 \in i .. n /\ i + q - 1 < i + m /\ (i + q - 1) - i + 1 = q
      BY <1>1, <1>2
    <3>3. g[i + q - 1] = j
      BY <1>4, <3>1, <3>2
    <3> QED
      BY <3>2, <3>3
  <2>2. CASE ~(j <= b)
    <3>1. j - b \in 1 .. Len(s) /\ s[j - b] # Space
      BY <1>1, <1>3, <1>8, <2>2
    <3>2. PICK p \in i + m .. n : h[p] = j - b
      BY <1>h, <3>1
    <3>3. p \in i .. n /\ ~(p < i + m)
      BY <1>1
    <3>4. g[p] = j
      BY <1>1, <1>5, <3>2, <3>3
    <3> QED
      BY <3>3, <3>4
  <2> QED
    BY <2>1, <2>2
<1>9. Spaces(g, text, i, t)
  BY <1>6, <1>7, <1>8 DEF Spaces, n
<1> QED
  BY <1>9 DEF g, t, m, b

\* What a token is replaced by is the token with blanks put in, each symbol at its place.
Fit(c, sl) ==
  /\ c.token \in Seq(Alphabet) /\ c.token # <<>> /\ c.safe \in Seq(Alphabet)
  /\ Spaces(sl, c.token, 1, c.safe)

\* A blank comes between two of its symbols, and no two occurrences of it overlap.
Separates(c, sl) ==
  /\ \E q \in 1 .. Len(c.token) - 1 : sl[q + 1] # sl[q] + 1
  /\ \A d \in 1 .. Len(c.token) - 1 : \E q \in 1 .. Len(c.token) - d : c.token[q + d] # c.token[q]

\* Every occurrence of a token from a position on has been broken up.
BrokenAt(h, token, p) == \E q \in 1 .. Len(token) - 1 : h[p + q] # h[p + q - 1] + 1
Parted(h, text, token, from) == \A p \in from .. Len(text) : Occurs(token, text, p) => BrokenAt(h, token, p)

LEMMA PartedBehind ==
  ASSUME NEW text \in Seq(Alphabet), NEW i \in 1 .. Len(text), NEW m \in Nat \ {0}, NEW b \in Nat,
         NEW token \in Seq(Alphabet), token # <<>>, NEW sl, NEW h, Parted(h, text, token, i + m),
         h \in [i + m .. Len(text) -> Int],
         NEW p \in i + m .. Len(text), Occurs(token, text, p)
  PROVE  BrokenAt(Placed(sl, h, text, i, m, b), token, p)
<1> DEFINE n == Len(text)
           g == Placed(sl, h, text, i, m, b)
<1>1. n \in Nat /\ Len(token) \in Nat \ {0} /\ i \in 1 .. n
  BY LenProperties, EmptySeq
<1>2. PICK q \in 1 .. Len(token) - 1 : h[p + q] # h[p + q - 1] + 1
  BY DEF Parted, BrokenAt
<1>3. p + Len(token) - 1 <= n
  BY <1>1, OccursAt
<1>g. g = [k \in i .. n |-> IF k < i + m THEN sl[k - i + 1] ELSE h[k] + b]
  BY DEF Placed
<1> HIDE DEF g, n
<1>4. p + q \in i + m .. n /\ p + q - 1 \in i + m .. n /\ i + m .. n \subseteq i .. n /\ \A k \in i + m .. n : ~(k < i + m)
  BY <1>1, <1>3
<1>5. g[p + q] = h[p + q] + b /\ g[p + q - 1] = h[p + q - 1] + b
  BY <1>g, <1>4
<1>6. h[p + q] \in Int /\ h[p + q - 1] \in Int
  BY <1>4 DEF n
<1>7. g[p + q] # g[p + q - 1] + 1
  BY <1>2, <1>5, <1>6
<1> QED
  BY <1>7 DEF g, BrokenAt

LEMMA ReplaceTokenSpaces ==
  ASSUME NEW text \in Seq(Alphabet), NEW c, NEW sl, Fit(c, sl)
  PROVE  /\ ReplaceToken(text, c) \in Seq(Alphabet)
         /\ \E h : /\ Spaces(h, text, 1, ReplaceToken(text, c))
                   /\ Separates(c, sl) => Parted(h, text, c.token, 1)
<1> DEFINE n == Len(text)
           token == c.token
           m == Len(token)
<1>1. /\ token \in Seq(Alphabet) /\ token # <<>> /\ c.safe \in Seq(Alphabet)
      /\ Spaces(sl, token, 1, c.safe)
  BY DEF Fit
<1>2. n \in Nat /\ m \in Nat \ {0} /\ Len(c.safe) \in Nat
  BY <1>1, LenProperties, EmptySeq
<1>3. PICK rest : /\ rest[1] = ReplaceToken(text, c) /\ rest[n + 1] = <<>>
                  /\ \A i \in 1 .. n :
                       rest[i] = IF Occurs(token, text, i) THEN c.safe \o rest[i + m]
                                 ELSE <<text[i]>> \o rest[i + 1]
  BY <1>2, ReplaceTokenSteps
<1> DEFINE Done(i, h) == /\ Spaces(h, text, i, rest[i])
                         /\ Separates(c, sl) => Parted(h, text, token, i)
           T == {i \in 1 .. n + 1 : rest[i] \in Seq(Alphabet) /\ \E h : Done(i, h)}
<1> HIDE DEF n, token, m
<1>4. n + 1 \in T
  <2> DEFINE h == [p \in n + 1 .. n |-> 1]
  <2>1. n + 1 .. n = {}
    BY <1>2
  <2>2. <<>> \in Seq(Alphabet) /\ Len(<<>>) = 0 /\ 1 .. 0 = {}
    BY EmptySeq
  <2>3. Spaces(h, text, n + 1, <<>>)
    BY <2>1, <2>2 DEF Spaces, n
  <2>4. Parted(h, text, token, n + 1)
    BY <2>1 DEF Parted, n
  <2> QED
    BY <1>2, <1>3, <2>2, <2>3, <2>4
<1>5. ASSUME NEW i \in 1 .. n, \A j \in (i + 1) .. (n + 1) : j \in T PROVE i \in T
  <2>1. CASE Occurs(token, text, i)
    <3>1. i + m \in (i + 1) .. (n + 1) /\ i \in Nat \ {0}
      <4>1. i + m - 1 <= n /\ i \in Nat \ {0}
        BY <1>1, <1>2, <2>1, OccursAt DEF m, n
      <4> QED
        BY <1>2, <4>1
    <3>2. PICK h : rest[i + m] \in Seq(Alphabet) /\ Done(i + m, h)
      BY <1>5, <3>1
    <3> DEFINE g == Placed(sl, h, text, i, m, Len(c.safe))
    <3>3. rest[i] = c.safe \o rest[i + m]
      BY <1>3, <2>1
    <3>4. rest[i] \in Seq(Alphabet) /\ Spaces(g, text, i, rest[i])
      <4>1. i \in 1 .. Len(text)
        BY DEF n
      <4> QED
        BY <1>1, <2>1, <3>2, <3>3, <4>1, SpacesBehind, ConcatProperties DEF m
    <3>5. ASSUME Separates(c, sl) PROVE Parted(g, text, token, i)
      <4> SUFFICES ASSUME NEW p \in i .. n, Occurs(token, text, p)
                   PROVE  BrokenAt(g, token, p)
        BY DEF Parted, n
      <4>0. /\ p + m - 1 <= n /\ \A q \in 1 .. m : text[p + q - 1] = token[q]
            /\ i + m - 1 <= n /\ \A q \in 1 .. m : text[i + q - 1] = token[q]
        <5>1. p \in Nat \ {0}
          BY <1>2
        <5> QED
          BY <1>1, <2>1, <3>1, <5>1, OccursAt DEF m, n
      <4>1. CASE p \in i + m .. n
        <5>1. Parted(h, text, token, i + m) /\ h \in [i + m .. Len(text) -> Int]
          BY <3>2, <3>5 DEF Spaces
        <5>2. i \in 1 .. Len(text) /\ p \in i + m .. Len(text)
          BY <4>1 DEF n
        <5> HIDE DEF g
        <5>3. m \in Nat \ {0} /\ Len(c.safe) \in Nat /\ token \in Seq(Alphabet) /\ token # <<>> /\ Occurs(token, text, p)
          BY <1>1, <1>2
        <5>4. BrokenAt(Placed(sl, h, text, i, m, Len(c.safe)), token, p)
          BY <5>1, <5>2, <5>3, PartedBehind
        <5> QED
          BY <5>4 DEF g
      <4>2. CASE p = i
        <5>1. PICK q \in 1 .. m - 1 : sl[q + 1] # sl[q] + 1
          BY <3>5 DEF Separates, m, token
        <5>2. /\ p + q \in i .. n /\ p + q < i + m /\ p + q - i + 1 = q + 1
              /\ p + q - 1 \in i .. n /\ p + q - 1 < i + m /\ (p + q - 1) - i + 1 = q
          BY <1>2, <4>0, <4>2
        <5>3. g = [k \in i .. n |-> IF k < i + m THEN sl[k - i + 1] ELSE h[k] + Len(c.safe)]
          BY DEF Placed, n
        <5> HIDE DEF g
        <5>4. g[p + q] = sl[q + 1] /\ g[p + q - 1] = sl[q]
          BY <5>2, <5>3
        <5> QED
          BY <5>1, <5>4 DEF BrokenAt, m
      <4>3. CASE p \in i + 1 .. i + m - 1
        <5> DEFINE d == p - i
        <5>1. d \in 1 .. m - 1
          BY <1>2, <4>3
        <5>2. PICK q \in 1 .. m - d : token[q + d] # token[q]
          BY <3>5, <5>1 DEF Separates, m, token
        <5>3. q + d \in 1 .. m /\ q \in 1 .. m /\ i + (q + d) - 1 = p + q - 1
          BY <1>2, <5>1
        <5>4. text[i + (q + d) - 1] = token[q + d] /\ text[p + q - 1] = token[q]
          BY <4>0, <5>3
        <5> QED
          BY <5>2, <5>3, <5>4
      <4> QED
        BY <1>2, <4>1, <4>2, <4>3
    <3>6. Done(i, g)
      BY <3>4, <3>5
    <3>w. i \in 1 .. n + 1 /\ \E f : Done(i, f)
      BY <1>2, <3>6
    <3> QED
      BY <3>4, <3>w
  <2>2. CASE ~Occurs(token, text, i)
    <3> DEFINE one == <<text[i]>>
    <3>1. i + 1 \in (i + 1) .. (n + 1) /\ i \in Nat \ {0} /\ text[i] \in Alphabet
      BY <1>2, ElementOfSeq DEF n
    <3>2. PICK h : rest[i + 1] \in Seq(Alphabet) /\ Done(i + 1, h)
      BY <1>5, <3>1
    <3>3. rest[i] = one \o rest[i + 1]
      BY <1>3, <2>2
    <3>4. one \in Seq(Alphabet) /\ Len(one) = 1 /\ one[1] = text[i] /\ one # <<>>
      BY <3>1
    <3> HIDE DEF one
    <3> DEFINE g == Placed(<<1>>, h, text, i, 1, 1)
    <3>5. Spaces(<<1>>, one, 1, one)
      BY <3>4 DEF Spaces
    <3>6. Occurs(one, text, i)
      <4>1. /\ i + Len(one) - 1 <= Len(text)
            /\ \A q \in 1 .. Len(one) : text[i + q - 1] = one[q]
        BY <3>1, <3>4, <1>2 DEF n
      <4> QED
        BY <3>1, <3>4, <4>1, OccursAt
    <3>7. rest[i] \in Seq(Alphabet) /\ Spaces(g, text, i, rest[i])
      <4>1. i \in 1 .. Len(text)
        BY DEF n
      <4> QED
        BY <3>2, <3>3, <3>4, <3>5, <3>6, <4>1, SpacesBehind, ConcatProperties
    <3>8. ASSUME Separates(c, sl) PROVE Parted(g, text, token, i)
      <4> SUFFICES ASSUME NEW p \in i .. n, Occurs(token, text, p)
                   PROVE  BrokenAt(g, token, p)
        BY DEF Parted, n
      <4>1. p \in i + 1 .. n
        BY <1>2, <2>2
      <4>2. Parted(h, text, token, i + 1) /\ h \in [i + 1 .. Len(text) -> Int]
        BY <3>2, <3>8 DEF Spaces
      <4>3. i \in 1 .. Len(text) /\ p \in i + 1 .. Len(text) /\ 1 \in Nat \ {0}
        BY <4>1 DEF n
      <4>4. 1 \in Nat /\ token \in Seq(Alphabet) /\ token # <<>> /\ Occurs(token, text, p)
        BY <1>1
      <4> HIDE DEF g
      <4>5. BrokenAt(Placed(<<1>>, h, text, i, 1, 1), token, p)
        BY <4>2, <4>3, <4>4, PartedBehind
      <4> QED
        BY <4>5 DEF g
    <3>9. Done(i, g)
      BY <3>7, <3>8
    <3>w. i \in 1 .. n + 1 /\ \E f : Done(i, f)
      BY <1>2, <3>9
    <3> QED
      BY <3>7, <3>w
  <2> QED
    BY <2>1, <2>2
<1> HIDE DEF T
<1>6. 1 \in T
  <2>1. \A i \in 1 .. (n + 1) : i \in T
    BY <1>2, <1>4, <1>5, EveryPosition
  <2> QED
    BY <1>2, <2>1
<1> QED
  BY <1>3, <1>6 DEF T, token

\* A token is nowhere in a text.
Absent(token, s) == \A i \in 1 .. Len(s) : ~Occurs(token, s, i)
Unspaced(token) == token \in Seq(Alphabet) /\ token # <<>> /\ \A q \in 1 .. Len(token) : token[q] # Space

\* No token is made by putting blanks in.
LEMMA ReplaceKeeps ==
  ASSUME NEW text \in Seq(Alphabet), NEW c, NEW sl, Fit(c, sl),
         NEW token, Unspaced(token), Absent(token, text)
  PROVE  Absent(token, ReplaceToken(text, c))
<1> DEFINE s == ReplaceToken(text, c)
<1> SUFFICES ASSUME NEW j \in 1 .. Len(s), Occurs(token, s, j) PROVE FALSE
  BY DEF Absent
<1>1. PICK h : Spaces(h, text, 1, s)
  BY ReplaceTokenSpaces
<1>2. s \in Seq(Alphabet)
  BY ReplaceTokenSpaces
<1> HIDE DEF s
<1>3. \E p \in 1 .. Len(text) : Occurs(token, text, p)
  BY <1>1, <1>2, Window DEF Unspaced
<1> QED
  BY <1>3 DEF Absent

\* A token that its replacement breaks up is gone.
LEMMA ReplaceRemoves ==
  ASSUME NEW text \in Seq(Alphabet), NEW c, NEW sl, Fit(c, sl), Separates(c, sl), Unspaced(c.token)
  PROVE  Absent(c.token, ReplaceToken(text, c))
<1> DEFINE s == ReplaceToken(text, c)
           token == c.token
           m == Len(token)
<1> SUFFICES ASSUME NEW j \in 1 .. Len(s), Occurs(token, s, j) PROVE FALSE
  BY DEF Absent
<1>1. PICK h : Spaces(h, text, 1, s) /\ Parted(h, text, token, 1)
  BY ReplaceTokenSpaces
<1>2. s \in Seq(Alphabet) /\ m \in Nat /\ Len(s) \in Nat /\ Unspaced(token)
  BY ReplaceTokenSpaces, LenProperties DEF Unspaced
<1> HIDE DEF s, token
<1>3. PICK p \in 1 .. Len(text) : Occurs(token, text, p) /\ \A q \in 1 .. m : h[p + q - 1] = j + q - 1
  BY <1>1, <1>2, Window DEF Unspaced
<1>4. PICK q \in 1 .. m - 1 : h[p + q] # h[p + q - 1] + 1
  BY <1>1, <1>3 DEF Parted, BrokenAt
<1> HIDE DEF m
<1>5. q \in 1 .. m /\ q + 1 \in 1 .. m /\ p + (q + 1) - 1 = p + q /\ j + (q + 1) - 1 = j + q - 1 + 1
  BY <1>2
<1>6. h[p + q - 1] = j + q - 1 /\ h[p + (q + 1) - 1] = j + (q + 1) - 1
  BY <1>3, <1>5
<1> QED
  BY <1>4, <1>5, <1>6

LEMMA PairOccurs ==
  ASSUME NEW c \in Alphabet, NEW s \in Seq(Alphabet)
  PROVE  NoPair(c, s) <=> Absent(<<c, c>>, s)
<1> DEFINE cc == <<c, c>>
<1>1. cc \in Seq(Alphabet) /\ Len(cc) = 2 /\ cc[1] = c /\ cc[2] = c
  BY PairIsSeq
<1>2. Len(s) \in Nat
  BY LenProperties
<1> HIDE DEF cc
<1>3. ASSUME NEW i \in 1 .. Len(s)
      PROVE  Occurs(cc, s, i) <=> i \in 1 .. Len(s) - 1 /\ s[i] = c /\ s[i + 1] = c
  <2>1. Occurs(cc, s, i) <=> /\ i + Len(cc) - 1 <= Len(s)
                             /\ \A q \in 1 .. Len(cc) : s[i + q - 1] = cc[q]
    <3>1. i \in Nat \ {0}
      BY <1>2
    <3> QED
      BY <1>1, <3>1, OccursAt
  <2>2. (\A q \in 1 .. 2 : s[i + q - 1] = cc[q]) <=> s[i + 1 - 1] = cc[1] /\ s[i + 2 - 1] = cc[2]
    <3>1. \A q \in 1 .. 2 : q = 1 \/ q = 2
      OBVIOUS
    <3>2. 1 \in 1 .. 2 /\ 2 \in 1 .. 2
      OBVIOUS
    <3> QED
      BY <3>1, <3>2
  <2>3. i + 1 - 1 = i /\ i + 2 - 1 = i + 1 /\ (i + 2 - 1 <= Len(s) <=> i \in 1 .. Len(s) - 1)
    BY <1>2
  <2> QED
    BY <1>1, <2>1, <2>2, <2>3
<1>4. \A i \in 1 .. Len(s) - 1 : i \in 1 .. Len(s)
  BY <1>2
<1> QED
  BY <1>3, <1>4 DEF NoPair, Absent, cc

\* Where the symbols of each control token stand in what it is spaced out to.
Slots == <<<<1, 2, 4, 6, 7>>, <<1, 3, 5>>, <<1, 2>>, <<2, 3>>>>

LEMMA SystemTokenFits ==
  LET c == ControlTokens[1]
  IN  Fit(c, Slots[1]) /\ Unspaced(c.token) /\ Separates(c, Slots[1])
<1> DEFINE token == <<"<", "<", "SYS", ">", ">">>
           safe == <<"<", "<", " ", "SYS", " ", ">", ">">>
           sl == <<1, 2, 4, 6, 7>>
           c == ControlTokens[1]
<1>1. c.token = token /\ c.safe = safe /\ Slots[1] = sl
  BY DEF ControlTokens, Slots
<1>2. token \in Seq(Alphabet) /\ safe \in Seq(Alphabet)
  BY DEF Alphabet, Symbols, Space
<1>3. Len(token) = 5 /\ Len(safe) = 7 /\ Len(sl) = 5 /\ token # <<>>
  OBVIOUS
<1>4. /\ sl[1] = 1 /\ sl[2] = 2 /\ sl[3] = 4 /\ sl[4] = 6 /\ sl[5] = 7
  OBVIOUS
<1>5. /\ token[1] = safe[1] /\ token[2] = safe[2] /\ token[3] = safe[4] /\ token[4] = safe[6] /\ token[5] = safe[7]
  OBVIOUS
<1>6. /\ token[1] # Space /\ token[2] # Space /\ token[3] # Space /\ token[4] # Space /\ token[5] # Space
  BY DEF Space
<1>7. /\ safe[3] = Space /\ safe[5] = Space
  BY DEF Space
<1>8. /\ token[3] # token[2] /\ token[3] # token[1] /\ token[4] # token[1] /\ token[5] # token[1]
  OBVIOUS
<1>9. sl = [q \in 1 .. 5 |-> sl[q]]
  OBVIOUS
<1> HIDE DEF token, safe, sl, c
<1>10. \A q \in 1 .. 5 : q = 1 \/ q = 2 \/ q = 3 \/ q = 4 \/ q = 5
  OBVIOUS
<1>11. sl \in [1 .. 5 -> 1 .. 7]
  <2>1. \A q \in 1 .. 5 : sl[q] \in 1 .. 7
    BY <1>4, <1>10
  <2> QED
    BY <1>9, <2>1
<1>12. \A q \in 1 .. 5 : safe[sl[q]] = token[q] /\ token[q] # Space
  BY <1>4, <1>5, <1>6, <1>10
<1>13. \A q, r \in 1 .. 5 : q < r => sl[q] < sl[r]
  BY <1>4, <1>10
<1>14. \A j \in 1 .. 7 : safe[j] # Space => \E q \in 1 .. 5 : sl[q] = j
  <2>1. \A j \in 1 .. 7 : j = 1 \/ j = 2 \/ j = 3 \/ j = 4 \/ j = 5 \/ j = 6 \/ j = 7
    OBVIOUS
  <2>2. 1 \in 1 .. 5 /\ 2 \in 1 .. 5 /\ 3 \in 1 .. 5 /\ 4 \in 1 .. 5 /\ 5 \in 1 .. 5
    OBVIOUS
  <2> QED
    BY <1>4, <1>7, <2>1, <2>2
<1>15. Spaces(sl, token, 1, safe)
  BY <1>3, <1>11, <1>12, <1>13, <1>14 DEF Spaces
<1>16. Fit(c, Slots[1]) /\ Unspaced(c.token)
  BY <1>1, <1>2, <1>3, <1>12, <1>15 DEF Fit, Unspaced
<1>17. \E q \in 1 .. 5 - 1 : sl[q + 1] # sl[q] + 1
  <2>1. 2 \in 1 .. 5 - 1 /\ sl[2 + 1] # sl[2] + 1
    BY <1>4
  <2> QED
    BY <2>1
<1>18. \A d \in 1 .. 5 - 1 : \E q \in 1 .. 5 - d : token[q + d] # token[q]
  <2>1. \A d \in 1 .. 5 - 1 : d = 1 \/ d = 2 \/ d = 3 \/ d = 4
    OBVIOUS
  <2>2. 2 \in 1 .. 5 - 1 /\ token[2 + 1] # token[2]
    BY <1>8
  <2>3. 1 \in 1 .. 5 - 2 /\ token[1 + 2] # token[1]
    BY <1>8
  <2>4. 1 \in 1 .. 5 - 3 /\ token[1 + 3] # token[1]
    BY <1>8
  <2>5. 1 \in 1 .. 5 - 4 /\ token[1 + 4] # token[1]
    BY <1>8
  <2> QED
    BY <2>1, <2>2, <2>3, <2>4, <2>5
<1>19. Separates(c, Slots[1])
  BY <1>1, <1>3, <1>17, <1>18 DEF Separates
<1> QED
  BY <1>16, <1>19 DEF c

LEMMA InstTokenFits ==
  LET c == ControlTokens[2]
  IN  Fit(c, Slots[2]) /\ Unspaced(c.token) /\ Separates(c, Slots[2])
<1> DEFINE token == <<"[", "INST", "]">>
           safe == <<"[", " ", "INST", " ", "]">>
           sl == <<1, 3, 5>>
           c == ControlTokens[2]
<1>1. c.token = token /\ c.safe = safe /\ Slots[2] = sl
  BY DEF ControlTokens, Slots
<1>2. token \in Seq(Alphabet) /\ safe \in Seq(Alphabet)
  BY DEF Alphabet, Symbols, Space
<1>3. Len(token) = 3 /\ Len(safe) = 5 /\ Len(sl) = 3 /\ token # <<>>
  OBVIOUS
<1>4. /\ sl[1] = 1 /\ sl[2] = 3 /\ sl[3] = 5
  OBVIOUS
<1>5. /\ token[1] = safe[1] /\ token[2] = safe[3] /\ token[3] = safe[5]
  OBVIOUS
<1>6. /\ token[1] # Space /\ token[2] # Space /\ token[3] # Space
  BY DEF Space
<1>7. /\ safe[2] = Space /\ safe[4] = Space
  BY DEF Space
<1>8. /\ token[2] # token[1] /\ token[3] # token[1]
  OBVIOUS
<1>9. sl = [q \in 1 .. 3 |-> sl[q]]
  OBVIOUS
<1> HIDE DEF token, safe, sl, c
<1>10. \A q \in 1 .. 3 : q = 1 \/ q = 2 \/ q = 3
  OBVIOUS
<1>11. sl \in [1 .. 3 -> 1 .. 5]
  <2>1. \A q \in 1 .. 3 : sl[q] \in 1 .. 5
    BY <1>4, <1>10
  <2> QED
    BY <1>9, <2>1
<1>12. \A q \in 1 .. 3 : safe[sl[q]] = token[q] /\ token[q] # Space
  BY <1>4, <1>5, <1>6, <1>10
<1>13. \A q, r \in 1 .. 3 : q < r => sl[q] < sl[r]
  BY <1>4, <1>10
<1>14. \A j \in 1 .. 5 : safe[j] # Space => \E q \in 1 .. 3 : sl[q] = j
  <2>1. \A j \in 1 .. 5 : j = 1 \/ j = 2 \/ j = 3 \/ j = 4 \/ j = 5
    OBVIOUS
  <2>2. 1 \in 1 .. 3 /\ 2 \in 1 .. 3 /\ 3 \in 1 .. 3
    OBVIOUS
  <2> QED
    BY <1>4, <1>7, <2>1, <2>2
<1>15. Spaces(sl, token, 1, safe)
  BY <1>3, <1>11, <1>12, <1>13, <1>14 DEF Spaces
<1>16. Fit(c, Slots[2]) /\ Unspaced(c.token)
  BY <1>1, <1>2, <1>3, <1>12, <1>15 DEF Fit, Unspaced
<1>17. \E q \in 1 .. 3 - 1 : sl[q + 1] # sl[q] + 1
  <2>1. 1 \in 1 .. 3 - 1 /\ sl[1 + 1] # sl[1] + 1
    BY <1>4
  <2> QED
    BY <2>1
<1>18. \A d \in 1 .. 3 - 1 : \E q \in 1 .. 3 - d : token[q + d] # token[q]
  <2>1. \A d \in 1 .. 3 - 1 : d = 1 \/ d = 2
    OBVIOUS
  <2>2. 1 \in 1 .. 3 - 1 /\ token[1 + 1] # token[1]
    BY <1>8
  <2>3. 1 \in 1 .. 3 - 2 /\ token[1 + 2] # token[1]
    BY <1>8
  <2> QED
    BY <2>1, <2>2, <2>3
<1>19. Separates(c, Slots[2])
  BY <1>1, <1>3, <1>17, <1>18 DEF Separates
<1> QED
  BY <1>16, <1>19 DEF c

LEMMA OpeningTokenFits ==
  LET c == ControlTokens[3]
  IN  Fit(c, Slots[3]) /\ Unspaced(c.token)
<1> DEFINE token == <<"<", "|">>
           safe == <<"<", "|", " ">>
           sl == <<1, 2>>
           c == ControlTokens[3]
<1>1. c.token = token /\ c.safe = safe /\ Slots[3] = sl
  BY DEF ControlTokens, Slots
<1>2. token \in Seq(Alphabet) /\ safe \in Seq(Alphabet)
  BY DEF Alphabet, Symbols, Space
<1>3. Len(token) = 2 /\ Len(safe) = 3 /\ Len(sl) = 2 /\ token # <<>>
  OBVIOUS
<1>4. /\ sl[1] = 1 /\ sl[2] = 2
  OBVIOUS
<1>5. /\ token[1] = safe[1] /\ token[2] = safe[2]
  OBVIOUS
<1>6. /\ token[1] # Space /\ token[2] # Space
  BY DEF Space
<1>7. /\ safe[3] = Space
  BY DEF Space
<1>9. sl = [q \in 1 .. 2 |-> sl[q]]
  OBVIOUS
<1> HIDE DEF token, safe, sl, c
<1>10. \A q \in 1 .. 2 : q = 1 \/ q = 2
  OBVIOUS
<1>11. sl \in [1 .. 2 -> 1 .. 3]
  <2>1. \A q \in 1 .. 2 : sl[q] \in 1 .. 3
    BY <1>4, <1>10
  <2> QED
    BY <1>9, <2>1
<1>12. \A q \in 1 .. 2 : safe[sl[q]] = token[q] /\ token[q] # Space
  BY <1>4, <1>5, <1>6, <1>10
<1>13. \A q, r \in 1 .. 2 : q < r => sl[q] < sl[r]
  BY <1>4, <1>10
<1>14. \A j \in 1 .. 3 : safe[j] # Space => \E q \in 1 .. 2 : sl[q] = j
  <2>1. \A j \in 1 .. 3 : j = 1 \/ j = 2 \/ j = 3
    OBVIOUS
  <2>2. 1 \in 1 .. 2 /\ 2 \in 1 .. 2
    OBVIOUS
  <2> QED
    BY <1>4, <1>7, <2>1, <2>2
<1>15. Spaces(sl, token, 1, safe)
  BY <1>3, <1>11, <1>12, <1>13, <1>14 DEF Spaces
<1>16. Fit(c, Slots[3]) /\ Unspaced(c.token)
  BY <1>1, <1>2, <1>3, <1>12, <1>15 DEF Fit, Unspaced
<1> QED
  BY <1>16 DEF c

LEMMA ClosingTokenFits ==
  LET c == ControlTokens[4]
  IN  Fit(c, Slots[4]) /\ Unspaced(c.token)
<1> DEFINE token == <<"|", ">">>
           safe == <<" ", "|", ">">>
           sl == <<2, 3>>
           c == ControlTokens[4]
<1>1. c.token = token /\ c.safe = safe /\ Slots[4] = sl
  BY DEF ControlTokens, Slots
<1>2. token \in Seq(Alphabet) /\ safe \in Seq(Alphabet)
  BY DEF Alphabet, Symbols, Space
<1>3. Len(token) = 2 /\ Len(safe) = 3 /\ Len(sl) = 2 /\ token # <<>>
  OBVIOUS
<1>4. /\ sl[1] = 2 /\ sl[2] = 3
  OBVIOUS
<1>5. /\ token[1] = safe[2] /\ token[2] = safe[3]
  OBVIOUS
<1>6. /\ token[1] # Space /\ token[2] # Space
  BY DEF Space
<1>7. /\ safe[1] = Space
  BY DEF Space
<1>9. sl = [q \in 1 .. 2 |-> sl[q]]
  OBVIOUS
<1> HIDE DEF token, safe, sl, c
<1>10. \A q \in 1 .. 2 : q = 1 \/ q = 2
  OBVIOUS
<1>11. sl \in [1 .. 2 -> 1 .. 3]
  <2>1. \A q \in 1 .. 2 : sl[q] \in 1 .. 3
    BY <1>4, <1>10
  <2> QED
    BY <1>9, <2>1
<1>12. \A q \in 1 .. 2 : safe[sl[q]] = token[q] /\ token[q] # Space
  BY <1>4, <1>5, <1>6, <1>10
<1>13. \A q, r \in 1 .. 2 : q < r => sl[q] < sl[r]
  BY <1>4, <1>10
<1>14. \A j \in 1 .. 3 : safe[j] # Space => \E q \in 1 .. 2 : sl[q] = j
  <2>1. \A j \in 1 .. 3 : j = 1 \/ j = 2 \/ j = 3
    OBVIOUS
  <2>2. 1 \in 1 .. 2 /\ 2 \in 1 .. 2
    OBVIOUS
  <2> QED
    BY <1>4, <1>7, <2>1, <2>2
<1>15. Spaces(sl, token, 1, safe)
  BY <1>3, <1>11, <1>12, <1>13, <1>14 DEF Spaces
<1>16. Fit(c, Slots[4]) /\ Unspaced(c.token)
  BY <1>1, <1>2, <1>3, <1>12, <1>15 DEF Fit, Unspaced
<1> QED
  BY <1>16 DEF c

LEMMA ControlTokensFit ==
  /\ DOMAIN ControlTokens = 1 .. 4 /\ Len(ControlTokens) = 4
  /\ \A k \in 1 .. 4 : Fit(ControlTokens[k], Slots[k]) /\ Unspaced(ControlTokens[k].token)
<1>1. DOMAIN ControlTokens = 1 .. 4 /\ Len(ControlTokens) = 4
  BY DEF ControlTokens
<1>2. \A k \in 1 .. 4 : k = 1 \/ k = 2 \/ k = 3 \/ k = 4
  OBVIOUS
<1> QED
  BY <1>1, <1>2, SystemTokenFits, InstTokenFits, OpeningTokenFits, ClosingTokenFits

\* The four control tokens are replaced one after the other.
LEMMA ReplaceTokensSteps ==
  ASSUME NEW text \in Seq(Alphabet)
  PROVE  LET one == ReplaceToken(text, ControlTokens[1])
             two == ReplaceToken(one, ControlTokens[2])
             three == ReplaceToken(two, ControlTokens[3])
         IN  FoldLeft(ReplaceToken, text, ControlTokens) = ReplaceToken(three, ControlTokens[4])
<1> DEFINE B == {ControlTokens[k] : k \in 1 .. 4}
           F == [x \in Seq(Alphabet) \X B |-> ReplaceToken(x[1], x[2])]
           Fold(f) == f = [u \in SUBSET (1 .. 4) |->
                             IF u = {} THEN text ELSE ReplaceToken(f[u \ {Max(u)}], ControlTokens[Max(u)])]
           it == CHOOSE f : Fold(f)
<1>1. \E f : Fold(f)
  <2>1. F \in [Seq(Alphabet) \X B -> Seq(Alphabet)]
    BY ControlTokensFit, ReplaceTokenSpaces
  <2>2. ControlTokens \in Seq(B)
    <3>1. ControlTokens \in [1 .. 4 -> B]
      <4>1. ControlTokens = [k \in 1 .. 4 |-> ControlTokens[k]]
        BY DEF ControlTokens
      <4> QED
        BY <4>1
    <3> HIDE DEF B
    <3>2. 4 \in Nat
      OBVIOUS
    <3> QED
      BY <3>1, <3>2, SeqDef
  <2> HIDE DEF F, B
  <2>3. PICK f \in [SUBSET (1 .. 4) -> Seq(Alphabet)] : Iterates(f, F, text, ControlTokens, 4)
    <3>1. \E f \in [SUBSET (1 .. Len(ControlTokens)) -> Seq(Alphabet)] :
            Iterates(f, F, text, ControlTokens, Len(ControlTokens))
      BY <2>1, <2>2, IterationExists
    <3> QED
      BY <3>1, ControlTokensFit
  <2>4. ASSUME NEW u \in SUBSET (1 .. 4), u # {}
        PROVE  F[<<f[u \ {Max(u)}], ControlTokens[Max(u)]>>] = ReplaceToken(f[u \ {Max(u)}], ControlTokens[Max(u)])
    <3>0. 4 \in Nat
      OBVIOUS
    <3>1. Max(u) \in u /\ u \ {Max(u)} \in SUBSET (1 .. 4)
      BY <3>0, <2>4, LargestOf
    <3>2. f[u \ {Max(u)}] \in Seq(Alphabet) /\ ControlTokens[Max(u)] \in B
      BY <3>1 DEF B
    <3> QED
      BY <3>2 DEF F
  <2>5. Fold(f)
    BY <2>3, <2>4 DEF Iterates
  <2> QED
    BY <2>5
<1>2. Fold(it)
  BY <1>1
<1>3. FoldLeft(ReplaceToken, text, ControlTokens) = it[1 .. 4]
  BY ControlTokensFit DEF FoldLeft, MapThenFoldSet
<1> HIDE DEF it
<1>4. ASSUME NEW k \in 0 .. 3 PROVE it[1 .. (k + 1)] = ReplaceToken(it[1 .. k], ControlTokens[k + 1])
  <2>1. k \in Nat /\ 1 .. (k + 1) \in SUBSET (1 .. 4)
    OBVIOUS
  <2>2. 1 .. (k + 1) # {} /\ Max(1 .. (k + 1)) = k + 1 /\ (1 .. (k + 1)) \ {k + 1} = 1 .. k
    BY <2>1, FirstNumbers
  <2> QED
    BY <1>2, <2>1, <2>2
<1>5. it[1 .. 0] = text
  <2>1. 1 .. 0 = {} /\ {} \in SUBSET (1 .. 4)
    BY FirstNumbers
  <2>2. it[{}] = text
    BY <1>2, <2>1
  <2> QED
    BY <2>1, <2>2
<1>6. /\ it[1 .. 1] = ReplaceToken(it[1 .. 0], ControlTokens[1])
      /\ it[1 .. 2] = ReplaceToken(it[1 .. 1], ControlTokens[2])
      /\ it[1 .. 3] = ReplaceToken(it[1 .. 2], ControlTokens[3])
      /\ it[1 .. 4] = ReplaceToken(it[1 .. 3], ControlTokens[4])
  <2>1. 0 \in 0 .. 3 /\ 1 \in 0 .. 3 /\ 2 \in 0 .. 3 /\ 3 \in 0 .. 3 /\ 0 + 1 = 1 /\ 1 + 1 = 2 /\ 2 + 1 = 3 /\ 3 + 1 = 4
    OBVIOUS
  <2>2. /\ it[1 .. (0 + 1)] = ReplaceToken(it[1 .. 0], ControlTokens[0 + 1])
        /\ it[1 .. (1 + 1)] = ReplaceToken(it[1 .. 1], ControlTokens[1 + 1])
        /\ it[1 .. (2 + 1)] = ReplaceToken(it[1 .. 2], ControlTokens[2 + 1])
        /\ it[1 .. (3 + 1)] = ReplaceToken(it[1 .. 3], ControlTokens[3 + 1])
    BY <1>4, <2>1
  <2> QED
    BY <2>1, <2>2
<1> QED
  BY <1>3, <1>5, <1>6

\* What a passage is neutralised to.
Neutral(s) ==
  /\ s \in Seq(Alphabet)
  /\ \A d \in Brackets : NoPair(d, s)
  /\ \A k \in {1, 2} : Absent(ControlTokens[k].token, s)

LEMMA NeutralizeNeutral ==
  ASSUME NEW text \in Seq(Symbols)
  PROVE  Neutral(NeutralizeUntrustedText(text))
<1> DEFINE zero == SplitRuns("]", SplitRuns("[", text))
           one == ReplaceToken(zero, ControlTokens[1])
           two == ReplaceToken(one, ControlTokens[2])
           three == ReplaceToken(two, ControlTokens[3])
           four == ReplaceToken(three, ControlTokens[4])
           open == SplitRuns("[", text)
<1>1. text \in Seq(Alphabet)
  BY SeqMonotonic DEF Alphabet
<1>b. "[" \in Brackets /\ "]" \in Brackets /\ Brackets \subseteq Alphabet /\ \A d \in Brackets : d # Space
  BY DEF Brackets, Alphabet, Symbols, Space
<1>2. open \in Seq(Alphabet) /\ NoPair("[", open)
  BY <1>1, <1>b, SplitRunsParts
<1> HIDE DEF open
<1>3. zero \in Seq(Alphabet) /\ NoPair("[", zero) /\ NoPair("]", zero)
  <2>1. zero = SplitRuns("]", open)
    BY DEF open
  <2> HIDE DEF zero
  <2> QED
    BY <1>2, <1>b, <2>1, SplitRunsParts
<1>4. NeutralizeUntrustedText(text) = four
  BY <1>3, ReplaceTokensSteps DEF NeutralizeUntrustedText
<1>d. \A d \in Brackets : Unspaced(<<d, d>>)
  <2> SUFFICES ASSUME NEW d \in Brackets PROVE Unspaced(<<d, d>>)
    OBVIOUS
  <2> DEFINE dd == <<d, d>>
  <2>1. d \in Alphabet /\ d # Space
    BY <1>b
  <2>2. dd \in Seq(Alphabet) /\ Len(dd) = 2 /\ dd[1] = d /\ dd[2] = d
    BY <2>1, PairIsSeq
  <2> HIDE DEF dd
  <2>3. dd # <<>> /\ \A q \in 1 .. 2 : q = 1 \/ q = 2
    <3>1. Len(<<>>) = 0 /\ 2 # 0
      OBVIOUS
    <3>2. \A q \in 1 .. 2 : q = 1 \/ q = 2
      OBVIOUS
    <3> QED
      BY <2>2, <3>1, <3>2
  <2>4. Unspaced(dd)
    BY <2>1, <2>2, <2>3 DEF Unspaced
  <2> QED
    BY <2>4 DEF dd
<1>5. \A d \in Brackets : Absent(<<d, d>>, zero)
  <2>1. \A d \in Brackets : d = "[" \/ d = "]"
    BY DEF Brackets
  <2>2. \A d \in Brackets : NoPair(d, zero) /\ d \in Alphabet
    BY <1>3, <1>b, <2>1
  <2> HIDE DEF zero
  <2> QED
    BY <1>3, <2>2, PairOccurs
<1> HIDE DEF zero
<1>6. one \in Seq(Alphabet) /\ Absent(ControlTokens[1].token, one) /\ \A d \in Brackets : Absent(<<d, d>>, one)
  BY <1>3, <1>d, <1>5, SystemTokenFits, ReplaceTokenSpaces, ReplaceRemoves, ReplaceKeeps
<1> HIDE DEF one
<1>7. /\ two \in Seq(Alphabet) /\ Absent(ControlTokens[1].token, two) /\ Absent(ControlTokens[2].token, two)
      /\ \A d \in Brackets : Absent(<<d, d>>, two)
  BY <1>6, <1>d, SystemTokenFits, InstTokenFits, ReplaceTokenSpaces, ReplaceRemoves, ReplaceKeeps
<1> HIDE DEF two
<1>8. /\ three \in Seq(Alphabet) /\ Absent(ControlTokens[1].token, three) /\ Absent(ControlTokens[2].token, three)
      /\ \A d \in Brackets : Absent(<<d, d>>, three)
  BY <1>7, <1>d, SystemTokenFits, InstTokenFits, OpeningTokenFits, ReplaceTokenSpaces, ReplaceKeeps
<1> HIDE DEF three
<1>9. /\ four \in Seq(Alphabet) /\ Absent(ControlTokens[1].token, four) /\ Absent(ControlTokens[2].token, four)
      /\ \A d \in Brackets : Absent(<<d, d>>, four)
  BY <1>8, <1>d, SystemTokenFits, InstTokenFits, ClosingTokenFits, ReplaceTokenSpaces, ReplaceKeeps
<1> HIDE DEF four
<1>10. \A d \in Brackets : NoPair(d, four)
  BY <1>9, <1>b, PairOccurs
<1> QED
  BY <1>4, <1>9, <1>10 DEF Neutral

\* Sequences one after the other.
LEMMA TwoParts ==
  ASSUME NEW S, NEW a \in Seq(S), NEW b \in Seq(S), NEW s, s = a \o b
  PROVE  /\ s \in Seq(S) /\ Len(s) = Len(a) + Len(b)
         /\ \A i \in 1 .. Len(a) : s[i] = a[i]
         /\ \A i \in 1 .. Len(b) : s[Len(a) + i] = b[i]
<1> DEFINE A == Len(a)
           B == Len(b)
<1>1. A \in Nat /\ B \in Nat
  BY LenProperties
<1>2. /\ s \in Seq(S) /\ Len(s) = A + B
      /\ \A i \in 1 .. A + B : s[i] = IF i <= A THEN a[i] ELSE b[i - A]
  BY ConcatProperties
<1> HIDE DEF A, B
<1>3. ASSUME NEW i \in 1 .. A PROVE s[i] = a[i]
  <2>1. i \in 1 .. A + B /\ i <= A
    BY <1>1
  <2> QED
    BY <1>2, <2>1
<1>4. ASSUME NEW i \in 1 .. B PROVE s[A + i] = b[i]
  <2>1. A + i \in 1 .. A + B /\ ~(A + i <= A) /\ (A + i) - A = i
    BY <1>1
  <2> QED
    BY <1>2, <2>1
<1> QED
  BY <1>2, <1>3, <1>4 DEF A, B

Joined(S, s, a, b, c, d, e) ==
  LET A == Len(a)
      B == Len(b)
      C == Len(c)
      D == Len(d)
      E == Len(e)
  IN /\ s \in Seq(S) /\ Len(s) = A + B + C + D + E
     /\ \A i \in 1 .. A : s[i] = a[i]
     /\ \A i \in 1 .. B : s[A + i] = b[i]
     /\ \A i \in 1 .. C : s[A + B + i] = c[i]
     /\ \A i \in 1 .. D : s[A + B + C + i] = d[i]
     /\ \A i \in 1 .. E : s[A + B + C + D + i] = e[i]

LEMMA FiveParts ==
  ASSUME NEW S, NEW a \in Seq(S), NEW b \in Seq(S), NEW c \in Seq(S), NEW d \in Seq(S), NEW e \in Seq(S)
  PROVE  Joined(S, a \o b \o c \o d \o e, a, b, c, d, e)
<1> DEFINE s == a \o b \o c \o d \o e
           A == Len(a)
           B == Len(b)
           C == Len(c)
           D == Len(d)
           E == Len(e)
<1>0. /\ s = a \o b \o c \o d \o e
      /\ A = Len(a) /\ B = Len(b) /\ C = Len(c) /\ D = Len(d) /\ E = Len(e)
  OBVIOUS
<1> HIDE DEF s, A, B, C, D, E
<1> DEFINE two == a \o b
           three == two \o c
           four == three \o d
<1>1. A \in Nat /\ B \in Nat /\ C \in Nat /\ D \in Nat /\ E \in Nat
  BY <1>0, LenProperties
<1>2. /\ two \in Seq(S) /\ Len(two) = A + B
      /\ \A i \in 1 .. A : two[i] = a[i]
      /\ \A i \in 1 .. B : two[A + i] = b[i]
  BY <1>0, TwoParts
<1> HIDE DEF two
<1>3. /\ three \in Seq(S) /\ Len(three) = A + B + C
      /\ \A i \in 1 .. A + B : three[i] = two[i]
      /\ \A i \in 1 .. C : three[A + B + i] = c[i]
  <2>0. two \in Seq(S)
    BY <1>2
  <2>1. /\ three \in Seq(S) /\ Len(three) = Len(two) + Len(c)
        /\ \A i \in 1 .. Len(two) : three[i] = two[i]
        /\ \A i \in 1 .. Len(c) : three[Len(two) + i] = c[i]
    BY <2>0, TwoParts
  <2> HIDE DEF three
  <2> QED
    BY <1>0, <1>2, <2>1
<1> HIDE DEF three
<1>4. /\ four \in Seq(S) /\ Len(four) = A + B + C + D
      /\ \A i \in 1 .. A + B + C : four[i] = three[i]
      /\ \A i \in 1 .. D : four[A + B + C + i] = d[i]
  <2>0. three \in Seq(S)
    BY <1>3
  <2>1. /\ four \in Seq(S) /\ Len(four) = Len(three) + Len(d)
        /\ \A i \in 1 .. Len(three) : four[i] = three[i]
        /\ \A i \in 1 .. Len(d) : four[Len(three) + i] = d[i]
    BY <2>0, TwoParts
  <2> HIDE DEF four
  <2> QED
    BY <1>0, <1>3, <2>1
<1>s. s = four \o e
  BY <1>0 DEF two, three
<1> HIDE DEF four
<1>5. /\ s \in Seq(S) /\ Len(s) = A + B + C + D + E
      /\ \A i \in 1 .. A + B + C + D : s[i] = four[i]
      /\ \A i \in 1 .. E : s[A + B + C + D + i] = e[i]
  <2>0. four \in Seq(S)
    BY <1>4
  <2>1. /\ s \in Seq(S) /\ Len(s) = Len(four) + Len(e)
        /\ \A i \in 1 .. Len(four) : s[i] = four[i]
        /\ \A i \in 1 .. Len(e) : s[Len(four) + i] = e[i]
    BY <2>0, <1>s, TwoParts
  <2> QED
    BY <1>0, <1>4, <2>1
<1>6. ASSUME NEW i \in 1 .. A + B + C PROVE s[i] = three[i]
  <2>1. i \in 1 .. A + B + C + D
    BY <1>1
  <2> QED
    BY <1>4, <1>5, <2>1
<1>7. ASSUME NEW i \in 1 .. A + B PROVE s[i] = two[i]
  <2>1. i \in 1 .. A + B + C
    BY <1>1
  <2> QED
    BY <1>3, <1>6, <2>1
<1>8. ASSUME NEW i \in 1 .. A PROVE s[i] = a[i]
  <2>1. i \in 1 .. A + B
    BY <1>1
  <2> QED
    BY <1>2, <1>7, <2>1
<1>9. ASSUME NEW i \in 1 .. B PROVE s[A + i] = b[i]
  <2>1. A + i \in 1 .. A + B
    BY <1>1
  <2> QED
    BY <1>2, <1>7, <2>1
<1>10. ASSUME NEW i \in 1 .. C PROVE s[A + B + i] = c[i]
  <2>1. A + B + i \in 1 .. A + B + C
    BY <1>1
  <2> QED
    BY <1>3, <1>6, <2>1
<1>11. ASSUME NEW i \in 1 .. D PROVE s[A + B + C + i] = d[i]
  <2>1. A + B + C + i \in 1 .. A + B + C + D
    BY <1>1
  <2> QED
    BY <1>4, <1>5, <2>1
<1> QED
  BY <1>5, <1>8, <1>9, <1>10, <1>11 DEF Joined, s, A, B, C, D, E

\* What a fence is made of beside the passage and its title.
Frame == {"[", "]", "UNTRUSTED SOURCE", "END SOURCE", "1", ":", "nl"}
Wide == Alphabet \cup Frame \cup {"(", ")"}

Before == <<"[", "[", "UNTRUSTED SOURCE", "[", "1", "]", ":">>
Between == <<"]", "]", "nl">>
After == <<"nl", "[", "[", "END SOURCE", "[", "1", "]", "]", "]">>
LB == "["
RB == "]"

LEMMA FrameParts ==
  /\ Before \in Seq(Frame) /\ Len(Before) = 7
  /\ Between \in Seq(Frame) /\ Len(Between) = 3
  /\ After \in Seq(Frame) /\ Len(After) = 9
  /\ Before[1] = LB /\ Before[2] = LB /\ Before[3] \notin Brackets /\ Before[4] = LB
  /\ Before[5] \notin Brackets /\ Before[6] = RB /\ Before[7] \notin Brackets
  /\ Between[1] = RB /\ Between[2] = RB /\ Between[3] \notin Brackets
  /\ After[1] \notin Brackets /\ After[2] = LB /\ After[3] = LB /\ After[4] \notin Brackets /\ After[5] = LB
  /\ After[6] \notin Brackets /\ After[7] = RB /\ After[8] = RB /\ After[9] = RB
<1>1. Before \in Seq(Frame) /\ Between \in Seq(Frame) /\ After \in Seq(Frame)
  BY DEF Before, Between, After, Frame
<1>2. Len(Before) = 7 /\ Len(Between) = 3 /\ Len(After) = 9
  BY DEF Before, Between, After
<1>3. /\ Before[1] = LB /\ Before[2] = LB /\ Before[3] \notin Brackets /\ Before[4] = LB
      /\ Before[5] \notin Brackets /\ Before[6] = RB /\ Before[7] \notin Brackets
  BY DEF Before, LB, RB, Brackets
<1>4. Between[1] = RB /\ Between[2] = RB /\ Between[3] \notin Brackets
  BY DEF Between, LB, RB, Brackets
<1>5. /\ After[1] \notin Brackets /\ After[2] = LB /\ After[3] = LB /\ After[4] \notin Brackets /\ After[5] = LB
      /\ After[6] \notin Brackets /\ After[7] = RB /\ After[8] = RB /\ After[9] = RB
  BY DEF After, LB, RB, Brackets
<1> QED
  BY <1>1, <1>2, <1>3, <1>4, <1>5

\* The parts of a fence, and where each begins.
Fenced(s, title, text, A, B) ==
  /\ title \in Seq(Alphabet) /\ text \in Seq(Alphabet) /\ A = Len(title) /\ B = Len(text)
  /\ s \in Seq(Wide) /\ Len(s) = 19 + A + B
  /\ \A i \in 1 .. 7 : s[i] = Before[i]
  /\ \A i \in 1 .. A : s[7 + i] = Parenthesised(title[i])
  /\ \A i \in 1 .. 3 : s[7 + A + i] = Between[i]
  /\ \A i \in 1 .. B : s[10 + A + i] = text[i]
  /\ \A i \in 1 .. 9 : s[10 + A + B + i] = After[i]

LEMMA ParenthesisedSymbols ==
  ASSUME NEW x \in Alphabet
  PROVE  Parenthesised(x) \in Wide /\ Parenthesised(x) \notin Brackets
BY DEF Parenthesised, Wide, Brackets, Alphabet, Symbols, Space

LEMMA ParenthesisedIs ==
  ASSUME NEW x, NEW y, Parenthesised(x) = y, y # "(", y # ")"
  PROVE  x = y
BY DEF Parenthesised

LEMMA FenceIsFenced ==
  ASSUME NEW title, NEW text, NEW neutral, neutral = NeutralizeUntrustedText(title), neutral \in Seq(Alphabet),
         NEW body, body = NeutralizeUntrustedText(text), body \in Seq(Alphabet)
  PROVE  Fenced(FenceSource("1", title, text), neutral, body, Len(neutral), Len(body))
<1> DEFINE safe == [i \in DOMAIN neutral |-> Parenthesised(neutral[i])]
           s == FenceSource("1", title, text)
           A == Len(neutral)
           B == Len(body)
<1>1. s = Before \o safe \o Between \o body \o After
  BY DEF FenceSource, Before, Between, After
<1>2. A \in Nat /\ B \in Nat /\ DOMAIN neutral = 1 .. A /\ \A i \in 1 .. A : neutral[i] \in Alphabet
  BY LenProperties, ElementOfSeq
<1>3. safe \in Seq(Wide) /\ Len(safe) = A /\ \A i \in 1 .. A : safe[i] = Parenthesised(neutral[i])
  <2>1. safe = [i \in 1 .. A |-> Parenthesised(neutral[i])]
    BY <1>2
  <2>2. \A i \in 1 .. A : Parenthesised(neutral[i]) \in Wide
    BY <1>2, ParenthesisedSymbols
  <2> HIDE DEF safe, A
  <2>3. safe \in [1 .. A -> Wide]
    BY <2>1, <2>2
  <2>4. safe \in Seq(Wide)
    BY <1>2, <2>3, SeqDef
  <2>5. Len(safe) = A
    <3>1. DOMAIN safe = 1 .. A /\ DOMAIN safe = 1 .. Len(safe) /\ Len(safe) \in Nat
      BY <2>1, <2>4, LenProperties
    <3> QED
      BY <1>2, <3>1
  <2> QED
    BY <2>1, <2>4, <2>5
<1>4. Before \in Seq(Wide) /\ Between \in Seq(Wide) /\ After \in Seq(Wide) /\ body \in Seq(Wide)
  <2>1. Frame \subseteq Wide /\ Alphabet \subseteq Wide
    BY DEF Wide
  <2> QED
    BY <2>1, FrameParts, SeqMonotonic
<1>5. Len(Before) = 7 /\ Len(Between) = 3 /\ Len(After) = 9
  BY FrameParts
<1> HIDE DEF safe, s, A, B
<1>6. /\ s \in Seq(Wide) /\ Len(s) = 7 + A + 3 + B + 9
      /\ \A i \in 1 .. 7 : s[i] = Before[i]
      /\ \A i \in 1 .. A : s[7 + i] = safe[i]
      /\ \A i \in 1 .. 3 : s[7 + A + i] = Between[i]
      /\ \A i \in 1 .. B : s[7 + A + 3 + i] = body[i]
      /\ \A i \in 1 .. 9 : s[7 + A + 3 + B + i] = After[i]
  <2> DEFINE P == Len(Before)
             Q == Len(Between)
             R == Len(After)
  <2>1. B = Len(body) /\ A = Len(safe) /\ safe \in Seq(Wide)
    BY <1>3 DEF B
  <2>2. P = Len(Before) /\ Q = Len(Between) /\ R = Len(After) /\ P = 7 /\ Q = 3 /\ R = 9
    BY <1>5
  <2> HIDE DEF P, Q, R
  <2>3. /\ s \in Seq(Wide) /\ Len(s) = P + A + Q + B + R
        /\ \A i \in 1 .. P : s[i] = Before[i]
        /\ \A i \in 1 .. A : s[P + i] = safe[i]
        /\ \A i \in 1 .. Q : s[P + A + i] = Between[i]
        /\ \A i \in 1 .. B : s[P + A + Q + i] = body[i]
        /\ \A i \in 1 .. R : s[P + A + Q + B + i] = After[i]
    <3>1. Joined(Wide, s, Before, safe, Between, body, After)
      BY <1>1, <1>4, <2>1, FiveParts
    <3> QED
      BY <2>1, <2>2, <3>1 DEF Joined
  <2>4. /\ s \in Seq(Wide) /\ Len(s) = 7 + A + Q + B + R
        /\ \A i \in 1 .. 7 : s[i] = Before[i]
        /\ \A i \in 1 .. A : s[7 + i] = safe[i]
        /\ \A i \in 1 .. Q : s[7 + A + i] = Between[i]
        /\ \A i \in 1 .. B : s[7 + A + Q + i] = body[i]
        /\ \A i \in 1 .. R : s[7 + A + Q + B + i] = After[i]
    BY <2>2, <2>3, Zenon
  <2> QED
    BY <2>2, <2>4, Zenon
<1>7. /\ 7 + A + 3 + B + 9 = 19 + A + B /\ \A i \in Nat : 7 + A + 3 + i = 10 + A + i
      /\ \A i \in Nat : 7 + A + 3 + B + i = 10 + A + B + i
  BY <1>2
<1>8. \A i \in 1 .. B : s[10 + A + i] = body[i]
  <2>1. \A i \in 1 .. B : i \in Nat
    OBVIOUS
  <2> QED
    BY <1>6, <1>7, <2>1
<1>9. \A i \in 1 .. 9 : s[10 + A + B + i] = After[i]
  <2>1. \A i \in 1 .. 9 : i \in Nat
    OBVIOUS
  <2> QED
    BY <1>6, <1>7, <2>1
<1>10. Fenced(s, neutral, body, A, B)
  BY <1>3, <1>6, <1>7, <1>8, <1>9 DEF Fenced, A, B
<1> QED
  BY <1>10 DEF s, A, B

\* Sets of two and of three.
LEMMA TwoOf ==
  ASSUME NEW a, NEW b, a # b
  PROVE  IsFiniteSet({a, b}) /\ Cardinality({a, b}) = 2
<1>1. IsFiniteSet({a}) /\ Cardinality({a}) = 1
  BY FS_Singleton
<1>2. {a, b} = {a} \cup {b} /\ b \notin {a}
  OBVIOUS
<1> QED
  BY <1>1, <1>2, FS_AddElement

LEMMA ThreeOf ==
  ASSUME NEW a, NEW b, NEW c, a # b, a # c, b # c
  PROVE  Cardinality({a, b, c}) = 3
<1>1. IsFiniteSet({a, b}) /\ Cardinality({a, b}) = 2
  BY TwoOf
<1>2. {a, b, c} = {a, b} \cup {c} /\ c \notin {a, b}
  OBVIOUS
<1> QED
  BY <1>1, <1>2, FS_AddElement

\* What stands where in a fence whose title is M symbols less the seven before it, and
\* whose text ends after N.
Places(s, M, N, B) ==
  /\ M \in Nat /\ N \in Nat /\ B \in Nat /\ 7 <= M /\ N = M + 3 + B /\ Len(s) = N + 9
  /\ s[1] = LB /\ s[2] = LB /\ s[3] \notin Brackets /\ s[4] = LB
  /\ s[5] \notin Brackets /\ s[6] = RB /\ s[7] \notin Brackets
  /\ \A i \in 8 .. M : s[i] \notin Brackets
  /\ s[M + 1] = RB /\ s[M + 2] = RB /\ s[M + 3] \notin Brackets
  /\ \A d \in Brackets : \A i \in M + 4 .. N - 1 : ~(s[i] = d /\ s[i + 1] = d)
  /\ s[N + 1] \notin Brackets /\ s[N + 2] = LB /\ s[N + 3] = LB /\ s[N + 4] \notin Brackets
  /\ s[N + 5] = LB /\ s[N + 6] \notin Brackets /\ s[N + 7] = RB /\ s[N + 8] = RB /\ s[N + 9] = RB

LEMMA FencePlaces ==
  ASSUME NEW s, NEW title, NEW text, NEW A, NEW B, Fenced(s, title, text, A, B),
         \A d \in Brackets : NoPair(d, text),
         NEW M, M = 7 + A, NEW N, N = 10 + A + B
  PROVE  Places(s, M, N, B)
<1>1. /\ title \in Seq(Alphabet) /\ text \in Seq(Alphabet) /\ A = Len(title) /\ B = Len(text)
      /\ Len(s) = 19 + A + B
      /\ \A i \in 1 .. 7 : s[i] = Before[i]
      /\ \A i \in 1 .. A : s[7 + i] = Parenthesised(title[i])
      /\ \A i \in 1 .. 3 : s[7 + A + i] = Between[i]
      /\ \A i \in 1 .. B : s[10 + A + i] = text[i]
      /\ \A i \in 1 .. 9 : s[10 + A + B + i] = After[i]
  BY DEF Fenced
<1>2. A \in Nat /\ B \in Nat /\ \A i \in 1 .. A : title[i] \in Alphabet
  BY <1>1, LenProperties, ElementOfSeq
<1>3. M \in Nat /\ N \in Nat /\ 7 <= M /\ N = M + 3 + B /\ Len(s) = N + 9
  <2>1. A \in Nat /\ B \in Nat /\ Len(s) = 19 + A + B
    BY <1>1, <1>2
  <2> QED
    BY <2>1
<1>4. /\ s[1] = LB /\ s[2] = LB /\ s[3] \notin Brackets /\ s[4] = LB
      /\ s[5] \notin Brackets /\ s[6] = RB /\ s[7] \notin Brackets
  <2>1. \A i \in {1, 2, 3, 4, 5, 6, 7} : i \in 1 .. 7
    OBVIOUS
  <2>2. \A i \in {1, 2, 3, 4, 5, 6, 7} : s[i] = Before[i]
    BY <1>1, <2>1
  <2> QED
    BY <2>2, FrameParts
<1>5. \A i \in 8 .. M : s[i] \notin Brackets
  <2> SUFFICES ASSUME NEW i \in 8 .. M PROVE s[i] \notin Brackets
    OBVIOUS
  <2>1. i - 7 \in 1 .. A /\ 7 + (i - 7) = i
    BY <1>2
  <2>2. s[i] = Parenthesised(title[i - 7]) /\ title[i - 7] \in Alphabet
    BY <1>1, <1>2, <2>1
  <2> QED
    BY <2>2, ParenthesisedSymbols
<1>6. s[M + 1] = RB /\ s[M + 2] = RB /\ s[M + 3] \notin Brackets
  <2>1. \A i \in {1, 2, 3} : i \in 1 .. 3
    OBVIOUS
  <2>2. \A i \in {1, 2, 3} : s[M + i] = Between[i]
    BY <1>1, <2>1
  <2> QED
    BY <2>2, FrameParts
<1>7. ASSUME NEW d \in Brackets, NEW i \in M + 4 .. N - 1 PROVE ~(s[i] = d /\ s[i + 1] = d)
  <2> DEFINE p == i - (10 + A)
  <2>1. p \in 1 .. B - 1 /\ p \in 1 .. B /\ p + 1 \in 1 .. B /\ i = 10 + A + p /\ i + 1 = 10 + A + (p + 1)
    BY <1>2
  <2> HIDE DEF p
  <2>2. s[i] = text[p] /\ s[i + 1] = text[p + 1]
    BY <1>1, <2>1
  <2>3. ~(text[p] = d /\ text[p + 1] = d)
    BY <1>1, <2>1 DEF NoPair
  <2> QED
    BY <2>2, <2>3
<1>8. /\ s[N + 1] \notin Brackets /\ s[N + 2] = LB /\ s[N + 3] = LB /\ s[N + 4] \notin Brackets
      /\ s[N + 5] = LB /\ s[N + 6] \notin Brackets /\ s[N + 7] = RB /\ s[N + 8] = RB /\ s[N + 9] = RB
  <2>1. \A i \in {1, 2, 3, 4, 5, 6, 7, 8, 9} : i \in 1 .. 9
    OBVIOUS
  <2>2. \A i \in {1, 2, 3, 4, 5, 6, 7, 8, 9} : s[N + i] = After[i]
    BY <1>1, <2>1
  <2> QED
    BY <2>2, FrameParts
<1> QED
  BY <1>2, <1>3, <1>4, <1>5, <1>6, <1>7, <1>8 DEF Places

Pairs(c, s) == {i \in 1 .. Len(s) - 1 : s[i] = c /\ s[i + 1] = c}

LEMMA FencePairs ==
  ASSUME NEW s, NEW title, NEW text, NEW A, NEW B, Fenced(s, title, text, A, B),
         \A d \in Brackets : NoPair(d, text)
  PROVE  Cardinality(Pairs(LB, s)) = 2 /\ Cardinality(Pairs(RB, s)) = 3
<1> DEFINE M == 7 + A
           N == 10 + A + B
<1>0. M = 7 + A /\ N = 10 + A + B
  OBVIOUS
<1> HIDE DEF M, N
<1>1. /\ M \in Nat /\ N \in Nat /\ B \in Nat /\ 7 <= M /\ N = M + 3 + B /\ Len(s) = N + 9
      /\ s[1] = LB /\ s[2] = LB /\ s[3] \notin Brackets /\ s[4] = LB
      /\ s[5] \notin Brackets /\ s[6] = RB /\ s[7] \notin Brackets
      /\ \A i \in 8 .. M : s[i] \notin Brackets
      /\ s[M + 1] = RB /\ s[M + 2] = RB /\ s[M + 3] \notin Brackets
      /\ \A d \in Brackets : \A i \in M + 4 .. N - 1 : ~(s[i] = d /\ s[i + 1] = d)
      /\ s[N + 1] \notin Brackets /\ s[N + 2] = LB /\ s[N + 3] = LB /\ s[N + 4] \notin Brackets
      /\ s[N + 5] = LB /\ s[N + 6] \notin Brackets /\ s[N + 7] = RB /\ s[N + 8] = RB /\ s[N + 9] = RB
  <2>1. Places(s, M, N, B)
    BY <1>0, FencePlaces
  <2> QED
    BY <2>1 DEF Places
<1>2. LB \in Brackets /\ RB \in Brackets /\ LB # RB
  BY DEF LB, RB, Brackets
<1>3. ASSUME NEW d \in Brackets, NEW i \in 1 .. Len(s) - 1, s[i] = d, s[i + 1] = d
      PROVE  \/ d = LB /\ i \in {1, N + 2}
             \/ d = RB /\ i \in {M + 1, N + 7, N + 8}
  <2>1. i \in Nat /\ 1 <= i /\ i <= N + 8
    BY <1>1
  <2>2. CASE i < 7
    <3>1. i = 1 \/ i = 2 \/ i = 3 \/ i = 4 \/ i = 5 \/ i = 6
      BY <2>1, <2>2
    <3>2. 1 + 1 = 2 /\ 2 + 1 = 3 /\ 3 + 1 = 4 /\ 4 + 1 = 5 /\ 5 + 1 = 6 /\ 6 + 1 = 7
      OBVIOUS
    <3>3. /\ s[1] = LB /\ s[2] = LB /\ s[3] # d /\ s[4] = LB
          /\ s[5] # d /\ s[6] = RB /\ s[7] # d
      BY <1>1
    <3>4. i # 2 /\ i # 3 /\ i # 4 /\ i # 5 /\ i # 6
      BY <1>3, <3>2, <3>3
    <3> QED
      BY <1>3, <3>1, <3>3, <3>4
  <2>3. CASE i = 7
    BY <1>1, <1>3, <2>3
  <2>4. CASE i \in 8 .. M
    BY <1>1, <1>3, <2>4
  <2>5. CASE i = M + 1
    BY <1>1, <1>2, <1>3, <2>5
  <2>6. CASE i = M + 2
    <3>1. i + 1 = M + 3
      BY <1>1, <2>6
    <3> QED
      BY <1>1, <1>3, <3>1
  <2>7. CASE i = M + 3
    BY <1>1, <1>3, <2>7
  <2>8. CASE i \in M + 4 .. N - 1
    BY <1>1, <1>3, <2>8
  <2>9. CASE i = N /\ i >= M + 4
    BY <1>1, <1>3, <2>9
  <2>10. CASE i > N
    <3>1. \/ i = N + 1 \/ i = N + 2 \/ i = N + 3 \/ i = N + 4 \/ i = N + 5 \/ i = N + 6
          \/ i = N + 7 \/ i = N + 8
      BY <1>1, <2>1, <2>10
    <3>2. /\ (N + 1) + 1 = N + 2 /\ (N + 2) + 1 = N + 3 /\ (N + 3) + 1 = N + 4 /\ (N + 4) + 1 = N + 5
          /\ (N + 5) + 1 = N + 6 /\ (N + 6) + 1 = N + 7 /\ (N + 7) + 1 = N + 8 /\ (N + 8) + 1 = N + 9
      BY <1>1
    <3>3. /\ s[N + 1] # d /\ s[N + 2] = LB /\ s[N + 3] = LB /\ s[N + 4] # d
          /\ s[N + 5] = LB /\ s[N + 6] # d /\ s[N + 7] = RB /\ s[N + 8] = RB /\ s[N + 9] = RB
      BY <1>1
    <3>4. i # N + 1 /\ i # N + 3 /\ i # N + 4 /\ i # N + 5 /\ i # N + 6
      BY <1>3, <3>2, <3>3
    <3> QED
      BY <1>3, <3>1, <3>3, <3>4
  <2> QED
    BY <1>1, <2>1, <2>2, <2>3, <2>4, <2>5, <2>6, <2>7, <2>8, <2>9, <2>10
<1>4. Pairs(LB, s) = {1, N + 2}
  <2>1. /\ 1 \in 1 .. Len(s) - 1 /\ s[1] = LB /\ s[1 + 1] = LB
        /\ N + 2 \in 1 .. Len(s) - 1 /\ s[N + 2] = LB /\ s[(N + 2) + 1] = LB
    <3>1. 1 + 1 = 2 /\ (N + 2) + 1 = N + 3 /\ 1 \in 1 .. Len(s) - 1 /\ N + 2 \in 1 .. Len(s) - 1
      BY <1>1
    <3> QED
      BY <1>1, <3>1
  <2>2. \A i \in Pairs(LB, s) : i \in {1, N + 2}
    BY <1>2, <1>3 DEF Pairs
  <2>3. 1 \in Pairs(LB, s) /\ N + 2 \in Pairs(LB, s)
    BY <2>1 DEF Pairs
  <2> QED
    BY <2>2, <2>3
<1>5. Pairs(RB, s) = {M + 1, N + 7, N + 8}
  <2>1. /\ M + 1 \in 1 .. Len(s) - 1 /\ s[M + 1] = RB /\ s[(M + 1) + 1] = RB
        /\ N + 7 \in 1 .. Len(s) - 1 /\ s[N + 7] = RB /\ s[(N + 7) + 1] = RB
        /\ N + 8 \in 1 .. Len(s) - 1 /\ s[N + 8] = RB /\ s[(N + 8) + 1] = RB
    <3>1. /\ (M + 1) + 1 = M + 2 /\ (N + 7) + 1 = N + 8 /\ (N + 8) + 1 = N + 9
          /\ M + 1 \in 1 .. Len(s) - 1 /\ N + 7 \in 1 .. Len(s) - 1 /\ N + 8 \in 1 .. Len(s) - 1
      BY <1>1
    <3> QED
      BY <1>1, <3>1
  <2>2. \A i \in Pairs(RB, s) : i \in {M + 1, N + 7, N + 8}
    BY <1>2, <1>3 DEF Pairs
  <2>3. M + 1 \in Pairs(RB, s) /\ N + 7 \in Pairs(RB, s) /\ N + 8 \in Pairs(RB, s)
    BY <2>1 DEF Pairs
  <2> QED
    BY <2>2, <2>3
<1>6. 1 # N + 2 /\ M + 1 # N + 7 /\ M + 1 # N + 8 /\ N + 7 # N + 8
  BY <1>1
<1>7. Cardinality({1, N + 2}) = 2
  BY <1>6, TwoOf
<1>8. Cardinality({M + 1, N + 7, N + 8}) = 3
  BY <1>6, ThreeOf
<1> QED
  BY <1>4, <1>5, <1>7, <1>8


\* Beside its title and its text a fence has symbols of its own.
LEMMA FrameElsewhere ==
  ASSUME NEW s, NEW title, NEW text, NEW A, NEW B, Fenced(s, title, text, A, B), NEW M, M = 7 + A, NEW N, N = 10 + A + B,
         NEW p \in 1 .. Len(s)
  PROVE  \/ p \in 8 .. M /\ p - 7 \in 1 .. A /\ s[p] = Parenthesised(title[p - 7]) /\ title[p - 7] \in Alphabet
         \/ p \in M + 4 .. N /\ p - (M + 3) \in 1 .. B /\ s[p] = text[p - (M + 3)]
         \/ ~(p \in 8 .. M) /\ ~(p \in M + 4 .. N) /\ s[p] \in Frame
<1>1. /\ title \in Seq(Alphabet) /\ text \in Seq(Alphabet) /\ A = Len(title) /\ B = Len(text)
      /\ Len(s) = 19 + A + B
      /\ \A i \in 1 .. 7 : s[i] = Before[i]
      /\ \A i \in 1 .. A : s[7 + i] = Parenthesised(title[i])
      /\ \A i \in 1 .. 3 : s[7 + A + i] = Between[i]
      /\ \A i \in 1 .. B : s[10 + A + i] = text[i]
      /\ \A i \in 1 .. 9 : s[10 + A + B + i] = After[i]
  BY DEF Fenced
<1>2. A \in Nat /\ B \in Nat /\ \A i \in 1 .. A : title[i] \in Alphabet
  BY <1>1, LenProperties, ElementOfSeq
<1>3. M \in Nat /\ N \in Nat /\ 7 <= M /\ N = M + 3 + B /\ Len(s) = N + 9 /\ p \in Nat /\ 1 <= p /\ p <= N + 9
  <2>1. A \in Nat /\ B \in Nat /\ Len(s) = 19 + A + B
    BY <1>1, <1>2
  <2> QED
    BY <2>1
<1>4. /\ \A i \in 1 .. 7 : Before[i] \in Frame
      /\ \A i \in 1 .. 3 : Between[i] \in Frame
      /\ \A i \in 1 .. 9 : After[i] \in Frame
  BY FrameParts, ElementOfSeq
<1>5. CASE p < 8
  <2>1. p \in 1 .. 7 /\ ~(p \in 8 .. M) /\ ~(p \in M + 4 .. N)
    BY <1>3, <1>5
  <2> QED
    BY <1>1, <1>4, <2>1
<1>6. CASE p \in 8 .. M
  <2>1. p - 7 \in 1 .. A /\ 7 + (p - 7) = p
    BY <1>2, <1>6
  <2> QED
    BY <1>1, <1>2, <1>6, <2>1
<1>7. CASE p \in M + 1 .. M + 3
  <2>1. p - M \in 1 .. 3 /\ 7 + A + (p - M) = p /\ ~(p \in 8 .. M) /\ ~(p \in M + 4 .. N)
    BY <1>2, <1>3, <1>7
  <2>2. s[7 + A + (p - M)] = Between[p - M]
    BY <1>1, <2>1
  <2>3. s[p] = Between[p - M] /\ Between[p - M] \in Frame
    BY <1>4, <2>1, <2>2
  <2> QED
    BY <2>1, <2>3
<1>8. CASE p \in M + 4 .. N
  <2>1. p - (M + 3) \in 1 .. B /\ 10 + A + (p - (M + 3)) = p
    BY <1>2, <1>3, <1>8
  <2> QED
    BY <1>1, <1>8, <2>1
<1>9. CASE p > N
  <2>1. p - N \in 1 .. 9 /\ 10 + A + B + (p - N) = p /\ ~(p \in 8 .. M) /\ ~(p \in M + 4 .. N)
    BY <1>2, <1>3, <1>9
  <2>2. s[10 + A + B + (p - N)] = After[p - N]
    BY <1>1, <2>1
  <2>3. s[p] = After[p - N] /\ After[p - N] \in Frame
    BY <1>4, <2>1, <2>2
  <2> QED
    BY <2>1, <2>3
<1> QED
  BY <1>3, <1>5, <1>6, <1>7, <1>8, <1>9

\* A token within the text of a fence is in the text.
LEMMA TokenInText ==
  ASSUME NEW s, NEW title, NEW text, NEW A, NEW B, Fenced(s, title, text, A, B), NEW M, M = 7 + A, NEW N, N = 10 + A + B,
         NEW token \in Seq(Alphabet), token # <<>>, NEW i \in Nat, M + 4 <= i, i + Len(token) - 1 <= N,
         \A q \in 1 .. Len(token) : s[i + q - 1] = token[q]
  PROVE  ~Absent(token, text)
<1> DEFINE m == Len(token)
           j == i - (M + 3)
<1>1. text \in Seq(Alphabet) /\ A = Len(title) /\ B = Len(text) /\ \A k \in 1 .. B : s[10 + A + k] = text[k]
  BY DEF Fenced
<1>2. m \in Nat /\ m # 0 /\ A \in Nat /\ B \in Nat
  BY <1>1, LenProperties, EmptySeq DEF Fenced
<1>3. \A q \in 1 .. m : s[i + q - 1] = token[q]
  OBVIOUS
<1>4. i + m - 1 <= N
  OBVIOUS
<1> HIDE DEF m
<1>5. j \in 1 .. B /\ j + m - 1 <= B /\ j \in Nat \ {0}
  BY <1>2, <1>4
<1>6. ASSUME NEW q \in 1 .. m PROVE text[j + q - 1] = token[q]
  <2>1. j + q - 1 \in 1 .. B /\ 10 + A + (j + q - 1) = i + q - 1
    BY <1>2, <1>4
  <2> QED
    BY <1>1, <1>3, <2>1
<1> HIDE DEF j
<1>7. Occurs(token, text, j)
  BY <1>1, <1>5, <1>6, OccursAt DEF m
<1> QED
  BY <1>1, <1>5, <1>7 DEF Absent

LEMMA OccursThere ==
  ASSUME NEW s \in Seq(Wide), NEW token \in Seq(Alphabet), NEW i \in 1 .. Len(s), Occurs(token, s, i)
  PROVE  i + Len(token) - 1 <= Len(s) /\ \A q \in 1 .. Len(token) : s[i + q - 1] = token[q]
<1>1. token \in Seq(Wide)
  <2>1. Alphabet \subseteq Wide
    BY DEF Wide
  <2> QED
    BY <2>1, SeqMonotonic
<1>2. i \in Nat \ {0}
  BY LenProperties
<1> QED
  BY <1>1, <1>2, OccursAt

\* A token none of whose symbols is a fence's own is not in one unless it is in the title
\* or in the text.
LEMMA ForeignToken ==
  ASSUME NEW s, NEW title, NEW text, NEW A, NEW B, Fenced(s, title, text, A, B),
         NEW token \in Seq(Alphabet), token # <<>>, \A q \in 1 .. Len(token) : token[q] \notin Frame \cup {"(", ")"},
         Absent(token, title), Absent(token, text), NEW i \in 1 .. Len(s)
  PROVE  ~Occurs(token, s, i)
<1> DEFINE m == Len(token)
           M == 7 + A
           N == 10 + A + B
<1>0. M = 7 + A /\ N = 10 + A + B
  OBVIOUS
<1> SUFFICES ASSUME Occurs(token, s, i) PROVE FALSE
  OBVIOUS
<1>1. /\ title \in Seq(Alphabet) /\ text \in Seq(Alphabet) /\ A = Len(title) /\ B = Len(text)
      /\ s \in Seq(Wide) /\ Len(s) = 19 + A + B
  BY DEF Fenced
<1>2. m \in Nat /\ m # 0 /\ A \in Nat /\ B \in Nat /\ M \in Nat /\ N \in Nat /\ N = M + 3 + B /\ Len(s) = N + 9
  BY <1>1, LenProperties, EmptySeq
<1>3. i + m - 1 <= Len(s) /\ \A q \in 1 .. m : s[i + q - 1] = token[q]
  BY <1>1, OccursThere
<1>4. \A q \in 1 .. m : token[q] \notin Frame /\ token[q] # "(" /\ token[q] # ")"
  OBVIOUS
<1> HIDE DEF m, M, N
<1>5. ASSUME NEW p \in 1 .. Len(s), p >= i, p <= i + m - 1
      PROVE  \/ p \in 8 .. M /\ p - 7 \in 1 .. A /\ s[p] = Parenthesised(title[p - 7])
             \/ p \in M + 4 .. N
  <2>1. p - i + 1 \in 1 .. m /\ i + (p - i + 1) - 1 = p
    BY <1>2, <1>5
  <2>2. s[p] \notin Frame
    BY <1>3, <1>4, <2>1
  <2> QED
    BY <1>0, <2>2, FrameElsewhere
<1>6. CASE i \in M + 4 .. N
  <2>1. i + m - 1 <= N
    <3>1. SUFFICES ASSUME i + m - 1 > N PROVE FALSE
      BY <1>2
    <3>2. N + 1 \in 1 .. Len(s) /\ N + 1 >= i /\ N + 1 <= i + m - 1 /\ ~(N + 1 \in 8 .. M) /\ ~(N + 1 \in M + 4 .. N)
      BY <1>2, <1>6, <3>1
    <3> QED
      BY <1>5, <3>2
  <2>2. i \in Nat /\ M + 4 <= i
    BY <1>2, <1>6
  <2>3. ~Absent(token, text)
    BY <1>0, <1>3, <2>1, <2>2, TokenInText DEF m
  <2> QED
    BY <2>3
<1>7. CASE i \in 8 .. M
  <2>1. i + m - 1 <= M
    <3>1. SUFFICES ASSUME i + m - 1 > M PROVE FALSE
      BY <1>2
    <3>2. M + 1 \in 1 .. Len(s) /\ M + 1 >= i /\ M + 1 <= i + m - 1 /\ ~(M + 1 \in 8 .. M) /\ ~(M + 1 \in M + 4 .. N)
      BY <1>2, <1>7, <3>1
    <3> QED
      BY <1>5, <3>2
  <2> DEFINE j == i - 7
  <2>2. j \in 1 .. A /\ j \in Nat \ {0} /\ j + m - 1 <= A
    BY <1>0, <1>2, <1>7, <2>1
  <2>3. ASSUME NEW q \in 1 .. m PROVE title[j + q - 1] = token[q]
    <3>1. i + q - 1 \in 1 .. Len(s) /\ i + q - 1 >= i /\ i + q - 1 <= i + m - 1 /\ ~(i + q - 1 \in M + 4 .. N)
          /\ (i + q - 1) - 7 = j + q - 1
      BY <1>2, <1>7, <2>1
    <3>2. s[i + q - 1] = Parenthesised(title[j + q - 1])
      BY <1>5, <3>1
    <3>3. Parenthesised(title[j + q - 1]) = token[q] /\ token[q] # "(" /\ token[q] # ")"
      BY <1>3, <1>4, <3>2
    <3> QED
      BY <3>3, ParenthesisedIs
  <2> HIDE DEF j
  <2>4. Occurs(token, title, j)
    BY <1>1, <2>2, <2>3, OccursAt DEF m
  <2> QED
    BY <1>1, <2>2, <2>4 DEF Absent
<1> QED
  <2>1. i \in 1 .. Len(s) /\ i >= i /\ i <= i + m - 1
    BY <1>2
  <2> QED
    BY <1>5, <1>6, <1>7, <2>1


\* The words of the other token are in a fence only as the passage has them: its brackets
\* are not those of the frame.
LEMMA InstToken ==
  ASSUME NEW s, NEW title, NEW text, NEW A, NEW B, Fenced(s, title, text, A, B),
         \A d \in Brackets : NoPair(d, text),
         NEW token \in Seq(Alphabet), Len(token) = 3, token[1] = LB, token[2] \notin Frame \cup {"(", ")"}, token[3] = RB,
         Absent(token, text), NEW i \in 1 .. Len(s)
  PROVE  ~Occurs(token, s, i)
<1> DEFINE M == 7 + A
           N == 10 + A + B
<1>0. M = 7 + A /\ N = 10 + A + B
  OBVIOUS
<1> SUFFICES ASSUME Occurs(token, s, i) PROVE FALSE
  OBVIOUS
<1> HIDE DEF M, N
<1>1. Places(s, M, N, B)
  BY <1>0, FencePlaces
<1>2. M \in Nat /\ N \in Nat /\ B \in Nat /\ 7 <= M /\ N = M + 3 + B /\ Len(s) = N + 9
  BY <1>1 DEF Places
<1>3. i + 2 <= Len(s) /\ \A q \in 1 .. 3 : s[i + q - 1] = token[q]
  <2>1. s \in Seq(Wide)
    BY DEF Fenced
  <2>2. i + Len(token) - 1 <= Len(s) /\ \A q \in 1 .. Len(token) : s[i + q - 1] = token[q]
    BY <2>1, OccursThere
  <2> QED
    BY <1>2, <2>2
<1>4. s[i] = LB /\ s[i + 1] = token[2] /\ s[i + 2] = RB
  <2>1. 1 \in 1 .. 3 /\ 2 \in 1 .. 3 /\ 3 \in 1 .. 3 /\ i + 1 - 1 = i /\ i + 2 - 1 = i + 1 /\ i + 3 - 1 = i + 2
    BY <1>2
  <2>2. s[i + 1 - 1] = token[1] /\ s[i + 2 - 1] = token[2] /\ s[i + 3 - 1] = token[3]
    BY <1>3, <2>1
  <2> QED
    BY <2>1, <2>2
<1>5. i + 1 \in 1 .. Len(s) /\ i \in Nat
  BY <1>2, <1>3
<1>6. i + 1 \in 8 .. M \/ i + 1 \in M + 4 .. N
  BY <1>0, <1>4, <1>5, FrameElsewhere
<1>7. LB \in Brackets /\ RB \in Brackets
  BY DEF LB, RB, Brackets
<1>8. i \notin 8 .. M /\ i # 7 /\ i # M + 3 /\ i + 2 # N + 1
  BY <1>1, <1>4, <1>7 DEF Places
<1>9. M + 4 <= i /\ i + 2 <= N
  BY <1>2, <1>5, <1>6, <1>8
<1>10. i + Len(token) - 1 <= N /\ token # <<>> /\ \A q \in 1 .. Len(token) : s[i + q - 1] = token[q]
  <2>1. i + 3 - 1 = i + 2 /\ 3 # 0
    BY <1>5
  <2> QED
    BY <1>3, <1>9, <2>1, EmptySeq
<1> QED
  BY <1>0, <1>5, <1>9, <1>10, TokenInText

LEMMA FenceOfAny ==
  ASSUME NEW title \in Seq(Symbols), NEW text \in Seq(Symbols),
         NEW s, s = FenceSource("1", title, text)
  PROVE  /\ Cardinality(Pairs(LB, s)) = 2 /\ Cardinality(Pairs(RB, s)) = 3
         /\ \A k \in {1, 2} : \A i \in DOMAIN s : ~Occurs(ControlTokens[k].token, s, i)
<1> DEFINE neutral == NeutralizeUntrustedText(title)
           body == NeutralizeUntrustedText(text)
           A == Len(neutral)
           B == Len(body)
           sys == ControlTokens[1].token
           inst == ControlTokens[2].token
<1>1. Neutral(neutral) /\ Neutral(body)
  BY NeutralizeNeutral
<1>2. neutral \in Seq(Alphabet) /\ body \in Seq(Alphabet) /\ \A d \in Brackets : NoPair(d, body)
  BY <1>1 DEF Neutral
<1>3. Fenced(s, neutral, body, A, B)
  BY <1>2, FenceIsFenced
<1>4. /\ Absent(sys, neutral) /\ Absent(sys, body) /\ Absent(inst, body)
  BY <1>1 DEF Neutral
<1>5. s \in Seq(Wide)
  BY <1>3 DEF Fenced
<1>6. DOMAIN s = 1 .. Len(s)
  BY <1>5, LenProperties
<1>7. /\ sys \in Seq(Alphabet) /\ sys # <<>>
      /\ \A q \in 1 .. Len(sys) : sys[q] \notin Frame \cup {"(", ")"}
  <2> DEFINE t == <<"<", "<", "SYS", ">", ">">>
  <2>1. sys = t
    BY DEF ControlTokens
  <2>2. t \in Seq(Alphabet) /\ Len(t) = 5 /\ t # <<>>
    BY DEF Alphabet, Symbols, Space
  <2>3. /\ t[1] \notin Frame \cup {"(", ")"} /\ t[2] \notin Frame \cup {"(", ")"} /\ t[3] \notin Frame \cup {"(", ")"}
        /\ t[4] \notin Frame \cup {"(", ")"} /\ t[5] \notin Frame \cup {"(", ")"}
    BY DEF Frame
  <2> HIDE DEF t, sys
  <2>4. \A q \in 1 .. 5 : q = 1 \/ q = 2 \/ q = 3 \/ q = 4 \/ q = 5
    OBVIOUS
  <2>5. \A q \in 1 .. 5 : t[q] \notin Frame \cup {"(", ")"}
    BY <2>3, <2>4
  <2> QED
    BY <2>1, <2>2, <2>5
<1>8. /\ inst \in Seq(Alphabet) /\ Len(inst) = 3 /\ inst[1] = LB /\ inst[2] \notin Frame \cup {"(", ")"} /\ inst[3] = RB
  <2> DEFINE t == <<"[", "INST", "]">>
  <2>1. inst = t
    BY DEF ControlTokens
  <2>2. t \in Seq(Alphabet) /\ Len(t) = 3
    BY DEF Alphabet, Symbols, Space
  <2>3. t[1] = LB /\ t[2] \notin Frame \cup {"(", ")"} /\ t[3] = RB
    BY DEF Frame, LB, RB
  <2> HIDE DEF t, inst
  <2> QED
    BY <2>1, <2>2, <2>3
<1> HIDE DEF neutral, body, A, B, sys, inst
<1>9. Cardinality(Pairs(LB, s)) = 2 /\ Cardinality(Pairs(RB, s)) = 3
  BY <1>2, <1>3, FencePairs
<1>10. \A i \in 1 .. Len(s) : ~Occurs(sys, s, i)
  BY <1>3, <1>4, <1>7, ForeignToken
<1>11. \A i \in 1 .. Len(s) : ~Occurs(inst, s, i)
  BY <1>2, <1>3, <1>4, <1>8, InstToken
<1> QED
  BY <1>6, <1>9, <1>10, <1>11 DEF sys, inst


\* A passage is a sequence of symbols, however long it grows.
PassageType == passage \in Seq(Symbols)

\* AddSymbol is the one action that touches the passage.
LEMMA PassageTypeHolds == Spec => []PassageType
<1>1. Init => PassageType
  BY DEF Init, PassageType
<1>2. PassageType /\ [Next]_vars => PassageType'
  <2> SUFFICES ASSUME PassageType, [Next]_vars PROVE PassageType'
    OBVIOUS
  <2>1. CASE AddSymbol
    <3>1. PICK c \in Symbols : passage' = Append(passage, c)
      BY <2>1 DEF AddSymbol
    <3> QED
      BY <3>1, AppendProperties DEF PassageType
  <2>2. CASE passage' = passage
    BY <2>2 DEF PassageType
  <2> QED
    BY <2>1, <2>2 DEF Next, vars, AddCharacter, AddPage, ChangeType, ConfigureBackend, AddReply, RecordRow, AskUsage, AddPiece
<1> QED
  BY <1>1, <1>2, PTL DEF Spec

\* Of every passage and every title, of whatever length: the doubled brackets of the fence
\* around them are its own, and neither <<SYS>> nor [INST], with or without its slash, is left
\* in it (fence_source, neutralize_untrusted_text).
THEOREM FenceIsItsOwnAlways == Spec => []FenceIsItsOwn
<1>1. PassageType => FenceIsItsOwn
  <2> SUFFICES ASSUME PassageType PROVE FenceIsItsOwn
    OBVIOUS
  <2> DEFINE odd == [i \in 1 .. (Len(passage) + 1) \div 2 |-> passage[2 * i - 1]]
  <2>1. passage \in Seq(Symbols) /\ <<>> \in Seq(Symbols)
    BY EmptySeq DEF PassageType
  <2>2. odd \in Seq(Symbols)
    <3> DEFINE n == Len(passage)
               h == (n + 1) \div 2
    <3>1. n \in Nat /\ h \in Nat /\ \A i \in 1 .. n : passage[i] \in Symbols
      BY <2>1, LenProperties, ElementOfSeq
    <3>2. \A i \in 1 .. h : 2 * i - 1 \in 1 .. n
      BY <3>1
    <3> HIDE DEF n, h
    <3>3. [i \in 1 .. h |-> passage[2 * i - 1]] \in [1 .. h -> Symbols]
      BY <3>1, <3>2
    <3>4. [i \in 1 .. h |-> passage[2 * i - 1]] \in Seq(Symbols)
      BY <3>1, <3>3, SeqDef
    <3> QED
      BY <3>4 DEF h, n
  <2> HIDE DEF odd
  <2>3. \A title \in {<<>>, odd, passage} : title \in Seq(Symbols)
    BY <2>1, <2>2
  <2>4. ASSUME NEW title \in {<<>>, odd, passage}
        PROVE  LET s == FenceSource("1", title, passage)
               IN  /\ Cardinality({i \in 1 .. Len(s) - 1 : s[i] = "[" /\ s[i + 1] = "["}) = 2
                   /\ Cardinality({i \in 1 .. Len(s) - 1 : s[i] = "]" /\ s[i + 1] = "]"}) = 3
                   /\ \A k \in {1, 2} : ~\E i \in DOMAIN s : Occurs(ControlTokens[k].token, s, i)
    <3> DEFINE s == FenceSource("1", title, passage)
    <3>1. title \in Seq(Symbols)
      BY <2>3
    <3>2. /\ Cardinality(Pairs(LB, s)) = 2 /\ Cardinality(Pairs(RB, s)) = 3
          /\ \A k \in {1, 2} : \A i \in DOMAIN s : ~Occurs(ControlTokens[k].token, s, i)
      BY <2>1, <3>1, FenceOfAny
    <3> HIDE DEF s
    <3>3. /\ Pairs(LB, s) = {i \in 1 .. Len(s) - 1 : s[i] = "[" /\ s[i + 1] = "["}
          /\ Pairs(RB, s) = {i \in 1 .. Len(s) - 1 : s[i] = "]" /\ s[i + 1] = "]"}
      BY Zenon DEF Pairs, LB, RB
    <3>4. /\ Cardinality({i \in 1 .. Len(s) - 1 : s[i] = "[" /\ s[i + 1] = "["}) = 2
          /\ Cardinality({i \in 1 .. Len(s) - 1 : s[i] = "]" /\ s[i + 1] = "]"}) = 3
          /\ \A k \in {1, 2} : ~\E i \in DOMAIN s : Occurs(ControlTokens[k].token, s, i)
      BY <3>2, <3>3, Zenon
    <3> QED
      BY <3>4 DEF s
  <2> QED
    BY <2>4, Zenon DEF FenceIsItsOwn, odd
<1> QED
  BY <1>1, PassageTypeHolds, PTL

(***************************************************************************)
(* The citations of an answer                                              *)
(***************************************************************************)

Look(text, found, i) == IF Marked(text, i) THEN Append(found, text[i]) ELSE found

\* Numbers reads a text piece by piece.
LEMMA NumbersFold ==
  ASSUME NEW text \in Seq(Int), NEW ps, ps = [i \in 1 .. Len(text) |-> i]
  PROVE  \E r : /\ r[0] = <<>> /\ r[Len(ps)] = Numbers(text)
                /\ \A k \in 0 .. Len(ps) - 1 : r[k + 1] = Look(text, r[k], ps[k + 1])
<1> DEFINE St == Seq(Int)
           El == 1 .. Len(text)
           seq == ps
           n == Len(seq)
           F == [x \in St \X El |-> Look(text, x[1], x[2])]
           Fold(f) == f = [u \in SUBSET (1 .. n) |->
                             IF u = {} THEN <<>> ELSE Look(text, f[u \ {Max(u)}], seq[Max(u)])]
           it == CHOOSE f : Fold(f)
           r == [k \in 0 .. n |-> it[1 .. k]]
<1>s. seq \in Seq(El)
  <2>1. ps \in [1 .. Len(text) -> 1 .. Len(text)] /\ Len(text) \in Nat
    BY LenProperties
  <2> QED
    BY <2>1, SeqDef
<1>n. n \in Nat /\ DOMAIN seq = 1 .. n /\ \A i \in 1 .. n : seq[i] \in El
  BY <1>s, LenProperties, ElementOfSeq
<1>3. Numbers(text) = it[1 .. n]
  BY <1>n DEF Numbers, FoldLeft, MapThenFoldSet, Look
<1> HIDE DEF seq
<1>1. \E f : Fold(f)
  <2>1. F \in [St \X El -> St] /\ <<>> \in St
    <3>1. <<>> \in St
      BY EmptySeq
    <3>2. ASSUME NEW done \in St, NEW x \in El PROVE Look(text, done, x) \in St
      BY AppendProperties, ElementOfSeq DEF Look
    <3> HIDE DEF St, El
    <3> QED
      BY <3>1, <3>2
  <2> HIDE DEF F, St, El
  <2>2. PICK f \in [SUBSET (1 .. n) -> St] : Iterates(f, F, <<>>, seq, n)
    BY <1>s, <2>1, IterationExists
  <2>3. ASSUME NEW u \in SUBSET (1 .. n), u # {}
        PROVE  F[<<f[u \ {Max(u)}], seq[Max(u)]>>] = Look(text, f[u \ {Max(u)}], seq[Max(u)])
    <3>1. Max(u) \in u /\ u \ {Max(u)} \in SUBSET (1 .. n)
      BY <1>n, <2>3, LargestOf
    <3>2. f[u \ {Max(u)}] \in St /\ seq[Max(u)] \in El
      BY <1>n, <3>1
    <3> QED
      BY <3>2 DEF F
  <2>4. Fold(f)
    BY <2>2, <2>3 DEF Iterates
  <2> QED
    BY <2>4
<1>2. Fold(it)
  BY <1>1
<1> HIDE DEF it, n
<1>4. r[0] = <<>>
  <2>1. 0 \in 0 .. n /\ {} \in SUBSET (1 .. n) /\ 1 .. 0 = {}
    BY <1>n, FirstNumbers
  <2>2. it[{}] = <<>>
    BY <1>2, <2>1
  <2> QED
    BY <2>1, <2>2
<1>5. ASSUME NEW k \in 0 .. n - 1 PROVE r[k + 1] = Look(text, r[k], seq[k + 1])
  <2>1. k \in Nat /\ k \in 0 .. n /\ k + 1 \in 0 .. n /\ 1 .. (k + 1) \in SUBSET (1 .. n)
    BY <1>n
  <2>2. 1 .. (k + 1) # {} /\ Max(1 .. (k + 1)) = k + 1 /\ (1 .. (k + 1)) \ {k + 1} = 1 .. k
    BY <2>1, FirstNumbers
  <2>3. it[1 .. (k + 1)] = Look(text, it[1 .. k], seq[k + 1])
    BY <1>2, <2>1, <2>2
  <2> QED
    BY <2>1, <2>3
<1>6. r[n] = Numbers(text)
  BY <1>n, <1>3
<1> HIDE DEF r
<1> QED
  BY <1>4, <1>5, <1>6 DEF n, seq

LEMMA NumbersSteps ==
  ASSUME NEW text \in Seq(Int)
  PROVE  \E r : /\ r[0] = <<>> /\ r[Len(text)] = Numbers(text)
                /\ \A k \in 0 .. Len(text) - 1 : r[k + 1] = Look(text, r[k], k + 1)
<1> DEFINE n == Len(text)
           ps == [i \in 1 .. n |-> i]
<1>1. n \in Nat /\ ps \in [1 .. n -> 1 .. n] /\ \A i \in 1 .. n : ps[i] = i
  BY LenProperties
<1>2. ps = [i \in 1 .. n |-> i]
  OBVIOUS
<1> HIDE DEF ps
<1>3. PICK r : /\ r[0] = <<>> /\ r[Len(ps)] = Numbers(text)
               /\ \A k \in 0 .. Len(ps) - 1 : r[k + 1] = Look(text, r[k], ps[k + 1])
  BY <1>2, NumbersFold
<1>4. Len(ps) = n
  <2>1. ps \in Seq(1 .. n) /\ DOMAIN ps = 1 .. n
    BY <1>1, SeqDef
  <2>2. DOMAIN ps = 1 .. Len(ps) /\ Len(ps) \in Nat
    BY <2>1, LenProperties
  <2> HIDE DEF n
  <2> QED
    BY <1>1, <2>1, <2>2
<1> HIDE DEF n
<1>5. ASSUME NEW k \in 0 .. n - 1 PROVE r[k + 1] = Look(text, r[k], k + 1)
  <2>1. k + 1 \in 1 .. n
    BY <1>1
  <2> QED
    BY <1>1, <1>3, <1>4, <2>1
<1> QED
  BY <1>3, <1>4, <1>5 DEF n

\* The markers before the piece after the k-th, and where each was found.
Found(text, found, at, k) ==
  /\ found \in Seq(Int)
  /\ \A j \in 1 .. Len(found) : at[j] \in 1 .. k /\ Marked(text, at[j]) /\ found[j] = text[at[j]]
  /\ \A i, j \in 1 .. Len(found) : i < j => at[i] < at[j]
  /\ \A p \in 1 .. k : Marked(text, p) => \E j \in 1 .. Len(found) : at[j] = p

LEMMA LookFinds ==
  ASSUME NEW text \in Seq(Int), NEW k \in 0 .. Len(text) - 1, NEW found, NEW at, Found(text, found, at, k)
  PROVE  \E to : Found(text, Look(text, found, k + 1), to, k + 1)
<1> DEFINE m == Len(found)
           more == Append(found, text[k + 1])
           to == [j \in 1 .. m + 1 |-> IF j <= m THEN at[j] ELSE k + 1]
<1>0. found \in Seq(Int) /\ m \in Nat /\ k \in Nat /\ Len(text) \in Nat
  BY LenProperties DEF Found
<1>f. /\ \A j \in 1 .. m : at[j] \in 1 .. k /\ Marked(text, at[j]) /\ found[j] = text[at[j]]
      /\ \A i, j \in 1 .. m : i < j => at[i] < at[j]
      /\ \A p \in 1 .. k : Marked(text, p) => \E j \in 1 .. m : at[j] = p
  BY DEF Found
<1>1. CASE Marked(text, k + 1)
  <2>1. text[k + 1] \in Int
    <3>1. k + 1 \in 1 .. Len(text)
      BY <1>0
    <3> QED
      BY <3>1, ElementOfSeq
  <2>2. more \in Seq(Int) /\ Len(more) = m + 1 /\ (\A j \in 1 .. m : more[j] = found[j]) /\ more[m + 1] = text[k + 1]
    BY <1>0, <2>1, AppendProperties
  <2> HIDE DEF m, more
  <2>3. (\A j \in 1 .. m : to[j] = at[j]) /\ to[m + 1] = k + 1
    <3>1. m + 1 \in 1 .. m + 1 /\ ~(m + 1 <= m) /\ \A j \in 1 .. m : j \in 1 .. m + 1 /\ j <= m
      BY <1>0
    <3> QED
      BY <3>1
  <2> HIDE DEF to
  <2>4. \A j \in 1 .. m + 1 : j \in 1 .. m \/ j = m + 1
    BY <1>0
  <2>5. \A j \in 1 .. m + 1 : to[j] \in 1 .. k + 1 /\ Marked(text, to[j]) /\ more[j] = text[to[j]]
    <3>1. \A x \in 1 .. k : x \in 1 .. k + 1
      BY <1>0
    <3>2. k + 1 \in 1 .. k + 1
      BY <1>0
    <3> QED
      BY <1>1, <1>f, <2>2, <2>3, <2>4, <3>1, <3>2
  <2>6. \A i, j \in 1 .. m + 1 : i < j => to[i] < to[j]
    <3> SUFFICES ASSUME NEW i \in 1 .. m + 1, NEW j \in 1 .. m + 1, i < j PROVE to[i] < to[j]
      OBVIOUS
    <3>1. i \in 1 .. m
      BY <1>0
    <3>2. to[i] = at[i] /\ at[i] \in 1 .. k
      BY <1>f, <2>3, <3>1
    <3>3. CASE j \in 1 .. m
      BY <1>f, <2>3, <3>1, <3>3
    <3>4. CASE j = m + 1
      <4>1. to[j] = k + 1
        BY <2>3, <3>4
      <4> QED
        BY <1>0, <3>2, <4>1
    <3> QED
      BY <2>4, <3>3, <3>4
  <2>7. \A p \in 1 .. k + 1 : Marked(text, p) => \E j \in 1 .. m + 1 : to[j] = p
    <3> SUFFICES ASSUME NEW p \in 1 .. k + 1, Marked(text, p) PROVE \E j \in 1 .. m + 1 : to[j] = p
      OBVIOUS
    <3>1. CASE p \in 1 .. k
      <4>1. PICK j \in 1 .. m : at[j] = p
        BY <1>f, <3>1
      <4>2. j \in 1 .. m + 1 /\ to[j] = p
        BY <1>0, <2>3, <4>1
      <4> QED
        BY <4>2
    <3>2. CASE p = k + 1
      <4>1. m + 1 \in 1 .. m + 1
        BY <1>0
      <4> QED
        BY <2>3, <3>2, <4>1
    <3> QED
      BY <1>0, <3>1, <3>2
  <2>8. Found(text, more, to, k + 1)
    BY <2>2, <2>5, <2>6, <2>7 DEF Found
  <2>9. Look(text, found, k + 1) = more
    BY <1>1 DEF Look, more
  <2> QED
    BY <2>8, <2>9
<1>2. CASE ~Marked(text, k + 1)
  <2>1. Look(text, found, k + 1) = found
    BY <1>2 DEF Look
  <2> HIDE DEF m
  <2>2. /\ \A j \in 1 .. m : at[j] \in 1 .. k + 1 /\ Marked(text, at[j]) /\ found[j] = text[at[j]]
        /\ \A p \in 1 .. k + 1 : Marked(text, p) => \E j \in 1 .. m : at[j] = p
    <3>1. \A x \in 1 .. k : x \in 1 .. k + 1
      BY <1>0
    <3>2. \A p \in 1 .. k + 1 : p \in 1 .. k \/ p = k + 1
      BY <1>0
    <3> QED
      BY <1>f, <1>2, <3>1, <3>2
  <2>3. Found(text, found, at, k + 1)
    BY <1>0, <1>f, <2>2 DEF Found, m
  <2> QED
    BY <2>1, <2>3
<1> QED
  BY <1>1, <1>2

\* The numbers of a text are those of its complete markers, in order.
LEMMA NumbersFound ==
  ASSUME NEW text \in Seq(Int)
  PROVE  \E at : Found(text, Numbers(text), at, Len(text))
<1> DEFINE n == Len(text)
<1>1. PICK r : /\ r[0] = <<>> /\ r[n] = Numbers(text)
               /\ \A k \in 0 .. n - 1 : r[k + 1] = Look(text, r[k], k + 1)
  BY NumbersSteps
<1> DEFINE T == {k \in Nat : k <= n => \E at : Found(text, r[k], at, k)}
<1>n. n \in Nat
  BY LenProperties
<1>2. 0 \in T
  <2>1. Found(text, <<>>, <<>>, 0)
    BY EmptySeq DEF Found
  <2> QED
    BY <1>1, <2>1
<1>3. ASSUME NEW k \in T PROVE k + 1 \in T
  <2>1. k \in Nat /\ (k <= n => \E at : Found(text, r[k], at, k))
    OBVIOUS
  <2>2. ASSUME k + 1 <= n PROVE \E at : Found(text, r[k + 1], at, k + 1)
    <3>1. k \in 0 .. n - 1 /\ \E at : Found(text, r[k], at, k)
      BY <1>n, <2>1, <2>2
    <3>2. PICK at : Found(text, r[k], at, k)
      BY <3>1
    <3>3. r[k + 1] = Look(text, r[k], k + 1)
      BY <1>1, <3>1
    <3> QED
      BY <3>1, <3>2, <3>3, LookFinds
  <2> QED
    BY <2>1, <2>2
<1> HIDE DEF T
<1>4. T = Nat
  <2>1. T \subseteq Nat
    BY DEF T
  <2> QED
    BY <1>2, <1>3, <2>1, EveryNumber
<1>5. \E at : Found(text, r[n], at, n)
  BY <1>n, <1>4 DEF T
<1> QED
  BY <1>1, <1>5

\* One number more is resolved.
Mention(s, done, n) ==
  IF n \in DOMAIN s /\ \A i \in DOMAIN done : done[i].number # n THEN Append(done, Cite(s, n)) ELSE done

Citings(s) == {Cite(s, n) : n \in DOMAIN s}

LEMMA MentionType ==
  ASSUME NEW s, NEW done \in Seq(Citings(s)), NEW n
  PROVE  Mention(s, done, n) \in Seq(Citings(s))
<1>1. CASE n \in DOMAIN s
  <2>1. Cite(s, n) \in Citings(s)
    BY <1>1 DEF Citings
  <2> QED
    BY <2>1, AppendProperties DEF Mention
<1>2. CASE n \notin DOMAIN s
  BY <1>2 DEF Mention
<1> QED
  BY <1>1, <1>2

\* Resolve reads the numbers of a text one by one.
LEMMA ResolveSteps ==
  ASSUME NEW s, NEW numbers \in Seq(Int)
  PROVE  \E r : /\ r[0] = <<>> /\ r[Len(numbers)] = Resolve(s, numbers)
                /\ \A k \in 0 .. Len(numbers) - 1 : r[k + 1] = Mention(s, r[k], numbers[k + 1])
<1> DEFINE St == Seq(Citings(s))
           El == Int
           seq == numbers
           n == Len(seq)
           F == [x \in St \X El |-> Mention(s, x[1], x[2])]
           Fold(f) == f = [u \in SUBSET (1 .. n) |->
                             IF u = {} THEN <<>> ELSE Mention(s, f[u \ {Max(u)}], seq[Max(u)])]
           it == CHOOSE f : Fold(f)
           r == [k \in 0 .. n |-> it[1 .. k]]
<1>s. seq \in Seq(El)
  OBVIOUS
<1>n. n \in Nat /\ DOMAIN seq = 1 .. n /\ \A i \in 1 .. n : seq[i] \in El
  BY <1>s, LenProperties, ElementOfSeq
<1>3. Resolve(s, numbers) = it[1 .. n]
  BY <1>n DEF Resolve, FoldLeft, MapThenFoldSet, Mention
<1> HIDE DEF seq
<1>1. \E f : Fold(f)
  <2>1. F \in [St \X El -> St] /\ <<>> \in St
    <3>1. <<>> \in St
      BY EmptySeq
    <3>2. ASSUME NEW done \in St, NEW x \in El PROVE Mention(s, done, x) \in St
      BY MentionType
    <3> HIDE DEF St, El
    <3> QED
      BY <3>1, <3>2
  <2> HIDE DEF F, St, El
  <2>2. PICK f \in [SUBSET (1 .. n) -> St] : Iterates(f, F, <<>>, seq, n)
    BY <1>s, <2>1, IterationExists
  <2>3. ASSUME NEW u \in SUBSET (1 .. n), u # {}
        PROVE  F[<<f[u \ {Max(u)}], seq[Max(u)]>>] = Mention(s, f[u \ {Max(u)}], seq[Max(u)])
    <3>1. Max(u) \in u /\ u \ {Max(u)} \in SUBSET (1 .. n)
      BY <1>n, <2>3, LargestOf
    <3>2. f[u \ {Max(u)}] \in St /\ seq[Max(u)] \in El
      BY <1>n, <3>1
    <3> QED
      BY <3>2 DEF F
  <2>4. Fold(f)
    BY <2>2, <2>3 DEF Iterates
  <2> QED
    BY <2>4
<1>2. Fold(it)
  BY <1>1
<1> HIDE DEF it, n
<1>4. r[0] = <<>>
  <2>1. 0 \in 0 .. n /\ {} \in SUBSET (1 .. n) /\ 1 .. 0 = {}
    BY <1>n, FirstNumbers
  <2>2. it[{}] = <<>>
    BY <1>2, <2>1
  <2> QED
    BY <2>1, <2>2
<1>5. ASSUME NEW k \in 0 .. n - 1 PROVE r[k + 1] = Mention(s, r[k], seq[k + 1])
  <2>1. k \in Nat /\ k \in 0 .. n /\ k + 1 \in 0 .. n /\ 1 .. (k + 1) \in SUBSET (1 .. n)
    BY <1>n
  <2>2. 1 .. (k + 1) # {} /\ Max(1 .. (k + 1)) = k + 1 /\ (1 .. (k + 1)) \ {k + 1} = 1 .. k
    BY <2>1, FirstNumbers
  <2>3. it[1 .. (k + 1)] = Mention(s, it[1 .. k], seq[k + 1])
    BY <1>2, <2>1, <2>2
  <2> QED
    BY <2>1, <2>3
<1>6. r[n] = Resolve(s, numbers)
  BY <1>n, <1>3
<1> HIDE DEF r
<1> QED
  BY <1>4, <1>5, <1>6 DEF n, seq

\* What the first k numbers resolve to, and the number each citation was first made for.
Resolved(s, numbers, done, from, k) ==
  /\ done \in Seq(Citings(s))
  /\ \A i \in 1 .. Len(done) :
       /\ from[i] \in 1 .. k /\ numbers[from[i]] = done[i].number
       /\ \A x \in 1 .. k : numbers[x] = done[i].number => from[i] <= x
  /\ \A h, i \in 1 .. Len(done) : h < i => from[h] < from[i]
  /\ \A x \in 1 .. k : numbers[x] \in DOMAIN s => \E i \in 1 .. Len(done) : done[i].number = numbers[x]

LEMMA MentionResolves ==
  ASSUME NEW s, NEW numbers, NEW k \in Nat, NEW done, NEW from, Resolved(s, numbers, done, from, k)
  PROVE  \E to : Resolved(s, numbers, Mention(s, done, numbers[k + 1]), to, k + 1)
<1> DEFINE m == Len(done)
           n == numbers[k + 1]
           more == Append(done, Cite(s, n))
           to == [j \in 1 .. m + 1 |-> IF j <= m THEN from[j] ELSE k + 1]
<1>0. done \in Seq(Citings(s)) /\ m \in Nat /\ DOMAIN done = 1 .. m
  BY LenProperties DEF Resolved
<1>f. /\ \A i \in 1 .. m :
           /\ from[i] \in 1 .. k /\ numbers[from[i]] = done[i].number
           /\ \A x \in 1 .. k : numbers[x] = done[i].number => from[i] <= x
      /\ \A h, i \in 1 .. m : h < i => from[h] < from[i]
      /\ \A x \in 1 .. k : numbers[x] \in DOMAIN s => \E i \in 1 .. m : done[i].number = numbers[x]
  BY DEF Resolved
<1>k. /\ \A x \in 1 .. k : x \in 1 .. k + 1
      /\ \A x \in 1 .. k + 1 : x \in 1 .. k \/ x = k + 1
      /\ k + 1 \in 1 .. k + 1
      /\ \A x \in 1 .. k : x <= k + 1 /\ x < k + 1
      /\ k + 1 <= k + 1
  OBVIOUS
<1>1. CASE n \in DOMAIN s /\ \A i \in 1 .. m : done[i].number # n
  <2>1. Cite(s, n) \in Citings(s) /\ Cite(s, n).number = n
    BY <1>1 DEF Citings, Cite
  <2>2. more \in Seq(Citings(s)) /\ Len(more) = m + 1 /\ (\A j \in 1 .. m : more[j] = done[j]) /\ more[m + 1] = Cite(s, n)
    BY <1>0, <2>1, AppendProperties
  <2>9. Mention(s, done, n) = more
    BY <1>0, <1>1 DEF Mention
  <2> HIDE DEF m, more
  <2>3. (\A j \in 1 .. m : to[j] = from[j]) /\ to[m + 1] = k + 1
    <3>1. m + 1 \in 1 .. m + 1 /\ ~(m + 1 <= m) /\ \A j \in 1 .. m : j \in 1 .. m + 1 /\ j <= m
      BY <1>0
    <3> QED
      BY <3>1
  <2> HIDE DEF to
  <2>4. /\ \A j \in 1 .. m + 1 : j \in 1 .. m \/ j = m + 1
        /\ m + 1 \in 1 .. m + 1 /\ \A j \in 1 .. m : j \in 1 .. m + 1
    BY <1>0
  <2>n. n = numbers[k + 1]
    OBVIOUS
  <2> HIDE DEF n
  <2>5. ASSUME NEW i \in 1 .. m + 1
        PROVE  /\ to[i] \in 1 .. k + 1 /\ numbers[to[i]] = more[i].number
               /\ \A x \in 1 .. k + 1 : numbers[x] = more[i].number => to[i] <= x
    <3>1. CASE i \in 1 .. m
      <4>1. to[i] = from[i] /\ more[i] = done[i] /\ done[i].number # n
        BY <1>1, <2>2, <2>3, <3>1
      <4>2. from[i] \in 1 .. k /\ numbers[from[i]] = done[i].number
        BY <1>f, <3>1
      <4>3. \A x \in 1 .. k : numbers[x] = done[i].number => from[i] <= x
        BY <1>f, <3>1
      <4>4. \A x \in 1 .. k + 1 : numbers[x] = done[i].number => from[i] <= x
        BY <1>k, <2>n, <4>1, <4>3
      <4> QED
        BY <1>k, <4>1, <4>2, <4>4
    <3>2. CASE i = m + 1
      <4>1. to[i] = k + 1 /\ more[i].number = n
        BY <2>1, <2>2, <2>3, <3>2
      <4>2. ASSUME NEW x \in 1 .. k, numbers[x] = n PROVE FALSE
        <5>1. numbers[x] \in DOMAIN s
          BY <1>1, <4>2
        <5> QED
          BY <1>1, <1>f, <4>2, <5>1
      <4>3. \A x \in 1 .. k + 1 : numbers[x] = n => k + 1 <= x
        BY <1>k, <4>2
      <4> QED
        BY <1>k, <2>n, <4>1, <4>3
    <3> QED
      BY <2>4, <3>1, <3>2
  <2>6. \A h, i \in 1 .. m + 1 : h < i => to[h] < to[i]
    <3> SUFFICES ASSUME NEW h \in 1 .. m + 1, NEW i \in 1 .. m + 1, h < i PROVE to[h] < to[i]
      OBVIOUS
    <3>1. h \in 1 .. m
      BY <1>0
    <3>2. to[h] = from[h] /\ from[h] \in 1 .. k
      BY <1>f, <2>3, <3>1
    <3>3. CASE i \in 1 .. m
      BY <1>f, <2>3, <3>1, <3>3
    <3>4. CASE i = m + 1
      <4>1. to[i] = k + 1
        BY <2>3, <3>4
      <4> QED
        BY <1>k, <3>2, <4>1
    <3> QED
      BY <2>4, <3>3, <3>4
  <2>7. \A x \in 1 .. k + 1 : numbers[x] \in DOMAIN s => \E i \in 1 .. m + 1 : more[i].number = numbers[x]
    <3> SUFFICES ASSUME NEW x \in 1 .. k + 1, numbers[x] \in DOMAIN s
                 PROVE  \E i \in 1 .. m + 1 : more[i].number = numbers[x]
      OBVIOUS
    <3>1. CASE x \in 1 .. k
      <4>1. PICK i \in 1 .. m : done[i].number = numbers[x]
        BY <1>f, <3>1
      <4>2. i \in 1 .. m + 1 /\ more[i].number = numbers[x]
        BY <2>2, <2>4, <4>1
      <4> QED
        BY <4>2
    <3>2. CASE x = k + 1
      <4>1. more[m + 1].number = numbers[x]
        BY <2>1, <2>2, <2>n, <3>2
      <4> QED
        BY <2>4, <4>1
    <3> QED
      BY <1>k, <3>1, <3>2
  <2>8. Resolved(s, numbers, more, to, k + 1)
    BY <2>2, <2>5, <2>6, <2>7 DEF Resolved
  <2> QED
    BY <2>8, <2>9, <2>n
<1>2. CASE ~(n \in DOMAIN s /\ \A i \in 1 .. m : done[i].number # n)
  <2>1. Mention(s, done, n) = done
    BY <1>0, <1>2 DEF Mention
  <2>n. n = numbers[k + 1]
    OBVIOUS
  <2> HIDE DEF m, n
  <2>2. ASSUME NEW i \in 1 .. m PROVE \A x \in 1 .. k + 1 : numbers[x] = done[i].number => from[i] <= x
    <3>1. /\ from[i] \in 1 .. k
          /\ \A x \in 1 .. k : numbers[x] = done[i].number => from[i] <= x
      BY <1>f
    <3> QED
      BY <1>k, <3>1
  <2>3. \A i \in 1 .. m : from[i] \in 1 .. k + 1 /\ numbers[from[i]] = done[i].number
    BY <1>k, <1>f
  <2>4. \A x \in 1 .. k + 1 : numbers[x] \in DOMAIN s => \E i \in 1 .. m : done[i].number = numbers[x]
    <3>1. n \in DOMAIN s => \E i \in 1 .. m : done[i].number = n
      BY <1>2
    <3> QED
      BY <1>k, <1>f, <2>n, <3>1
  <2>5. Resolved(s, numbers, done, from, k + 1)
    BY <1>0, <1>f, <2>2, <2>3, <2>4 DEF Resolved, m
  <2> QED
    BY <2>1, <2>5, <2>n
<1> QED
  BY <1>1, <1>2

LEMMA ResolveResolved ==
  ASSUME NEW s, NEW numbers \in Seq(Int)
  PROVE  \E from : Resolved(s, numbers, Resolve(s, numbers), from, Len(numbers))
<1> DEFINE n == Len(numbers)
<1>1. PICK r : /\ r[0] = <<>> /\ r[n] = Resolve(s, numbers)
               /\ \A k \in 0 .. n - 1 : r[k + 1] = Mention(s, r[k], numbers[k + 1])
  BY ResolveSteps
<1> DEFINE T == {k \in Nat : k <= n => \E from : Resolved(s, numbers, r[k], from, k)}
<1>n. n \in Nat
  BY LenProperties
<1>2. 0 \in T
  <2>1. Resolved(s, numbers, <<>>, <<>>, 0)
    BY EmptySeq DEF Resolved
  <2> QED
    BY <1>1, <2>1
<1>3. ASSUME NEW k \in T PROVE k + 1 \in T
  <2>1. k \in Nat /\ (k <= n => \E from : Resolved(s, numbers, r[k], from, k))
    OBVIOUS
  <2>2. ASSUME k + 1 <= n PROVE \E from : Resolved(s, numbers, r[k + 1], from, k + 1)
    <3>1. k \in Nat /\ k \in 0 .. n - 1 /\ \E from : Resolved(s, numbers, r[k], from, k)
      BY <1>n, <2>1, <2>2
    <3>2. PICK from : Resolved(s, numbers, r[k], from, k)
      BY <3>1
    <3>3. r[k + 1] = Mention(s, r[k], numbers[k + 1])
      BY <1>1, <3>1
    <3> QED
      BY <3>1, <3>2, <3>3, MentionResolves
  <2> QED
    BY <2>1, <2>2
<1> HIDE DEF T
<1>4. T = Nat
  <2>1. T \subseteq Nat
    BY DEF T
  <2> QED
    BY <1>2, <1>3, <2>1, EveryNumber
<1>5. \E from : Resolved(s, numbers, r[n], from, n)
  BY <1>n, <1>4 DEF T
<1> QED
  BY <1>1, <1>5

\* A mention of a number is the close of a marker around it.
Mentions(text, k) ==
  {i \in 3 .. Len(text) : text[i - 2] = Open /\ text[i - 1] = k /\ text[i] = Close}

LEMMA MentionsMarked ==
  ASSUME NEW text \in Seq(Int), NEW k \in Nat \ {0}
  PROVE  /\ \A i \in Mentions(text, k) : i \in Nat /\ i - 1 \in 1 .. Len(text) /\ Marked(text, i - 1) /\ text[i - 1] = k
         /\ \A p \in 1 .. Len(text) : Marked(text, p) /\ text[p] = k => p + 1 \in Mentions(text, k)
<1> DEFINE n == Len(text)
<1>n. n \in Nat
  BY LenProperties
<1>1. ASSUME NEW i \in Mentions(text, k)
      PROVE  i \in Nat /\ i - 1 \in 1 .. n /\ Marked(text, i - 1) /\ text[i - 1] = k
  <2>1. i \in 3 .. n /\ text[i - 2] = Open /\ text[i - 1] = k /\ text[i] = Close
    BY DEF Mentions
  <2> HIDE DEF n
  <2>2. /\ i \in Nat /\ i - 1 \in 1 .. n /\ i - 1 \in 2 .. n - 1 /\ (i - 1) - 1 = i - 2 /\ (i - 1) + 1 = i
        /\ k > 0
    BY <1>n, <2>1
  <2> QED
    BY <2>1, <2>2 DEF Marked, n
<1>2. ASSUME NEW p \in 1 .. n, Marked(text, p), text[p] = k PROVE p + 1 \in Mentions(text, k)
  <2>1. p \in 2 .. n - 1 /\ text[p - 1] = Open /\ text[p + 1] = Close
    BY <1>2 DEF Marked
  <2> HIDE DEF n
  <2>2. p + 1 \in 3 .. n /\ (p + 1) - 2 = p - 1 /\ (p + 1) - 1 = p
    BY <1>n, <2>1
  <2> QED
    BY <1>2, <2>1, <2>2 DEF Mentions, n
<1> QED
  BY <1>1, <1>2

LEMMA LeastOf ==
  ASSUME NEW u \in SUBSET Int, NEW x \in u, \A y \in u : x <= y
  PROVE  Min(u) = x
<1>1. Min(u) \in u /\ \A y \in u : Min(u) <= y
  BY DEF Min
<1>2. Min(u) <= x /\ x <= Min(u) /\ Min(u) \in Int /\ x \in Int
  BY <1>1
<1> QED
  BY <1>2

\* A citation is made for the first marker of its number.
LEMMA FirstMentions ==
  ASSUME NEW text \in Seq(Int), NEW s, DOMAIN s \subseteq Nat \ {0},
         NEW at, Found(text, Numbers(text), at, Len(text)),
         NEW from, Resolved(s, Numbers(text), Resolve(s, Numbers(text)), from, Len(Numbers(text))),
         NEW c \in 1 .. Len(Resolve(s, Numbers(text)))
  PROVE  LET k == Resolve(s, Numbers(text))[c].number
         IN  /\ k \in DOMAIN s /\ Resolve(s, Numbers(text))[c].source = s[k]
             /\ from[c] \in 1 .. Len(Numbers(text)) /\ at[from[c]] \in 1 .. Len(text)
             /\ Mentions(text, k) # {} /\ Min(Mentions(text, k)) = at[from[c]] + 1
<1> DEFINE numbers == Numbers(text)
           cited == Resolve(s, numbers)
           n == Len(text)
           m == Len(numbers)
           k == cited[c].number
           p == at[from[c]]
<1>1. k \in DOMAIN s /\ cited[c].source = s[k]
  <2>1. cited[c] \in Citings(s)
    BY ElementOfSeq DEF Resolved
  <2> QED
    BY <2>1 DEF Citings, Cite
<1>2. /\ numbers \in Seq(Int)
      /\ \A j \in 1 .. m : at[j] \in 1 .. n /\ Marked(text, at[j]) /\ numbers[j] = text[at[j]]
      /\ \A i, j \in 1 .. m : i < j => at[i] < at[j]
      /\ \A x \in 1 .. n : Marked(text, x) => \E j \in 1 .. m : at[j] = x
  BY DEF Found
<1>3. /\ from[c] \in 1 .. m /\ numbers[from[c]] = k
      /\ \A x \in 1 .. m : numbers[x] = k => from[c] <= x
  BY DEF Resolved
<1>4. n \in Nat /\ m \in Nat
  BY <1>2, LenProperties
<1> HIDE DEF n, m, numbers, cited, k
<1>5. k \in Nat \ {0}
  BY <1>1
<1>6. p \in 1 .. n /\ Marked(text, p) /\ text[p] = k
  BY <1>2, <1>3
<1> HIDE DEF p
<1>7. p + 1 \in Mentions(text, k)
  BY <1>5, <1>6, MentionsMarked DEF n
<1>8. ASSUME NEW y \in Mentions(text, k) PROVE p + 1 <= y
  <2>1. y \in Nat /\ y - 1 \in 1 .. n /\ Marked(text, y - 1) /\ text[y - 1] = k
    BY <1>5, MentionsMarked DEF n
  <2>2. PICK j \in 1 .. m : at[j] = y - 1
    BY <1>2, <2>1
  <2>3. numbers[j] = k
    BY <1>2, <2>1, <2>2
  <2>4. from[c] <= j
    BY <1>3, <2>3
  <2>5. from[c] = j \/ from[c] < j
    BY <1>3, <1>4, <2>4
  <2>6. p = at[j] \/ p < at[j]
    BY <1>2, <1>3, <2>5 DEF p
  <2> QED
    BY <1>6, <2>1, <2>2, <2>6
<1>9. Mentions(text, k) \in SUBSET Int
  BY DEF Mentions
<1>10. Min(Mentions(text, k)) = p + 1
  BY <1>7, <1>8, <1>9, LeastOf
<1>11. /\ k \in DOMAIN s /\ cited[c].source = s[k]
       /\ from[c] \in 1 .. m /\ p \in 1 .. n
       /\ Mentions(text, k) # {} /\ Min(Mentions(text, k)) = p + 1
  BY <1>1, <1>3, <1>6, <1>7, <1>10
<1> QED
  BY <1>11 DEF k, cited, numbers, p, n, m

LEMMA CitedMentions ==
  ASSUME NEW text \in Seq(Int), NEW s, DOMAIN s \subseteq Nat \ {0},
         NEW cited, cited = Resolve(s, Numbers(text))
  PROVE  /\ {cited[i].number : i \in DOMAIN cited} = {k \in DOMAIN s : Mentions(text, k) # {}}
         /\ \A i \in DOMAIN cited : cited[i].source = s[cited[i].number]
         /\ \A i, j \in DOMAIN cited : i < j =>
              Min(Mentions(text, cited[i].number)) < Min(Mentions(text, cited[j].number))
<1> DEFINE numbers == Numbers(text)
           n == Len(text)
           m == Len(numbers)
<1>1. PICK at : Found(text, numbers, at, n)
  BY NumbersFound
<1>2. numbers \in Seq(Int)
  BY <1>1 DEF Found
<1>3. PICK from : Resolved(s, numbers, cited, from, m)
  BY <1>2, ResolveResolved
<1>4. cited \in Seq(Citings(s)) /\ DOMAIN cited = 1 .. Len(cited)
  <2>1. cited \in Seq(Citings(s))
    BY <1>3 DEF Resolved
  <2> QED
    BY <2>1, LenProperties
<1>5. ASSUME NEW c \in DOMAIN cited
      PROVE  /\ cited[c].number \in DOMAIN s /\ cited[c].source = s[cited[c].number]
             /\ from[c] \in 1 .. m /\ at[from[c]] \in 1 .. n
             /\ Mentions(text, cited[c].number) # {} /\ Min(Mentions(text, cited[c].number)) = at[from[c]] + 1
  <2>1. c \in 1 .. Len(cited)
    BY <1>4
  <2> QED
    BY <1>1, <1>3, <2>1, FirstMentions
<1>6. \A i, j \in DOMAIN cited : i < j =>
        Min(Mentions(text, cited[i].number)) < Min(Mentions(text, cited[j].number))
  <2> SUFFICES ASSUME NEW i \in DOMAIN cited, NEW j \in DOMAIN cited, i < j
               PROVE  Min(Mentions(text, cited[i].number)) < Min(Mentions(text, cited[j].number))
    OBVIOUS
  <2>1. from[i] < from[j]
    BY <1>3, <1>4 DEF Resolved
  <2>2. from[i] \in 1 .. m /\ from[j] \in 1 .. m
    BY <1>5
  <2>3. at[from[i]] < at[from[j]]
    BY <1>1, <2>1, <2>2 DEF Found
  <2>4. /\ Min(Mentions(text, cited[i].number)) = at[from[i]] + 1 /\ at[from[i]] \in Int
        /\ Min(Mentions(text, cited[j].number)) = at[from[j]] + 1 /\ at[from[j]] \in Int
    BY <1>5
  <2> QED
    BY <2>3, <2>4
<1>7. ASSUME NEW k \in DOMAIN s, Mentions(text, k) # {} PROVE \E i \in DOMAIN cited : cited[i].number = k
  <2>1. PICK y : y \in Mentions(text, k)
    BY <1>7
  <2>2. y - 1 \in 1 .. n /\ Marked(text, y - 1) /\ text[y - 1] = k
    BY <2>1, MentionsMarked
  <2>3. PICK j \in 1 .. m : at[j] = y - 1
    BY <1>1, <2>2 DEF Found
  <2>4. numbers[j] = k
    BY <1>1, <2>2, <2>3 DEF Found
  <2> HIDE DEF numbers, m
  <2>5. \E i \in 1 .. Len(cited) : cited[i].number = numbers[j]
    BY <1>3, <2>3, <2>4 DEF Resolved
  <2> QED
    BY <1>4, <2>4, <2>5
<1> QED
  BY <1>5, <1>6, <1>7

\* An answer is a sequence of numbers and brackets, however long it grows.
PiecesType == pieces \in Seq(Int)

LEMMA PiecesTypeHolds == Spec => []PiecesType
<1>1. Init => PiecesType
  BY EmptySeq DEF Init, PiecesType
<1>2. PiecesType /\ [Next]_vars => PiecesType'
  <2> SUFFICES ASSUME PiecesType, [Next]_vars PROVE PiecesType'
    OBVIOUS
  <2>1. CASE AddPiece
    <3>1. PICK p \in {Open, Close} \cup 1 .. MaxSources + 1 : pieces' = Append(pieces, p)
      BY <2>1 DEF AddPiece
    <3>2. p \in Int
      BY DEF Open, Close
    <3> QED
      BY <3>1, <3>2, AppendProperties DEF PiecesType
  <2>2. CASE pieces' = pieces
    BY <2>2 DEF PiecesType
  <2> QED
    BY <2>1, <2>2 DEF Next, vars, AddCharacter, AddPage, ChangeType, AddSymbol, ConfigureBackend, AddReply, RecordRow, AskUsage
<1> QED
  BY <1>1, <1>2, PTL DEF Spec

\* Of every text, however many pieces it came in, and any number of sources: its citations
\* are the sources its complete markers name, once each and in the order of first mention
\* (_extract_citation_numbers, _resolve_citations).
THEOREM CitationsAreTheMentionsAlways == Spec => []CitationsAreTheMentions
<1>1. PiecesType => CitationsAreTheMentions
  <2> SUFFICES ASSUME PiecesType, NEW n \in 0 .. MaxSources
               PROVE  LET sources == [i \in 1 .. n |-> <<"source", i>>]
                          cited == Resolve(sources, Numbers(pieces))
                      IN  /\ {cited[i].number : i \in DOMAIN cited} = {k \in 1 .. n : Mentions(pieces, k) # {}}
                          /\ \A i \in DOMAIN cited : cited[i].source = sources[cited[i].number]
                          /\ \A i, j \in DOMAIN cited : i < j =>
                               Min(Mentions(pieces, cited[i].number)) < Min(Mentions(pieces, cited[j].number))
    BY Zenon DEF CitationsAreTheMentions, Mentions
  <2> DEFINE sources == [i \in 1 .. n |-> <<"source", i>>]
             cited == Resolve(sources, Numbers(pieces))
  <2>1. DOMAIN sources = 1 .. n /\ 1 .. n \subseteq Nat \ {0}
    OBVIOUS
  <2>2. pieces \in Seq(Int)
    BY DEF PiecesType
  <2>3. cited = Resolve(sources, Numbers(pieces))
    OBVIOUS
  <2> HIDE DEF sources, cited
  <2>4. /\ {cited[i].number : i \in DOMAIN cited} = {k \in DOMAIN sources : Mentions(pieces, k) # {}}
        /\ \A i \in DOMAIN cited : cited[i].source = sources[cited[i].number]
        /\ \A i, j \in DOMAIN cited : i < j =>
             Min(Mentions(pieces, cited[i].number)) < Min(Mentions(pieces, cited[j].number))
    <3>1. DOMAIN sources \subseteq Nat \ {0}
      BY <2>1
    <3> QED
      BY <2>2, <2>3, <3>1, CitedMentions
  <2> QED
    BY <2>1, <2>4, Zenon DEF sources, cited
<1> QED
  BY <1>1, PiecesTypeHolds, PTL

(***************************************************************************)
(* The summary and the series                                              *)
(***************************************************************************)

Cells(column, at) == [i \in DOMAIN column |-> IF i \in at THEN column[i] ELSE 0]

\* A total is added up cell by cell.
LEMMA CellsFold ==
  ASSUME NEW column, NEW at, NEW cells \in Seq(Int), cells = Cells(column, at)
  PROVE  \E r : /\ r[0] = 0 /\ r[Len(cells)] = Total(column, at)
                /\ \A k \in 0 .. Len(cells) - 1 : r[k + 1] = r[k] + cells[k + 1]
<1> DEFINE St == Int
           El == Int
           seq == cells
           n == Len(seq)
           F == [x \in St \X El |-> x[1] + x[2]]
           Fold(f) == f = [u \in SUBSET (1 .. n) |->
                             IF u = {} THEN 0 ELSE f[u \ {Max(u)}] + seq[Max(u)]]
           it == CHOOSE f : Fold(f)
           r == [k \in 0 .. n |-> it[1 .. k]]
<1>s. seq \in Seq(El)
  OBVIOUS
<1>n. n \in Nat /\ DOMAIN seq = 1 .. n /\ \A i \in 1 .. n : seq[i] \in El
  BY <1>s, LenProperties, ElementOfSeq
<1>3. Total(column, at) = it[1 .. n]
  BY <1>n DEF Cells, Total, FoldLeft, MapThenFoldSet
<1> HIDE DEF seq
<1>1. \E f : Fold(f)
  <2>1. F \in [St \X El -> St] /\ 0 \in St
    <3>1. 0 \in St
      OBVIOUS
    <3>2. ASSUME NEW done \in St, NEW x \in El PROVE done + x \in St
      BY SMT
    <3> HIDE DEF St, El
    <3> QED
      BY <3>1, <3>2
  <2> HIDE DEF F, St, El
  <2>2. PICK f \in [SUBSET (1 .. n) -> St] : Iterates(f, F, 0, seq, n)
    BY <1>s, <2>1, IterationExists
  <2>3. ASSUME NEW u \in SUBSET (1 .. n), u # {}
        PROVE  F[<<f[u \ {Max(u)}], seq[Max(u)]>>] = f[u \ {Max(u)}] + seq[Max(u)]
    <3>1. Max(u) \in u /\ u \ {Max(u)} \in SUBSET (1 .. n)
      BY <1>n, <2>3, LargestOf
    <3>2. f[u \ {Max(u)}] \in St /\ seq[Max(u)] \in El
      BY <1>n, <3>1
    <3> QED
      BY <3>2 DEF F
  <2>4. Fold(f)
    BY <2>2, <2>3 DEF Iterates
  <2> QED
    BY <2>4
<1>2. Fold(it)
  BY <1>1
<1> HIDE DEF it, n
<1>4. r[0] = 0
  <2>1. 0 \in 0 .. n /\ {} \in SUBSET (1 .. n) /\ 1 .. 0 = {}
    BY <1>n, FirstNumbers
  <2>2. it[{}] = 0
    BY <1>2, <2>1
  <2> QED
    BY <2>1, <2>2
<1>5. ASSUME NEW k \in 0 .. n - 1 PROVE r[k + 1] = r[k] + seq[k + 1]
  <2>1. k \in Nat /\ k \in 0 .. n /\ k + 1 \in 0 .. n /\ 1 .. (k + 1) \in SUBSET (1 .. n)
    BY <1>n
  <2>2. 1 .. (k + 1) # {} /\ Max(1 .. (k + 1)) = k + 1 /\ (1 .. (k + 1)) \ {k + 1} = 1 .. k
    BY <2>1, FirstNumbers
  <2>3. it[1 .. (k + 1)] = it[1 .. k] + seq[k + 1]
    BY <1>2, <2>1, <2>2
  <2> QED
    BY <2>1, <2>3
<1>6. r[n] = Total(column, at)
  BY <1>n, <1>3
<1> HIDE DEF r
<1> QED
  BY <1>4, <1>5, <1>6 DEF n, seq

\* A running total of the first cells of a column.
Running(r, column, at) ==
  /\ r[0] = 0 /\ r[Len(column)] = Total(column, at)
  /\ \A k \in 0 .. Len(column) - 1 : r[k + 1] = IF k + 1 \in at THEN r[k] + column[k + 1] ELSE r[k]
  /\ \A k \in 0 .. Len(column) : r[k] \in Int

LEMMA TotalRuns ==
  ASSUME NEW column \in Seq(Int), NEW at
  PROVE  \E r : Running(r, column, at)
<1> DEFINE n == Len(column)
           cells == [i \in DOMAIN column |-> IF i \in at THEN column[i] ELSE 0]
<1>1. n \in Nat /\ DOMAIN column = 1 .. n /\ \A i \in 1 .. n : column[i] \in Int
  BY LenProperties, ElementOfSeq
<1>2. cells = Cells(column, at)
  BY DEF Cells
<1>3. cells \in [1 .. n -> Int] /\ \A i \in 1 .. n : cells[i] = IF i \in at THEN column[i] ELSE 0
  <2> HIDE DEF n
  <2> QED
    BY <1>1
<1> HIDE DEF cells
<1>4. cells \in Seq(Int) /\ Len(cells) = n
  <2>1. cells \in Seq(Int) /\ DOMAIN cells = 1 .. n
    BY <1>1, <1>3, SeqDef
  <2>2. DOMAIN cells = 1 .. Len(cells) /\ Len(cells) \in Nat
    BY <2>1, LenProperties
  <2> HIDE DEF n
  <2> QED
    BY <1>1, <2>1, <2>2
<1>5. PICK r : /\ r[0] = 0 /\ r[Len(cells)] = Total(column, at)
               /\ \A k \in 0 .. Len(cells) - 1 : r[k + 1] = r[k] + cells[k + 1]
  BY <1>2, <1>4, CellsFold
<1> HIDE DEF n
<1>6. /\ r[0] = 0 /\ r[n] = Total(column, at)
      /\ \A k \in 0 .. n - 1 : r[k + 1] = r[k] + cells[k + 1]
  BY <1>4, <1>5
<1> DEFINE T == {k \in Nat : k <= n => r[k] \in Int}
<1>7. 0 \in T
  BY <1>6
<1>8. ASSUME NEW k \in T PROVE k + 1 \in T
  <2>1. k \in Nat /\ (k <= n => r[k] \in Int)
    OBVIOUS
  <2>2. ASSUME k + 1 <= n PROVE r[k + 1] \in Int
    <3>1. k \in 0 .. n - 1 /\ k + 1 \in 1 .. n /\ r[k] \in Int
      BY <1>1, <2>1, <2>2
    <3>2. r[k + 1] = r[k] + cells[k + 1] /\ cells[k + 1] \in Int
      BY <1>3, <1>6, <3>1
    <3> QED
      BY <3>1, <3>2
  <2> QED
    BY <2>1, <2>2
<1> HIDE DEF T
<1>9. T = Nat
  <2>1. T \subseteq Nat
    BY DEF T
  <2> QED
    BY <1>7, <1>8, <2>1, EveryNumber
<1>10. \A k \in 0 .. n : r[k] \in Int
  <2>1. \A k \in 0 .. n : k \in Nat /\ k <= n
    BY <1>1
  <2> QED
    BY <1>9, <2>1 DEF T
<1>11. ASSUME NEW k \in 0 .. n - 1 PROVE r[k + 1] = IF k + 1 \in at THEN r[k] + column[k + 1] ELSE r[k]
  <2>1. k + 1 \in 1 .. n /\ k \in 0 .. n
    BY <1>1
  <2>2. r[k + 1] = r[k] + cells[k + 1] /\ r[k] \in Int
    BY <1>6, <1>10, <2>1
  <2>3. CASE k + 1 \in at
    BY <1>3, <2>1, <2>2, <2>3
  <2>4. CASE k + 1 \notin at
    BY <1>3, <2>1, <2>2, <2>4
  <2> QED
    BY <2>3, <2>4
<1> QED
  BY <1>6, <1>10, <1>11 DEF Running, n

\* The total of rows that are apart is the sum of their totals.
LEMMA TotalApart ==
  ASSUME NEW column \in Seq(Int), NEW at, NEW bt, at \cap bt = {}
  PROVE  /\ Total(column, at) \in Int
         /\ Total(column, at \cup bt) = Total(column, at) + Total(column, bt)
<1> DEFINE n == Len(column)
           ct == at \cup bt
<1>1. n \in Nat /\ \A i \in 1 .. n : column[i] \in Int
  BY LenProperties, ElementOfSeq
<1>2. PICK a : Running(a, column, at)
  BY TotalRuns
<1>3. PICK b : Running(b, column, bt)
  BY TotalRuns
<1>4. PICK c : Running(c, column, ct)
  BY TotalRuns
<1>5. /\ a[0] = 0 /\ a[n] = Total(column, at)
      /\ \A k \in 0 .. n - 1 : a[k + 1] = IF k + 1 \in at THEN a[k] + column[k + 1] ELSE a[k]
      /\ \A k \in 0 .. n : a[k] \in Int
  BY <1>2 DEF Running
<1>6. /\ b[0] = 0 /\ b[n] = Total(column, bt)
      /\ \A k \in 0 .. n - 1 : b[k + 1] = IF k + 1 \in bt THEN b[k] + column[k + 1] ELSE b[k]
      /\ \A k \in 0 .. n : b[k] \in Int
  BY <1>3 DEF Running
<1>7. /\ c[0] = 0 /\ c[n] = Total(column, ct)
      /\ \A k \in 0 .. n - 1 : c[k + 1] = IF k + 1 \in ct THEN c[k] + column[k + 1] ELSE c[k]
  BY <1>4 DEF Running
<1> HIDE DEF n
<1> DEFINE T == {k \in Nat : k <= n => c[k] = a[k] + b[k]}
<1>8. 0 \in T
  BY <1>5, <1>6, <1>7
<1>9. ASSUME NEW k \in T PROVE k + 1 \in T
  <2>1. k \in Nat /\ (k <= n => c[k] = a[k] + b[k])
    OBVIOUS
  <2>2. ASSUME k + 1 <= n PROVE c[k + 1] = a[k + 1] + b[k + 1]
    <3> DEFINE x == column[k + 1]
    <3>1. k \in 0 .. n - 1 /\ k \in 0 .. n /\ k + 1 \in 1 .. n /\ c[k] = a[k] + b[k]
      BY <1>1, <2>1, <2>2
    <3>2. a[k] \in Int /\ b[k] \in Int /\ x \in Int
      BY <1>1, <1>5, <1>6, <3>1
    <3>3. /\ a[k + 1] = IF k + 1 \in at THEN a[k] + x ELSE a[k]
          /\ b[k + 1] = IF k + 1 \in bt THEN b[k] + x ELSE b[k]
          /\ c[k + 1] = IF k + 1 \in ct THEN c[k] + x ELSE c[k]
      BY <1>5, <1>6, <1>7, <3>1
    <3> HIDE DEF x
    <3>4. ~(k + 1 \in at /\ k + 1 \in bt) /\ (k + 1 \in ct <=> k + 1 \in at \/ k + 1 \in bt)
      OBVIOUS
    <3> HIDE DEF ct
    <3> QED
      BY <3>1, <3>2, <3>3, <3>4
  <2> QED
    BY <2>1, <2>2
<1> HIDE DEF T
<1>10. T = Nat
  <2>1. T \subseteq Nat
    BY DEF T
  <2> QED
    BY <1>8, <1>9, <2>1, EveryNumber
<1>11. c[n] = a[n] + b[n] /\ n \in 0 .. n
  BY <1>1, <1>10 DEF T
<1> QED
  BY <1>5, <1>6, <1>7, <1>11

\* A measure of sets of rows: nothing of no row, and the sum of what is apart.
Measure(M, n) ==
  /\ M \in [SUBSET (1 .. n) -> Int] /\ M[{}] = 0
  /\ \A u, v \in SUBSET (1 .. n) : u \cap v = {} => M[u \cup v] = M[u] + M[v]

\* Parts of the rows that are apart, and all of them together.
Apart(p, n, m, whole) ==
  /\ p \in [1 .. m -> SUBSET (1 .. n)] /\ whole = UNION {p[d] : d \in 1 .. m}
  /\ \A d, e \in 1 .. m : d # e => p[d] \cap p[e] = {}

\* What a column of parts totals is the measure of them all.
LEMMA TotalOfParts ==
  ASSUME NEW n \in Nat, NEW M, Measure(M, n), NEW m \in Nat, NEW p, NEW whole, Apart(p, n, m, whole),
         NEW column \in [1 .. m -> Int], \A d \in 1 .. m : column[d] = M[p[d]]
  PROVE  Total(column, 1 .. m) = M[whole]
<1> DEFINE first(k) == UNION {p[d] : d \in 1 .. k}
<1>0. /\ p \in [1 .. m -> SUBSET (1 .. n)] /\ whole = first(m)
      /\ \A d, e \in 1 .. m : d # e => p[d] \cap p[e] = {}
  BY DEF Apart
<1>1. /\ M \in [SUBSET (1 .. n) -> Int] /\ M[{}] = 0
      /\ \A u, v \in SUBSET (1 .. n) : u \cap v = {} => M[u \cup v] = M[u] + M[v]
  BY DEF Measure
<1>2. column \in [1 .. m -> Int] /\ \A d \in 1 .. m : column[d] = M[p[d]]
  OBVIOUS
<1>3. column \in Seq(Int) /\ Len(column) = m
  <2>1. column \in Seq(Int) /\ DOMAIN column = 1 .. m
    BY <1>2, SeqDef
  <2>2. DOMAIN column = 1 .. Len(column) /\ Len(column) \in Nat
    BY <2>1, LenProperties
  <2> QED
    BY <2>1, <2>2
<1>4. PICK r : Running(r, column, 1 .. m)
  BY <1>3, TotalRuns
<1>5. /\ r[0] = 0 /\ r[m] = Total(column, 1 .. m)
      /\ \A k \in 0 .. m - 1 : r[k + 1] = r[k] + column[k + 1]
  <2>1. \A k \in 0 .. m - 1 : k + 1 \in 1 .. m
    OBVIOUS
  <2> QED
    BY <1>3, <1>4, <2>1 DEF Running
<1> DEFINE T == {k \in Nat : k <= m => r[k] = M[first(k)]}
<1>6. 0 \in T
  <2>1. first(0) = {}
    OBVIOUS
  <2> QED
    BY <1>1, <1>5, <2>1
<1>7. ASSUME NEW k \in T PROVE k + 1 \in T
  <2>1. k \in Nat /\ (k <= m => r[k] = M[first(k)])
    OBVIOUS
  <2>2. ASSUME k + 1 <= m PROVE r[k + 1] = M[first(k + 1)]
    <3>1. k \in 0 .. m - 1 /\ k + 1 \in 1 .. m /\ r[k] = M[first(k)]
      BY <2>1, <2>2
    <3>2. first(k + 1) = first(k) \cup p[k + 1]
      <4>1. 1 .. (k + 1) = (1 .. k) \cup {k + 1}
        BY <2>1
      <4> QED
        BY <4>1
    <3>3. first(k) \in SUBSET (1 .. n) /\ p[k + 1] \in SUBSET (1 .. n)
      <4>1. \A d \in 1 .. k : d \in 1 .. m
        BY <2>1, <2>2
      <4> QED
        BY <1>0, <3>1, <4>1
    <3>4. first(k) \cap p[k + 1] = {}
      <4>1. \A d \in 1 .. k : d \in 1 .. m /\ d # k + 1
        BY <2>1, <2>2
      <4>2. \A d \in 1 .. k : p[d] \cap p[k + 1] = {}
        BY <1>0, <3>1, <4>1
      <4> QED
        BY <4>2
    <3> HIDE DEF first
    <3>5. M[first(k) \cup p[k + 1]] = M[first(k)] + M[p[k + 1]]
      BY <1>1, <3>3, <3>4
    <3> QED
      BY <1>2, <1>5, <3>1, <3>2, <3>5
  <2> QED
    BY <2>1, <2>2
<1> HIDE DEF T
<1>8. T = Nat
  <2>1. T \subseteq Nat
    BY DEF T
  <2> QED
    BY <1>6, <1>7, <2>1, EveryNumber
<1>9. r[m] = M[first(m)]
  <2>1. m \in T
    BY <1>8
  <2> HIDE DEF first
  <2>2. m <= m => r[m] = M[first(m)]
    BY <2>1 DEF T
  <2> QED
    BY <2>2
<1> QED
  BY <1>0, <1>5, <1>9

\* Multiplying and dividing by the length of a day.
LEMMA DivisionBounds ==
  ASSUME NEW x \in Int, NEW t \in Nat \ {0}
  PROVE  x \div t \in Int /\ (x \div t) * t <= x /\ x < (x \div t + 1) * t
OBVIOUS

LEMMA ProductOrder ==
  ASSUME NEW a \in Int, NEW b \in Int, NEW t \in Nat \ {0}
  PROVE  a * t \in Int /\ (a <= b <=> a * t <= b * t)
OBVIOUS

\* An instant is of a day or a later one when its midnight has come, and of it or an
\* earlier one until the midnight after it.
LEMMA MidnightOfDay ==
  ASSUME NEW x \in Int, NEW d \in Int
  PROVE  /\ DayOf(x) \in Int /\ Midnight(d) \in Int /\ Midnight(d + 1) \in Int
         /\ Midnight(d) <= x <=> d <= DayOf(x)
         /\ x < Midnight(d + 1) <=> DayOf(x) <= d
         /\ x <= LastInstant(d) <=> DayOf(x) <= d
<1> DEFINE t == TicksPerDay
           q == x \div t
           low == q * t
           high == (q + 1) * t
           here == d * t
           next == (d + 1) * t
<1>1. t \in Nat \ {0}
  BY UsageReportBounds
<1> HIDE DEF t
<1>2. q \in Int /\ low <= x /\ x < high
  BY <1>1, DivisionBounds
<1> HIDE DEF q
<1>3. low \in Int /\ high \in Int /\ here \in Int /\ next \in Int
  BY <1>1, <1>2, ProductOrder
<1>4. /\ d <= q <=> here <= low
      /\ q + 1 <= d <=> high <= here
      /\ d + 1 <= q <=> next <= low
      /\ q + 1 <= d + 1 <=> high <= next
  <2>1. q + 1 \in Int /\ d + 1 \in Int
    BY <1>2
  <2> QED
    BY <1>1, <1>2, <2>1, ProductOrder
<1>5. DayOf(x) = q /\ Midnight(d) = here /\ Midnight(d + 1) = next /\ LastInstant(d) = next - 1
  BY DEF DayOf, Midnight, LastInstant, t, q
<1> HIDE DEF low, high, here, next
<1>6. here <= x <=> d <= q
  BY <1>2, <1>3, <1>4
<1>7. x < next <=> q <= d
  BY <1>2, <1>3, <1>4
<1>8. x <= next - 1 <=> x < next
  BY <1>3
<1> QED
  BY <1>2, <1>3, <1>5, <1>6, <1>7, <1>8

LEMMA LastOfDay ==
  ASSUME NEW x \in Int, NEW d \in Int
  PROVE  x <= LastInstant(d) <=> DayOf(x) <= d
BY MidnightOfDay

LEMMA DayIsNumber ==
  ASSUME NEW x \in Int
  PROVE  DayOf(x) \in Int
<1>1. 0 \in Int
  OBVIOUS
<1> QED
  BY <1>1, MidnightOfDay

LEMMA DayEnds ==
  ASSUME NEW x \in Int, NEW d \in Int, DayOf(x) <= d
  PROVE  x < Midnight(d + 1)
BY MidnightOfDay

LEMMA DayBegins ==
  ASSUME NEW x \in Int, NEW d \in Int
  PROVE  Midnight(d) <= x <=> d <= DayOf(x)
BY MidnightOfDay

LEMMA MidnightIsInstant ==
  ASSUME NEW d \in Int
  PROVE  Midnight(d) \in Int
<1>1. 0 \in Int
  OBVIOUS
<1> QED
  BY <1>1, MidnightOfDay

LEMMA DayBefore ==
  ASSUME NEW x \in Int, NEW d \in Int, x < Midnight(d + 1)
  PROVE  DayOf(x) <= d /\ DayOf(x) \in Int
BY MidnightOfDay

Rows == [at : Nat, tokens : Int, cost : Int]
Tokens(rows) == [i \in DOMAIN rows |-> rows[i].tokens]
Costs(rows) == [i \in DOMAIN rows |-> rows[i].cost]

LEMMA ColumnsOfRows ==
  ASSUME NEW rows \in Seq(Rows)
  PROVE  /\ Tokens(rows) \in Seq(Int) /\ Costs(rows) \in Seq(Int)
         /\ Len(rows) \in Nat /\ DOMAIN rows = 1 .. Len(rows) /\ \A i \in 1 .. Len(rows) : rows[i].at \in Nat
<1> DEFINE n == Len(rows)
<1>1. n \in Nat /\ DOMAIN rows = 1 .. n /\ \A i \in 1 .. n : rows[i] \in Rows
  BY LenProperties, ElementOfSeq
<1> HIDE DEF n
<1>2. \A i \in 1 .. n : rows[i].at \in Nat /\ rows[i].tokens \in Int /\ rows[i].cost \in Int
  BY <1>1 DEF Rows
<1>3. Tokens(rows) \in [1 .. n -> Int] /\ Costs(rows) \in [1 .. n -> Int]
  BY <1>1, <1>2 DEF Tokens, Costs
<1>4. Tokens(rows) \in Seq(Int) /\ Costs(rows) \in Seq(Int)
  BY <1>1, <1>3, SeqDef
<1> QED
  BY <1>1, <1>2, <1>4 DEF n

LEMMA TotalMeasures ==
  ASSUME NEW column \in Seq(Int), NEW n \in Nat
  PROVE  Measure([u \in SUBSET (1 .. n) |-> Total(column, u)], n)
<1>1. \A u, v : u \cap v = {} => Total(column, u) \in Int /\ Total(column, u \cup v) = Total(column, u) + Total(column, v)
  BY TotalApart
<1>2. \A u : Total(column, u) \in Int
  <2>1. \A u : u \cap {} = {}
    OBVIOUS
  <2> QED
    BY <1>1, <2>1
<1>3. Total(column, {}) = 0
  <2>1. {} \cap {} = {} /\ {} \cup {} = {}
    OBVIOUS
  <2>2. Total(column, {}) = Total(column, {}) + Total(column, {})
    BY <1>1, <2>1
  <2> QED
    BY <1>2, <2>2
<1> DEFINE M == [u \in SUBSET (1 .. n) |-> Total(column, u)]
<1>4. M \in [SUBSET (1 .. n) -> Int] /\ \A u \in SUBSET (1 .. n) : M[u] = Total(column, u)
  BY <1>2
<1> HIDE DEF M
<1>5. \A u, v \in SUBSET (1 .. n) : u \cap v = {} => M[u \cup v] = M[u] + M[v]
  <2> SUFFICES ASSUME NEW u \in SUBSET (1 .. n), NEW v \in SUBSET (1 .. n), u \cap v = {} PROVE M[u \cup v] = M[u] + M[v]
    OBVIOUS
  <2>1. u \cup v \in SUBSET (1 .. n)
    OBVIOUS
  <2>2. Total(column, u \cup v) = Total(column, u) + Total(column, v)
    BY <1>1
  <2> QED
    BY <1>4, <2>1, <2>2
<1>6. M[{}] = 0
  <2>1. {} \in SUBSET (1 .. n)
    OBVIOUS
  <2> QED
    BY <1>3, <1>4, <2>1
<1>7. Measure(M, n)
  BY <1>4, <1>5, <1>6 DEF Measure
<1> QED
  BY <1>7 DEF M

LEMMA CountMeasures ==
  ASSUME NEW n \in Nat
  PROVE  Measure([u \in SUBSET (1 .. n) |-> Cardinality(u)], n)
<1> DEFINE M == [u \in SUBSET (1 .. n) |-> Cardinality(u)]
<1>1. \A u \in SUBSET (1 .. n) : IsFiniteSet(u) /\ Cardinality(u) \in Nat
  <2>1. IsFiniteSet(1 .. n)
    BY FS_Interval
  <2> QED
    BY <2>1, FS_Subset, FS_CardinalityType
<1>2. M \in [SUBSET (1 .. n) -> Int] /\ \A u \in SUBSET (1 .. n) : M[u] = Cardinality(u)
  BY <1>1
<1> HIDE DEF M
<1>3. \A u, v \in SUBSET (1 .. n) : u \cap v = {} => M[u \cup v] = M[u] + M[v]
  <2> SUFFICES ASSUME NEW u \in SUBSET (1 .. n), NEW v \in SUBSET (1 .. n), u \cap v = {} PROVE M[u \cup v] = M[u] + M[v]
    OBVIOUS
  <2>1. u \cup v \in SUBSET (1 .. n)
    OBVIOUS
  <2>2. Cardinality(u \cup v) = Cardinality(u) + Cardinality(v) - Cardinality(u \cap v) /\ Cardinality(u \cap v) = 0
    BY <1>1, FS_Union, FS_EmptySet
  <2> QED
    BY <1>1, <1>2, <2>1, <2>2
<1>4. M[{}] = 0
  <2>1. {} \in SUBSET (1 .. n)
    OBVIOUS
  <2> QED
    BY <1>2, <2>1, FS_EmptySet
<1>5. Measure(M, n)
  BY <1>2, <1>3, <1>4 DEF Measure
<1> QED
  BY <1>5 DEF M

\* The totals of a series of days are the sums of the rows of these days.
LEMMA DaysTotals ==
  ASSUME NEW rows \in Seq(Rows), NEW first \in Int, NEW last \in Int, first <= last
  PROVE  UsageByDay(rows, first, last).totals = Sums(rows, {i \in DOMAIN rows : DayOf(rows[i].at) \in first .. last})
<1> DEFINE n == Len(rows)
           m == last - first + 1
           p == [d \in 1 .. m |-> {i \in DOMAIN rows : /\ Midnight(first) <= rows[i].at /\ rows[i].at < Midnight(last + 1)
                                                        /\ DayOf(rows[i].at) = first + d - 1}]
           whole == {i \in DOMAIN rows : DayOf(rows[i].at) \in first .. last}
           count == [u \in SUBSET (1 .. n) |-> Cardinality(u)]
           tokens == [u \in SUBSET (1 .. n) |-> Total(Tokens(rows), u)]
           costs == [u \in SUBSET (1 .. n) |-> Total(Costs(rows), u)]
           byDay == DailyRows(rows, first, last)
<1>1. /\ n \in Nat /\ DOMAIN rows = 1 .. n /\ \A i \in 1 .. n : rows[i].at \in Nat
      /\ Tokens(rows) \in Seq(Int) /\ Costs(rows) \in Seq(Int)
  BY ColumnsOfRows
<1>2. m \in Nat /\ 1 .. last - first + 1 = 1 .. m
  OBVIOUS
<1>3. \A d \in 1 .. m : first + d - 1 \in first .. last
  OBVIOUS
<1>4. p \in [1 .. m -> SUBSET (1 .. n)]
  BY <1>1
<1>5. \A d, e \in 1 .. m : d # e => p[d] \cap p[e] = {}
  <2> SUFFICES ASSUME NEW d \in 1 .. m, NEW e \in 1 .. m, NEW i \in p[d], i \in p[e] PROVE d = e
    OBVIOUS
  <2>1. first + d - 1 = first + e - 1
    OBVIOUS
  <2> QED
    BY <2>1
<1>6. UNION {p[d] : d \in 1 .. m} = whole
  <2>1. ASSUME NEW d \in 1 .. m, NEW i \in p[d] PROVE i \in whole
    <3>1. i \in DOMAIN rows /\ DayOf(rows[i].at) = first + d - 1
      OBVIOUS
    <3> QED
      BY <1>3, <3>1
  <2>2. ASSUME NEW i \in whole PROVE \E d \in 1 .. m : i \in p[d]
    <3> DEFINE x == rows[i].at
               d == DayOf(x) - first + 1
    <3>1. i \in DOMAIN rows /\ x \in Int /\ DayOf(x) \in first .. last
      BY <1>1
    <3> HIDE DEF x
    <3>2. d \in 1 .. m /\ DayOf(x) = first + d - 1 /\ first <= DayOf(x) /\ DayOf(x) <= last
      BY <3>1
    <3>3. Midnight(first) <= x /\ x < Midnight(last + 1)
      <4>1. first \in Int /\ last \in Int
        OBVIOUS
      <4> QED
        BY <3>1, <3>2, <4>1, DayBegins, DayEnds
    <3> HIDE DEF d
    <3>4. i \in p[d]
      BY <3>1, <3>2, <3>3 DEF x
    <3> QED
      BY <3>2, <3>4
  <2> HIDE DEF p, whole
  <2> QED
    BY <2>1, <2>2
<1>7. ASSUME NEW d \in 1 .. m PROVE byDay[first + d - 1] = Sums(rows, p[d])
  BY <1>3 DEF DailyRows
<1>p. Apart(p, n, m, whole)
  BY <1>4, <1>5, <1>6 DEF Apart
<1>8. /\ \A u \in SUBSET (1 .. n) : count[u] = Cardinality(u) /\ tokens[u] = Total(Tokens(rows), u) /\ costs[u] = Total(Costs(rows), u)
      /\ Measure(count, n) /\ Measure(tokens, n) /\ Measure(costs, n)
  BY <1>1, CountMeasures, TotalMeasures
<1> HIDE DEF n, p, whole, count, tokens, costs, byDay
<1>9. ASSUME NEW d \in 1 .. m
      PROVE  /\ byDay[first + d - 1].requests = count[p[d]]
             /\ byDay[first + d - 1].tokens = tokens[p[d]]
             /\ byDay[first + d - 1].cost = costs[p[d]]
  <2>1. p[d] \in SUBSET (1 .. n)
    BY <1>4
  <2>2. byDay[first + d - 1]
          = [requests |-> Cardinality(p[d]), tokens |-> Total(Tokens(rows), p[d]), cost |-> Total(Costs(rows), p[d])]
    BY <1>7 DEF Sums, Tokens, Costs
  <2>3. count[p[d]] = Cardinality(p[d]) /\ tokens[p[d]] = Total(Tokens(rows), p[d]) /\ costs[p[d]] = Total(Costs(rows), p[d])
    BY <1>8, <2>1
  <2> QED
    BY <2>2, <2>3
<1> HIDE DEF m
<1> DEFINE requestsColumn == [d \in 1 .. m |-> byDay[first + d - 1].requests]
           tokensColumn == [d \in 1 .. m |-> byDay[first + d - 1].tokens]
           costColumn == [d \in 1 .. m |-> byDay[first + d - 1].cost]
<1>10. /\ requestsColumn \in [1 .. m -> Int] /\ \A d \in 1 .. m : requestsColumn[d] = count[p[d]]
       /\ tokensColumn \in [1 .. m -> Int] /\ \A d \in 1 .. m : tokensColumn[d] = tokens[p[d]]
       /\ costColumn \in [1 .. m -> Int] /\ \A d \in 1 .. m : costColumn[d] = costs[p[d]]
  <2>1. \A d \in 1 .. m : count[p[d]] \in Int /\ tokens[p[d]] \in Int /\ costs[p[d]] \in Int
    BY <1>4, <1>8 DEF Measure
  <2> QED
    BY <1>9, <2>1
<1>14. UsageByDay(rows, first, last).totals
         = [requests |-> Total(requestsColumn, 1 .. m), tokens |-> Total(tokensColumn, 1 .. m),
            cost |-> Total(costColumn, 1 .. m)]
  BY <1>2 DEF UsageByDay, byDay, m
<1> HIDE DEF requestsColumn, tokensColumn, costColumn
<1>11. /\ Total(requestsColumn, 1 .. m) = count[whole]
       /\ Total(tokensColumn, 1 .. m) = tokens[whole]
       /\ Total(costColumn, 1 .. m) = costs[whole]
  <2>0. n \in Nat /\ m \in Nat
    BY <1>1, <1>2
  <2>1. Total(requestsColumn, 1 .. m) = count[whole]
    <3>1. Measure(count, n)
      BY <1>8
    <3>2. requestsColumn \in [1 .. m -> Int] /\ \A d \in 1 .. m : requestsColumn[d] = count[p[d]]
      BY <1>10
    <3> QED
      BY <2>0, <1>p, <3>1, <3>2, TotalOfParts
  <2>2. Total(tokensColumn, 1 .. m) = tokens[whole]
    <3>1. Measure(tokens, n)
      BY <1>8
    <3>2. tokensColumn \in [1 .. m -> Int] /\ \A d \in 1 .. m : tokensColumn[d] = tokens[p[d]]
      BY <1>10
    <3> QED
      BY <2>0, <1>p, <3>1, <3>2, TotalOfParts
  <2>3. Total(costColumn, 1 .. m) = costs[whole]
    <3>1. Measure(costs, n)
      BY <1>8
    <3>2. costColumn \in [1 .. m -> Int] /\ \A d \in 1 .. m : costColumn[d] = costs[p[d]]
      BY <1>10
    <3> QED
      BY <2>0, <1>p, <3>1, <3>2, TotalOfParts
  <2> QED
    BY <2>1, <2>2, <2>3
<1>12. whole \in SUBSET (1 .. n)
  BY <1>1 DEF whole
<1>13. Sums(rows, whole) = [requests |-> count[whole], tokens |-> tokens[whole], cost |-> costs[whole]]
  BY <1>8, <1>12 DEF Sums, Tokens, Costs
<1> QED
  BY <1>11, <1>13, <1>14 DEF whole

LEMMA SeriesHasItsDays ==
  ASSUME NEW rows, NEW first \in Int, NEW last \in Int, first <= last
  PROVE  LET days == UsageByDay(rows, first, last).days
         IN  [i \in DOMAIN days |-> days[i].date] = [n \in 1 .. last - first + 1 |-> first + n - 1]
             /\ Len(days) = last - first + 1
<1> DEFINE days == UsageByDay(rows, first, last).days
           m == last - first + 1
<1>1. m \in Nat /\ DOMAIN days = 1 .. m /\ \A i \in 1 .. m : days[i].date = first + i - 1
  BY DEF UsageByDay
<1> HIDE DEF days
<1>2. Len(days) = m
  <2>1. days = [i \in 1 .. m |-> days[i]]
    BY <1>1 DEF UsageByDay, days
  <2> DEFINE S == {days[i] : i \in 1 .. m}
  <2>2. days \in [1 .. m -> S]
    BY <2>1
  <2> HIDE DEF S
  <2>3. days \in Seq(S)
    BY <1>1, <2>2, SeqDef
  <2>4. DOMAIN days = 1 .. Len(days) /\ Len(days) \in Nat
    BY <2>3, LenProperties
  <2> HIDE DEF m
  <2> QED
    BY <1>1, <2>4
<1>3. [i \in DOMAIN days |-> days[i].date] = [n \in 1 .. m |-> first + n - 1]
  BY <1>1
<1> QED
  BY <1>2, <1>3 DEF days

\* What a series that is given covers: the days asked for up to today.
LEMMA SeriesRange ==
  ASSUME NEW rows, NEW now \in Int, NEW start, NEW end, start.at \in Int, end.at \in Int,
         NEW daily, daily = UsageDailyView(rows, now, start, end), daily.status = 200
  PROVE  LET today == DayOf(now)
             last == IF end.kind = "absent" THEN today ELSE end.at
         IN  /\ start.kind \in {"absent", "date"} /\ end.kind \in {"absent", "date"}
             /\ daily.start \in Int /\ daily.end \in Int /\ daily.start <= daily.end
             /\ start.kind = "date" => daily.start = start.at
             /\ daily.end = (IF last <= today THEN last ELSE today)
             /\ daily.end - daily.start + 1 <= MaxDays
             /\ daily.days = UsageByDay(rows, daily.start, daily.end).days
             /\ daily.totals = UsageByDay(rows, daily.start, daily.end).totals
<1> DEFINE today == DayOf(now)
           until == IF end.kind = "absent" THEN today ELSE end.at
           first == IF start.kind = "absent" THEN until - (DefaultDays - 1) ELSE start.at
           last == Min({until, today})
           given == [status |-> 200, start |-> first, end |-> last,
                     days |-> UsageByDay(rows, first, last).days, totals |-> UsageByDay(rows, first, last).totals]
<1>1. today \in Int /\ until \in Int /\ first \in Int
  <2>1. DefaultDays \in Nat
    BY UsageReportBounds
  <2>2. today \in Int
    BY DayIsNumber
  <2> HIDE DEF today
  <2> QED
    BY <2>1, <2>2
<1>2. last = (IF until <= today THEN until ELSE today) /\ last \in Int
  <2> HIDE DEF today, until
  <2>1. {until, today} \in SUBSET Int
    BY <1>1
  <2>2. CASE until <= today
    <3>1. until \in {until, today} /\ \A y \in {until, today} : until <= y
      BY <1>1, <2>2
    <3>2. last = until
      BY <2>1, <3>1, LeastOf
    <3> QED
      BY <1>1, <2>2, <3>2
  <2>3. CASE ~(until <= today)
    <3>1. today \in {until, today} /\ \A y \in {until, today} : today <= y
      BY <1>1, <2>3
    <3>2. last = today
      BY <2>1, <3>1, LeastOf
    <3> QED
      BY <1>1, <2>3, <3>2
  <2> QED
    BY <2>2, <2>3
<1>3. daily = IF ~({start.kind, end.kind} \subseteq {"absent", "date"}) THEN BadRequest
              ELSE IF first > today \/ first > until \/ last - first + 1 > MaxDays THEN BadRequest
              ELSE given
  BY DEF UsageDailyView
<1> HIDE DEF given, today, until, first, last
<1>4. daily # BadRequest
  BY DEF BadRequest
<1>5. /\ start.kind \in {"absent", "date"} /\ end.kind \in {"absent", "date"}
      /\ ~(first > today \/ first > until \/ last - first + 1 > MaxDays)
      /\ daily = given
  BY <1>3, <1>4
<1>6. /\ daily.start = first /\ daily.end = last
      /\ daily.days = UsageByDay(rows, first, last).days /\ daily.totals = UsageByDay(rows, first, last).totals
  BY <1>5 DEF given
<1>7. first <= last
  BY <1>1, <1>2, <1>5
<1>8. last - first + 1 <= MaxDays
  <2>1. MaxDays \in Nat
    BY UsageReportBounds
  <2> QED
    BY <1>1, <1>2, <1>5, <2>1
<1>9. start.kind = "date" => first = start.at
  BY DEF first
<1> QED
  BY <1>1, <1>2, <1>5, <1>6, <1>7, <1>8, <1>9 DEF until, today

\* Rows are written in time order, and a range is asked for once they are there.
UsageInv ==
  /\ records \in Seq(Rows) /\ \A i, j \in DOMAIN records : i <= j => records[i].at <= records[j].at
  /\ query.now \in Nat /\ query.start.at \in Int /\ query.end.at \in Int
  /\ query # NoQuery => \A i \in DOMAIN records : records[i].at <= query.now

LEMMA CostType ==
  ASSUME NEW a \in Nat, NEW b \in Nat, NEW model
  PROVE  EstimatedCost(a, b, model) \in Int
<1>1. PricesFor(model) \in Nat \X Nat
  BY UsageReportPrices DEF PricesFor
<1> DEFINE x == PricesFor(model)[1]
           y == PricesFor(model)[2]
           n == a * x + b * y
           q == n \div PriceUnit
<1>2. x \in Nat /\ y \in Nat
  BY <1>1
<1> HIDE DEF x, y
<1>3. n \in Int
  BY <1>2
<1>4. PriceUnit \in Nat \ {0}
  BY UsageReportBounds
<1> HIDE DEF n
<1>5. q \in Int /\ q + 1 \in Int
  BY <1>3, <1>4, DivisionBounds
<1>6. EstimatedCost(a, b, model) = q \/ EstimatedCost(a, b, model) = q + 1
  BY DEF EstimatedCost, Rounded, q, n, x, y
<1> HIDE DEF q
<1> QED
  BY <1>5, <1>6

LEMMA UsageInvHolds == Spec => []UsageInv
<1>1. Init => UsageInv
  <2> SUFFICES ASSUME Init PROVE UsageInv
    OBVIOUS
  <2>1. records = <<>> /\ query = NoQuery
    BY DEF Init
  <2>2. query.now = 0 /\ query.start.at = 0 /\ query.end.at = 0
    BY <2>1 DEF NoQuery
  <2>3. records \in Seq(Rows) /\ DOMAIN records = {}
    BY <2>1, EmptySeq
  <2> QED
    BY <2>1, <2>2, <2>3 DEF UsageInv
<1>2. UsageInv /\ [Next]_vars => UsageInv'
  <2> SUFFICES ASSUME UsageInv, [Next]_vars PROVE UsageInv'
    OBVIOUS
  <2> DEFINE n == Len(records)
  <2>0. /\ records \in Seq(Rows) /\ n \in Nat /\ DOMAIN records = 1 .. n /\ \A i \in 1 .. n : records[i].at \in Nat
        /\ \A i, j \in 1 .. n : i <= j => records[i].at <= records[j].at
    BY ColumnsOfRows DEF UsageInv
  <2>1. CASE RecordRow
    <3>1. PICK now \in 0 .. LastInstant(LastDay), model \in {"local", "hosted"} :
            /\ records # <<>> => now >= Last(records).at
            /\ records' = Append(records, UsageRecord(now, 2, 1, model))
      BY <2>1 DEF RecordRow
    <3> DEFINE row == UsageRecord(now, 2, 1, model)
    <3>2. now \in Nat
      OBVIOUS
    <3>3. row \in Rows /\ row.at = now
      <4>1. EstimatedCost(2, 1, model) \in Int
        BY CostType
      <4> QED
        BY <3>2, <4>1 DEF UsageRecord, Rows
    <3> HIDE DEF row
    <3>4. /\ records' \in Seq(Rows) /\ Len(records') = n + 1
          /\ \A i \in 1 .. n : records'[i] = records[i]
          /\ records'[n + 1] = row
      BY <2>0, <3>1, <3>3, AppendProperties DEF row
    <3>5. DOMAIN records' = 1 .. n + 1
      BY <3>4, LenProperties
    <3>6. \A i \in 1 .. n : records[i].at <= now
      <4> SUFFICES ASSUME NEW i \in 1 .. n PROVE records[i].at <= now
        OBVIOUS
      <4>1. records # <<>> /\ n \in 1 .. n /\ i <= n
        BY <2>0
      <4>2. records[n].at <= now
        BY <2>0, <3>1, <3>2, <4>1 DEF Last
      <4>3. records[i].at <= records[n].at /\ records[i].at \in Nat /\ records[n].at \in Nat
        BY <2>0, <4>1
      <4> QED
        BY <3>2, <4>2, <4>3
    <3> HIDE DEF n
    <3>7. \A i, j \in 1 .. n + 1 : i <= j => records'[i].at <= records'[j].at
      <4> SUFFICES ASSUME NEW i \in 1 .. n + 1, NEW j \in 1 .. n + 1, i <= j PROVE records'[i].at <= records'[j].at
        OBVIOUS
      <4>1. CASE j \in 1 .. n
        <5>1. i \in 1 .. n
          BY <2>0, <4>1
        <5> QED
          BY <2>0, <3>4, <4>1, <5>1
      <4>2. CASE j = n + 1 /\ i \in 1 .. n
        BY <3>3, <3>4, <3>6, <4>2
      <4>3. CASE j = n + 1 /\ i = n + 1
        BY <3>2, <3>3, <3>4, <4>3
      <4> QED
        BY <2>0, <4>1, <4>2, <4>3
    <3>8. query' = query /\ query = NoQuery
      BY <2>1 DEF RecordRow
    <3> QED
      BY <3>4, <3>5, <3>7, <3>8 DEF UsageInv
  <2>2. CASE AskUsage
    <3>1. PICK now \in 0 .. LastInstant(LastDay), start \in Params, end \in Params :
            /\ records # <<>> => now >= Last(records).at
            /\ query' = [now |-> now, start |-> start, end |-> end]
      BY <2>2 DEF AskUsage
    <3>2. query'.now = now /\ query'.start = start /\ query'.end = end /\ now \in Nat
      BY <3>1
    <3>3. start.at \in Int /\ end.at \in Int
      <4>1. LastDay \in Nat
        BY AlgorithmsBounds
      <4> QED
        BY <4>1 DEF Params
    <3>4. \A i \in 1 .. n : records[i].at <= now
      <4> SUFFICES ASSUME NEW i \in 1 .. n PROVE records[i].at <= now
        OBVIOUS
      <4>1. records # <<>> /\ n \in 1 .. n /\ i <= n
        BY <2>0
      <4>2. records[n].at <= now
        BY <2>0, <3>1, <3>2, <4>1 DEF Last
      <4>3. records[i].at <= records[n].at /\ records[i].at \in Nat /\ records[n].at \in Nat
        BY <2>0, <4>1
      <4> QED
        BY <3>2, <4>2, <4>3
    <3>5. records' = records
      BY <2>2 DEF AskUsage
    <3> QED
      BY <2>0, <3>2, <3>3, <3>4, <3>5 DEF UsageInv
  <2>3. CASE records' = records /\ query' = query
    BY <2>3 DEF UsageInv
  <2> QED
    BY <2>1, <2>2, <2>3 DEF Next, vars, AddCharacter, AddPage, ChangeType, AddSymbol, ConfigureBackend, AddReply, AddPiece
<1> QED
  BY <1>1, <1>2, PTL DEF Spec

\* Of every history of rows and every range: the series is the days asked for, up to today,
\* and it totals what the summary of the same dates does (usage_summary, usage_by_day,
\* UsageView, UsageDailyView).
THEOREM DaysAgreeWithSummaryAlways == Spec => []DaysAgreeWithSummary
<1>1. UsageInv => DaysAgreeWithSummary
  <2> DEFINE daily == UsageDailyView(records, query.now, query.start, query.end)
             summary == UsageView(records, query.now, query.start, query.end)
             now == query.now
             from == query.start
             to == query.end
             today == DayOf(now)
             within == {i \in DOMAIN records : DayOf(records[i].at) \in daily.start .. daily.end}
             instant == IF to.kind = "absent" THEN now ELSE LastInstant(to.at)
             heard == {i \in DOMAIN records : Midnight(from.at) <= records[i].at /\ records[i].at <= instant}
  <2> SUFFICES ASSUME UsageInv, part = "usage", daily.status = 200
               PROVE  /\ [i \in DOMAIN daily.days |-> daily.days[i].date]
                           = [n \in 1 .. daily.end - daily.start + 1 |-> daily.start + n - 1]
                      /\ Len(daily.days) <= MaxDays /\ daily.end <= DayOf(query.now)
                      /\ query.start.kind = "date" => summary.status = 200 /\ daily.totals = summary.totals
                      /\ query.end.kind = "date" => daily.end <= query.end.at
                      /\ daily.totals.requests = Cardinality(within)
    BY DEF DaysAgreeWithSummary
  <2>1. /\ records \in Seq(Rows) /\ now \in Int /\ from.at \in Int /\ to.at \in Int
        /\ query # NoQuery => \A i \in DOMAIN records : records[i].at <= now
    BY DEF UsageInv
  <2>2. /\ DOMAIN records = 1 .. Len(records) /\ \A i \in 1 .. Len(records) : records[i].at \in Nat
    BY <2>1, ColumnsOfRows
  <2>3. /\ from.kind \in {"absent", "date"} /\ to.kind \in {"absent", "date"}
        /\ daily.start \in Int /\ daily.end \in Int /\ daily.start <= daily.end
        /\ from.kind = "date" => daily.start = from.at
        /\ LET last == IF to.kind = "absent" THEN today ELSE to.at
           IN daily.end = (IF last <= today THEN last ELSE today)
        /\ daily.end - daily.start + 1 <= MaxDays
        /\ daily.days = UsageByDay(records, daily.start, daily.end).days
        /\ daily.totals = UsageByDay(records, daily.start, daily.end).totals
    BY <2>1, SeriesRange
  <2>4. daily.totals = Sums(records, within)
    BY <2>1, <2>3, DaysTotals
  <2>5. today \in Int
    <3>1. query.now \in Int
      BY <2>1
    <3> QED
      BY <3>1, DayIsNumber
  <2>s. summary = IF "malformed" \in {from.kind, to.kind} THEN BadRequest
                  ELSE IF from.kind # "absent"
                            /\ (IF from.kind = "absent"
                                  THEN (IF to.kind = "absent" THEN now ELSE ParseInstant(to, TRUE)) - Midnight(DefaultDays)
                                  ELSE ParseInstant(from, FALSE))
                               > (IF to.kind = "absent" THEN now ELSE ParseInstant(to, TRUE)) THEN BadRequest
                  ELSE [status |-> 200,
                        start |-> IF from.kind = "absent"
                                    THEN (IF to.kind = "absent" THEN now ELSE ParseInstant(to, TRUE)) - Midnight(DefaultDays)
                                    ELSE ParseInstant(from, FALSE),
                        end |-> IF to.kind = "absent" THEN now ELSE ParseInstant(to, TRUE),
                        totals |-> UsageSummary(records,
                                     IF from.kind = "absent"
                                       THEN (IF to.kind = "absent" THEN now ELSE ParseInstant(to, TRUE)) - Midnight(DefaultDays)
                                       ELSE ParseInstant(from, FALSE),
                                     IF to.kind = "absent" THEN now ELSE ParseInstant(to, TRUE))]
    BY DEF UsageView
  <2>w. within = {i \in DOMAIN records : DayOf(records[i].at) \in daily.start .. daily.end}
    OBVIOUS
  <2> HIDE DEF daily, summary, now, from, to, today, within
  <2>6. /\ [i \in DOMAIN daily.days |-> daily.days[i].date]
             = [n \in 1 .. daily.end - daily.start + 1 |-> daily.start + n - 1]
        /\ Len(daily.days) <= MaxDays
    BY <2>3, SeriesHasItsDays
  <2>7. daily.end <= today /\ (to.kind = "date" => daily.end <= to.at)
    BY <2>1, <2>3, <2>5
  <2>8. daily.totals.requests = Cardinality(within)
    BY <2>4 DEF Sums
  <2>9. ASSUME from.kind = "date" PROVE summary.status = 200 /\ daily.totals = summary.totals
    <3>1. query # NoQuery
      BY <2>9 DEF NoQuery, from
    <3>2. (IF to.kind = "absent" THEN now ELSE ParseInstant(to, TRUE)) = instant
      BY <2>3 DEF ParseInstant
    <3>3. ParseInstant(from, FALSE) = Midnight(from.at)
      BY <2>9 DEF ParseInstant
    <3>4. Midnight(from.at) \in Int /\ instant \in Int /\ ~(Midnight(from.at) > instant)
      <4>1. CASE to.kind = "absent"
        <5>1. from.at <= today
          BY <2>1, <2>3, <2>5, <2>9, <4>1
        <5>i. from.at \in Int /\ now \in Int /\ from.at <= DayOf(now)
          BY <2>1, <5>1 DEF today
        <5>2. Midnight(from.at) <= now /\ Midnight(from.at) \in Int
          BY <5>i, DayBegins, MidnightIsInstant
        <5> QED
          BY <2>1, <4>1, <5>2
      <4>2. CASE to.kind # "absent"
        <5>1. from.at <= to.at
          BY <2>1, <2>3, <2>5, <2>9, <4>2
        <5>i. from.at \in Int /\ to.at + 1 \in Int
          BY <2>1
        <5>2. Midnight(from.at) \in Int /\ Midnight(to.at + 1) \in Int
          BY <5>i, MidnightIsInstant
        <5>3. DayOf(Midnight(from.at)) <= to.at
          <6>1. Midnight(from.at + 1) \in Int /\ Midnight(from.at) < Midnight(from.at + 1)
            <7>1. TicksPerDay \in Nat \ {0}
              BY UsageReportBounds
            <7>2. from.at * TicksPerDay \in Int /\ (from.at + 1) * TicksPerDay = from.at * TicksPerDay + TicksPerDay
              BY <2>1, <7>1
            <7> QED
              BY <7>1, <7>2 DEF Midnight
          <6> DEFINE y == Midnight(from.at)
          <6>3. y \in Int /\ y < Midnight(from.at + 1)
            BY <5>2, <6>1
          <6> HIDE DEF y
          <6>4. DayOf(y) <= from.at /\ DayOf(y) \in Int
            BY <5>i, <6>3, DayBefore
          <6>2. DayOf(Midnight(from.at)) <= from.at /\ DayOf(Midnight(from.at)) \in Int
            BY <6>4 DEF y
          <6> QED
            BY <2>1, <5>1, <6>2
        <5>4. Midnight(from.at) <= LastInstant(to.at)
          BY <2>1, <5>2, <5>3, LastOfDay
        <5>5. LastInstant(to.at) \in Int
          BY <5>2 DEF LastInstant
        <5> QED
          BY <4>2, <5>2, <5>4, <5>5
      <4> QED
        BY <4>1, <4>2
    <3>5. summary.status = 200 /\ summary.totals = UsageSummary(records, Midnight(from.at), instant)
      <4>1. "malformed" \notin {from.kind, to.kind} /\ from.kind # "absent"
        BY <2>3, <2>9
      <4> HIDE DEF instant
      <4> QED
        BY <2>s, <3>2, <3>3, <3>4, <4>1
    <3>6. ASSUME NEW i \in DOMAIN records
          PROVE  DayOf(records[i].at) \in daily.start .. daily.end
                   <=> Midnight(from.at) <= records[i].at /\ records[i].at <= instant
      <4> DEFINE x == records[i].at
      <4>1. x \in Int /\ x <= now
        BY <2>1, <2>2, <3>1
      <4> HIDE DEF x
      <4>2. DayOf(x) \in Int /\ DayOf(x) <= today
        <5>i. now \in Int /\ today \in Int /\ today + 1 \in Int /\ DayOf(now) <= today
          BY <2>1, <2>5 DEF today
        <5>1. now < Midnight(today + 1)
          BY <5>i, DayEnds
        <5>2. Midnight(today + 1) \in Int
          BY <5>i, MidnightIsInstant
        <5>3. x < Midnight(today + 1)
          BY <2>1, <4>1, <5>1, <5>2
        <5> QED
          BY <5>i, <4>1, <5>3, DayBefore
      <4>3. Midnight(from.at) <= x <=> from.at <= DayOf(x)
        BY <2>1, <4>1, DayBegins
      <4>4. x <= instant <=> DayOf(x) <= daily.end
        <5>1. CASE to.kind = "absent"
          BY <2>3, <2>5, <4>1, <4>2, <5>1
        <5>2. CASE to.kind # "absent"
          <6>1. x <= LastInstant(to.at) <=> DayOf(x) <= to.at
            BY <2>1, <4>1, LastOfDay
          <6> QED
            BY <2>1, <2>3, <2>5, <4>2, <5>2, <6>1
        <5> QED
          BY <5>1, <5>2
      <4>5. daily.start = from.at
        BY <2>3, <2>9
      <4>6. DayOf(x) \in daily.start .. daily.end <=> Midnight(from.at) <= x /\ x <= instant
        BY <2>3, <4>2, <4>3, <4>4, <4>5
      <4> QED
        BY <4>6 DEF x
    <3>7. heard = within
      BY <2>w, <3>6
    <3>8. UsageSummary(records, Midnight(from.at), instant) = Sums(records, heard)
      BY DEF UsageSummary
    <3> QED
      BY <2>4, <3>5, <3>7, <3>8
  <2> QED
    BY <2>6, <2>7, <2>8, <2>9 DEF now, from, to, today, within
<1> QED
  BY <1>1, UsageInvHolds, PTL

(***************************************************************************)
(* The vectors of the texts                                                *)
(***************************************************************************)

\* The vectors a reply carries are put in the order of the inputs they name, when it names
\* every input once.
LEMMA RankOfIndex ==
  ASSUME NEW n \in Nat, NEW f \in [1 .. n -> 1 .. n], \A i, j \in 1 .. n : f[i] = f[j] => i = j,
         NEW i \in 1 .. n
  PROVE  Cardinality({j \in 1 .. n : f[j] < f[i]}) = f[i] - 1
<1> DEFINE before == {j \in 1 .. n : f[j] < f[i]}
           m == f[i] - 1
           g == [j \in before |-> f[j]]
<1>1. IsFiniteSet(1 .. n) /\ IsFiniteSet(1 .. m) /\ Cardinality(1 .. m) = m /\ m \in Nat
  <2>1. 1 \in Int /\ n \in Int /\ m \in Int /\ m >= 0
    OBVIOUS
  <2> HIDE DEF m
  <2> QED
    BY <2>1, FS_Interval
<1>2. f \in Surjection(1 .. n, 1 .. n)
  <2>1. f \in Injection(1 .. n, 1 .. n)
    BY DEF Injection, IsInjective
  <2> QED
    BY <1>1, <2>1, FS_Injection
<1>3. \A k \in 1 .. n : \E j \in 1 .. n : f[j] = k
  BY <1>2 DEF Surjection
<1>4. g \in Injection(before, 1 .. m) /\ g \in Surjection(before, 1 .. m)
  <2>1. g \in [before -> 1 .. m]
    OBVIOUS
  <2>2. \A j, k \in before : g[j] = g[k] => j = k
    OBVIOUS
  <2>3. ASSUME NEW k \in 1 .. m PROVE \E j \in before : g[j] = k
    <3>1. k \in 1 .. n /\ k < f[i]
      OBVIOUS
    <3>2. PICK j \in 1 .. n : f[j] = k
      BY <1>3, <3>1
    <3>3. j \in before
      BY <3>1, <3>2
    <3> HIDE DEF before
    <3> QED
      BY <3>2, <3>3
  <2> HIDE DEF before, m, g
  <2> QED
    BY <2>1, <2>2, <2>3 DEF Injection, IsInjective, Surjection
<1> HIDE DEF before, m, g
<1> QED
  BY <1>1, <1>4, FS_Injection DEF before, m

Ordered(entries, f) == \A k \in DOMAIN entries : entries[k].index = f[k] - 1

Permutes(f, n) == f \in [1 .. n -> 1 .. n] /\ \A i, j \in 1 .. n : f[i] = f[j] => i = j
Follows(vectors, entries, f, n) ==
  /\ vectors = [k \in 1 .. n |-> vectors[k]]
  /\ \A k \in 1 .. n : \E i \in 1 .. n : f[i] = k /\ vectors[k] = entries[i].embedding

LEMMA ByIndexFollowsInputs ==
  ASSUME NEW n \in Nat, NEW f, Permutes(f, n),
         NEW entries, DOMAIN entries = 1 .. n, Ordered(entries, f)
  PROVE  Follows(ByIndex(entries), entries, f, n)
<1> DEFINE before(i) == {j \in DOMAIN entries :
                      \/ entries[j].index < entries[i].index
                      \/ entries[j].index = entries[i].index /\ j < i}
           at(k) == CHOOSE i \in DOMAIN entries : Cardinality(before(i)) = k - 1
<1>p. f \in [1 .. n -> 1 .. n] /\ \A i, j \in 1 .. n : f[i] = f[j] => i = j
  BY DEF Permutes
<1>1. ByIndex(entries) = [k \in DOMAIN entries |-> entries[at(k)].embedding]
  BY DEF ByIndex
<1>o. \A k \in 1 .. n : entries[k].index = f[k] - 1 /\ f[k] \in 1 .. n
  BY <1>p DEF Ordered
<1>2. ASSUME NEW i \in 1 .. n PROVE Cardinality(before(i)) = f[i] - 1
  <2> DEFINE lower == {j \in 1 .. n : f[j] < f[i]}
  <2>1. ASSUME NEW j \in 1 .. n
        PROVE  (entries[j].index < entries[i].index \/ (entries[j].index = entries[i].index /\ j < i)) <=> f[j] < f[i]
    <3> DEFINE a == f[j]
               b == f[i]
               c == entries[j].index
               d == entries[i].index
    <3>1. c = a - 1 /\ d = b - 1 /\ a \in Int /\ b \in Int /\ (a = b => i = j) /\ i \in Int /\ j \in Int
      BY <1>o, <1>p
    <3> HIDE DEF a, b, c, d
    <3>2. (c < d \/ (c = d /\ j < i)) <=> a < b
      BY <3>1
    <3> QED
      BY <3>2 DEF a, b, c, d
  <2>2. before(i) = lower
    <3>1. before(i) = {j \in 1 .. n : entries[j].index < entries[i].index
                                      \/ (entries[j].index = entries[i].index /\ j < i)}
      OBVIOUS
    <3> QED
      BY <2>1, <3>1
  <2>3. Cardinality(lower) = f[i] - 1
    BY <1>p, RankOfIndex
  <2> HIDE DEF before, lower
  <2> QED
    BY <2>2, <2>3
<1>3. \A k \in 1 .. n : \E i \in 1 .. n : f[i] = k
  <2>1. IsFiniteSet(1 .. n)
    BY FS_Interval
  <2>2. f \in Injection(1 .. n, 1 .. n)
    BY <1>p DEF Injection, IsInjective
  <2>3. f \in Surjection(1 .. n, 1 .. n)
    BY <2>1, <2>2, FS_Injection
  <2> QED
    BY <2>3 DEF Surjection
<1>4. ASSUME NEW k \in 1 .. n PROVE at(k) \in 1 .. n /\ f[at(k)] = k
  <2>1. PICK i \in 1 .. n : f[i] = k
    BY <1>3
  <2>2. i \in DOMAIN entries /\ Cardinality(before(i)) = k - 1
    BY <1>2, <2>1
  <2>3. at(k) \in DOMAIN entries /\ Cardinality(before(at(k))) = k - 1
    <3> HIDE DEF before
    <3> QED
      BY <2>2
  <2> HIDE DEF at, before
  <2>4. Cardinality(before(at(k))) = f[at(k)] - 1 /\ f[at(k)] \in Int
    BY <1>2, <1>p, <2>3
  <2> QED
    BY <2>3, <2>4
<1> HIDE DEF at
<1>5. \A k \in 1 .. n : at(k) \in 1 .. n /\ f[at(k)] = k /\ ByIndex(entries)[k] = entries[at(k)].embedding
  BY <1>1, <1>4
<1>6. ByIndex(entries) = [k \in 1 .. n |-> ByIndex(entries)[k]]
  BY <1>1
<1> QED
  BY <1>5, <1>6 DEF Follows

LEMMA SameNumbers ==
  ASSUME NEW a \in Nat, NEW b \in Nat, 1 .. a = 1 .. b
  PROVE  a = b
OBVIOUS

\* Whatever the indexes are, repeated ones included, each place is some entry's: the entries
\* before one in the order of index and arrival are fewer than those before a later one.
LEMMA FewerBefore ==
  ASSUME NEW m \in Nat, NEW before, \A i \in 1 .. m : before[i] \in SUBSET (1 .. m),
         \A i \in 1 .. m : i \notin before[i],
         NEW i \in 1 .. m, NEW j \in 1 .. m, i \in before[j], before[i] \subseteq before[j]
  PROVE  Cardinality(before[i]) # Cardinality(before[j])
<1> DEFINE x == before[i]
           y == before[j]
<1>1. x \subseteq y /\ i \in y /\ i \notin x /\ y \subseteq 1 .. m
  OBVIOUS
<1> HIDE DEF x, y
<1>2. IsFiniteSet(y)
  <2>1. IsFiniteSet(1 .. m)
    BY FS_Interval
  <2> QED
    BY <1>1, <2>1, FS_Subset
<1>3. Cardinality(x) <= Cardinality(y) /\ (Cardinality(x) = Cardinality(y) => x = y)
  BY <1>1, <1>2, FS_Subset
<1> QED
  BY <1>1, <1>3 DEF x, y

LEMMA EveryPlaceTaken ==
  ASSUME NEW m \in Nat, NEW before, \A i \in 1 .. m : before[i] \in SUBSET (1 .. m),
         \A i \in 1 .. m : i \notin before[i],
         \A i, j \in 1 .. m : i # j => \/ i \in before[j] /\ before[i] \subseteq before[j]
                                       \/ j \in before[i] /\ before[j] \subseteq before[i],
         NEW k \in 1 .. m
  PROVE  \E i \in 1 .. m : Cardinality(before[i]) = k - 1
<1> DEFINE f == [i \in 1 .. m |-> Cardinality(before[i]) + 1]
<1>1. IsFiniteSet(1 .. m) /\ Cardinality(1 .. m) = m
  <2>1. 1 \in Int /\ m \in Int /\ m >= 0
    OBVIOUS
  <2> QED
    BY <2>1, FS_Interval
<1>2. ASSUME NEW i \in 1 .. m PROVE Cardinality(before[i]) \in Nat /\ Cardinality(before[i]) < m
  <2> DEFINE x == before[i]
             y == 1 .. m
  <2>1. x \subseteq y /\ x # y
    OBVIOUS
  <2>2. IsFiniteSet(y) /\ Cardinality(y) = m
    BY <1>1
  <2> HIDE DEF x, y
  <2>3. IsFiniteSet(x) /\ Cardinality(x) <= m /\ Cardinality(x) # m
    BY <2>1, <2>2, FS_Subset
  <2>4. Cardinality(x) \in Nat
    BY <2>3, FS_CardinalityType
  <2>5. Cardinality(x) < m
    BY <2>3, <2>4
  <2> QED
    BY <2>4, <2>5 DEF x
<1>3. ASSUME NEW i \in 1 .. m, NEW j \in 1 .. m, i # j PROVE Cardinality(before[i]) # Cardinality(before[j])
  <2>1. CASE i \in before[j] /\ before[i] \subseteq before[j]
    BY <2>1, FewerBefore
  <2>2. CASE j \in before[i] /\ before[j] \subseteq before[i]
    BY <2>2, FewerBefore
  <2> QED
    BY <1>3, <2>1, <2>2
<1>4. f \in [1 .. m -> 1 .. m]
  BY <1>2
<1>5. \A i, j \in 1 .. m : f[i] = f[j] => i = j
  <2> SUFFICES ASSUME NEW i \in 1 .. m, NEW j \in 1 .. m, i # j PROVE f[i] # f[j]
    OBVIOUS
  <2>1. f[i] = Cardinality(before[i]) + 1 /\ f[j] = Cardinality(before[j]) + 1
    OBVIOUS
  <2>2. Cardinality(before[i]) \in Nat /\ Cardinality(before[j]) \in Nat
    BY <1>2
  <2>3. Cardinality(before[i]) # Cardinality(before[j])
    BY <1>3
  <2> HIDE DEF f
  <2> QED
    BY <2>1, <2>2, <2>3
<1>6. f \in Surjection(1 .. m, 1 .. m)
  <2> HIDE DEF f
  <2>1. f \in Injection(1 .. m, 1 .. m)
    BY <1>4, <1>5 DEF Injection, IsInjective
  <2> QED
    BY <1>1, <2>1, FS_Injection
<1>7. PICK i \in 1 .. m : f[i] = k
  <2> HIDE DEF f
  <2> QED
    BY <1>6 DEF Surjection
<1>8. f[i] = Cardinality(before[i]) + 1 /\ Cardinality(before[i]) \in Nat
  BY <1>2
<1> HIDE DEF f
<1> QED
  BY <1>7, <1>8

Carries(entries, m, S) ==
  DOMAIN entries = 1 .. m /\ \A i \in 1 .. m : entries[i].index \in Int /\ entries[i].embedding \in S

LEMMA ByIndexVectors ==
  ASSUME NEW m \in Nat, NEW entries, NEW S, Carries(entries, m, S)
  PROVE  /\ ByIndex(entries) = [k \in 1 .. m |-> ByIndex(entries)[k]]
         /\ \A k \in 1 .. m : ByIndex(entries)[k] \in S
<1> DEFINE before(i) == {j \in DOMAIN entries :
                      \/ entries[j].index < entries[i].index
                      \/ entries[j].index = entries[i].index /\ j < i}
           at(k) == CHOOSE i \in DOMAIN entries : Cardinality(before(i)) = k - 1
           places == [i \in 1 .. m |-> before(i)]
<1>c. DOMAIN entries = 1 .. m /\ \A i \in 1 .. m : entries[i].index \in Int /\ entries[i].embedding \in S
  BY DEF Carries
<1>1. ByIndex(entries) = [k \in DOMAIN entries |-> entries[at(k)].embedding]
  BY DEF ByIndex
<1>2. \A i, j \in 1 .. m : j \in places[i] <=>
        (entries[j].index < entries[i].index \/ (entries[j].index = entries[i].index /\ j < i))
  BY <1>c
<1>3. \A i \in 1 .. m : places[i] = before(i) /\ places[i] \in SUBSET (1 .. m)
  BY <1>c
<1> HIDE DEF places, before
<1>4. \A i \in 1 .. m : entries[i].index \in Int
  BY <1>c
<1>5. \A i \in 1 .. m : i \notin places[i]
  BY <1>2, <1>4
<1>6. ASSUME NEW i \in 1 .. m, NEW j \in 1 .. m, i \in places[j] PROVE places[i] \subseteq places[j]
  <2> SUFFICES ASSUME NEW x \in places[i] PROVE x \in places[j]
    OBVIOUS
  <2>1. x \in 1 .. m
    BY <1>3
  <2> DEFINE a == entries[x].index
             b == entries[i].index
             c == entries[j].index
  <2>2. a \in Int /\ b \in Int /\ c \in Int
    BY <1>4, <2>1
  <2>3. a < b \/ (a = b /\ x < i)
    BY <1>2, <2>1
  <2>4. b < c \/ (b = c /\ i < j)
    BY <1>2, <1>6
  <2>5. x \in places[j] <=> (a < c \/ (a = c /\ x < j))
    BY <1>2, <2>1
  <2> HIDE DEF a, b, c
  <2>6. a < c \/ (a = c /\ x < j)
    BY <2>1, <2>2, <2>3, <2>4
  <2> QED
    BY <2>5, <2>6
<1>7. ASSUME NEW i \in 1 .. m, NEW j \in 1 .. m, i # j PROVE i \in places[j] \/ j \in places[i]
  <2> DEFINE b == entries[i].index
             c == entries[j].index
  <2>1. b \in Int /\ c \in Int
    BY <1>4
  <2>2. (i \in places[j] <=> (b < c \/ (b = c /\ i < j))) /\ (j \in places[i] <=> (c < b \/ (c = b /\ j < i)))
    BY <1>2
  <2> HIDE DEF b, c
  <2> QED
    BY <1>7, <2>1, <2>2
<1>8. ASSUME NEW k \in 1 .. m PROVE at(k) \in 1 .. m
  <2>1. \A i, j \in 1 .. m : i # j => \/ i \in places[j] /\ places[i] \subseteq places[j]
                                      \/ j \in places[i] /\ places[j] \subseteq places[i]
    BY <1>6, <1>7
  <2>2. \E i \in 1 .. m : Cardinality(places[i]) = k - 1
    BY <1>3, <1>5, <2>1, EveryPlaceTaken
  <2>3. \E i \in DOMAIN entries : Cardinality(before(i)) = k - 1
    BY <1>3, <1>c, <2>2
  <2> QED
    BY <1>c, <2>3
<1> HIDE DEF at
<1>9. \A k \in 1 .. m : ByIndex(entries)[k] = entries[at(k)].embedding
  BY <1>1, <1>c
<1>10. \A k \in 1 .. m : ByIndex(entries)[k] \in S
  BY <1>8, <1>9, <1>c
<1>11. ByIndex(entries) = [k \in 1 .. m |-> ByIndex(entries)[k]]
  BY <1>1, <1>c
<1> QED
  BY <1>10, <1>11

Vector == [of : Nat, dim : Int]
Entry == [index : Int, embedding : Vector]
Status == {Unreachable, 200} \cup 400 .. 599
Reply == [status : Status, entries : Seq(Entry)]
Errors == {"none", Transient, ConfigurationError, RequestError, CountError, DimensionError}
Outcome == [error : Errors, vectors : Seq(Vector)]

Local(backend) == backend = "ollama"
Keyed(backend) == backend \in {"voyage", "ollama"}
Fine(outcome) == outcome.error = "none"
Whole(batch, reply) == reply.status = 200 /\ Len(reply.entries) = Len(batch)
\* No index twice, and none of no input.
Distinct(batch, reply) ==
  \A i, j \in DOMAIN reply.entries :
    /\ reply.entries[i].index < Len(batch)
    /\ reply.entries[i].index = reply.entries[j].index => i = j

\* The inputs a reply names, in the order it names them.
Names(f, k, backend, batch, reply) ==
  /\ f \in [1 .. k -> 1 .. Len(batch) + 1]
  /\ Local(backend) => \A i \in 1 .. k : f[i] = i
  /\ DOMAIN reply.entries = 1 .. k
  /\ \A j \in 1 .. k : /\ reply.entries[j].index = f[j] - 1
                       /\ f[j] <= Len(batch) => reply.entries[j].embedding.of = batch[f[j]]

\* A reply the provider or the local server gives to a batch.
Sent(backend, batch, reply) ==
  /\ reply \in Reply
  /\ reply.status = 200 => \E k \in Nat : \E f : Names(f, k, backend, batch, reply)

\* The error a call raises for its reply.
Verdict(backend, batch, reply) ==
  IF Local(backend) THEN IF reply.status = 200 THEN "none" ELSE Transient
  ELSE IF ~Keyed(backend) THEN ConfigurationError
  ELSE IF reply.status = Unreachable THEN Transient
  ELSE IF reply.status # 200 THEN Refusal(reply.status)
  ELSE IF Len(reply.entries) # Len(batch) THEN CountError
  ELSE "none"

\* The vectors are those of the first texts of a batch, when they are as many as it has.
Own(vectors, batch) ==
  /\ Len(vectors) <= Len(batch)
  /\ Len(vectors) = Len(batch) => \A i \in 1 .. Len(batch) : vectors[i].of = batch[i]

LEMMA RaisedOutcome ==
  ASSUME NEW error \in Errors \ {"none"}
  PROVE  /\ Raised(error) \in Outcome /\ ~Fine(Raised(error))
         /\ Raised(error).error = error
<1>1. <<>> \in Seq(Vector)
  BY EmptySeq
<1> QED
  BY <1>1 DEF Raised, Outcome, Fine

LEMMA ReturnedOutcome ==
  ASSUME NEW vectors \in Seq(Vector)
  PROVE  /\ Returned(vectors) \in Outcome /\ Fine(Returned(vectors))
         /\ Returned(vectors).vectors = vectors
<1>1. "none" \in Errors
  BY DEF Errors
<1> HIDE DEF Errors
<1> QED
  BY <1>1 DEF Returned, Outcome, Fine

LEMMA ErrorsAre ==
  {Transient, ConfigurationError, RequestError, CountError, DimensionError} \subseteq Errors \ {"none"}
BY DEF Errors, Transient, ConfigurationError, RequestError, CountError, DimensionError

LEMMA RefusalIsError ==
  ASSUME NEW status
  PROVE  Refusal(status) \in Errors \ {"none"}
BY ErrorsAre DEF Refusal

\* The first test a reply fails names the error of its call.
LEMMA EmbedVerdict ==
  ASSUME NEW backend, NEW batch, batch # <<>>, NEW reply,
         NEW outcome, outcome = Embed(backend, batch, reply)
  PROVE  /\ outcome.error = Verdict(backend, batch, reply)
         /\ ~Fine(outcome) => outcome \in Outcome
         /\ Verdict(backend, batch, reply) \in Errors
<1>1. 200 # Unreachable
  BY DEF Unreachable
<1>2. CASE Local(backend)
  <2>1. reply.status # 200 => outcome = Raised(Transient)
    BY <1>2 DEF Embed, OllamaEmbed, Local
  <2>2. reply.status = 200 => outcome.error = "none"
    BY <1>2 DEF Embed, OllamaEmbed, Local, Returned
  <2>3. Verdict(backend, batch, reply) = IF reply.status = 200 THEN "none" ELSE Transient
    BY <1>2 DEF Verdict
  <2>4. Transient \in Errors \ {"none"} /\ "none" \in Errors
    BY ErrorsAre DEF Errors
  <2>5. CASE reply.status = 200
    BY <2>2, <2>3, <2>4, <2>5 DEF Fine
  <2>6. CASE reply.status # 200
    BY <2>1, <2>3, <2>4, <2>6, RaisedOutcome
  <2> QED
    BY <2>5, <2>6
<1>3. CASE ~Local(backend) /\ ~Keyed(backend)
  <2>1. outcome = Raised(ConfigurationError)
    BY <1>3 DEF Embed, VoyageEmbed, Local, Keyed
  <2> QED
    BY <1>3, <2>1, RaisedOutcome, ErrorsAre DEF Verdict
<1>4. CASE ~Local(backend) /\ Keyed(backend)
  <2>1. outcome = VoyageEmbed(batch, TRUE, reply)
    BY <1>4 DEF Embed, Local, Keyed
  <2>2. CASE reply.status = 200 /\ Len(reply.entries) = Len(batch)
    <3>1. outcome.error = "none"
      BY <1>1, <2>1, <2>2 DEF VoyageEmbed, Returned
    <3>2. Verdict(backend, batch, reply) = "none"
      BY <1>1, <1>4, <2>2 DEF Verdict
    <3> QED
      BY <3>1, <3>2 DEF Fine, Errors
  <2>3. CASE ~(reply.status = 200 /\ Len(reply.entries) = Len(batch))
    <3>1. Verdict(backend, batch, reply) \in Errors \ {"none"}
      BY <1>1, <1>4, <2>3, ErrorsAre, RefusalIsError DEF Verdict
    <3>2. outcome = Raised(Verdict(backend, batch, reply))
      BY <1>1, <1>4, <2>1, <2>3 DEF VoyageEmbed, Verdict
    <3> QED
      BY <3>1, <3>2, RaisedOutcome
  <2> QED
    BY <2>2, <2>3
<1> QED
  BY <1>2, <1>3, <1>4

\* The inputs a distinct reply names are different inputs of its batch.
DistinctInputs(f, k, entries, n) ==
  /\ f \in [1 .. k -> 1 .. n + 1]
  /\ \A j \in 1 .. k : entries[j].index = f[j] - 1
  /\ \A i, j \in 1 .. k : entries[i].index < n /\ (entries[i].index = entries[j].index => i = j)

LEMMA DistinctNames ==
  ASSUME NEW n \in Nat, NEW k \in Nat, NEW f, NEW entries, DistinctInputs(f, k, entries, n)
  PROVE  /\ f \in [1 .. k -> 1 .. n]
         /\ \A i, j \in 1 .. k : f[i] = f[j] => i = j
<1>0. /\ f \in [1 .. k -> 1 .. n + 1]
      /\ \A j \in 1 .. k : entries[j].index = f[j] - 1
      /\ \A i, j \in 1 .. k : entries[i].index < n /\ (entries[i].index = entries[j].index => i = j)
  BY DEF DistinctInputs
<1>1. ASSUME NEW i \in 1 .. k PROVE f[i] \in 1 .. n
  <2>1. f[i] \in 1 .. n + 1 /\ entries[i].index = f[i] - 1 /\ entries[i].index < n
    BY <1>0
  <2> DEFINE a == f[i]
             b == entries[i].index
  <2>2. a \in 1 .. n + 1 /\ b = a - 1 /\ b < n
    BY <2>1
  <2> HIDE DEF a, b
  <2>3. a \in 1 .. n
    BY <2>2
  <2> QED
    BY <2>3 DEF a
<1>2. \A i, j \in 1 .. k : f[i] = f[j] => i = j
  BY <1>0
<1> QED
  BY <1>0, <1>1, <1>2

\* What one call returns.
Returns(outcome, backend, batch, reply) ==
  /\ outcome \in Outcome
  /\ Fine(outcome) /\ Distinct(batch, reply) => Own(outcome.vectors, batch)
  /\ Keyed(backend) /\ Whole(batch, reply) => Fine(outcome) /\ Len(outcome.vectors) = Len(batch)

LEMMA VectorsOfReply ==
  ASSUME NEW backend, NEW batch \in Seq(Nat), NEW reply, Sent(backend, batch, reply),
         reply.status = 200, NEW vectors,
         vectors = IF Local(backend) THEN [i \in DOMAIN reply.entries |-> reply.entries[i].embedding]
                   ELSE ByIndex(reply.entries),
         Local(backend) \/ Len(reply.entries) = Len(batch)
  PROVE  /\ vectors \in Seq(Vector) /\ Len(vectors) = Len(reply.entries)
         /\ Distinct(batch, reply) => Own(vectors, batch)
<1> DEFINE n == Len(batch)
           m == Len(reply.entries)
<1>n. n \in Nat /\ m \in Nat /\ DOMAIN reply.entries = 1 .. m
      /\ \A i \in 1 .. m : reply.entries[i] \in Entry
  BY LenProperties, ElementOfSeq DEF Sent, Reply
<1>k. PICK k \in Nat : \E f : Names(f, k, backend, batch, reply)
  BY DEF Sent
<1>f. PICK f : Names(f, k, backend, batch, reply)
  BY <1>k
<1>m. k = m
  <2>1. DOMAIN reply.entries = 1 .. k
    BY <1>f DEF Names
  <2> HIDE DEF m
  <2>2. 1 .. k = 1 .. m
    BY <1>n, <2>1
  <2> QED
    BY <1>n, <2>2, SameNumbers
<1>e. /\ f \in [1 .. m -> 1 .. n + 1]
      /\ \A j \in 1 .. m : reply.entries[j].index = f[j] - 1
      /\ \A j \in 1 .. m : f[j] <= n => reply.entries[j].embedding.of = batch[f[j]]
      /\ Local(backend) => \A i \in 1 .. m : f[i] = i
  BY <1>f, <1>m DEF Names
<1>v. \A i \in 1 .. m : reply.entries[i].embedding \in Vector
  BY <1>n DEF Entry
<1>i. \A i \in 1 .. m : reply.entries[i].index \in Int
  BY <1>n DEF Entry
<1>1. /\ vectors = [i \in 1 .. m |-> vectors[i]]
      /\ \A i \in 1 .. m : vectors[i] \in Vector
  <2>1. CASE Local(backend)
    BY <1>n, <1>v, <2>1
  <2>2. CASE ~Local(backend)
    <3>1. vectors = ByIndex(reply.entries)
      BY <2>2
    <3>2. Carries(reply.entries, m, Vector)
      BY <1>n, <1>v, <1>i DEF Carries
    <3> DEFINE es == reply.entries
               x == ByIndex(es)
    <3> HIDE DEF m, es
    <3>3. Carries(es, m, Vector) /\ m \in Nat
      BY <1>n, <3>2 DEF es
    <3>4. x = [i \in 1 .. m |-> x[i]] /\ \A i \in 1 .. m : x[i] \in Vector
      BY <3>3, ByIndexVectors
    <3>5. vectors = x
      BY <3>1 DEF es
    <3> HIDE DEF x
    <3> QED
      BY <3>4, <3>5
  <2> QED
    BY <2>1, <2>2
<1>2. ASSUME Distinct(batch, reply)
      PROVE  m <= n /\ \A i \in 1 .. m : vectors[i].of = batch[i]
  <2>1. /\ f \in [1 .. m -> 1 .. n]
        /\ \A i, j \in 1 .. m : f[i] = f[j] => i = j
    <3>1. \A i, j \in 1 .. m : /\ reply.entries[i].index < n
                               /\ reply.entries[i].index = reply.entries[j].index => i = j
      <4>1. \A i, j \in DOMAIN reply.entries :
              /\ reply.entries[i].index < n
              /\ reply.entries[i].index = reply.entries[j].index => i = j
        BY <1>2, Zenon DEF Distinct
      <4>2. DOMAIN reply.entries = 1 .. m
        BY <1>n
      <4> HIDE DEF n, m
      <4> QED
        BY <4>1, <4>2
    <3> HIDE DEF n, m
    <3>2. DistinctInputs(f, m, reply.entries, n)
      BY <1>e, <3>1 DEF DistinctInputs, n, m
    <3> QED
      BY <1>n, <3>2, DistinctNames
  <2>2. \A j \in 1 .. m : f[j] \in 1 .. n /\ reply.entries[j].embedding.of = batch[f[j]]
    <3> HIDE DEF n, m
    <3>1. \A j \in 1 .. m : f[j] \in 1 .. n
      BY <2>1
    <3>2. \A j \in 1 .. m : f[j] <= n
      BY <1>n, <3>1
    <3>3. \A j \in 1 .. m : f[j] <= n => reply.entries[j].embedding.of = batch[f[j]]
      BY <1>e DEF m, n
    <3> QED
      BY <3>1, <3>2, <3>3
  <2>3. CASE Local(backend)
    <3>1. \A i \in 1 .. m : f[i] = i
      BY <1>e, <2>3
    <3>2. \A i \in 1 .. m : vectors[i] = reply.entries[i].embedding
      BY <1>n, <2>3
    <3> HIDE DEF n, m
    <3>3. m <= n
      <4>1. CASE m = 0
        BY <1>n, <4>1
      <4>2. CASE m # 0
        <5>1. m \in 1 .. m
          BY <1>n, <4>2
        <5>2. f[m] = m /\ f[m] \in 1 .. n
          BY <2>1, <3>1, <5>1
        <5> QED
          BY <1>n, <5>2
      <4> QED
        BY <4>1, <4>2
    <3>4. ASSUME NEW i \in 1 .. m PROVE vectors[i].of = batch[i]
      <4>1. f[i] = i /\ reply.entries[i].embedding.of = batch[f[i]]
        BY <2>2, <3>1
      <4> QED
        BY <3>2, <4>1
    <3> QED
      BY <3>3, <3>4
  <2>4. CASE ~Local(backend)
    <3>1. m = n
      BY <2>4
    <3>2. vectors = ByIndex(reply.entries)
      BY <2>4
    <3> HIDE DEF n, m
    <3>3. Permutes(f, n)
      BY <2>1, <3>1 DEF Permutes
    <3>4. Ordered(reply.entries, f)
      BY <1>n, <1>e, <3>1 DEF Ordered, m
    <3>5. Follows(vectors, reply.entries, f, n)
      BY <1>n, <3>1, <3>2, <3>3, <3>4, ByIndexFollowsInputs
    <3>6. ASSUME NEW x \in 1 .. n PROVE vectors[x].of = batch[x]
      <4>1. PICK i \in 1 .. n : f[i] = x /\ vectors[x] = reply.entries[i].embedding
        BY <3>5 DEF Follows
      <4> QED
        BY <2>2, <3>1, <4>1
    <3> QED
      BY <1>n, <3>1, <3>6
  <2> QED
    BY <2>3, <2>4
<1>3. vectors \in Seq(Vector) /\ Len(vectors) = m
  <2> HIDE DEF m
  <2>1. vectors \in [1 .. m -> Vector]
    BY <1>1
  <2>2. DOMAIN vectors = 1 .. m
    BY <2>1
  <2>3. vectors \in Seq(Vector)
    BY <1>n, <2>1, SeqDef
  <2>4. DOMAIN vectors = 1 .. Len(vectors) /\ Len(vectors) \in Nat
    BY <2>3, LenProperties
  <2>5. 1 .. Len(vectors) = 1 .. m
    BY <2>2, <2>4
  <2>6. Len(vectors) = m
    BY <1>n, <2>4, <2>5, SameNumbers
  <2> QED
    BY <2>3, <2>6
<1>4. Distinct(batch, reply) => Own(vectors, batch)
  <2> SUFFICES ASSUME Distinct(batch, reply) PROVE Own(vectors, batch)
    OBVIOUS
  <2>1. m <= n /\ Len(vectors) = m /\ \A i \in 1 .. m : vectors[i].of = batch[i]
    BY <1>2, <1>3
  <2> HIDE DEF m
  <2> QED
    BY <2>1 DEF Own
<1> QED
  BY <1>3, <1>4

LEMMA EmbedOwn ==
  ASSUME NEW backend, NEW batch \in Seq(Nat), batch # <<>>, NEW reply, Sent(backend, batch, reply),
         NEW outcome, outcome = Embed(backend, batch, reply)
  PROVE  Returns(outcome, backend, batch, reply)
<1> DEFINE n == Len(batch)
           m == Len(reply.entries)
           vectors == IF Local(backend) THEN [i \in DOMAIN reply.entries |-> reply.entries[i].embedding]
                      ELSE ByIndex(reply.entries)
<1>1. /\ outcome.error = Verdict(backend, batch, reply)
      /\ ~Fine(outcome) => outcome \in Outcome
  BY EmbedVerdict
<1>2. 200 # Unreachable /\ \A status : Refusal(status) # "none"
  BY RefusalIsError DEF Unreachable
<1>3. Fine(outcome) <=> reply.status = 200 /\ (Local(backend) \/ (Keyed(backend) /\ m = n))
  BY <1>1, <1>2, ErrorsAre DEF Verdict, Fine
<1>4. ASSUME Fine(outcome)
      PROVE  /\ outcome \in Outcome /\ Len(outcome.vectors) = m
             /\ Distinct(batch, reply) => Own(outcome.vectors, batch)
  <2>1. outcome = Returned(vectors)
    BY <1>2, <1>3, <1>4 DEF Embed, OllamaEmbed, VoyageEmbed, Local, Keyed
  <2>2. Local(backend) \/ Len(reply.entries) = Len(batch)
    BY <1>3, <1>4
  <2>3. reply.status = 200
    BY <1>3, <1>4
  <2>4. vectors = IF Local(backend) THEN [i \in DOMAIN reply.entries |-> reply.entries[i].embedding]
                  ELSE ByIndex(reply.entries)
    OBVIOUS
  <2> HIDE DEF vectors
  <2>5. /\ vectors \in Seq(Vector) /\ Len(vectors) = Len(reply.entries)
        /\ Distinct(batch, reply) => Own(vectors, batch)
    BY <2>2, <2>3, <2>4, VectorsOfReply
  <2> QED
    BY <2>1, <2>5, ReturnedOutcome
<1>5. Keyed(backend) /\ Whole(batch, reply) => Fine(outcome) /\ m = n
  BY <1>3 DEF Whole
<1> HIDE DEF m, n
<1> QED
  BY <1>1, <1>4, <1>5 DEF Returns, n

\* One call more.
Joining(backend, texts, size, replies, done, k) ==
  LET reply == Embed(backend, Batch(texts, size, k), replies[k])
  IN IF done.error # "none" THEN done
     ELSE IF reply.error # "none" THEN reply
     ELSE Returned(done.vectors \o reply.vectors)

\* All of them, not validated.
EmbedAll(backend, texts, size, replies) ==
  LET step(done, k) ==
        LET reply == Embed(backend, Batch(texts, size, k), replies[k])
        IN IF done.error # "none" THEN done
           ELSE IF reply.error # "none" THEN reply
           ELSE Returned(done.vectors \o reply.vectors)
  IN FoldLeft(step, Returned(<<>>), [k \in 1 .. Batches(texts, size) |-> k])

Ended(all, texts, dim) == IF all.error # "none" THEN all ELSE ValidateVectors(all.vectors, Len(texts), dim)

\* A document's texts are embedded batch by batch.
LEMMA EmbedFold ==
  ASSUME NEW backend, NEW texts, NEW size, NEW replies, Batches(texts, size) \in Nat,
         NEW ks, ks = [k \in 1 .. Batches(texts, size) |-> k],
         \A done \in Outcome, k \in 1 .. Batches(texts, size) : Joining(backend, texts, size, replies, done, k) \in Outcome
  PROVE  \E r : /\ r[0] = Returned(<<>>) /\ r[Len(ks)] = EmbedAll(backend, texts, size, replies)
                /\ \A k \in 0 .. Len(ks) - 1 : r[k + 1] = Joining(backend, texts, size, replies, r[k], ks[k + 1])
<1> DEFINE St == Outcome
           El == 1 .. Batches(texts, size)
           seq == ks
           n == Len(seq)
           F == [x \in St \X El |-> Joining(backend, texts, size, replies, x[1], x[2])]
           Fold(f) == f = [u \in SUBSET (1 .. n) |->
                             IF u = {} THEN Returned(<<>>) ELSE Joining(backend, texts, size, replies, f[u \ {Max(u)}], seq[Max(u)])]
           it == CHOOSE f : Fold(f)
           r == [k \in 0 .. n |-> it[1 .. k]]
<1>s. seq \in Seq(El)
  <2>1. ks \in [1 .. Batches(texts, size) -> 1 .. Batches(texts, size)]
    OBVIOUS
  <2> QED
    BY <2>1, SeqDef
<1>n. n \in Nat /\ DOMAIN seq = 1 .. n /\ \A i \in 1 .. n : seq[i] \in El
  BY <1>s, LenProperties, ElementOfSeq
<1>3. EmbedAll(backend, texts, size, replies) = it[1 .. n]
  BY <1>n DEF EmbedAll, Joining, FoldLeft, MapThenFoldSet
<1> HIDE DEF seq
<1>1. \E f : Fold(f)
  <2>1. F \in [St \X El -> St] /\ Returned(<<>>) \in St
    <3>1. Returned(<<>>) \in St
      BY EmptySeq, ReturnedOutcome
    <3>2. ASSUME NEW done \in St, NEW x \in El PROVE Joining(backend, texts, size, replies, done, x) \in St
      BY Zenon
    <3> HIDE DEF St, El
    <3> QED
      BY <3>1, <3>2
  <2> HIDE DEF F, St, El
  <2>2. PICK f \in [SUBSET (1 .. n) -> St] : Iterates(f, F, Returned(<<>>), seq, n)
    BY <1>s, <2>1, IterationExists
  <2>3. ASSUME NEW u \in SUBSET (1 .. n), u # {}
        PROVE  F[<<f[u \ {Max(u)}], seq[Max(u)]>>] = Joining(backend, texts, size, replies, f[u \ {Max(u)}], seq[Max(u)])
    <3>1. Max(u) \in u /\ u \ {Max(u)} \in SUBSET (1 .. n)
      BY <1>n, <2>3, LargestOf
    <3>2. f[u \ {Max(u)}] \in St /\ seq[Max(u)] \in El
      BY <1>n, <3>1
    <3> QED
      BY <3>2 DEF F
  <2>4. Fold(f)
    BY <2>2, <2>3 DEF Iterates
  <2> QED
    BY <2>4
<1>2. Fold(it)
  BY <1>1
<1> HIDE DEF it, n
<1>4. r[0] = Returned(<<>>)
  <2>1. 0 \in 0 .. n /\ {} \in SUBSET (1 .. n) /\ 1 .. 0 = {}
    BY <1>n, FirstNumbers
  <2>2. it[{}] = Returned(<<>>)
    BY <1>2, <2>1
  <2> QED
    BY <2>1, <2>2
<1>5. ASSUME NEW k \in 0 .. n - 1 PROVE r[k + 1] = Joining(backend, texts, size, replies, r[k], seq[k + 1])
  <2>1. k \in Nat /\ k \in 0 .. n /\ k + 1 \in 0 .. n /\ 1 .. (k + 1) \in SUBSET (1 .. n)
    BY <1>n
  <2>2. 1 .. (k + 1) # {} /\ Max(1 .. (k + 1)) = k + 1 /\ (1 .. (k + 1)) \ {k + 1} = 1 .. k
    BY <2>1, FirstNumbers
  <2>3. it[1 .. (k + 1)] = Joining(backend, texts, size, replies, it[1 .. k], seq[k + 1])
    BY <1>2, <2>1, <2>2
  <2> QED
    BY <2>1, <2>3
<1>6. r[n] = EmbedAll(backend, texts, size, replies)
  BY <1>n, <1>3
<1> HIDE DEF r
<1> QED
  BY <1>4, <1>5, <1>6 DEF n, seq

LEMMA EmbedEnds ==
  ASSUME NEW backend, NEW texts, NEW size, NEW dim, NEW replies
  PROVE  EmbedInBatches(backend, texts, size, dim, replies) = Ended(EmbedAll(backend, texts, size, replies), texts, dim)
BY DEF EmbedAll, EmbedInBatches, Ended, FoldLeft, MapThenFoldSet

\* The batches cover the texts: none begins after the last text, the last one ends with it.
LEMMA BatchesCover ==
  ASSUME NEW n \in Nat, NEW size \in Nat \ {0}, NEW b, b = (n + size - 1) \div size
  PROVE  /\ b \in Nat /\ b * size \in Nat /\ n <= b * size
         /\ \A k \in 1 .. b : (k - 1) * size \in Nat /\ k * size \in Nat
                              /\ (k - 1) * size < n /\ k * size = (k - 1) * size + size
<1> DEFINE x == n + size - 1
<1>1. x \in Nat /\ x \in Int
  OBVIOUS
<1>2. b \in Int /\ b * size <= x /\ x < (b + 1) * size
  <2>1. b = x \div size
    OBVIOUS
  <2> HIDE DEF x
  <2> QED
    BY <1>1, <2>1, DivisionBounds
<1>3. (b + 1) * size = b * size + size /\ b * size \in Int
  BY <1>2
<1>4. n <= b * size
  BY <1>2, <1>3
<1>5. b \in Nat
  <2>1. CASE b < 0
    <3>1. b + 1 \in Int /\ 0 \in Int /\ b + 1 <= 0
      BY <1>2, <2>1
    <3>2. (b + 1) * size <= 0 * size
      BY <3>1, ProductOrder
    <3> QED
      BY <1>1, <1>2, <1>3, <3>2
  <2> QED
    BY <1>2, <2>1
<1>6. ASSUME NEW k \in 1 .. b
      PROVE  (k - 1) * size \in Nat /\ k * size \in Nat /\ (k - 1) * size < n /\ k * size = (k - 1) * size + size
  <2>1. k - 1 \in Nat /\ k \in Nat /\ k <= b /\ k \in Int /\ b \in Int
    BY <1>5
  <2>2. k * size <= b * size
    BY <2>1, ProductOrder
  <2>3. k * size = (k - 1) * size + size /\ (k - 1) * size \in Nat
    BY <2>1
  <2> QED
    BY <1>2, <1>3, <2>2, <2>3
<1>7. b * size \in Nat
  BY <1>5
<1> QED
  BY <1>4, <1>5, <1>6, <1>7

End(n, size, k) == IF k * size <= n THEN k * size ELSE n

LEMMA BatchIs ==
  ASSUME NEW texts \in Seq(Nat), NEW size \in Nat \ {0}, NEW k \in 1 .. Batches(texts, size)
  PROVE  LET n == Len(texts)
             from == End(n, size, k - 1)
             until == End(n, size, k)
             batch == Batch(texts, size, k)
         IN  /\ from \in 0 .. n /\ until \in 0 .. n /\ from <= until
             /\ batch \in Seq(Nat) /\ batch # <<>> /\ Len(batch) = until - from
             /\ \A i \in 1 .. until - from : batch[i] = texts[from + i]
<1> DEFINE n == Len(texts)
           from == End(n, size, k - 1)
           until == End(n, size, k)
           low == (k - 1) * size
           high == k * size
           least == Min({k * size, n})
<1>1. n \in Nat /\ \A i \in 1 .. n : texts[i] \in Nat
  BY LenProperties, ElementOfSeq
<1>2. low \in Nat /\ high \in Nat /\ low < n /\ high = low + size
  <2>1. Batches(texts, size) = (n + size - 1) \div size
    BY DEF Batches
  <2> HIDE DEF n
  <2> QED
    BY <1>1, <2>1, BatchesCover
<1>3. from = low /\ until = (IF high <= n THEN high ELSE n)
  BY <1>2 DEF End
<1>m. least = Min({high, n})
  OBVIOUS
<1>4. least = (IF high <= n THEN high ELSE n)
  <2> HIDE DEF n, high, low, least
  <2>1. {high, n} \in SUBSET Int
    BY <1>1, <1>2
  <2>2. \E x \in {high, n} : \A y \in {high, n} : x <= y
    BY <1>1, <1>2
  <2>3. Min({high, n}) \in {high, n} /\ \A y \in {high, n} : Min({high, n}) <= y
    BY <2>2 DEF Min
  <2> QED
    BY <1>1, <1>2, <1>m, <2>3
<1>5. Batch(texts, size, k) = SubSeq(texts, low + 1, least)
  BY DEF Batch
<1> HIDE DEF n, low, high, from, until, least
<1>6. \A i \in (low + 1) .. least : texts[i] \in Nat
  BY <1>1, <1>2, <1>4
<1>7. low + 1 \in Int /\ least \in Int /\ least - (low + 1) + 1 = until - from /\ low + 1 <= least
  BY <1>1, <1>2, <1>3, <1>4
<1>8. /\ SubSeq(texts, low + 1, least) \in Seq(Nat)
      /\ Len(SubSeq(texts, low + 1, least)) = until - from
      /\ \A i \in 1 .. until - from : SubSeq(texts, low + 1, least)[i] = texts[(low + 1) + i - 1]
  BY <1>6, <1>7, SubSeqProperties
<1>9. \A i \in 1 .. until - from : texts[(low + 1) + i - 1] = texts[from + i]
  <2>1. \A i \in 1 .. until - from : (low + 1) + i - 1 = from + i
    BY <1>1, <1>2, <1>3
  <2> QED
    BY <2>1
<1>10. from \in 0 .. n /\ until \in 0 .. n /\ from < until
  BY <1>1, <1>2, <1>3
<1>11. SubSeq(texts, low + 1, least) # <<>>
  <2>1. Len(<<>>) = 0
    OBVIOUS
  <2>2. until - from # 0
    BY <1>1, <1>10
  <2> QED
    BY <1>8, <2>1, <2>2
<1>12. from <= until
  BY <1>1, <1>10
<1> QED
  BY <1>5, <1>8, <1>9, <1>10, <1>11, <1>12 DEF from, until, n

\* Every batch gets a reply.
Answered(backend, texts, size, replies) ==
  /\ texts \in Seq(Nat) /\ size \in Nat \ {0}
  /\ \A k \in 1 .. Batches(texts, size) : Sent(backend, Batch(texts, size, k), replies[k])

AllWhole(texts, size, replies, k) == \A j \in 1 .. k : Whole(Batch(texts, size, j), replies[j])
AllDistinct(texts, size, replies, k) == \A j \in 1 .. k : Distinct(Batch(texts, size, j), replies[j])

Verdicts(backend, texts, size, replies) ==
  [k \in 1 .. Batches(texts, size) |-> Verdict(backend, Batch(texts, size, k), replies[k])]

\* The error is the first verdict of k that is one, or there is none.
Decided(error, verdict, k) ==
  \/ error = "none" /\ \A j \in 1 .. k : verdict[j] = "none"
  \/ error # "none" /\ \E j \in 1 .. k : error = verdict[j] /\ \A i \in 1 .. j - 1 : verdict[i] = "none"

LEMMA DecidedNext ==
  ASSUME NEW k \in Nat \ {0}, NEW verdict, NEW error, Decided(error, verdict, k - 1),
         NEW next, next = IF error = "none" THEN verdict[k] ELSE error
  PROVE  Decided(next, verdict, k)
<1>1. CASE error = "none"
  <2>1. \A j \in 1 .. k - 1 : verdict[j] = "none"
    BY <1>1 DEF Decided
  <2>2. CASE verdict[k] = "none"
    <3>1. \A j \in 1 .. k : j \in 1 .. k - 1 \/ j = k
      OBVIOUS
    <3>2. \A j \in 1 .. k : verdict[j] = "none"
      BY <2>1, <2>2, <3>1
    <3> QED
      BY <1>1, <2>2, <3>2 DEF Decided
  <2>3. CASE verdict[k] # "none"
    <3>1. k \in 1 .. k
      OBVIOUS
    <3> QED
      BY <1>1, <2>1, <2>3, <3>1 DEF Decided
  <2> QED
    BY <2>2, <2>3
<1>2. CASE error # "none"
  <2>1. PICK j \in 1 .. k - 1 : error = verdict[j] /\ \A i \in 1 .. j - 1 : verdict[i] = "none"
    BY <1>2 DEF Decided
  <2>2. j \in 1 .. k
    OBVIOUS
  <2> QED
    BY <1>2, <2>1, <2>2 DEF Decided
<1> QED
  BY <1>1, <1>2

OwnUpto(vectors, texts, u) ==
  /\ Len(vectors) <= u
  /\ Len(vectors) = u => \A i \in 1 .. u : vectors[i].of = texts[i]

\* What the first k batches came to.
Upto(done, k, backend, texts, size, replies) ==
  /\ done \in Outcome
  /\ Fine(done) /\ AllDistinct(texts, size, replies, k) => OwnUpto(done.vectors, texts, End(Len(texts), size, k))
  /\ Keyed(backend) /\ AllWhole(texts, size, replies, k)
       => Fine(done) /\ Len(done.vectors) = End(Len(texts), size, k)
  /\ Decided(done.error, Verdicts(backend, texts, size, replies), k)

LEMMA JoiningIs ==
  ASSUME NEW backend, NEW texts, NEW size, NEW replies, NEW done, NEW k,
         NEW c, c = Embed(backend, Batch(texts, size, k), replies[k])
  PROVE  Joining(backend, texts, size, replies, done, k) =
           IF ~Fine(done) THEN done ELSE IF ~Fine(c) THEN c ELSE Returned(done.vectors \o c.vectors)
BY DEF Joining, Fine

LEMMA VectorsOf ==
  ASSUME NEW outcome \in Outcome
  PROVE  outcome.vectors \in Seq(Vector)
BY DEF Outcome

\* Vectors of the texts before a batch, then those of the batch.
LEMMA OwnJoined ==
  ASSUME NEW texts, NEW from \in Nat, NEW until \in Nat, from <= until,
         NEW batch, Len(batch) = until - from, \A i \in 1 .. until - from : batch[i] = texts[from + i],
         NEW v \in Seq(Vector), NEW w \in Seq(Vector), OwnUpto(v, texts, from), Own(w, batch)
  PROVE  /\ v \o w \in Seq(Vector) /\ Len(v \o w) = Len(v) + Len(w)
         /\ OwnUpto(v \o w, texts, until)
<1> DEFINE a == Len(v)
           b == Len(w)
           x == v \o w
<1>1. a \in Nat /\ b \in Nat
  BY LenProperties
<1>2. /\ x \in Seq(Vector) /\ Len(x) = a + b
      /\ \A i \in 1 .. a + b : x[i] = IF i <= a THEN v[i] ELSE w[i - a]
  BY ConcatProperties
<1>3. a <= from /\ b <= until - from
  BY DEF OwnUpto, Own
<1>4. a = from => \A i \in 1 .. from : v[i].of = texts[i]
  BY DEF OwnUpto
<1>5. b = until - from => \A i \in 1 .. until - from : w[i].of = texts[from + i]
  BY DEF Own
<1> HIDE DEF a, b, x
<1>6. ASSUME a + b = until, NEW i \in 1 .. until PROVE x[i].of = texts[i]
  <2>1. a = from /\ b = until - from
    BY <1>1, <1>3, <1>6
  <2>2. CASE i <= a
    <3>1. i \in 1 .. from /\ i \in 1 .. a + b
      BY <1>1, <1>6, <2>1, <2>2
    <3> QED
      BY <1>2, <1>4, <2>1, <2>2, <3>1
  <2>3. CASE i > a
    <3>1. i - from \in 1 .. until - from /\ from + (i - from) = i /\ i \in 1 .. a + b /\ ~(i <= a)
      BY <1>1, <1>6, <2>1, <2>3
    <3>2. x[i] = w[i - from]
      BY <1>2, <2>1, <3>1
    <3>3. w[i - from].of = texts[from + (i - from)]
      BY <1>5, <2>1, <3>1
    <3> QED
      BY <3>1, <3>2, <3>3
  <2> QED
    BY <1>1, <2>2, <2>3
<1>7. a + b <= until
  BY <1>1, <1>3
<1> QED
  BY <1>2, <1>6, <1>7 DEF OwnUpto, a, b, x

LEMMA JoiningUpto ==
  ASSUME NEW backend, NEW texts, NEW size, NEW replies, Answered(backend, texts, size, replies),
         NEW k \in 1 .. Batches(texts, size), NEW done, Upto(done, k - 1, backend, texts, size, replies)
  PROVE  Upto(Joining(backend, texts, size, replies, done, k), k, backend, texts, size, replies)
<1> DEFINE n == Len(texts)
           from == End(n, size, k - 1)
           until == End(n, size, k)
           batch == Batch(texts, size, k)
           c == Embed(backend, batch, replies[k])
           next == Joining(backend, texts, size, replies, done, k)
           verdict == Verdicts(backend, texts, size, replies)
<1>1. texts \in Seq(Nat) /\ size \in Nat \ {0} /\ Sent(backend, batch, replies[k])
  BY DEF Answered
<1>2. /\ n \in Nat /\ from \in 0 .. n /\ until \in 0 .. n /\ from <= until
      /\ batch \in Seq(Nat) /\ batch # <<>> /\ Len(batch) = until - from
      /\ \A i \in 1 .. until - from : batch[i] = texts[from + i]
  BY <1>1, BatchIs, LenProperties
<1> HIDE DEF batch
<1>3. /\ c \in Outcome
      /\ Fine(c) /\ Distinct(batch, replies[k]) => Own(c.vectors, batch)
      /\ Keyed(backend) /\ Whole(batch, replies[k]) => Fine(c) /\ Len(c.vectors) = Len(batch)
  <2>1. c = Embed(backend, batch, replies[k])
    OBVIOUS
  <2>2. Returns(c, backend, batch, replies[k])
    <3> HIDE DEF c
    <3> QED
      BY <1>1, <1>2, <2>1, EmbedOwn
  <2> QED
    BY <2>2 DEF Returns
<1>4. next = IF ~Fine(done) THEN done ELSE IF ~Fine(c) THEN c ELSE Returned(done.vectors \o c.vectors)
  BY JoiningIs DEF batch
<1>v. c.error = verdict[k]
  <2>1. c = Embed(backend, batch, replies[k]) /\ batch # <<>>
    BY <1>2
  <2>2. verdict[k] = Verdict(backend, batch, replies[k])
    BY DEF Verdicts, batch
  <2>3. c.error = Verdict(backend, batch, replies[k])
    <3> HIDE DEF c, verdict
    <3> QED
      BY <2>1, EmbedVerdict
  <2> QED
    BY <2>2, <2>3
<1> HIDE DEF c, next, n, from, until, verdict
<1>5. /\ done \in Outcome
      /\ Fine(done) /\ AllDistinct(texts, size, replies, k - 1) => OwnUpto(done.vectors, texts, from)
      /\ Keyed(backend) /\ AllWhole(texts, size, replies, k - 1) => Fine(done) /\ Len(done.vectors) = from
      /\ Decided(done.error, verdict, k - 1)
  BY DEF Upto, n, from, verdict
<1>6. /\ AllWhole(texts, size, replies, k) => AllWhole(texts, size, replies, k - 1) /\ Whole(batch, replies[k])
      /\ AllDistinct(texts, size, replies, k) => AllDistinct(texts, size, replies, k - 1) /\ Distinct(batch, replies[k])
  <2>1. k \in 1 .. k /\ \A j \in 1 .. k - 1 : j \in 1 .. k
    OBVIOUS
  <2>2. AllWhole(texts, size, replies, k) => AllWhole(texts, size, replies, k - 1)
    BY <2>1 DEF AllWhole
  <2>3. AllWhole(texts, size, replies, k) => Whole(batch, replies[k])
    BY <2>1 DEF AllWhole, batch
  <2>4. AllDistinct(texts, size, replies, k) => AllDistinct(texts, size, replies, k - 1)
    BY <2>1 DEF AllDistinct
  <2>5. AllDistinct(texts, size, replies, k) => Distinct(batch, replies[k])
    BY <2>1 DEF AllDistinct, batch
  <2> QED
    BY <2>2, <2>3, <2>4, <2>5
<1>d. Decided(IF done.error = "none" THEN verdict[k] ELSE done.error, verdict, k)
  <2>1. k \in Nat \ {0}
    OBVIOUS
  <2> QED
    BY <1>5, <2>1, DecidedNext
<1>7. CASE Fine(done) /\ Fine(c)
  <2> DEFINE v == done.vectors
             w == c.vectors
  <2>1. v \in Seq(Vector) /\ w \in Seq(Vector)
    BY <1>3, <1>5, VectorsOf
  <2>2. from \in Nat /\ until \in Nat
    BY <1>2
  <2>3. AllDistinct(texts, size, replies, k) => OwnUpto(v, texts, from) /\ Own(w, batch)
    BY <1>3, <1>5, <1>6, <1>7
  <2> HIDE DEF v, w
  <2>4. v \o w \in Seq(Vector) /\ Len(v \o w) = Len(v) + Len(w)
    BY <2>1, ConcatProperties
  <2>o. AllDistinct(texts, size, replies, k) => OwnUpto(v \o w, texts, until)
    BY <1>2, <2>1, <2>2, <2>3, OwnJoined
  <2>5. next = Returned(v \o w)
    BY <1>4, <1>7 DEF v, w
  <2>6. next \in Outcome /\ Fine(next) /\ next.vectors = v \o w
    BY <2>4, <2>5, ReturnedOutcome
  <2>7. Keyed(backend) /\ AllWhole(texts, size, replies, k) => Len(next.vectors) = until
    <3>1. Keyed(backend) /\ AllWhole(texts, size, replies, k) => Len(v) = from /\ Len(w) = until - from
      BY <1>2, <1>3, <1>5, <1>6 DEF v, w
    <3> DEFINE x == v \o w
    <3>2. Len(x) = Len(v) + Len(w) /\ Len(next.vectors) = Len(x)
      BY <2>4, <2>6
    <3> HIDE DEF x
    <3>3. Len(v) = from /\ Len(w) = until - from => Len(next.vectors) = until
      BY <2>2, <3>2
    <3> QED
      BY <3>1, <3>3
  <2>8. Decided(next.error, verdict, k)
    <3>1. next.error = "none" /\ verdict[k] = "none" /\ done.error = "none"
      BY <1>7, <1>v, <2>6 DEF Fine
    <3> QED
      BY <1>d, <3>1
  <2> QED
    BY <2>o, <2>6, <2>7, <2>8 DEF Upto, next, until, n, verdict
<1>8. CASE ~Fine(done)
  <2>1. next = done
    BY <1>4, <1>8
  <2>2. Decided(next.error, verdict, k)
    BY <1>d, <1>8, <2>1 DEF Fine
  <2> QED
    BY <1>5, <1>6, <1>8, <2>1, <2>2 DEF Upto, next, verdict
<1>9. CASE Fine(done) /\ ~Fine(c)
  <2>1. next = c
    BY <1>4, <1>9
  <2>2. Decided(next.error, verdict, k)
    BY <1>d, <1>v, <1>9, <2>1 DEF Fine
  <2> QED
    BY <1>3, <1>6, <1>9, <2>1, <2>2 DEF Upto, next, verdict
<1> QED
  BY <1>7, <1>8, <1>9

LEMMA JoiningOutcome ==
  ASSUME NEW backend, NEW texts, NEW size, NEW replies, Answered(backend, texts, size, replies),
         NEW k \in 1 .. Batches(texts, size), NEW done \in Outcome
  PROVE  Joining(backend, texts, size, replies, done, k) \in Outcome
<1> DEFINE batch == Batch(texts, size, k)
           c == Embed(backend, batch, replies[k])
           next == Joining(backend, texts, size, replies, done, k)
<1>1. texts \in Seq(Nat) /\ size \in Nat \ {0} /\ Sent(backend, batch, replies[k])
  BY DEF Answered
<1>2. batch \in Seq(Nat) /\ batch # <<>>
  BY <1>1, BatchIs
<1> HIDE DEF batch
<1>3. c \in Outcome
  <2>1. c = Embed(backend, batch, replies[k])
    OBVIOUS
  <2> HIDE DEF c
  <2>2. Returns(c, backend, batch, replies[k])
    BY <1>1, <1>2, <2>1, EmbedOwn
  <2> QED
    BY <2>2 DEF Returns
<1>4. next = IF ~Fine(done) THEN done ELSE IF ~Fine(c) THEN c ELSE Returned(done.vectors \o c.vectors)
  BY JoiningIs DEF batch
<1> HIDE DEF c, next
<1>5. done.vectors \in Seq(Vector) /\ c.vectors \in Seq(Vector)
  BY <1>3, VectorsOf
<1>6. done.vectors \o c.vectors \in Seq(Vector)
  BY <1>5, ConcatProperties
<1>7. Returned(done.vectors \o c.vectors) \in Outcome
  BY <1>6, ReturnedOutcome
<1>8. next \in Outcome
  BY <1>3, <1>4, <1>7
<1> QED
  BY <1>8 DEF next

LEMMA EmbedAllUpto ==
  ASSUME NEW backend, NEW texts, NEW size, NEW replies, Answered(backend, texts, size, replies)
  PROVE  /\ Batches(texts, size) \in Nat
         /\ Upto(EmbedAll(backend, texts, size, replies), Batches(texts, size), backend, texts, size, replies)
         /\ End(Len(texts), size, Batches(texts, size)) = Len(texts)
<1> DEFINE b == Batches(texts, size)
           n == Len(texts)
           ks == [k \in 1 .. b |-> k]
<1>1. n \in Nat /\ size \in Nat \ {0}
  BY LenProperties DEF Answered
<1>2. b = (n + size - 1) \div size
  BY DEF Batches
<1> HIDE DEF n
<1>3. b \in Nat /\ b * size \in Nat /\ n <= b * size
  <2> HIDE DEF b
  <2> QED
    BY <1>1, <1>2, BatchesCover
<1>4. \A done \in Outcome, k \in 1 .. b : Joining(backend, texts, size, replies, done, k) \in Outcome
  BY JoiningOutcome
<1>5. ks = [k \in 1 .. b |-> k] /\ b = Batches(texts, size)
  OBVIOUS
<1>l. Len(ks) = b /\ \A k \in 1 .. b : ks[k] = k
  <2> HIDE DEF b
  <2>1. ks \in [1 .. b -> 1 .. b]
    OBVIOUS
  <2>2. ks \in Seq(1 .. b)
    BY <1>3, <2>1, SeqDef
  <2>3. DOMAIN ks = 1 .. Len(ks) /\ Len(ks) \in Nat
    BY <2>2, LenProperties
  <2>4. DOMAIN ks = 1 .. b
    BY <2>1
  <2>5. Len(ks) = b
    <3> HIDE DEF ks
    <3>1. 1 .. Len(ks) = 1 .. b
      BY <2>3, <2>4
    <3> QED
      BY <1>3, <2>3, <3>1, SameNumbers
  <2> QED
    BY <2>5
<1> HIDE DEF ks
<1>6. PICK r : /\ r[0] = Returned(<<>>) /\ r[Len(ks)] = EmbedAll(backend, texts, size, replies)
               /\ \A k \in 0 .. Len(ks) - 1 : r[k + 1] = Joining(backend, texts, size, replies, r[k], ks[k + 1])
  BY <1>3, <1>4, <1>5, EmbedFold
<1> DEFINE T == {k \in Nat : k <= b => Upto(r[k], k, backend, texts, size, replies)}
<1>7. 0 \in T
  <2>1. <<>> \in Seq(Vector) /\ Len(<<>>) = 0
    BY EmptySeq
  <2>2. r[0] \in Outcome /\ Fine(r[0]) /\ r[0].vectors = <<>>
    BY <1>6, <2>1, ReturnedOutcome
  <2>3. End(n, size, 0) = 0
    BY <1>1 DEF End
  <2>4. OwnUpto(r[0].vectors, texts, 0) /\ Len(r[0].vectors) = 0
    BY <2>1, <2>2 DEF OwnUpto
  <2>5. Decided(r[0].error, Verdicts(backend, texts, size, replies), 0)
    BY <2>2 DEF Decided, Fine
  <2> QED
    BY <2>2, <2>3, <2>4, <2>5 DEF Upto, n
<1>8. ASSUME NEW k \in T PROVE k + 1 \in T
  <2>1. k \in Nat /\ (k <= b => Upto(r[k], k, backend, texts, size, replies))
    OBVIOUS
  <2>2. ASSUME k + 1 <= b PROVE Upto(r[k + 1], k + 1, backend, texts, size, replies)
    <3> HIDE DEF T
    <3>1. k + 1 \in 1 .. Batches(texts, size) /\ k \in 0 .. Len(ks) - 1 /\ (k + 1) - 1 = k
      <4>1. k + 1 \in 1 .. b /\ k \in 0 .. b - 1 /\ (k + 1) - 1 = k
        BY <1>3, <2>1, <2>2
      <4> QED
        BY <1>5, <1>l, <4>1
    <3>2. r[k + 1] = Joining(backend, texts, size, replies, r[k], k + 1)
      BY <1>6, <1>l, <3>1
    <3>3. Upto(r[k], (k + 1) - 1, backend, texts, size, replies)
      BY <1>3, <2>1, <2>2, <3>1
    <3> QED
      BY <3>1, <3>2, <3>3, JoiningUpto
  <2> QED
    BY <2>1, <2>2
<1>9. T = Nat
  <2> HIDE DEF T
  <2>1. T \subseteq Nat
    BY DEF T
  <2> QED
    BY <1>7, <1>8, <2>1, EveryNumber
<1>10. Upto(r[b], b, backend, texts, size, replies)
  BY <1>3, <1>9
<1>11. End(n, size, b) = n
  <2> HIDE DEF b
  <2> QED
    BY <1>1, <1>3 DEF End
<1> QED
  BY <1>3, <1>6, <1>l, <1>10, <1>11 DEF n, b

Width == {"none", DimensionError}

LEMMA ValidateIs ==
  ASSUME NEW v \in Seq(Vector), NEW n, NEW dim, NEW c, c = ValidateVectors(v, n, dim)
  PROVE  /\ c.error \in {"none", CountError, DimensionError} /\ (Len(v) = n => c.error \in Width)
         /\ Fine(c) => Len(v) = n /\ c.vectors = v /\ \A i \in 1 .. n : v[i].dim = dim
<1>1. DOMAIN v = 1 .. Len(v)
  BY LenProperties
<1>2. CASE Len(v) # n
  <2>1. c = Raised(CountError)
    BY <1>2 DEF ValidateVectors
  <2>2. ~Fine(c) /\ c.error = CountError
    BY <2>1, ErrorsAre, RaisedOutcome
  <2> QED
    BY <1>2, <2>2
<1>3. CASE Len(v) = n /\ \E i \in DOMAIN v : v[i].dim # dim
  <2>1. c = Raised(DimensionError)
    BY <1>3 DEF ValidateVectors
  <2>2. ~Fine(c) /\ c.error = DimensionError
    BY <2>1, ErrorsAre, RaisedOutcome
  <2> QED
    BY <1>3, <2>2 DEF Width
<1>4. CASE Len(v) = n /\ \A i \in DOMAIN v : v[i].dim = dim
  <2>1. c = Returned(v)
    BY <1>4 DEF ValidateVectors
  <2>2. Fine(c) /\ c.vectors = v
    BY <2>1, ReturnedOutcome
  <2>3. c.error = "none"
    BY <2>2 DEF Fine
  <2> QED
    BY <1>1, <1>4, <2>2, <2>3 DEF Width
<1> QED
  BY <1>2, <1>3, <1>4

\* What a server sends with its 200: vectors for the inputs it names, known or not.
LEMMA EntriesSent ==
  ASSUME NEW backend, NEW batch \in Seq(Nat), NEW entries \in Entries(backend, batch),
         NEW reply, reply = [status |-> 200, entries |-> entries]
  PROVE  Sent(backend, batch, reply)
<1> DEFINE n == Len(batch)
           of(i) == IF i <= n THEN batch[i] ELSE 0
           entry(i, dim) == [index |-> i - 1, embedding |-> [of |-> of(i), dim |-> dim]]
           named == {[i \in 1 .. k |-> i] : k \in 0 .. n + 1}
           any == UNION {[1 .. k -> 1 .. n + 1] : k \in 0 .. n + 1}
           orders == IF backend = "ollama" THEN named ELSE any
<1>1. n \in Nat /\ \A i \in 1 .. n : batch[i] \in Nat
  BY LenProperties, ElementOfSeq
<1>2. Entries(backend, batch) = {[j \in DOMAIN f |-> entry(f[j], dim)] : f \in orders, dim \in {1, 2}}
  BY DEF Entries
<1>o. /\ Local(backend) => orders = named
      /\ ~Local(backend) => orders = any
  <2> HIDE DEF named, any
  <2> QED
    BY DEF Local
<1>3. PICK f \in orders, dim \in {1, 2} : entries = [j \in DOMAIN f |-> entry(f[j], dim)]
  <2> HIDE DEF orders
  <2> QED
    BY <1>2
<1> HIDE DEF n
<1>4. PICK k \in 0 .. n + 1 : /\ f \in [1 .. k -> 1 .. n + 1]
                              /\ Local(backend) => \A i \in 1 .. k : f[i] = i
  <2>1. CASE Local(backend)
    <3>1. PICK k \in 0 .. n + 1 : f = [i \in 1 .. k |-> i]
      BY <1>3, <1>o, <2>1
    <3>2. \A i \in 1 .. k : f[i] = i /\ i \in 1 .. n + 1
      BY <1>1, <3>1
    <3> QED
      BY <3>1, <3>2
  <2>2. CASE ~Local(backend)
    <3>1. f \in any
      BY <1>3, <1>o, <2>2
    <3> QED
      BY <2>2, <3>1
  <2> QED
    BY <2>1, <2>2
<1> HIDE DEF orders, named, any
<1>5. DOMAIN f = 1 .. k /\ k \in Nat /\ \A j \in 1 .. k : f[j] \in 1 .. n + 1
  BY <1>1, <1>4
<1>6. /\ entries = [j \in 1 .. k |-> entry(f[j], dim)]
      /\ \A j \in 1 .. k : entries[j] = entry(f[j], dim)
  <2> HIDE DEF entry
  <2> QED
    BY <1>3, <1>5
<1>7. \A j \in 1 .. k : /\ entries[j].index = f[j] - 1
                        /\ f[j] <= n => entries[j].embedding.of = batch[f[j]]
  BY <1>6
<1>8. entries \in Seq(Entry)
  <2>1. ASSUME NEW j \in 1 .. k PROVE entry(f[j], dim) \in Entry
    <3>1. f[j] \in 1 .. n + 1
      BY <1>5
    <3>2. f[j] - 1 \in Int /\ dim \in Int
      BY <1>1, <3>1
    <3>3. of(f[j]) \in Nat
      <4>1. CASE f[j] <= n
        <5>1. f[j] \in 1 .. n
          BY <1>1, <3>1, <4>1
        <5> QED
          BY <1>1, <4>1, <5>1
      <4>2. CASE ~(f[j] <= n)
        BY <4>2
      <4> QED
        BY <4>1, <4>2
    <3> HIDE DEF of
    <3> QED
      BY <3>2, <3>3 DEF Entry, Vector
  <2>2. entries \in [1 .. k -> Entry]
    <3> HIDE DEF entry
    <3> QED
      BY <1>6, <2>1
  <2> QED
    BY <1>5, <2>2, SeqDef
<1>9. reply \in Reply /\ reply.entries = entries
  <2>1. 200 \in Status
    BY DEF Status
  <2> HIDE DEF entry, of
  <2> QED
    BY <1>8, <2>1 DEF Reply
<1>10. DOMAIN entries = 1 .. k
  BY <1>6
<1> HIDE DEF entry, of
<1>11. Names(f, k, backend, batch, reply)
  <2> DEFINE es == reply.entries
  <2>1. /\ f \in [1 .. k -> 1 .. n + 1]
        /\ Local(backend) => \A i \in 1 .. k : f[i] = i
    BY <1>4
  <2>2. /\ DOMAIN es = 1 .. k
        /\ \A j \in 1 .. k : /\ es[j].index = f[j] - 1
                             /\ f[j] <= n => es[j].embedding.of = batch[f[j]]
    BY <1>7, <1>9, <1>10
  <2> HIDE DEF es
  <2> QED
    BY <2>1, <2>2 DEF Names, n, es
<1> QED
  BY <1>5, <1>9, <1>11 DEF Sent, n

LEMMA RefusalSent ==
  ASSUME NEW backend, NEW batch, NEW reply \in [status : Refusals, entries : {<<>>}]
  PROVE  Sent(backend, batch, reply)
<1>1. <<>> \in Seq(Entry)
  BY EmptySeq
<1>2. reply.status \in Refusals /\ reply.entries = <<>>
      /\ reply = [status |-> reply.status, entries |-> reply.entries]
  OBVIOUS
<1>3. reply.status \in Status /\ reply.status # 200
  BY <1>2 DEF Refusals, Status, Unreachable
<1>4. reply \in Reply
  <2> DEFINE x == reply.status
             y == reply.entries
  <2>1. reply = [status |-> x, entries |-> y] /\ x \in Status /\ y \in Seq(Entry)
    BY <1>1, <1>2, <1>3
  <2> HIDE DEF x, y
  <2> QED
    BY <2>1 DEF Reply
<1> QED
  BY <1>3, <1>4 DEF Sent

\* A call has texts and the replies so far, each to its batch.
Calling(c) ==
  /\ c = [backend |-> c.backend, texts |-> c.texts, size |-> c.size, replies |-> c.replies]
  /\ c.texts \in Seq(Nat) /\ c.size \in Nat \ {0}
  /\ c.backend \in {"voyage", "keyless", "ollama"}
  /\ c.replies \in Seq(Reply)
  /\ \A k \in 1 .. Len(c.replies) : Sent(c.backend, Batch(c.texts, c.size, k), c.replies[k])

CallInv == part = "embed" => Calling(call)

LEMMA BatchesNatural ==
  ASSUME NEW texts \in Seq(Nat), NEW size \in Nat \ {0}
  PROVE  Batches(texts, size) \in Nat
<1>1. Len(texts) \in Nat
  BY LenProperties
<1>2. Batches(texts, size) = (Len(texts) + size - 1) \div size
  BY DEF Batches
<1> QED
  BY <1>1, <1>2, BatchesCover

\* ConfigureBackend begins a call, AddReply answers one batch more.
LEMMA CallInvHolds == Spec => []CallInv
<1>1. Init => CallInv
  BY DEF Init, CallInv
<1>2. CallInv /\ [Next]_vars => CallInv'
  <2> SUFFICES ASSUME CallInv, [Next]_vars PROVE CallInv'
    OBVIOUS
  <2>1. CASE ConfigureBackend
    <3>1. PICK backend \in {"voyage", "keyless", "ollama"}, n \in Texts, size \in Sizes :
            call' = [backend |-> backend, texts |-> [i \in 1 .. n |-> i], size |-> size, replies |-> <<>>]
      BY <2>1 DEF ConfigureBackend
    <3>2. n \in Nat /\ size \in Nat \ {0}
      BY AlgorithmsBounds
    <3>3. [i \in 1 .. n |-> i] \in Seq(Nat)
      <4>1. [i \in 1 .. n |-> i] \in [1 .. n -> Nat]
        BY <3>2
      <4> QED
        BY <3>2, <4>1, SeqDef
    <3>4. <<>> \in Seq(Reply) /\ Len(<<>>) = 0
      BY EmptySeq
    <3>5. backend \in {"voyage", "keyless", "ollama"}
      BY <3>1
    <3>6. /\ call'.backend = backend /\ call'.texts = [i \in 1 .. n |-> i]
          /\ call'.size = size /\ call'.replies = <<>>
          /\ call' = [backend |-> call'.backend, texts |-> call'.texts, size |-> call'.size, replies |-> call'.replies]
      BY <3>1
    <3>7. Calling(call')
      BY <3>2, <3>3, <3>4, <3>5, <3>6 DEF Calling
    <3> QED
      BY <3>7 DEF CallInv, Calling
  <2>2. CASE AddReply
    <3> DEFINE b == call.backend
               t == call.texts
               z == call.size
               q == call.replies
               m == Len(q)
               batch == Batch(t, z, m + 1)
    <3>1. part = "embed" /\ m < Batches(t, z)
      BY <2>2 DEF AddReply
    <3>2. PICK reply \in [status : Refusals, entries : {<<>>}]
                         \cup [status : {200}, entries : Entries(b, batch)] :
            call' = [call EXCEPT !.replies = Append(@, reply)]
      BY <2>2 DEF AddReply
    <3>3. Calling(call)
      BY <3>1 DEF CallInv
    <3>4. /\ call = [backend |-> b, texts |-> t, size |-> z, replies |-> q]
          /\ t \in Seq(Nat) /\ z \in Nat \ {0} /\ b \in {"voyage", "keyless", "ollama"} /\ q \in Seq(Reply)
          /\ \A k \in 1 .. m : Sent(b, Batch(t, z, k), q[k])
      BY <3>3 DEF Calling
    <3>5. call' = [backend |-> b, texts |-> t, size |-> z, replies |-> Append(q, reply)]
      BY <3>2, <3>4
    <3> HIDE DEF b, t, z, q, batch
    <3>6. m \in Nat /\ Batches(t, z) \in Nat
      BY <3>4, LenProperties, BatchesNatural
    <3> HIDE DEF m
    <3>7. batch \in Seq(Nat)
      <4>1. m + 1 \in 1 .. Batches(t, z)
        BY <3>1, <3>6
      <4> QED
        BY <3>4, <4>1, BatchIs DEF batch
    <3>8. Sent(b, batch, reply)
      <4>1. CASE reply \in [status : Refusals, entries : {<<>>}]
        BY <4>1, RefusalSent
      <4>2. CASE reply \in [status : {200}, entries : Entries(b, batch)]
        <5>1. reply.entries \in Entries(b, batch) /\ reply = [status |-> 200, entries |-> reply.entries]
          BY <4>2
        <5> QED
          BY <3>7, <5>1, EntriesSent
      <4> QED
        BY <3>2, <4>1, <4>2
    <3>9. reply \in Reply
      BY <3>8 DEF Sent
    <3> DEFINE longer == Append(q, reply)
    <3>10. /\ longer \in Seq(Reply) /\ Len(longer) = m + 1 /\ longer[m + 1] = reply
           /\ \A k \in 1 .. m : longer[k] = q[k]
      BY <3>4, <3>9, AppendProperties DEF m
    <3> HIDE DEF longer
    <3>11. ASSUME NEW k \in 1 .. Len(longer) PROVE Sent(b, Batch(t, z, k), longer[k])
      <4>1. CASE k = m + 1
        BY <3>8, <3>10, <4>1 DEF batch
      <4>2. CASE k # m + 1
        <5>1. k \in 1 .. m
          BY <3>6, <3>10, <4>2
        <5> QED
          BY <3>4, <3>10, <5>1
      <4> QED
        BY <4>1, <4>2
    <3>12. /\ call'.backend = b /\ call'.texts = t /\ call'.size = z /\ call'.replies = longer
           /\ call' = [backend |-> call'.backend, texts |-> call'.texts, size |-> call'.size, replies |-> call'.replies]
      BY <3>5 DEF longer
    <3>13. Calling(call')
      BY <3>4, <3>10, <3>11, <3>12 DEF Calling
    <3> QED
      BY <3>13 DEF CallInv, Calling
  <2>3. CASE part' # "embed"
    BY <2>3 DEF CallInv
  <2>4. CASE part' = part /\ call' = call
    BY <2>4 DEF CallInv, Calling
  <2> QED
    BY <2>1, <2>2, <2>3, <2>4
       DEF Next, vars, Take, AddCharacter, AddPage, ChangeType, AddSymbol, RecordRow, AskUsage, AddPiece
<1> QED
  BY <1>1, <1>2, PTL DEF Spec

Marks(bad, verdict, m) == bad \subseteq 1 .. m /\ \A k \in 1 .. m : verdict[k] = "none" <=> k \notin bad

\* The error is the verdict of the first bad reply.
LEMMA FirstBadDecides ==
  ASSUME NEW m \in Nat, NEW verdict, NEW error, Decided(error, verdict, m),
         NEW bad, bad # {}, Marks(bad, verdict, m)
  PROVE  Min(bad) \in bad /\ error = verdict[Min(bad)] /\ error # "none"
<1>0. bad \subseteq 1 .. m /\ \A k \in 1 .. m : verdict[k] = "none" <=> k \notin bad
  BY DEF Marks
<1>1. ~(\A j \in 1 .. m : verdict[j] = "none")
  BY <1>0
<1>2. error # "none" /\ \E j \in 1 .. m : error = verdict[j] /\ \A i \in 1 .. j - 1 : verdict[i] = "none"
  BY <1>1 DEF Decided
<1>3. PICK j \in 1 .. m : error = verdict[j] /\ \A i \in 1 .. j - 1 : verdict[i] = "none"
  BY <1>2
<1>4. j \in bad
  BY <1>0, <1>2, <1>3
<1>5. ASSUME NEW i \in bad PROVE j <= i
  <2>1. i \in 1 .. m /\ verdict[i] # "none"
    BY <1>0
  <2>2. i \notin 1 .. j - 1
    BY <1>3, <2>1
  <2> QED
    BY <2>1, <2>2
<1>6. Min(bad) \in bad /\ \A i \in bad : Min(bad) <= i
  <2>1. \E x \in bad : \A y \in bad : x <= y
    BY <1>4, <1>5
  <2> QED
    BY <2>1 DEF Min
<1>7. Min(bad) = j
  <2>1. Min(bad) \in bad /\ Min(bad) <= j /\ j <= Min(bad)
    BY <1>4, <1>5, <1>6
  <2>2. \A x \in bad : x \in Int
    BY <1>0
  <2> DEFINE x == Min(bad)
  <2>3. x \in Int /\ j \in Int /\ x <= j /\ j <= x
    BY <1>4, <2>1, <2>2
  <2> HIDE DEF x
  <2> QED
    BY <2>3 DEF x
<1> QED
  BY <1>2, <1>3, <1>6, <1>7

\* What the status of a bad reply of the hosted provider comes to.
LEMMA StatusMeans ==
  ASSUME NEW status \in Status, NEW error,
         error = IF status = Unreachable THEN Transient ELSE IF status # 200 THEN Refusal(status) ELSE CountError
  PROVE  /\ error \in PermanentFailures <=> status \in (400 .. 499) \ {408, 429}
         /\ error = ConfigurationError <=> status \in {401, 403}
<1>1. CASE status \in {401, 403}
  <2>1. error = ConfigurationError
    BY <1>1 DEF Refusal, TransientStatuses, Unreachable
  <2> QED
    BY <1>1, <2>1 DEF PermanentFailures
<1>2. CASE status \in (400 .. 499) \ {401, 403, 408, 429}
  <2>1. error = RequestError
    BY <1>2 DEF Refusal, TransientStatuses, Unreachable
  <2> QED
    BY <1>2, <2>1 DEF PermanentFailures, RequestError, ConfigurationError
<1>3. CASE status \notin (400 .. 499) \ {408, 429}
  <2>1. error = Transient \/ error = CountError
    BY <1>3 DEF Refusal, TransientStatuses, Unreachable, Status
  <2>2. error \notin {DimensionError, ConfigurationError, RequestError}
    BY <2>1 DEF Transient, CountError, DimensionError, ConfigurationError, RequestError
  <2> QED
    BY <1>3, <2>2 DEF PermanentFailures
<1> QED
  BY <1>1, <1>2, <1>3

\* Of every document, however long, cut into batches of any size, and whatever its replies
\* are: when all succeed there is a vector of the column's width for every text, its own if
\* no reply repeats an index or has one of no input.  With the hosted provider the first bad
\* reply decides the error, and the document fails at once for a 4xx other than 408 and 429,
\* for nothing else; the local server is asked again after any refusal (embed_in_batches,
\* VoyageEmbedder, OllamaEmbedder, PERMANENT_FAILURES).
THEOREM EveryTextItsVectorAlways == Spec => []EveryTextItsVector
<1>1. CallInv => EveryTextItsVector
  <2> DEFINE b == call.backend
             t == call.texts
             z == call.size
             q == call.replies
             result == EmbedInBatches(b, t, z, 2, q)
             inputs(k) == Len(Batch(t, z, k))
             distinct(k) == \A i, j \in DOMAIN q[k].entries :
                              /\ q[k].entries[i].index < inputs(k)
                              /\ q[k].entries[i].index = q[k].entries[j].index => i = j
             refused == {k \in DOMAIN q : q[k].status # 200}
             bad == refused \cup {k \in DOMAIN q : Len(q[k].entries) # inputs(k)}
             status == q[Min(bad)].status
             Vectors == /\ DOMAIN result.vectors = DOMAIN t
                        /\ \A i \in DOMAIN t : result.vectors[i].dim = 2
                        /\ (\A k \in DOMAIN q : distinct(k)) => \A i \in DOMAIN t : result.vectors[i].of = t[i]
             Hosted == /\ result.error \in PermanentFailures <=> status \in (400 .. 499) \ {408, 429}
                       /\ result.error = ConfigurationError <=> status \in {401, 403}
             Served == /\ result.error = Transient <=> refused # {}
                       /\ result.error \in {"none", Transient, CountError, DimensionError}
  <2> SUFFICES ASSUME CallInv, part = "embed", Len(q) = Batches(t, z)
               PROVE  /\ result.error = "none" => Vectors
                      /\ b # "keyless" /\ bad = {} => result.error \in {"none", DimensionError}
                      /\ b = "voyage" /\ bad # {} => Hosted
                      /\ b = "ollama" => Served
                      /\ b = "keyless" /\ t # <<>> => result.error = ConfigurationError
    BY DEF EveryTextItsVector
  <2>1. /\ t \in Seq(Nat) /\ z \in Nat \ {0} /\ b \in {"voyage", "keyless", "ollama"} /\ q \in Seq(Reply)
        /\ \A k \in 1 .. Len(q) : Sent(b, Batch(t, z, k), q[k])
    BY DEF CallInv, Calling
  <2> DEFINE n == Len(t)
             m == Batches(t, z)
             all == EmbedAll(b, t, z, q)
             verdict == Verdicts(b, t, z, q)
  <2>2. result = Ended(all, t, 2)
    BY EmbedEnds
  <2>3. DOMAIN q = 1 .. m /\ DOMAIN t = 1 .. n /\ n \in Nat
    BY <2>1, LenProperties
  <2>w. \A k \in 1 .. m : /\ k \notin bad <=> Whole(Batch(t, z, k), q[k])
                          /\ distinct(k) <=> Distinct(Batch(t, z, k), q[k])
    BY <2>3 DEF Whole, Distinct
  <2>r. bad \subseteq 1 .. m /\ \A k \in 1 .. m : k \in refused <=> q[k].status # 200
    BY <2>3
  <2>s. refused \subseteq 1 .. m
    BY <2>3
  <2>t. \A k \in 1 .. m : q[k].status \in Status
    <3>1. \A k \in 1 .. m : q[k] \in Reply
      BY <2>1, ElementOfSeq
    <3> QED
      BY <3>1 DEF Reply
  <2>u. \A k \in 1 .. m : verdict[k] = Verdict(b, Batch(t, z, k), q[k])
    BY DEF Verdicts
  <2> HIDE DEF b, t, z, q, result, distinct, verdict, refused, bad
  <2>4. Answered(b, t, z, q)
    BY <2>1 DEF Answered
  <2>5. Upto(all, m, b, t, z, q) /\ End(n, z, m) = n /\ m \in Nat
    BY <2>4, EmbedAllUpto
  <2> HIDE DEF all
  <2>6. /\ all \in Outcome
        /\ Fine(all) /\ AllDistinct(t, z, q, m) => OwnUpto(all.vectors, t, n)
        /\ Keyed(b) /\ AllWhole(t, z, q, m) => Fine(all) /\ Len(all.vectors) = n
        /\ Decided(all.error, verdict, m)
    BY <2>5 DEF Upto, verdict
  <2> HIDE DEF m
  <2> HIDE DEF n
  <2> DEFINE v == all.vectors
  <2>7. v \in Seq(Vector)
    BY <2>6, VectorsOf
  <2>8. result = IF ~Fine(all) THEN all ELSE ValidateVectors(v, n, 2)
    BY <2>2 DEF Ended, Fine, n
  <2> HIDE DEF v
  <2>9. Fine(all) => /\ result.error \in {"none", CountError, DimensionError} /\ (Len(v) = n => result.error \in Width)
                     /\ Fine(result) => Len(v) = n /\ result.vectors = v /\ \A i \in 1 .. n : v[i].dim = 2
    BY <2>7, <2>8, ValidateIs
  <2>e. all.error # "none" => result.error = all.error
    BY <2>8 DEF Fine
  <2>10. ASSUME Fine(result) PROVE Vectors
    <3>1. Fine(all)
      BY <2>8, <2>10
    <3>2. Len(v) = n /\ result.vectors = v /\ \A i \in 1 .. n : v[i].dim = 2
      BY <2>9, <2>10, <3>1
    <3>3. DOMAIN v = 1 .. n
      BY <2>7, <3>2, LenProperties
    <3>4. ASSUME \A k \in DOMAIN q : distinct(k) PROVE \A i \in 1 .. n : v[i].of = t[i]
      <4>1. AllDistinct(t, z, q, m)
        BY <2>3, <2>w, <3>4 DEF AllDistinct
      <4> QED
        BY <2>6, <3>1, <3>2, <4>1 DEF OwnUpto, v
    <3> QED
      BY <2>3, <3>2, <3>3, <3>4
  <2>11. ASSUME b # "keyless", bad = {} PROVE result.error \in Width
    <3>1. AllWhole(t, z, q, m)
      BY <2>w, <2>11 DEF AllWhole
    <3>2. Keyed(b)
      BY <2>1, <2>11 DEF Keyed
    <3>3. Fine(all) /\ Len(v) = n
      BY <2>6, <3>1, <3>2 DEF v
    <3> QED
      BY <2>9, <3>3
  <2>12. ASSUME b = "voyage", bad # {} PROVE Hosted
    <3>1. ~Local(b) /\ Keyed(b) /\ 200 # Unreachable
      BY <2>12 DEF Local, Keyed, Unreachable
    <3>2. ASSUME NEW k \in 1 .. m PROVE verdict[k] = "none" <=> k \notin bad
      <4>1. Refusal(q[k].status) # "none" /\ Transient # "none" /\ CountError # "none"
        BY RefusalIsError, ErrorsAre
      <4>2. Verdict(b, Batch(t, z, k), q[k]) = "none" <=> Whole(Batch(t, z, k), q[k])
        BY <3>1, <4>1 DEF Verdict, Whole
      <4> QED
        BY <2>u, <2>w, <4>2
    <3>m. Marks(bad, verdict, m)
      BY <2>r, <3>2 DEF Marks
    <3>3. Min(bad) \in bad /\ all.error = verdict[Min(bad)] /\ all.error # "none"
      BY <2>5, <2>6, <2>12, <3>m, FirstBadDecides
    <3> DEFINE k == Min(bad)
    <3>4. k \in 1 .. m /\ k \in bad
      BY <2>r, <3>3
    <3>5. ~Whole(Batch(t, z, k), q[k]) /\ q[k].status \in Status
      BY <2>t, <2>w, <3>4
    <3>6. result.error = Verdict(b, Batch(t, z, k), q[k])
      BY <2>e, <2>u, <3>3, <3>4
    <3> HIDE DEF k
    <3>7. result.error = IF q[k].status = Unreachable THEN Transient
                         ELSE IF q[k].status # 200 THEN Refusal(q[k].status) ELSE CountError
      BY <3>1, <3>5, <3>6 DEF Verdict, Whole
    <3> DEFINE st == q[k].status
               e == result.error
    <3>9. st \in Status /\ e = IF st = Unreachable THEN Transient ELSE IF st # 200 THEN Refusal(st) ELSE CountError
      BY <3>5, <3>7
    <3> HIDE DEF st, e
    <3>8. /\ e \in PermanentFailures <=> st \in (400 .. 499) \ {408, 429}
          /\ e = ConfigurationError <=> st \in {401, 403}
      BY <3>9, StatusMeans
    <3> QED
      BY <3>8 DEF k, st, e
  <2>13. ASSUME b = "ollama" PROVE Served
    <3>1. \A k \in 1 .. m : verdict[k] = IF k \in refused THEN Transient ELSE "none"
      BY <2>13, <2>u, <2>r DEF Verdict, Local
    <3>2. Transient \notin {"none", CountError, DimensionError}
      BY DEF Transient, CountError, DimensionError
    <3>3. CASE refused = {}
      <4>1. \A k \in 1 .. m : verdict[k] = "none"
        BY <3>1, <3>3
      <4>2. all.error = "none"
        BY <2>6, <4>1 DEF Decided
      <4>3. result.error \in {"none", CountError, DimensionError}
        BY <2>9, <4>2 DEF Fine
      <4> QED
        BY <3>2, <3>3, <4>3
    <3>4. CASE refused # {}
      <4>1. \A k \in 1 .. m : verdict[k] = "none" <=> k \notin refused
        BY <3>1, <3>2
      <4>m. Marks(refused, verdict, m)
        BY <2>s, <4>1 DEF Marks
      <4>2. Min(refused) \in refused /\ all.error = verdict[Min(refused)] /\ all.error # "none"
        BY <2>5, <2>6, <3>4, <4>m, FirstBadDecides
      <4>3. all.error = Transient
        BY <2>s, <3>1, <4>2
      <4> QED
        BY <2>e, <3>2, <3>4, <4>3
    <3> QED
      BY <3>3, <3>4
  <2>14. ASSUME b = "keyless", t # <<>> PROVE result.error = ConfigurationError
    <3>1. \A k \in 1 .. m : verdict[k] = ConfigurationError
      BY <2>14, <2>u DEF Verdict, Local, Keyed
    <3>2. ConfigurationError # "none"
      BY DEF ConfigurationError
    <3>3. n # 0
      BY <2>1, <2>14, EmptySeq DEF n
    <3>4. 1 \in 1 .. m
      <4>1. m # 0
        <5>1. ASSUME m = 0 PROVE FALSE
          <6>1. 0 * z = 0
            BY <2>1
          <6> QED
            BY <2>3, <2>5, <3>3, <5>1, <6>1 DEF End
        <5> QED
          BY <5>1
      <4> QED
        BY <2>5, <4>1
    <3>5. all.error = ConfigurationError
      BY <2>6, <3>1, <3>2, <3>4 DEF Decided
    <3> QED
      BY <2>e, <3>2, <3>5
  <2> HIDE DEF Vectors, Hosted, Served
  <2> QED
    BY <2>10, <2>11, <2>12, <2>13, <2>14 DEF Fine, Width
<1> QED
  BY <1>1, CallInvHolds, PTL

(***************************************************************************)
(* The chunks of a text                                                    *)
(***************************************************************************)

\* The largest and the least of some whole numbers within bounds.
LEMMA LargestIn ==
  ASSUME NEW a \in Int, NEW b \in Int, NEW u, u \subseteq a .. b, u # {}
  PROVE  Max(u) \in u /\ \A x \in u : x <= Max(u)
<1> DEFINE w == {x - a + 1 : x \in u}
           m == Max(w)
<1>1. b - a + 1 \in Nat /\ w \in SUBSET (1 .. (b - a + 1)) /\ w # {}
  <2>1. \A x \in u : x \in Int /\ a <= x /\ x <= b
    OBVIOUS
  <2>2. \A x \in u : x - a + 1 \in 1 .. (b - a + 1)
    BY <2>1
  <2>3. PICK z \in u : TRUE
    OBVIOUS
  <2>4. b - a + 1 \in Nat
    BY <2>1, <2>3
  <2>5. w \subseteq 1 .. (b - a + 1)
    BY <2>2
  <2>6. z - a + 1 \in w
    BY <2>3
  <2> HIDE DEF w
  <2> QED
    BY <2>4, <2>5, <2>6
<1>2. m \in w /\ \A y \in w : y <= m
  <2> HIDE DEF w
  <2> QED
    BY <1>1, LargestOf
<1> HIDE DEF m
<1>3. PICK z \in u : m = z - a + 1
  BY <1>2
<1>4. \A x \in u : z >= x
  <2> SUFFICES ASSUME NEW x \in u PROVE z >= x
    OBVIOUS
  <2>1. x - a + 1 \in w /\ x \in Int /\ z \in Int
    OBVIOUS
  <2>2. x - a + 1 <= m
    BY <1>2, <2>1
  <2> QED
    BY <1>3, <2>1, <2>2
<1>5. Max(u) \in u /\ \A y \in u : Max(u) >= y
  BY <1>4 DEF Max
<1> QED
  BY <1>5

LEMMA LeastIn ==
  ASSUME NEW a \in Int, NEW b \in Int, NEW u, u \subseteq a .. b, u # {}
  PROVE  Min(u) \in u /\ \A x \in u : Min(u) <= x
<1> DEFINE w == {b - x + 1 : x \in u}
           m == Max(w)
<1>1. b - a + 1 \in Nat /\ w \in SUBSET (1 .. (b - a + 1)) /\ w # {}
  <2>1. \A x \in u : x \in Int /\ a <= x /\ x <= b
    OBVIOUS
  <2>2. \A x \in u : b - x + 1 \in 1 .. (b - a + 1)
    BY <2>1
  <2>3. PICK z \in u : TRUE
    OBVIOUS
  <2>4. b - a + 1 \in Nat
    BY <2>1, <2>3
  <2>5. w \subseteq 1 .. (b - a + 1)
    BY <2>2
  <2>6. b - z + 1 \in w
    BY <2>3
  <2> HIDE DEF w
  <2> QED
    BY <2>4, <2>5, <2>6
<1>2. m \in w /\ \A y \in w : y <= m
  <2> HIDE DEF w
  <2> QED
    BY <1>1, LargestOf
<1> HIDE DEF m
<1>3. PICK z \in u : m = b - z + 1
  BY <1>2
<1>4. \A x \in u : z <= x
  <2> SUFFICES ASSUME NEW x \in u PROVE z <= x
    OBVIOUS
  <2>1. b - x + 1 \in w /\ x \in Int /\ z \in Int
    OBVIOUS
  <2>2. b - x + 1 <= m
    BY <1>2, <2>1
  <2> QED
    BY <1>3, <2>1, <2>2
<1> QED
  BY <1>4 DEF Min

\* An offset of a character that is not blank.
Solid(text, i) == text[i + 1] \notin Blank

LEMMA SkipStops ==
  ASSUME NEW text, Len(text) \in Nat, NEW i \in 0 .. Len(text), NEW s, s = SkipWhitespace(text, i)
  PROVE  /\ s \in i .. Len(text) /\ (s # Len(text) => Solid(text, s))
         /\ \A j \in i .. Len(text) : Solid(text, j) => s <= j
<1> DEFINE n == Len(text)
           u == {j \in i .. n : j = n \/ CharAt(text, j) \notin Blank}
<1>1. u \subseteq i .. n /\ n \in u /\ i \in Int /\ n \in Int
  OBVIOUS
<1>2. s = Min(u)
  BY DEF SkipWhitespace
<1>3. s \in u /\ \A x \in u : s <= x
  <2> HIDE DEF u, n
  <2> QED
    BY <1>1, <1>2, LeastIn
<1>4. \A j \in i .. n : Solid(text, j) => j \in u
  BY DEF Solid, CharAt
<1>5. s \in i .. n /\ (s # n => Solid(text, s))
  BY <1>3 DEF Solid, CharAt
<1> HIDE DEF u
<1> QED
  BY <1>3, <1>4, <1>5

LEMMA RstripStops ==
  ASSUME NEW text, NEW start \in Nat, NEW end \in Nat, start <= end, NEW e, e = Rstrip(text, start, end)
  PROVE  /\ e \in start .. end /\ (e # start => Solid(text, e - 1))
         /\ \A j \in start .. (end - 1) : Solid(text, j) => j < e
<1> DEFINE u == {start} \cup {j \in (start + 1) .. end : CharAt(text, j - 1) \notin Blank}
<1>1. u \subseteq start .. end /\ start \in u /\ start \in Int /\ end \in Int
  OBVIOUS
<1>2. e = Max(u)
  BY DEF Rstrip
<1>3. e \in u /\ \A x \in u : x <= e
  <2> HIDE DEF u
  <2> QED
    BY <1>1, <1>2, LargestIn
<1>4. ASSUME NEW j \in start .. (end - 1), Solid(text, j) PROVE j < e
  <2>1. j + 1 \in (start + 1) .. end /\ (j + 1) - 1 = j
    OBVIOUS
  <2>2. j + 1 \in u
    BY <1>4, <2>1 DEF Solid, CharAt
  <2> HIDE DEF u
  <2> QED
    BY <1>1, <1>3, <2>2
<1>5. e \in start .. end /\ (e # start => Solid(text, e - 1))
  BY <1>3 DEF Solid, CharAt
<1> QED
  BY <1>4, <1>5

\* A separator at an offset of a text.
Broken(text, k, p) == Slice(text, p, p + Len(Boundaries[k])) = Boundaries[k]
SepLen(k) == Len(Boundaries[k])

LEMMA BoundariesAre ==
  /\ DOMAIN Boundaries = 1 .. 4
  /\ SepLen(1) = 2 /\ SepLen(2) = 1 /\ SepLen(3) = 2 /\ SepLen(4) = 1
  /\ Boundaries[1] = <<Newline, Newline>> /\ Boundaries[2] = <<Newline>>
  /\ Boundaries[3] = <<".", " ">> /\ Boundaries[4] = <<" ">>
<1>1. DOMAIN Boundaries = 1 .. 4
  BY DEF Boundaries
<1>2. Boundaries[1] = <<Newline, Newline>>
  BY DEF Boundaries
<1>3. Boundaries[2] = <<Newline>>
  BY DEF Boundaries
<1>4. Boundaries[3] = <<".", " ">>
  BY DEF Boundaries
<1>5. Boundaries[4] = <<" ">>
  BY DEF Boundaries
<1>6. ASSUME NEW x, NEW y PROVE Len(<<x, y>>) = 2 /\ Len(<<x>>) = 1
  OBVIOUS
<1>7. SepLen(1) = 2 /\ SepLen(2) = 1
  BY <1>2, <1>3, <1>6 DEF SepLen
<1>8. SepLen(3) = 2
  <2> DEFINE x == "." 
             y == " "
  <2>1. Boundaries[3] = <<x, y>>
    BY <1>4
  <2> HIDE DEF x, y
  <2> QED
    BY <1>6, <2>1 DEF SepLen
<1>9. SepLen(4) = 1
  <2> DEFINE y == " "
  <2>1. Boundaries[4] = <<y>>
    BY <1>5
  <2> HIDE DEF y
  <2> QED
    BY <1>6, <2>1 DEF SepLen
<1> QED
  BY <1>1, <1>2, <1>3, <1>4, <1>5, <1>7, <1>8, <1>9

LEMMA WidthsAre == SepLen(1) = 2 /\ SepLen(2) = 1 /\ SepLen(3) = 2 /\ SepLen(4) = 1
BY BoundariesAre

\* The last place of a separator within a window.
LastBreak(text, k, start, end, p) ==
  /\ p \in start .. (end - SepLen(k)) /\ Broken(text, k, p)
  /\ \A q \in start .. (end - SepLen(k)) : Broken(text, k, q) => q <= p

LEMMA RfindFinds ==
  ASSUME NEW text, NEW start \in Nat, NEW end \in Nat, NEW k \in 1 .. 4,
         NEW p, p = Rfind(text, Boundaries[k], start, end)
  PROVE  \/ p = -1 /\ \A q \in start .. (end - SepLen(k)) : ~Broken(text, k, q)
         \/ LastBreak(text, k, start, end, p)
<1> DEFINE w == SepLen(k)
           found == {i \in start .. (end - w) : Slice(text, i, i + w) = Boundaries[k]}
           u == {-1} \cup found
<1>1. w \in {1, 2}
  <2>1. k \in {1, 2, 3, 4}
    OBVIOUS
  <2> QED
    BY <2>1, WidthsAre
<1>2. p = Max(u)
  BY DEF Rfind, SepLen
<1>3. \A q \in start .. (end - w) : q \in found <=> Broken(text, k, q)
  BY DEF Broken, SepLen
<1>4. found \subseteq start .. (end - w)
  OBVIOUS
<1> HIDE DEF w, found
<1>5. u \subseteq -1 .. (end - w) \cup {-1}
  BY <1>1, <1>4
<1>6. p \in u /\ \A x \in u : x <= p
  <2> DEFINE b == IF end - w >= -1 THEN end - w ELSE -1
  <2>1. u \subseteq -1 .. b /\ b \in Int /\ -1 \in Int /\ u # {}
    BY <1>1, <1>5
  <2> HIDE DEF u, b
  <2> QED
    BY <1>2, <2>1, LargestIn
<1>7. CASE p = -1
  <2>1. ASSUME NEW q \in found PROVE FALSE
    <3>1. q \in Nat /\ q <= p
      BY <1>1, <1>4, <1>6
    <3> QED
      BY <1>7, <3>1
  <2> QED
    BY <1>3, <1>7, <2>1 DEF w
<1>8. CASE p # -1
  <2>1. p \in found
    BY <1>6, <1>8
  <2>2. \A q \in found : q <= p
    BY <1>6
  <2> QED
    BY <1>3, <1>4, <2>1, <2>2 DEF LastBreak, w
<1> QED
  BY <1>7, <1>8

LEMMA SameSlice ==
  ASSUME NEW S, NEW sep \in Seq(S), NEW text, NEW p \in Nat
  PROVE  Slice(text, p, p + Len(sep)) = sep <=> \A i \in 1 .. Len(sep) : text[p + i] = sep[i]
<1> DEFINE n == Len(sep)
           a == p + 1
           e == p + n
           U == {text[i] : i \in a .. e}
           s == SubSeq(text, a, e)
<1>1. n \in Nat /\ DOMAIN sep = 1 .. n /\ sep = [i \in 1 .. n |-> sep[i]]
  BY LenProperties
<1> HIDE DEF n
<1>2. /\ a \in Int /\ e \in Int /\ e - a + 1 = n /\ (IF a <= e THEN e - a + 1 ELSE 0) = n
      /\ \A i \in 1 .. n : a + i - 1 = p + i
  BY <1>1
<1> HIDE DEF a, e
<1>3. \A i \in a .. e : text[i] \in U
  OBVIOUS
<1> HIDE DEF U
<1>4. /\ s \in Seq(U) /\ Len(s) = (IF a <= e THEN e - a + 1 ELSE 0)
      /\ \A i \in 1 .. e - a + 1 : s[i] = text[a + i - 1]
  BY <1>2, <1>3, SubSeqProperties
<1> HIDE DEF s
<1>5. Len(s) = n /\ \A i \in 1 .. n : s[i] = text[p + i]
  BY <1>2, <1>4
<1>6. s = [i \in 1 .. n |-> s[i]]
  BY <1>4, <1>5, LenProperties
<1>7. s = sep <=> \A i \in 1 .. n : text[p + i] = sep[i]
  <2>1. ASSUME \A i \in 1 .. n : text[p + i] = sep[i] PROVE s = sep
    BY <1>1, <1>5, <1>6, <2>1
  <2>2. s = sep => \A i \in 1 .. n : text[p + i] = sep[i]
    BY <1>5
  <2> QED
    BY <2>1, <2>2
<1> QED
  BY <1>7 DEF Slice, s, n, a, e

LEMMA NewlineBoundaries == Boundaries[1] = <<Newline, Newline>> /\ Boundaries[2] = <<Newline>>
BY BoundariesAre

LEMMA BrokenIs ==
  ASSUME NEW text, NEW k \in 1 .. 4, NEW p \in Nat
  PROVE  Broken(text, k, p) <=> \A i \in 1 .. SepLen(k) : text[p + i] = Boundaries[k][i]
<1>1. ASSUME NEW x, NEW y PROVE \E S : <<x, y>> \in Seq(S)
  <2>1. <<x, y>> \in Seq({x, y})
    OBVIOUS
  <2> QED
    BY <2>1, Zenon
<1>2. ASSUME NEW x PROVE \E S : <<x>> \in Seq(S)
  <2>1. <<x>> \in Seq({x})
    OBVIOUS
  <2> QED
    BY <2>1, Zenon
<1>3. \E S : Boundaries[k] \in Seq(S)
  <2> DEFINE x == "."
             y == " "
             s == Boundaries[k]
  <2>1. Boundaries[3] = <<x, y>> /\ Boundaries[4] = <<y>>
    BY BoundariesAre
  <2> HIDE DEF x, y
  <2>2. k \in {1, 2, 3, 4}
    OBVIOUS
  <2>3. \/ s = <<Newline, Newline>> \/ s = <<Newline>>
        \/ s = <<x, y>> \/ s = <<y>>
    BY <2>1, <2>2, NewlineBoundaries
  <2> HIDE DEF s
  <2>4. \E S : s \in Seq(S)
    <3>1. CASE s = <<Newline, Newline>>
      <4>1. \E S : <<Newline, Newline>> \in Seq(S)
        BY <1>1
      <4> QED
        BY <3>1, <4>1
    <3>2. CASE s = <<Newline>>
      <4>1. \E S : <<Newline>> \in Seq(S)
        BY <1>2
      <4> QED
        BY <3>2, <4>1
    <3>3. CASE s = <<x, y>>
      <4>1. \E S : <<x, y>> \in Seq(S)
        BY <1>1
      <4> QED
        BY <3>3, <4>1
    <3>4. CASE s = <<y>>
      <4>1. \E S : <<y>> \in Seq(S)
        BY <1>2
      <4> QED
        BY <3>4, <4>1
    <3> QED
      BY <2>3, <3>1, <3>2, <3>3, <3>4
  <2> QED
    BY <2>4 DEF s
<1>4. PICK S : Boundaries[k] \in Seq(S)
  BY <1>3
<1> QED
  BY <1>4, SameSlice DEF Broken, SepLen

\* A character of a separator is blank, but for the full stop of the third, whose blank is
\* the fourth.
LEMMA BreakIsBlank ==
  ASSUME NEW text, NEW k \in 1 .. 4, NEW p \in Nat, Broken(text, k, p)
  PROVE  /\ k # 3 => ~Solid(text, p)
         /\ SepLen(k) = 2 => ~Solid(text, p + 1)
         /\ k = 3 => Broken(text, 4, p + 1)
<1> DEFINE dot == "."
           sp == " "
<1>0. Boundaries[3] = <<dot, sp>> /\ Boundaries[4] = <<sp>> /\ sp \in Blank /\ Newline \in Blank
  BY BoundariesAre DEF Blank
<1> HIDE DEF dot, sp
<1>1. k \in {1, 2, 3, 4} /\ \A i \in 1 .. SepLen(k) : text[p + i] = Boundaries[k][i]
  BY BrokenIs
<1>2. CASE k = 1
  <2>1. SepLen(1) = 2 /\ Boundaries[1][1] = Newline /\ Boundaries[1][2] = Newline
    BY WidthsAre, NewlineBoundaries
  <2>2. text[p + 1] \in Blank /\ text[p + 2] \in Blank
    BY <1>0, <1>1, <1>2, <2>1
  <2> QED
    BY <1>2, <2>2 DEF Solid
<1>3. CASE k = 2
  <2>1. SepLen(2) = 1 /\ Boundaries[2][1] = Newline
    BY WidthsAre, NewlineBoundaries
  <2>2. text[p + 1] \in Blank
    BY <1>0, <1>1, <1>3, <2>1
  <2> QED
    BY <1>3, <2>1, <2>2 DEF Solid
<1>4. CASE k = 3
  <2>1. SepLen(3) = 2 /\ SepLen(4) = 1
    BY WidthsAre
  <2>2. Boundaries[3][2] = sp /\ Boundaries[4][1] = sp
    BY <1>0
  <2>3. text[p + 2] = sp
    BY <1>1, <1>4, <2>1, <2>2
  <2>4. \A i \in 1 .. SepLen(4) : text[(p + 1) + i] = Boundaries[4][i]
    <3>1. \A i \in 1 .. SepLen(4) : i = 1 /\ (p + 1) + i = p + 2
      BY <2>1
    <3> QED
      BY <2>2, <2>3, <3>1
  <2>5. Broken(text, 4, p + 1)
    <3>1. 4 \in 1 .. 4 /\ p + 1 \in Nat
      OBVIOUS
    <3> QED
      BY <2>4, <3>1, BrokenIs
  <2>6. ~Solid(text, p + 1)
    <3>1. (p + 1) + 1 = p + 2
      OBVIOUS
    <3> QED
      BY <1>0, <2>3, <3>1 DEF Solid
  <2> QED
    BY <1>4, <2>5, <2>6
<1>5. CASE k = 4
  <2>1. SepLen(4) = 1 /\ Boundaries[4][1] = sp
    BY <1>0, WidthsAre
  <2>2. text[p + 1] \in Blank
    BY <1>0, <1>1, <1>5, <2>1
  <2> QED
    BY <1>5, <2>1, <2>2 DEF Solid
<1> QED
  BY <1>1, <1>2, <1>3, <1>4, <1>5

NoBreak(text, k, start, end) == \A q \in (start + 1) .. (end - SepLen(k)) : ~Broken(text, k, q)
NoBreaks(text, start, end) == \A k \in 1 .. 4 : NoBreak(text, k, start, end)

\* The cut of a window: behind the last of the first kind of separator that is in it.
CutBehind(text, start, end, k, p) ==
  /\ p \in (start + 1) .. (end - SepLen(k)) /\ Broken(text, k, p)
  /\ \A q \in (start + 1) .. (end - SepLen(k)) : Broken(text, k, q) => q <= p
  /\ \A j \in 1 .. (k - 1) : NoBreak(text, j, start, end)

LEMMA CutIs ==
  ASSUME NEW text, NEW start \in Nat, NEW end \in Nat, NEW cut, cut = BoundaryCut(text, start, end)
  PROVE  \/ cut = end /\ NoBreaks(text, start, end)
         \/ \E k \in 1 .. 4 : \E p \in Nat : CutBehind(text, start, end, k, p) /\ cut = p + SepLen(k)
<1> DEFINE at(k) == Rfind(text, Boundaries[k], start, end)
           fitting == {k \in DOMAIN Boundaries : at(k) > start}
           first == Min(fitting)
<1>1. cut = IF fitting = {} THEN end ELSE at(first) + SepLen(first)
  BY DEF BoundaryCut, SepLen
<1>2. DOMAIN Boundaries = 1 .. 4 /\ \A k \in 1 .. 4 : SepLen(k) \in {1, 2}
  <2>1. \A k \in 1 .. 4 : k \in {1, 2, 3, 4}
    OBVIOUS
  <2> QED
    BY <2>1, BoundariesAre
<1>3. fitting = {k \in 1 .. 4 : at(k) > start}
  <2> HIDE DEF at
  <2> QED
    BY <1>2
<1>4. ASSUME NEW k \in 1 .. 4
      PROVE  \/ at(k) = -1 /\ \A q \in start .. (end - SepLen(k)) : ~Broken(text, k, q)
             \/ LastBreak(text, k, start, end, at(k))
  BY RfindFinds
<1> HIDE DEF at
<1>5. ASSUME NEW k \in 1 .. 4, k \notin fitting PROVE NoBreak(text, k, start, end)
  <2>1. ~(at(k) > start)
    BY <1>3, <1>5
  <2> SUFFICES ASSUME NEW q \in (start + 1) .. (end - SepLen(k)), Broken(text, k, q) PROVE FALSE
    BY DEF NoBreak
  <2>2. q \in start .. (end - SepLen(k)) /\ q > start /\ q \in Int
    BY <1>2
  <2>3. LastBreak(text, k, start, end, at(k))
    BY <1>4, <2>2
  <2>4. q <= at(k) /\ at(k) \in Int
    BY <1>2, <2>2, <2>3 DEF LastBreak
  <2> QED
    BY <2>1, <2>2, <2>4
<1>6. ASSUME NEW k \in fitting
      PROVE  /\ at(k) \in (start + 1) .. (end - SepLen(k)) /\ Broken(text, k, at(k))
             /\ \A q \in (start + 1) .. (end - SepLen(k)) : Broken(text, k, q) => q <= at(k)
  <2>1. k \in 1 .. 4 /\ at(k) > start
    BY <1>3
  <2>2. LastBreak(text, k, start, end, at(k))
    BY <1>4, <2>1
  <2>3. SepLen(k) \in Int
    BY <1>2, <2>1
  <2>4. \A q \in (start + 1) .. (end - SepLen(k)) : q \in start .. (end - SepLen(k))
    BY <2>3
  <2> QED
    BY <2>1, <2>2, <2>3, <2>4 DEF LastBreak
<1>7. CASE fitting = {}
  BY <1>1, <1>5, <1>7 DEF NoBreaks
<1>8. CASE fitting # {}
  <2>1. first \in fitting /\ \A k \in fitting : first <= k
    <3>1. fitting \subseteq 1 .. 4 /\ 1 \in Int /\ 4 \in Int
      BY <1>3
    <3> HIDE DEF fitting
    <3> QED
      BY <1>8, <3>1, LeastIn
  <2>2. first \in 1 .. 4
    BY <1>3, <2>1
  <2> DEFINE p == at(first)
  <2>3. /\ p \in (start + 1) .. (end - SepLen(first)) /\ Broken(text, first, p)
        /\ \A q \in (start + 1) .. (end - SepLen(first)) : Broken(text, first, q) => q <= p
    BY <1>6, <2>1
  <2>4. ASSUME NEW j \in 1 .. (first - 1) PROVE NoBreak(text, j, start, end)
    <3>1. j \in 1 .. 4 /\ j < first
      BY <2>2
    <3>2. j \notin fitting
      BY <2>1, <2>2, <3>1
    <3> QED
      BY <1>5, <3>1, <3>2
  <2>5. cut = p + SepLen(first)
    BY <1>1, <1>8
  <2>6. p \in Nat
    BY <1>2, <2>2, <2>3
  <2> HIDE DEF fitting, first, p
  <2>7. CutBehind(text, start, end, first, p)
    BY <2>3, <2>4 DEF CutBehind
  <2> QED
    BY <2>2, <2>5, <2>6, <2>7
<1> QED
  BY <1>7, <1>8

\* A window is cut behind its first character.
LEMMA CutWithin ==
  ASSUME NEW text, NEW start \in Nat, NEW target \in Nat \ {0},
         NEW cut, cut = BoundaryCut(text, start, start + target)
  PROVE  cut \in (start + 1) .. (start + target)
<1> DEFINE end == start + target
<1>1. end \in Nat /\ start < end
  OBVIOUS
<1> HIDE DEF end
<1>2. \/ cut = end
      \/ \E k \in 1 .. 4 : \E p \in Nat : CutBehind(text, start, end, k, p) /\ cut = p + SepLen(k)
  BY <1>1, CutIs DEF end
<1>3. CASE cut = end
  BY <1>1, <1>3 DEF end
<1>4. ASSUME NEW k \in 1 .. 4, NEW p \in Nat, CutBehind(text, start, end, k, p), cut = p + SepLen(k)
      PROVE  cut \in (start + 1) .. end
  <2>1. SepLen(k) \in {1, 2}
    <3>1. k \in {1, 2, 3, 4}
      OBVIOUS
    <3> QED
      BY <3>1, WidthsAre
  <2>2. p \in (start + 1) .. (end - SepLen(k))
    BY <1>4 DEF CutBehind
  <2> QED
    BY <1>1, <1>4, <2>1, <2>2
<1> QED
  BY <1>2, <1>3, <1>4 DEF end

CutAt(text, target, start) == BoundaryCut(text, start, start + target)

\* What a window's cut takes in, a later window that begins before it takes in too.
LEMMA CutsGrow ==
  ASSUME NEW text, NEW target \in Nat \ {0}, NEW start \in Nat, NEW later \in Nat, start < later,
         NEW cut, cut = CutAt(text, target, start),
         NEW next, next = CutAt(text, target, later),
         NEW x \in Nat, later <= x, x < cut, Solid(text, x)
  PROVE  x < next
<1> DEFINE end == start + target
           bound == later + target
<1>1. /\ end \in Nat /\ bound \in Nat /\ end < bound
      /\ cut \in (start + 1) .. end /\ next \in (later + 1) .. bound
  <2>1. cut \in (start + 1) .. end
    BY CutWithin DEF CutAt
  <2>2. next \in (later + 1) .. bound
    BY CutWithin DEF CutAt
  <2> QED
    BY <2>1, <2>2
<1>2. \A k \in 1 .. 4 : SepLen(k) \in {1, 2}
  <2>1. \A k \in 1 .. 4 : k \in {1, 2, 3, 4}
    OBVIOUS
  <2> QED
    BY <2>1, WidthsAre
<1>3. \/ cut = end /\ NoBreaks(text, start, end)
      \/ \E k \in 1 .. 4 : \E p \in Nat : CutBehind(text, start, end, k, p) /\ cut = p + SepLen(k)
  BY <1>1, CutIs DEF CutAt
<1>4. \/ next = bound
      \/ \E k \in 1 .. 4 : \E p \in Nat : CutBehind(text, later, bound, k, p) /\ next = p + SepLen(k)
  BY <1>1, CutIs DEF CutAt
<1> HIDE DEF end, bound
<1>5. CASE next = bound
  BY <1>1, <1>5
<1>6. ASSUME NEW h \in 1 .. 4, NEW q \in Nat, CutBehind(text, later, bound, h, q), next = q + SepLen(h)
      PROVE  x < next
  <2>1. q \in (later + 1) .. (bound - SepLen(h)) /\ Broken(text, h, q)
    BY <1>6 DEF CutBehind
  <2>2. ASSUME NoBreak(text, h, start, end) PROVE x < next
    <3>1. ~(q \in (start + 1) .. (end - SepLen(h)))
      BY <2>1, <2>2 DEF NoBreak
    <3>2. q > end - SepLen(h)
      BY <1>1, <1>2, <2>1, <3>1
    <3> QED
      BY <1>1, <1>2, <1>6, <3>2
  <2>3. CASE NoBreaks(text, start, end)
    BY <2>2, <2>3 DEF NoBreaks
  <2>4. ASSUME NEW k \in 1 .. 4, NEW p \in Nat, CutBehind(text, start, end, k, p), cut = p + SepLen(k)
        PROVE  x < next
    <3>1. p \in (start + 1) .. (end - SepLen(k)) /\ Broken(text, k, p)
      BY <2>4 DEF CutBehind
    <3>2. CASE p <= later
      <4>1. x = p \/ x = p + 1
        BY <1>2, <2>4, <3>2
      <4>2. x = p
        <5>1. ASSUME x = p + 1 PROVE FALSE
          <6>1. SepLen(k) = 2
            BY <1>2, <2>4, <5>1
          <6> QED
            BY <3>1, <5>1, <6>1, BreakIsBlank
        <5> QED
          BY <4>1, <5>1
      <4> QED
        BY <1>1, <3>2, <4>2
    <3>3. CASE p > later
      <4>1. p \in (later + 1) .. (bound - SepLen(k))
        BY <1>1, <1>2, <3>1, <3>3
      <4>2. CASE h < k
        <5>1. NoBreak(text, h, start, end)
          BY <2>4, <4>2 DEF CutBehind
        <5> QED
          BY <2>2, <5>1
      <4>3. CASE h = k
        <5>1. p <= q
          BY <1>6, <3>1, <4>1, <4>3 DEF CutBehind
        <5> QED
          BY <1>2, <1>6, <2>4, <4>3, <5>1
      <4>4. CASE h > k
        <5>1. NoBreak(text, k, later, bound)
          BY <1>6, <4>4 DEF CutBehind
        <5> QED
          BY <3>1, <4>1, <5>1 DEF NoBreak
      <4> QED
        BY <4>2, <4>3, <4>4
    <3> QED
      BY <3>1, <3>2, <3>3
  <2> QED
    BY <1>3, <2>3, <2>4
<1> QED
  BY <1>4, <1>5, <1>6

\* The next chunk begins behind this one's beginning and not behind its cut.
LEMMA NextStartWithin ==
  ASSUME NEW text, NEW start \in Nat, NEW cut \in Nat, start < cut, NEW overlap \in Nat,
         NEW to, to = NextStart(text, start, cut, overlap)
  PROVE  to \in (start + 1) .. cut
<1> DEFINE u == {start + 1, cut - overlap}
           raw == Max(u)
           spaces == {i \in raw .. (cut - 1) : CharAt(text, i) = " "}
           first == Min(spaces)
<1>1. to = IF overlap <= 0 THEN cut ELSE IF spaces = {} THEN raw ELSE first + 1
  BY DEF NextStart
<1>2. CASE overlap <= 0
  BY <1>1, <1>2
<1>3. CASE overlap > 0
  <2>1. raw \in u /\ start + 1 <= raw
    <3> DEFINE a == IF cut - overlap < 0 THEN cut - overlap ELSE 0
               b == cut
               s == start + 1
    <3>1. a \in Int /\ b \in Int /\ u \subseteq a .. b /\ s \in u
      OBVIOUS
    <3> HIDE DEF u, a, b, s
    <3>2. u # {}
      BY <3>1
    <3>3. Max(u) \in u /\ \A x \in u : x <= Max(u)
      BY <3>1, <3>2, LargestIn
    <3> QED
      BY <3>1, <3>3 DEF s
  <2>2. raw \in (start + 1) .. cut
    <3>1. raw = start + 1 \/ raw = cut - overlap
      BY <2>1
    <3> HIDE DEF raw
    <3> QED
      BY <1>3, <2>1, <3>1
  <2> HIDE DEF raw
  <2>3. ASSUME spaces # {} PROVE first \in raw .. (cut - 1)
    <3>1. raw \in Int /\ cut - 1 \in Int
      BY <2>2
    <3>2. spaces \subseteq raw .. (cut - 1)
      OBVIOUS
    <3> HIDE DEF spaces
    <3>3. first \in spaces
      BY <2>3, <3>1, <3>2, LeastIn
    <3> QED
      BY <3>2, <3>3
  <2> HIDE DEF spaces, first
  <2> QED
    BY <1>1, <1>3, <2>2, <2>3
<1> QED
  BY <1>2, <1>3

\* The end of the span at an offset, and the offset of the next one.
FirstEnd(text, target, start) ==
  IF start + target >= Len(text) THEN Rstrip(text, start, Len(text))
  ELSE Rstrip(text, start, BoundaryCut(text, start, start + target))

NextOf(text, target, overlap, start) ==
  LET next == SkipWhitespace(text, NextStart(text, start, BoundaryCut(text, start, start + target), overlap))
  IN IF next > start THEN next ELSE Len(text)

\* What ChunkSpans makes of the text from an offset on, given what it makes of it further on.
SpansAt(text, target, overlap, spans, start) ==
  IF start >= Len(text) THEN <<>>
  ELSE IF start + target >= Len(text) THEN <<<<start, Rstrip(text, start, Len(text))>>>>
  ELSE LET cut == BoundaryCut(text, start, start + target)
           next == SkipWhitespace(text, NextStart(text, start, cut, overlap))
       IN <<<<start, Rstrip(text, start, cut)>>>>
            \o spans[IF next > start THEN next ELSE Len(text)]

SpansFrom(spans, text, target, overlap, from) ==
  spans = [start \in from .. Len(text) |-> SpansAt(text, target, overlap, spans, start)]

LEMMA SpansStep ==
  ASSUME NEW text, NEW target, NEW overlap, NEW f, NEW start, ~(start >= Len(text))
  PROVE  SpansAt(text, target, overlap, f, start)
           = IF start + target >= Len(text) THEN <<<<start, FirstEnd(text, target, start)>>>>
             ELSE <<<<start, FirstEnd(text, target, start)>>>> \o f[NextOf(text, target, overlap, start)]
BY DEF SpansAt, FirstEnd, NextOf

LEMMA NextOfAhead ==
  ASSUME NEW text, Len(text) \in Nat, NEW target \in Nat \ {0}, NEW overlap \in Nat,
         NEW start \in Nat, start + target < Len(text)
  PROVE  /\ NextOf(text, target, overlap, start) \in (start + 1) .. Len(text)
         /\ NextOf(text, target, overlap, start) # Len(text) => Solid(text, NextOf(text, target, overlap, start))
         /\ \A j \in BoundaryCut(text, start, start + target) .. (Len(text) - 1) :
              Solid(text, j) => NextOf(text, target, overlap, start) <= j
<1> DEFINE n == Len(text)
           cut == BoundaryCut(text, start, start + target)
           to == NextStart(text, start, cut, overlap)
           next == SkipWhitespace(text, to)
<1>1. cut \in (start + 1) .. (start + target)
  BY CutWithin
<1>2. NextOf(text, target, overlap, start) = IF next > start THEN next ELSE n
  BY DEF NextOf
<1> HIDE DEF cut
<1>3. to \in (start + 1) .. cut
  <2>1. cut \in Nat /\ start < cut
    BY <1>1
  <2> QED
    BY <2>1, NextStartWithin
<1> HIDE DEF to
<1>4. to \in 0 .. n
  BY <1>1, <1>3
<1>5. /\ next \in to .. n /\ (next # n => Solid(text, next))
      /\ \A j \in to .. n : Solid(text, j) => next <= j
  BY <1>4, SkipStops
<1> HIDE DEF next, n
<1>6. n \in Nat /\ next > start /\ \A j \in cut .. (n - 1) : j \in to .. n
  BY <1>1, <1>3, <1>4, <1>5 DEF n
<1>7. NextOf(text, target, overlap, start) = next
  BY <1>2, <1>6
<1>8. next \in (start + 1) .. n
  BY <1>1, <1>3, <1>5
<1> QED
  BY <1>5, <1>6, <1>7, <1>8 DEF n, cut

LEMMA SpansLookAhead ==
  ASSUME NEW text, Len(text) \in Nat, NEW target \in Nat \ {0}, NEW overlap \in Nat,
         NEW start \in 0 .. Len(text), NEW f, NEW g, \A j \in (start + 1) .. Len(text) : f[j] = g[j]
  PROVE  SpansAt(text, target, overlap, f, start) = SpansAt(text, target, overlap, g, start)
<1>1. CASE start >= Len(text)
  BY <1>1 DEF SpansAt
<1>2. CASE ~(start >= Len(text)) /\ start + target >= Len(text)
  BY <1>2, SpansStep
<1>3. CASE ~(start >= Len(text)) /\ ~(start + target >= Len(text))
  <2> DEFINE next == NextOf(text, target, overlap, start)
  <2>1. start \in Nat /\ start + target < Len(text)
    BY <1>3
  <2>2. next \in (start + 1) .. Len(text)
    BY <2>1, NextOfAhead
  <2>3. f[next] = g[next]
    <3> HIDE DEF next
    <3> QED
      BY <2>2
  <2>4. /\ SpansAt(text, target, overlap, f, start) = <<<<start, FirstEnd(text, target, start)>>>> \o f[next]
        /\ SpansAt(text, target, overlap, g, start) = <<<<start, FirstEnd(text, target, start)>>>> \o g[next]
    BY <1>3, SpansStep, Zenon
  <2> HIDE DEF next
  <2> QED
    BY <2>3, <2>4
<1> QED
  BY <1>1, <1>2, <1>3

\* What holds at the end of a text and, from the offsets after it, at each offset, holds at all.
LEMMA EveryOffset ==
  ASSUME NEW n \in Nat, NEW T, n \in T,
         \A i \in 0 .. (n - 1) : (\A j \in (i + 1) .. n : j \in T) => i \in T
  PROVE  \A i \in 0 .. n : i \in T
<1> DEFINE U == {i \in 1 .. (n + 1) : i - 1 \in T}
<1>1. n + 1 \in U
  BY (n + 1) - 1 = n
<1>2. ASSUME NEW i \in 1 .. n, \A j \in (i + 1) .. (n + 1) : j \in U PROVE i \in U
  <2>1. ASSUME NEW j \in i .. n PROVE j \in T
    <3>1. j + 1 \in (i + 1) .. (n + 1) /\ (j + 1) - 1 = j
      OBVIOUS
    <3>2. j + 1 \in U
      BY <1>2, <3>1
    <3> QED
      BY <3>1, <3>2
  <2>2. i - 1 \in 0 .. (n - 1) /\ (i - 1) + 1 = i
    OBVIOUS
  <2>3. i - 1 \in T
    BY <2>1, <2>2
  <2> QED
    BY <2>3
<1>3. \A i \in 1 .. (n + 1) : i \in U
  <2> HIDE DEF U
  <2> QED
    BY <1>1, <1>2, EveryPosition
<1>4. ASSUME NEW i \in 0 .. n PROVE i \in T
  <2>1. i + 1 \in 1 .. (n + 1) /\ (i + 1) - 1 = i
    OBVIOUS
  <2>2. i + 1 \in U
    BY <1>3, <2>1
  <2> QED
    BY <2>1, <2>2
<1> QED
  BY <1>4

LEMMA SpansExist ==
  ASSUME NEW text, Len(text) \in Nat, NEW target \in Nat \ {0}, NEW overlap \in Nat
  PROVE  \E spans : SpansFrom(spans, text, target, overlap, 0)
<1> DEFINE n == Len(text)
           T == {i \in 0 .. n : \E f : SpansFrom(f, text, target, overlap, i)}
<1>1. n \in T
  <2> DEFINE f == [i \in n .. n |-> <<>>]
  <2>1. \A i \in n .. n : SpansAt(text, target, overlap, f, i) = <<>>
    BY DEF SpansAt
  <2>2. SpansFrom(f, text, target, overlap, n)
    BY <2>1 DEF SpansFrom
  <2> QED
    BY <2>2
<1>2. ASSUME NEW i \in 0 .. (n - 1), \A j \in (i + 1) .. n : j \in T PROVE i \in T
  <2>1. i + 1 \in T
    <3>1. i + 1 \in (i + 1) .. n
      OBVIOUS
    <3> HIDE DEF T
    <3> QED
      BY <1>2, <3>1
  <2>2. PICK f : SpansFrom(f, text, target, overlap, i + 1)
    BY <2>1
  <2> DEFINE g == [j \in i .. n |-> IF j = i THEN SpansAt(text, target, overlap, f, i) ELSE f[j]]
  <2>3. \A j \in (i + 1) .. n : g[j] = f[j]
    OBVIOUS
  <2>4. ASSUME NEW j \in i .. n PROVE g[j] = SpansAt(text, target, overlap, g, j)
    <3>1. SpansAt(text, target, overlap, g, j) = SpansAt(text, target, overlap, f, j)
      <4>1. j \in 0 .. n /\ \A k \in (j + 1) .. n : g[k] = f[k]
        BY <2>3
      <4> HIDE DEF g
      <4> QED
        BY <4>1, SpansLookAhead
    <3>2. CASE j = i
      BY <3>1, <3>2
    <3>3. CASE j # i
      <4>1. j \in i + 1 .. n /\ g[j] = f[j]
        BY <3>3
      <4>2. f[j] = SpansAt(text, target, overlap, f, j)
        BY <2>2, <4>1 DEF SpansFrom
      <4> QED
        BY <3>1, <4>1, <4>2
    <3> QED
      BY <3>2, <3>3
  <2>5. g = [j \in i .. n |-> g[j]]
    OBVIOUS
  <2> HIDE DEF g
  <2>6. SpansFrom(g, text, target, overlap, i)
    BY <2>4, <2>5 DEF SpansFrom
  <2> QED
    BY <2>6
<1> HIDE DEF T
<1>3. 0 \in T
  <2>1. \A i \in 0 .. n : i \in T
    BY <1>1, <1>2, EveryOffset
  <2> QED
    BY <2>1
<1> QED
  BY <1>3 DEF T

LEMMA SpansAre ==
  ASSUME NEW text, Len(text) \in Nat, NEW target \in Nat \ {0}, NEW overlap \in Nat
  PROVE  \E spans : /\ ChunkSpans(text, target, overlap) = spans[SkipWhitespace(text, 0)]
                    /\ \A start \in 0 .. Len(text) :
                         spans[start] = SpansAt(text, target, overlap, spans, start)
<1> DEFINE spans == CHOOSE f : SpansFrom(f, text, target, overlap, 0)
<1>1. SpansFrom(spans, text, target, overlap, 0)
  BY SpansExist
<1>2. ChunkSpans(text, target, overlap) = spans[SkipWhitespace(text, 0)]
  BY DEF ChunkSpans, SpansFrom, SpansAt
<1> HIDE DEF spans
<1>3. \A start \in 0 .. Len(text) : spans[start] = SpansAt(text, target, overlap, spans, start)
  BY <1>1 DEF SpansFrom
<1> QED
  BY <1>2, <1>3

SpanFits(a, b, text, target) ==
  /\ a \in Nat /\ b \in Nat /\ a < b /\ b <= Len(text) /\ b - a <= target
  /\ Solid(text, a) /\ Solid(text, b - 1)

\* Spans of the text from an offset on: each of the right size and between characters that are not
\* blank, one behind the other, and none of these characters left out.
SpansEach(spans, text, target) ==
  \A c \in 1 .. Len(spans) : SpanFits(spans[c][1], spans[c][2], text, target)
SpansOrdered(spans) ==
  \A c \in 2 .. Len(spans) : spans[c - 1][1] < spans[c][1] /\ spans[c - 1][2] <= spans[c][2]
SpansCover(spans, text, from) ==
  \A i \in from .. (Len(text) - 1) :
    Solid(text, i) => \E c \in 1 .. Len(spans) : spans[c][1] <= i /\ i < spans[c][2]
SpansBegin(spans, text, target, from) ==
  /\ from >= Len(text) => Len(spans) = 0
  /\ from < Len(text) => Len(spans) >= 1 /\ spans[1] = <<from, FirstEnd(text, target, from)>>

SpansFit(spans, text, target, from) ==
  /\ spans \in Seq(Nat \X Nat) /\ SpansEach(spans, text, target) /\ SpansOrdered(spans)
  /\ SpansCover(spans, text, from) /\ SpansBegin(spans, text, target, from)

\* The first span takes in what is before its cut, or all that is left.
LEMMA FirstSpanFits ==
  ASSUME NEW text, Len(text) \in Nat, NEW target \in Nat \ {0}, NEW start \in Nat,
         start < Len(text), Solid(text, start), NEW e, e = FirstEnd(text, target, start)
  PROVE  /\ SpanFits(start, e, text, target)
         /\ start + target >= Len(text) =>
              \A i \in start .. (Len(text) - 1) : Solid(text, i) => i < e
         /\ start + target < Len(text) =>
              /\ \A i \in start .. (BoundaryCut(text, start, start + target) - 1) : Solid(text, i) => i < e
              /\ e <= BoundaryCut(text, start, start + target)
<1> DEFINE n == Len(text)
           cut == BoundaryCut(text, start, start + target)
           end == IF start + target >= n THEN n ELSE cut
<1>1. e = Rstrip(text, start, end)
  BY DEF FirstEnd
<1>2. cut \in (start + 1) .. (start + target)
  BY CutWithin
<1> HIDE DEF cut
<1>3. end \in Nat /\ start < end /\ end <= n /\ end - start <= target
  BY <1>2
<1>4. (start + target >= n => end = n) /\ (start + target < n => end = cut)
  OBVIOUS
<1> HIDE DEF end
<1>5. /\ e \in start .. end /\ (e # start => Solid(text, e - 1))
      /\ \A j \in start .. (end - 1) : Solid(text, j) => j < e
  BY <1>1, <1>3, RstripStops
<1>6. start < e
  <2>1. start \in start .. (end - 1)
    BY <1>3
  <2> QED
    BY <1>5, <2>1
<1>7. SpanFits(start, e, text, target)
  BY <1>3, <1>5, <1>6 DEF SpanFits
<1> QED
  BY <1>2, <1>4, <1>5, <1>7 DEF cut

LEMMA EndsGrow ==
  ASSUME NEW text, Len(text) \in Nat, NEW target \in Nat \ {0}, NEW overlap \in Nat, NEW start \in Nat,
         start + target < Len(text), Solid(text, start),
         NEW next \in (start + 1) .. (Len(text) - 1), Solid(text, next)
  PROVE  FirstEnd(text, target, start) <= FirstEnd(text, target, next)
<1> DEFINE n == Len(text)
           cut == BoundaryCut(text, start, start + target)
           later == BoundaryCut(text, next, next + target)
           e == FirstEnd(text, target, start)
           f == FirstEnd(text, target, next)
<1>1. start < n /\ next \in Nat /\ next < n /\ start < next
  OBVIOUS
<1>2. SpanFits(start, e, text, target) /\ e <= cut
  BY <1>1, FirstSpanFits
<1>3. /\ SpanFits(next, f, text, target)
      /\ next + target >= n => \A i \in next .. (n - 1) : Solid(text, i) => i < f
      /\ next + target < n => \A i \in next .. (later - 1) : Solid(text, i) => i < f
  BY <1>1, FirstSpanFits
<1>4. cut \in (start + 1) .. (start + target) /\ later \in (next + 1) .. (next + target)
  <2>1. cut \in (start + 1) .. (start + target)
    BY CutWithin
  <2>2. later \in (next + 1) .. (next + target)
    BY <1>1, CutWithin
  <2> QED
    BY <2>1, <2>2
<1> DEFINE x == e - 1
<1>5. /\ x \in Nat /\ x < n /\ x < cut /\ Solid(text, x) /\ e = x + 1 /\ e \in Nat
      /\ f \in Nat /\ next < f
  BY <1>2, <1>3, <1>4 DEF SpanFits
<1> SUFFICES e <= f
  OBVIOUS
<1>0. cut = CutAt(text, target, start) /\ later = CutAt(text, target, next)
  BY DEF CutAt
<1>6. CASE x < next
  <2> HIDE DEF x, e, f
  <2> QED
    BY <1>1, <1>5, <1>6
<1>7. CASE next <= x
  <2>1. next + target < n => x < later
    <3> HIDE DEF x, e, f, later, cut
    <3>1. x \in Nat /\ next <= x /\ x < cut /\ Solid(text, x) /\ next \in Nat /\ start < next
      BY <1>1, <1>5, <1>7
    <3> QED
      BY <1>0, <3>1, CutsGrow
  <2> HIDE DEF x, e, f, later, cut
  <2>2. x < f
    <3>1. CASE next + target >= n
      <4>1. x \in next .. (n - 1)
        BY <1>1, <1>5, <1>7
      <4> QED
        BY <1>3, <1>5, <3>1, <4>1
    <3>2. CASE next + target < n
      <4>1. x \in next .. (later - 1)
        BY <1>1, <1>4, <1>5, <1>7, <2>1, <3>2
      <4> QED
        BY <1>3, <1>5, <3>2, <4>1
    <3> QED
      BY <1>1, <3>1, <3>2
  <2> QED
    BY <1>5, <2>2
<1> QED
  BY <1>1, <1>5, <1>6, <1>7

LEMMA ConcatFirst ==
  ASSUME NEW S, NEW x \in S, NEW rest \in Seq(S), NEW t, t = <<x>> \o rest
  PROVE  /\ t \in Seq(S) /\ Len(t) = Len(rest) + 1 /\ t[1] = x
         /\ \A c \in 2 .. (Len(rest) + 1) : t[c] = rest[c - 1]
<1> DEFINE e == <<x>>
           m == Len(rest)
<1>1. e \in Seq(S) /\ Len(e) = 1 /\ e[1] = x /\ t = e \o rest
  OBVIOUS
<1> HIDE DEF e
<1>2. /\ t \in Seq(S) /\ Len(t) = Len(e) + Len(rest)
      /\ \A i \in 1 .. Len(e) + Len(rest) : t[i] = IF i <= Len(e) THEN e[i] ELSE rest[i - Len(e)]
  BY <1>1, ConcatProperties
<1>3. m \in Nat
  BY LenProperties
<1>4. Len(t) = 1 + m /\ \A i \in 1 .. 1 + m : t[i] = IF i <= 1 THEN e[i] ELSE rest[i - 1]
  BY <1>1, <1>2
<1> HIDE DEF m
<1>5. 1 \in 1 .. 1 + m /\ \A c \in 2 .. (m + 1) : c \in 1 .. 1 + m /\ ~(c <= 1)
  BY <1>3
<1>6. t[1] = x
  BY <1>1, <1>4, <1>5
<1>7. \A c \in 2 .. (m + 1) : t[c] = rest[c - 1]
  BY <1>4, <1>5
<1> QED
  BY <1>2, <1>3, <1>4, <1>6, <1>7 DEF m

LEMMA SpansFitLast ==
  ASSUME NEW text, Len(text) \in Nat, NEW target \in Nat \ {0}, NEW start \in Nat,
         start < Len(text), start + target >= Len(text), Solid(text, start),
         NEW spans, spans = <<<<start, FirstEnd(text, target, start)>>>>
  PROVE  SpansFit(spans, text, target, start)
<1> DEFINE e == FirstEnd(text, target, start)
           x == <<start, e>>
<1>1. SpanFits(start, e, text, target) /\ \A i \in start .. (Len(text) - 1) : Solid(text, i) => i < e
  BY FirstSpanFits
<1> HIDE DEF e
<1>2. e \in Nat /\ x \in Nat \X Nat /\ x[1] = start /\ x[2] = e /\ x = <<start, FirstEnd(text, target, start)>>
  BY <1>1 DEF SpanFits, e
<1> HIDE DEF x
<1>3. spans = <<x>>
  BY <1>2
<1>4. spans \in Seq(Nat \X Nat) /\ Len(spans) = 1 /\ spans[1] = x
  BY <1>2, <1>3
<1> HIDE DEF e
<1>5. SpansEach(spans, text, target)
  BY <1>1, <1>2, <1>4 DEF SpansEach
<1>6. SpansOrdered(spans)
  BY <1>4 DEF SpansOrdered
<1>7. SpansCover(spans, text, start)
  <2> SUFFICES ASSUME NEW i \in start .. (Len(text) - 1), Solid(text, i)
               PROVE  \E c \in 1 .. Len(spans) : spans[c][1] <= i /\ i < spans[c][2]
    BY DEF SpansCover
  <2>1. 1 \in 1 .. Len(spans) /\ start <= i /\ i < e
    BY <1>1, <1>4
  <2> QED
    BY <1>2, <1>4, <2>1
<1>8. SpansBegin(spans, text, target, start)
  BY <1>2, <1>4 DEF SpansBegin
<1> QED
  BY <1>4, <1>5, <1>6, <1>7, <1>8 DEF SpansFit

LEMMA SpansFitMore ==
  ASSUME NEW text, Len(text) \in Nat, NEW target \in Nat \ {0}, NEW overlap \in Nat, NEW start \in Nat,
         start + target < Len(text), Solid(text, start),
         NEW rest, SpansFit(rest, text, target, NextOf(text, target, overlap, start)),
         NEW spans, spans = <<<<start, FirstEnd(text, target, start)>>>> \o rest
  PROVE  SpansFit(spans, text, target, start)
<1> DEFINE n == Len(text)
           next == NextOf(text, target, overlap, start)
           cut == BoundaryCut(text, start, start + target)
           e == FirstEnd(text, target, start)
           f == FirstEnd(text, target, next)
           x == <<start, e>>
           m == Len(rest)
<1>1. /\ next \in (start + 1) .. n /\ (next # n => Solid(text, next))
      /\ \A j \in cut .. (n - 1) : Solid(text, j) => next <= j
  BY NextOfAhead
<1>2. SpanFits(start, e, text, target) /\ \A i \in start .. (cut - 1) : Solid(text, i) => i < e
  BY FirstSpanFits
<1>3. next # n => e <= f
  <2> HIDE DEF next
  <2>1. ASSUME next # n PROVE next \in (start + 1) .. (n - 1) /\ Solid(text, next)
    BY <1>1, <2>1
  <2> QED
    BY <2>1, EndsGrow
<1>4. SpansFit(rest, text, target, next)
  OBVIOUS
<1>5. x = <<start, FirstEnd(text, target, start)>>
  OBVIOUS
<1>6. cut \in Int
  <2>1. cut \in (start + 1) .. (start + target)
    BY CutWithin
  <2> HIDE DEF cut
  <2> QED
    BY <2>1
<1> HIDE DEF e, next, cut
<1>7. e \in Nat /\ x \in Nat \X Nat /\ x[1] = start /\ x[2] = e
  BY <1>2 DEF SpanFits
<1> HIDE DEF x
<1>8. rest \in Seq(Nat \X Nat) /\ spans = <<x>> \o rest
  BY <1>4, <1>5 DEF SpansFit
<1>9. /\ spans \in Seq(Nat \X Nat) /\ Len(spans) = m + 1 /\ spans[1] = x
      /\ \A c \in 2 .. (m + 1) : spans[c] = rest[c - 1]
  BY <1>7, <1>8, ConcatFirst
<1>10. m \in Nat
  BY <1>8, LenProperties
<1>11. next \in Nat /\ n \in Nat
  BY <1>1
<1>12. /\ next >= n => m = 0
       /\ next < n => m >= 1 /\ rest[1] = <<next, f>>
  BY <1>4 DEF SpansFit, SpansBegin
<1> HIDE DEF m, f
<1>13. SpansEach(spans, text, target)
  <2>1. \A c \in 1 .. m : SpanFits(rest[c][1], rest[c][2], text, target)
    BY <1>4 DEF SpansFit, SpansEach, m
  <2> SUFFICES ASSUME NEW c \in 1 .. (m + 1) PROVE SpanFits(spans[c][1], spans[c][2], text, target)
    BY <1>9 DEF SpansEach
  <2>2. CASE c = 1
    BY <1>2, <1>7, <1>9, <2>2
  <2>3. CASE c # 1
    <3>1. c \in 2 .. (m + 1) /\ c - 1 \in 1 .. m
      BY <1>10, <2>3
    <3> QED
      BY <1>9, <2>1, <3>1
  <2> QED
    BY <2>2, <2>3
<1>14. SpansOrdered(spans)
  <2> SUFFICES ASSUME NEW c \in 2 .. (m + 1)
               PROVE  spans[c - 1][1] < spans[c][1] /\ spans[c - 1][2] <= spans[c][2]
    BY <1>9 DEF SpansOrdered
  <2>1. spans[c] = rest[c - 1]
    BY <1>9
  <2>2. CASE c = 2
    <3>1. m >= 1 /\ next < n /\ c - 1 = 1
      BY <1>1, <1>10, <1>11, <1>12, <2>2
    <3>2. rest[1] = <<next, f>>
      BY <1>12, <3>1
    <3>3. rest[1][1] = next /\ rest[1][2] = f
      BY <3>2
    <3>4. start < next /\ e <= f
      BY <1>1, <1>3, <1>11, <3>1
    <3> QED
      BY <1>7, <1>9, <2>1, <3>1, <3>3, <3>4
  <2>3. CASE c # 2
    <3>1. c - 1 \in 2 .. (m + 1) /\ c - 1 \in 2 .. m
      BY <1>10, <2>3
    <3>2. spans[c - 1] = rest[(c - 1) - 1]
      BY <1>9, <3>1
    <3>3. rest[(c - 1) - 1][1] < rest[c - 1][1] /\ rest[(c - 1) - 1][2] <= rest[c - 1][2]
      BY <1>4, <3>1 DEF SpansFit, SpansOrdered, m
    <3> QED
      BY <2>1, <3>2, <3>3
  <2> QED
    BY <2>2, <2>3
<1>15. SpansCover(spans, text, start)
  <2> SUFFICES ASSUME NEW i \in start .. (n - 1), Solid(text, i)
               PROVE  \E c \in 1 .. (m + 1) : spans[c][1] <= i /\ i < spans[c][2]
    BY <1>9 DEF SpansCover
  <2>1. CASE i < e
    <3>1. 1 \in 1 .. (m + 1) /\ spans[1][1] <= i /\ i < spans[1][2]
      BY <1>7, <1>9, <1>10, <2>1
    <3> QED
      BY <3>1
  <2>2. CASE ~(i < e)
    <3>1. next <= i
      <4>1. ~(i \in start .. (cut - 1))
        BY <1>2, <2>2
      <4>2. i \in cut .. (n - 1)
        BY <1>6, <1>11, <4>1
      <4> QED
        BY <1>1, <4>2
    <3>2. i \in next .. (n - 1)
      BY <1>11, <3>1
    <3>3. PICK c \in 1 .. m : rest[c][1] <= i /\ i < rest[c][2]
      BY <1>4, <3>2 DEF SpansFit, SpansCover, m
    <3>4. c + 1 \in 2 .. (m + 1) /\ (c + 1) - 1 = c /\ c + 1 \in 1 .. (m + 1)
      BY <1>10
    <3>5. spans[c + 1] = rest[c]
      BY <1>9, <3>4
    <3> QED
      BY <3>3, <3>4, <3>5
  <2> QED
    BY <2>1, <2>2
<1>16. SpansBegin(spans, text, target, start)
  <2>1. start < n
    BY <1>1, <1>11
  <2> QED
    BY <1>5, <1>9, <1>10, <1>11, <2>1 DEF SpansBegin
<1> QED
  BY <1>9, <1>13, <1>14, <1>15, <1>16 DEF SpansFit

LEMMA SpansFitEnd ==
  ASSUME NEW text, Len(text) \in Nat, NEW target
  PROVE  SpansFit(<<>>, text, target, Len(text))
<1>1. <<>> \in Seq(Nat \X Nat) /\ Len(<<>>) = 0
  OBVIOUS
<1>2. SpansEach(<<>>, text, target) /\ SpansOrdered(<<>>)
  BY <1>1 DEF SpansEach, SpansOrdered
<1>3. SpansCover(<<>>, text, Len(text)) /\ SpansBegin(<<>>, text, target, Len(text))
  BY <1>1 DEF SpansCover, SpansBegin
<1> QED
  BY <1>1, <1>2, <1>3 DEF SpansFit

\* The spans of a text fit it, from its first character that is not blank on.
LEMMA ChunkSpansFit ==
  ASSUME NEW text, Len(text) \in Nat, NEW target \in Nat \ {0}, NEW overlap \in Nat
  PROVE  SpansFit(ChunkSpans(text, target, overlap), text, target, SkipWhitespace(text, 0))
<1> DEFINE n == Len(text)
<1>1. PICK spans : /\ ChunkSpans(text, target, overlap) = spans[SkipWhitespace(text, 0)]
                   /\ \A start \in 0 .. n : spans[start] = SpansAt(text, target, overlap, spans, start)
  BY SpansAre
<1> DEFINE T == {i \in 0 .. n : (i = n \/ Solid(text, i)) => SpansFit(spans[i], text, target, i)}
<1>2. n \in T
  <2>1. n \in 0 .. n /\ n >= n
    OBVIOUS
  <2>2. spans[n] = <<>>
    BY <1>1, <2>1 DEF SpansAt
  <2> QED
    BY <2>1, <2>2, SpansFitEnd
<1>3. ASSUME NEW i \in 0 .. (n - 1), \A j \in (i + 1) .. n : j \in T PROVE i \in T
  <2> SUFFICES ASSUME Solid(text, i) PROVE SpansFit(spans[i], text, target, i)
    OBVIOUS
  <2>1. i \in Nat /\ i < n /\ ~(i >= n) /\ i \in 0 .. n
    OBVIOUS
  <2>2. spans[i] = SpansAt(text, target, overlap, spans, i)
    BY <1>1, <2>1
  <2>3. CASE i + target >= n
    <3>1. spans[i] = <<<<i, FirstEnd(text, target, i)>>>>
      BY <2>1, <2>2, <2>3, SpansStep
    <3> QED
      BY <2>1, <2>3, <3>1, SpansFitLast
  <2>4. CASE ~(i + target >= n)
    <3> DEFINE next == NextOf(text, target, overlap, i)
    <3>1. i + target < n
      BY <2>4
    <3>2. next \in (i + 1) .. n /\ (next # n => Solid(text, next))
      BY <2>1, <3>1, NextOfAhead
    <3>3. spans[i] = <<<<i, FirstEnd(text, target, i)>>>> \o spans[next]
      BY <2>1, <2>2, <2>4, SpansStep, Zenon
    <3>4. SpansFit(spans[next], text, target, next)
      <4> HIDE DEF next
      <4>1. next \in T
        BY <1>3, <3>2
      <4> QED
        BY <3>2, <4>1
    <3> QED
      BY <2>1, <3>1, <3>3, <3>4, SpansFitMore
  <2> QED
    BY <2>3, <2>4
<1> DEFINE from == SkipWhitespace(text, 0)
<1>4. from \in 0 .. n /\ (from = n \/ Solid(text, from))
  <2>1. 0 \in 0 .. n
    OBVIOUS
  <2> QED
    BY <2>1, SkipStops
<1> HIDE DEF T, from
<1>5. from \in T
  <2>1. \A i \in 0 .. n : i \in T
    BY <1>2, <1>3, EveryOffset
  <2> QED
    BY <1>4, <2>1
<1>6. SpansFit(spans[from], text, target, from)
  BY <1>4, <1>5 DEF T
<1> QED
  BY <1>1, <1>6 DEF from

\* What lies within whole tokens is estimated at no more of them, and at one at least.
LEMMA EstimateWithin ==
  ASSUME NEW m \in Nat \ {0}, NEW p \in Nat \ {0}, NEW t \in Nat \ {0}, m <= t * p
  PROVE  (m + p - 1) \div p \in 1 .. t
<1> DEFINE x == m + p - 1
           q == x \div p
           low == q * p
           high == (q + 1) * p
           top == t * p
           above == (t + 1) * p
<1>1. x \in Int /\ p <= x /\ x < top + p
  <2>1. top \in Int
    OBVIOUS
  <2> HIDE DEF top
  <2> QED
    BY <2>1 DEF top
<1> HIDE DEF x
<1>2. q \in Int /\ low <= x /\ x < high
  BY <1>1, DivisionBounds
<1> HIDE DEF q
<1>3. /\ low \in Int /\ high \in Int /\ top \in Int /\ above \in Int
      /\ (q + 1 <= 1 <=> high <= 1 * p) /\ (t + 1 <= q <=> above <= low)
  <2>1. q + 1 \in Int /\ t + 1 \in Int /\ t \in Int /\ 1 \in Int
    BY <1>2
  <2> QED
    BY <1>2, <2>1, ProductOrder
<1>4. above = top + p /\ 1 * p = p
  OBVIOUS
<1> HIDE DEF low, high, top, above
<1>5. ~(q + 1 <= 1) /\ ~(t + 1 <= q)
  BY <1>1, <1>2, <1>3, <1>4
<1>6. q \in 1 .. t
  BY <1>2, <1>5
<1> QED
  BY <1>6 DEF q, x

\* The characters of a slice.
IsSlice(s, S, text, a, b) ==
  s \in Seq(S) /\ Len(s) = b - a /\ \A i \in 1 .. (b - a) : s[i] = text[a + i]

LEMMA SliceIs ==
  ASSUME NEW S, NEW text \in Seq(S), NEW a \in Nat, NEW b \in Nat, a < b, b <= Len(text),
         NEW s, s = Slice(text, a, b)
  PROVE  IsSlice(s, S, text, a, b)
<1> DEFINE h == a + 1
           n == Len(text)
<1>1. h \in Int /\ b \in Int /\ h <= b /\ b - h + 1 = b - a /\ n \in Nat /\ \A i \in 1 .. (b - a) : h + i - 1 = a + i
  BY LenProperties
<1>2. \A i \in 1 .. n : text[i] \in S
  BY ElementOfSeq
<1>3. \A i \in h .. b : i \in 1 .. n
  BY <1>1
<1>4. \A i \in h .. b : text[i] \in S
  BY <1>2, <1>3
<1>5. s = SubSeq(text, h, b)
  BY DEF Slice
<1> HIDE DEF h, n
<1>6. /\ s \in Seq(S) /\ Len(s) = (IF h <= b THEN b - h + 1 ELSE 0)
      /\ \A i \in 1 .. b - h + 1 : s[i] = text[h + i - 1]
  BY <1>1, <1>4, <1>5, SubSeqProperties
<1> QED
  BY <1>1, <1>6 DEF IsSlice

\* A span of the right size is estimated at no more tokens than it was made for.
LEMMA SpanTokens ==
  ASSUME NEW S, NEW text \in Seq(S), NEW p \in Nat \ {0}, NEW t \in Nat \ {0},
         NEW a, NEW b, SpanFits(a, b, text, t * p), NEW s, s = Slice(text, a, b)
  PROVE  EstimateTokens(s, p) \in 1 .. t /\ Head(s) \notin Blank /\ Last(s) \notin Blank
<1> DEFINE m == b - a
<1>1. /\ a \in Nat /\ b \in Nat /\ a < b /\ b <= Len(text) /\ m <= t * p /\ m \in Nat \ {0}
      /\ text[a + 1] \notin Blank /\ text[(b - 1) + 1] \notin Blank
  BY DEF SpanFits, Solid
<1>2. s \in Seq(S) /\ Len(s) = m /\ \A i \in 1 .. m : s[i] = text[a + i]
  <2>1. s \in Seq(S) /\ Len(s) = b - a /\ \A i \in 1 .. (b - a) : s[i] = text[a + i]
    <3>1. a \in Nat /\ b \in Nat /\ a < b /\ b <= Len(text)
      BY <1>1
    <3>2. IsSlice(s, S, text, a, b)
      BY <3>1, SliceIs
    <3> QED
      BY <3>2 DEF IsSlice
  <2> QED
    BY <2>1
<1>3. 1 \in 1 .. m /\ m \in 1 .. m /\ a + m = (b - 1) + 1
  BY <1>1
<1> HIDE DEF m
<1>4. s[1] \notin Blank /\ s[m] \notin Blank
  BY <1>1, <1>2, <1>3
<1>5. Head(s) = s[1]
  BY <1>2, <1>3, HeadTailProperties
<1>6. Last(s) = s[m]
  BY <1>2 DEF Last
<1>7. SkipWhitespace(s, 0) = 0
  <2>1. Len(s) \in Nat /\ 0 \in 0 .. Len(s) /\ Solid(s, 0)
    BY <1>1, <1>2, <1>4 DEF Solid
  <2>2. SkipWhitespace(s, 0) \in 0 .. Len(s) /\ SkipWhitespace(s, 0) <= 0
    BY <2>1, SkipStops
  <2> QED
    BY <2>1, <2>2
<1>8. Rstrip(s, 0, m) = m
  <2>1. m - 1 \in 0 .. (m - 1) /\ Solid(s, m - 1) /\ m \in Nat /\ 0 <= m /\ 0 \in Nat
    <3>1. (m - 1) + 1 = m
      BY <1>1
    <3> QED
      BY <1>1, <1>4, <3>1 DEF Solid
  <2>2. Rstrip(s, 0, m) \in 0 .. m /\ m - 1 < Rstrip(s, 0, m)
    BY <2>1, RstripStops
  <2> QED
    BY <2>1, <2>2
<1>9. EstimateTokens(s, p) = (m + p - 1) \div p
  <2>1. EstimateTokens(s, p) = ((m - 0) + p - 1) \div p
    BY <1>2, <1>7, <1>8 DEF EstimateTokens
  <2>2. m - 0 = m
    BY <1>1
  <2> QED
    BY <2>1, <2>2
<1>10. EstimateTokens(s, p) \in 1 .. t
  <2>1. (m + p - 1) \div p \in 1 .. t
    BY <1>1, EstimateWithin
  <2> QED
    BY <1>9, <2>1
<1> QED
  BY <1>4, <1>5, <1>6, <1>10

\* The sizes in characters.
LEMMA SizesInCharacters ==
  ASSUME NEW p \in Nat \ {0}, NEW t \in Nat \ {0}, NEW o \in Int
  PROVE  Max({1, t * p}) = t * p /\ t * p \in Nat \ {0} /\ Max({0, o * p}) \in Nat
<1> DEFINE x == t * p
           k == o * p
           u == {1, x}
           v == {0, k}
<1>1. x \in Nat \ {0} /\ k \in Int
  OBVIOUS
<1> HIDE DEF x, k
<1>2. Max({1, x}) = x
  <2>1. u \subseteq 1 .. x /\ u # {} /\ 1 \in Int /\ x \in Int /\ x \in u /\ \A z \in u : z \in 1 .. x
    BY <1>1
  <2> HIDE DEF u
  <2>2. Max(u) \in u /\ x <= Max(u)
    BY <2>1, LargestIn
  <2> DEFINE y == Max(u)
  <2>3. y \in 1 .. x /\ x <= y
    BY <2>1, <2>2
  <2> HIDE DEF y
  <2>4. y = x
    BY <1>1, <2>3
  <2> QED
    BY <2>4 DEF u, y
<1>3. Max({0, k}) \in Nat
  <2> DEFINE low == IF k < 0 THEN k ELSE 0
             top == IF k < 0 THEN 0 ELSE k
             zero == 0
             m == Max(v)
  <2>1. /\ v \subseteq low .. top /\ low \in Int /\ top \in Int /\ zero \in v /\ zero = 0 /\ v # {}
        /\ \A z \in v : z \in Int
    BY <1>1
  <2>2. v = {0, k}
    OBVIOUS
  <2> HIDE DEF v, low, top, zero
  <2>3. m \in v /\ \A z \in v : z <= m
    BY <2>1, LargestIn
  <2> HIDE DEF m
  <2>4. m \in Int /\ 0 <= m
    BY <2>1, <2>3
  <2>5. m \in Nat
    BY <2>4
  <2> QED
    BY <2>2, <2>5 DEF m
<1> QED
  BY <1>1, <1>2, <1>3 DEF x, k

ChunkIs(chunk, text, span, p) ==
  /\ chunk.text = Slice(text, span[1], span[2]) /\ chunk.start = span[1] /\ chunk.end = span[2]
  /\ chunk.tokens = EstimateTokens(Slice(text, span[1], span[2]), p)

\* The spans for sizes in tokens.
SpansOf(text, t, o, p) == ChunkSpans(text, Max({1, t * p}), Max({0, o * p}))

LEMMA ChunksAre ==
  ASSUME NEW text, NEW t, NEW o, NEW p, NEW spans,
         spans = SpansOf(text, t, o, p), NEW S, spans \in Seq(S),
         NEW chunks, chunks = ChunkText(text, t, o, p)
  PROVE  /\ DOMAIN chunks = 1 .. Len(spans) /\ Len(chunks) = Len(spans)
         /\ \A c \in 1 .. Len(spans) : ChunkIs(chunks[c], text, spans[c], p)
<1> DEFINE chunk(c) == [text |-> Slice(text, spans[c][1], spans[c][2]), start |-> spans[c][1], end |-> spans[c][2],
                        tokens |-> EstimateTokens(Slice(text, spans[c][1], spans[c][2]), p)]
<1>1. chunks = [c \in DOMAIN spans |-> chunk(c)]
  BY DEF ChunkText, SpansOf
<1>2. \A c \in DOMAIN spans : ChunkIs(chunk(c), text, spans[c], p)
  BY DEF ChunkIs
<1>3. DOMAIN spans = 1 .. Len(spans) /\ Len(spans) \in Nat
  BY LenProperties
<1> HIDE DEF chunk
<1>4. Len(chunks) = Len(spans)
  <2> DEFINE m == Len(spans)
             U == {chunk(c) : c \in 1 .. m}
  <2>1. m \in Nat /\ chunks \in [1 .. m -> U]
    BY <1>1, <1>3
  <2> HIDE DEF m, U
  <2>2. chunks \in Seq(U)
    BY <2>1, SeqDef
  <2>3. DOMAIN chunks = 1 .. Len(chunks) /\ Len(chunks) \in Nat /\ DOMAIN chunks = 1 .. m
    BY <2>1, <2>2, LenProperties
  <2>4. 1 .. Len(chunks) = 1 .. m
    BY <2>3
  <2>5. Len(chunks) = m
    BY <2>1, <2>3, <2>4, SameNumbers
  <2> QED
    BY <2>5 DEF m
<1> QED
  BY <1>1, <1>2, <1>3, <1>4

\* What the property says of the chunks of one text for one pair of sizes.
ChunksFit(text, t, o, p) ==
  LET chunks == ChunkText(text, t, o, p)
  IN /\ \A i \in 1 .. Len(text) :
          text[i] \notin Blank => \E c \in DOMAIN chunks : chunks[c].start < i /\ i <= chunks[c].end
     /\ \A c \in DOMAIN chunks :
          /\ chunks[c].tokens \in 1 .. t
          /\ Head(chunks[c].text) \notin Blank /\ Last(chunks[c].text) \notin Blank
     /\ \A c \in 2 .. Len(chunks) :
          chunks[c - 1].start < chunks[c].start /\ chunks[c - 1].end <= chunks[c].end

LEMMA ChunkTextFits ==
  ASSUME NEW S, NEW text \in Seq(S), NEW p \in Nat \ {0}, NEW t \in Nat \ {0}, NEW o \in Int
  PROVE  ChunksFit(text, t, o, p)
<1> DEFINE chunks == ChunkText(text, t, o, p)
           target == t * p
           overlap == Max({0, o * p})
           spans == ChunkSpans(text, target, overlap)
           n == Len(text)
           m == Len(spans)
           from == SkipWhitespace(text, 0)
<1>1. Max({1, t * p}) = target /\ target \in Nat \ {0} /\ overlap \in Nat
  BY SizesInCharacters
<1>2. n \in Nat
  BY LenProperties
<1>3. spans = SpansOf(text, t, o, p) /\ target = t * p /\ chunks = ChunkText(text, t, o, p)
  BY <1>1 DEF SpansOf
<1> HIDE DEF target, overlap
<1>4. SpansFit(spans, text, target, from)
  BY <1>1, <1>2, ChunkSpansFit
<1>5. \A j \in 0 .. n : Solid(text, j) => from <= j
  BY <1>2, SkipStops
<1>6. from \in 0 .. n
  BY <1>2, SkipStops
<1> HIDE DEF spans, from
<1>7. spans \in Seq(Nat \X Nat) /\ m \in Nat
  BY <1>4, LenProperties DEF SpansFit
<1>8. /\ DOMAIN chunks = 1 .. m /\ Len(chunks) = m
      /\ \A c \in 1 .. m : ChunkIs(chunks[c], text, spans[c], p)
  <2> HIDE DEF chunks
  <2> QED
    BY <1>3, <1>7, ChunksAre
<1>9. ASSUME NEW c \in 1 .. m
      PROVE  /\ chunks[c].start = spans[c][1] /\ chunks[c].end = spans[c][2]
             /\ chunks[c].text = Slice(text, spans[c][1], spans[c][2])
             /\ chunks[c].tokens = EstimateTokens(Slice(text, spans[c][1], spans[c][2]), p)
  BY <1>8 DEF ChunkIs
<1> HIDE DEF chunks
<1>10. ASSUME NEW i \in 1 .. n, text[i] \notin Blank
       PROVE  \E c \in DOMAIN chunks : chunks[c].start < i /\ i <= chunks[c].end
  <2> DEFINE j == i - 1
  <2>1. j \in 0 .. n /\ j \in 0 .. (n - 1) /\ j + 1 = i
    BY <1>2
  <2>2. Solid(text, j)
    BY <1>10, <2>1 DEF Solid
  <2> HIDE DEF j
  <2>3. j \in from .. (n - 1)
    <3>1. from <= j
      BY <1>5, <2>1, <2>2
    <3> QED
      BY <1>6, <2>1, <3>1
  <2>4. PICK c \in 1 .. m : spans[c][1] <= j /\ j < spans[c][2]
    BY <1>4, <2>2, <2>3 DEF SpansFit, SpansCover
  <2>5. SpanFits(spans[c][1], spans[c][2], text, target)
    BY <1>4 DEF SpansFit, SpansEach
  <2> DEFINE a == spans[c][1]
             b == spans[c][2]
  <2>6. a \in Nat /\ b \in Nat /\ a <= j /\ j < b /\ chunks[c].start = a /\ chunks[c].end = b
    BY <1>9, <2>4, <2>5 DEF SpanFits
  <2> HIDE DEF a, b
  <2>7. a < i /\ i <= b
    BY <2>1, <2>6
  <2> QED
    BY <1>8, <2>6, <2>7
<1>11. ASSUME NEW c \in 1 .. m
       PROVE  /\ chunks[c].tokens \in 1 .. t
              /\ Head(chunks[c].text) \notin Blank /\ Last(chunks[c].text) \notin Blank
  <2> DEFINE a == spans[c][1]
             b == spans[c][2]
             s == Slice(text, a, b)
  <2>1. SpanFits(a, b, text, t * p)
    BY <1>3, <1>4 DEF SpansFit, SpansEach
  <2>2. chunks[c].text = s /\ chunks[c].tokens = EstimateTokens(s, p)
    BY <1>9
  <2>3. s = Slice(text, a, b)
    OBVIOUS
  <2> HIDE DEF a, b, s
  <2>4. EstimateTokens(s, p) \in 1 .. t /\ Head(s) \notin Blank /\ Last(s) \notin Blank
    BY <2>1, <2>3, SpanTokens
  <2> QED
    BY <2>2, <2>4
<1>12. ASSUME NEW c \in 2 .. m
       PROVE  chunks[c - 1].start < chunks[c].start /\ chunks[c - 1].end <= chunks[c].end
  <2>1. c \in 1 .. m /\ c - 1 \in 1 .. m
    BY <1>7
  <2>2. spans[c - 1][1] < spans[c][1] /\ spans[c - 1][2] <= spans[c][2]
    BY <1>4 DEF SpansFit, SpansOrdered
  <2> QED
    BY <1>9, <2>1, <2>2
<1> QED
  BY <1>8, <1>10, <1>11, <1>12 DEF ChunksFit, chunks

\* A value for each number up to one, each from the one before it.
StepsWithin(F, A, n) == \A k \in 1 .. n, a \in A : F[<<k, a>>] \in A
RunOf(f, F, base, A, n) ==
  f \in [0 .. n -> A] /\ f[0] = base /\ \A k \in 1 .. n : f[k] = F[<<k, f[k - 1]>>]

LEMMA RecursionExists ==
  ASSUME NEW A, NEW base \in A, NEW n \in Nat, NEW F, StepsWithin(F, A, n)
  PROVE  \E f : RunOf(f, F, base, A, n)
<1> USE DEF StepsWithin
<1> DEFINE Runs(f, m) == f \in [0 .. m -> A] /\ f[0] = base /\ \A k \in 1 .. m : f[k] = F[<<k, f[k - 1]>>]
           T == {m \in Nat : m <= n => \E f : Runs(f, m)}
<1>1. 0 \in T
  <2> DEFINE f == [k \in 0 .. 0 |-> base]
  <2>1. Runs(f, 0)
    OBVIOUS
  <2> HIDE DEF Runs
  <2> QED
    BY <2>1
<1>2. ASSUME NEW m \in T PROVE m + 1 \in T
  <2>0. m \in Nat /\ (m <= n => \E f : Runs(f, m))
    OBVIOUS
  <2> SUFFICES ASSUME m + 1 <= n PROVE \E f : Runs(f, m + 1)
    BY <2>0
  <2>1. PICK f : Runs(f, m)
    BY <2>0
  <2> DEFINE v == F[<<m + 1, f[m]>>]
             g == [k \in 0 .. (m + 1) |-> IF k = m + 1 THEN v ELSE f[k]]
  <2>2. v \in A
    <3>1. f[m] \in A /\ m + 1 \in 1 .. n
      BY <2>0, <2>1
    <3> QED
      BY <3>1
  <2>3. \A k \in 0 .. m : g[k] = f[k] /\ f[k] \in A
    BY <2>0, <2>1
  <2>4. g[m + 1] = v
    BY <2>0
  <2>5. g \in [0 .. (m + 1) -> A]
    BY <2>0, <2>1, <2>2
  <2> HIDE DEF g
  <2>6. ASSUME NEW k \in 1 .. (m + 1) PROVE g[k] = F[<<k, g[k - 1]>>]
    <3>1. CASE k = m + 1
      <4>1. k - 1 = m /\ m \in 0 .. m
        BY <2>0, <3>1
      <4> QED
        BY <2>3, <2>4, <3>1, <4>1
    <3>2. CASE k # m + 1
      <4>1. k \in 1 .. m /\ k \in 0 .. m /\ k - 1 \in 0 .. m
        BY <2>0, <3>2
      <4>2. f[k] = F[<<k, f[k - 1]>>]
        BY <2>1, <4>1
      <4> QED
        BY <2>3, <4>1, <4>2
    <3> QED
      BY <3>1, <3>2
  <2>7. g[0] = base
    BY <2>0, <2>1, <2>3
  <2>8. Runs(g, m + 1)
    BY <2>5, <2>6, <2>7
  <2> HIDE DEF Runs
  <2> QED
    BY <2>8
<1> HIDE DEF T
<1>3. T = Nat
  <2>1. T \subseteq Nat
    BY DEF T
  <2> QED
    BY <1>1, <1>2, <2>1, EveryNumber
<1>4. n \in T /\ n <= n
  BY <1>3
<1>5. \E f : Runs(f, n)
  <2> HIDE DEF Runs
  <2> QED
    BY <1>4 DEF T
<1> QED
  BY <1>5 DEF RunOf

\* The pages read so far, and what they count for.
Joins(f, pgs) ==
  f = [k \in 0 .. Len(pgs) |->
        IF k = 0 THEN <<>> ELSE IF k = 1 THEN pgs[1]
        ELSE f[k - 1] \o <<Newline>> \o pgs[k]]
Counts(f, pgs) ==
  f = [k \in 0 .. Len(pgs) |-> IF k = 0 THEN 0 ELSE f[k - 1] + Len(pgs[k]) + 1]

LEMMA NewlineRun == Newline \in Characters /\ <<Newline>> \in Seq(Characters) /\ Len(<<Newline>>) = 1
<1>1. Newline \in Characters
  BY DEF Characters
<1>2. ASSUME NEW S, NEW x \in S PROVE <<x>> \in Seq(S) /\ Len(<<x>>) = 1
  OBVIOUS
<1> QED
  BY <1>1, <1>2

LEMMA PageJoined ==
  ASSUME NEW s \in Seq(Characters), NEW page \in Seq(Characters), NEW t, t = s \o <<Newline>> \o page
  PROVE  t \in Seq(Characters) /\ Len(t) = Len(s) + 1 + Len(page)
<1> DEFINE e == <<Newline>>
           u == s \o e
<1>1. e \in Seq(Characters) /\ Len(e) = 1 /\ t = u \o page
  BY NewlineRun
<1> HIDE DEF e
<1>2. u \in Seq(Characters) /\ Len(u) = Len(s) + Len(e)
  BY <1>1, ConcatProperties
<1> HIDE DEF u
<1>3. t \in Seq(Characters) /\ Len(t) = Len(u) + Len(page)
  BY <1>1, <1>2, ConcatProperties
<1> QED
  BY <1>1, <1>2, <1>3

LEMMA JoinsExist ==
  ASSUME NEW pgs \in Seq(Seq(Characters))
  PROVE  \E f : Joins(f, pgs)
<1> DEFINE n == Len(pgs)
           A == Seq(Characters)
           step(k, a) == IF k = 1 THEN pgs[1] ELSE a \o <<Newline>> \o pgs[k]
           F == [x \in (1 .. n) \X A |-> step(x[1], x[2])]
<1>1. n \in Nat /\ <<>> \in A /\ \A k \in 1 .. n : pgs[k] \in A
  BY LenProperties, ElementOfSeq, EmptySeq
<1>2. ASSUME NEW k \in 1 .. n, NEW a \in A PROVE F[<<k, a>>] = step(k, a) /\ step(k, a) \in A
  <2>1. F[<<k, a>>] = step(k, a)
    <3> HIDE DEF step, A, n
    <3> QED
      OBVIOUS
  <2>2. a \o <<Newline>> \o pgs[k] \in A
    BY <1>1, PageJoined
  <2>3. k = 1 => pgs[1] \in A
    BY <1>1
  <2> QED
    BY <2>1, <2>2, <2>3
<1> DEFINE empty == <<>>
<1>3. empty \in A /\ empty = <<>>
  BY <1>1
<1> HIDE DEF F, A, n, step, empty
<1>4. PICK f : f \in [0 .. n -> A] /\ f[0] = empty /\ \A k \in 1 .. n : f[k] = F[<<k, f[k - 1]>>]
  <2>1. StepsWithin(F, A, n)
    BY <1>2 DEF StepsWithin
  <2>2. \E f : RunOf(f, F, empty, A, n)
    BY <1>1, <1>3, <2>1, RecursionExists
  <2> QED
    BY <2>2 DEF RunOf
<1>5. ASSUME NEW k \in 1 .. n PROVE f[k] = step(k, f[k - 1])
  <2>1. k - 1 \in 0 .. n
    BY <1>1
  <2>2. f[k - 1] \in A
    BY <1>4, <2>1
  <2> QED
    BY <1>2, <1>4, <2>2
<1>6. \A k \in 0 .. n : f[k] = IF k = 0 THEN empty ELSE step(k, f[k - 1])
  <2>1. \A k \in 0 .. n : k # 0 => k \in 1 .. n
    BY <1>1
  <2> QED
    BY <1>4, <1>5, <2>1
<1>7. f = [k \in 0 .. n |-> IF k = 0 THEN empty ELSE step(k, f[k - 1])]
  BY <1>4, <1>6
<1>8. f = [k \in 0 .. n |-> IF k = 0 THEN <<>> ELSE step(k, f[k - 1])]
  BY <1>3, <1>7, Zenon
<1>9. Joins(f, pgs)
  BY <1>8, Zenon DEF Joins, step, n
<1> QED
  BY <1>9

LEMMA CountsExist ==
  ASSUME NEW pgs \in Seq(Seq(Characters))
  PROVE  \E f : Counts(f, pgs)
<1> DEFINE n == Len(pgs)
           step(k, a) == a + Len(pgs[k]) + 1
           F == [x \in (1 .. n) \X Nat |-> step(x[1], x[2])]
<1>1. n \in Nat /\ \A k \in 1 .. n : Len(pgs[k]) \in Nat
  <2>1. \A k \in 1 .. n : pgs[k] \in Seq(Characters)
    BY ElementOfSeq
  <2> QED
    BY <2>1, LenProperties
<1>2. ASSUME NEW k \in 1 .. n, NEW a \in Nat PROVE F[<<k, a>>] = step(k, a) /\ step(k, a) \in Nat
  <2>1. F[<<k, a>>] = step(k, a)
    <3> HIDE DEF step, n
    <3> QED
      OBVIOUS
  <2> QED
    BY <1>1, <2>1
<1> HIDE DEF F, n, step
<1>4. PICK f : f \in [0 .. n -> Nat] /\ f[0] = 0 /\ \A k \in 1 .. n : f[k] = F[<<k, f[k - 1]>>]
  <2>1. StepsWithin(F, Nat, n) /\ 0 \in Nat
    BY <1>2 DEF StepsWithin
  <2>2. \E f : RunOf(f, F, 0, Nat, n)
    BY <1>1, <2>1, RecursionExists
  <2> QED
    BY <2>2 DEF RunOf
<1>5. ASSUME NEW k \in 1 .. n PROVE f[k] = step(k, f[k - 1])
  <2>1. k - 1 \in 0 .. n
    BY <1>1
  <2>2. f[k - 1] \in Nat
    BY <1>4, <2>1
  <2> QED
    BY <1>2, <1>4, <2>2
<1>6. \A k \in 0 .. n : f[k] = IF k = 0 THEN 0 ELSE step(k, f[k - 1])
  <2>1. \A k \in 0 .. n : k # 0 => k \in 1 .. n
    BY <1>1
  <2> QED
    BY <1>4, <1>5, <2>1
<1>7. f = [k \in 0 .. n |-> IF k = 0 THEN 0 ELSE step(k, f[k - 1])]
  BY <1>4, <1>6
<1>8. Counts(f, pgs)
  BY <1>7, Zenon DEF Counts, step, n
<1> QED
  BY <1>8

\* A PDF that is read is a text within the limit.
LEMMA ReadPdfIs ==
  ASSUME NEW pgs \in Seq(Seq(Characters)), Len(pgs) >= 1, NEW most, NEW limit \in Nat,
         NEW text, text = ReadPdf(pgs, most, limit), text # ParseError
  PROVE  text \in Seq(Characters) /\ Len(text) <= limit
<1> DEFINE n == Len(pgs)
           joined == CHOOSE f : Joins(f, pgs)
           total == CHOOSE f : Counts(f, pgs)
<1>1. Joins(joined, pgs) /\ Counts(total, pgs)
  BY JoinsExist, CountsExist
<1>2. ReadPdf(pgs, most, limit) = IF n > most \/ total[n] > limit THEN ParseError ELSE joined[n]
  BY DEF ReadPdf, Joins, Counts
<1> HIDE DEF joined, total
<1>3. n \in Nat /\ n >= 1 /\ \A k \in 1 .. n : pgs[k] \in Seq(Characters) /\ Len(pgs[k]) \in Nat
  <2>1. \A k \in 1 .. n : pgs[k] \in Seq(Characters)
    BY ElementOfSeq
  <2> QED
    BY <2>1, LenProperties
<1>4. /\ joined[1] = pgs[1]
      /\ \A k \in 2 .. n : joined[k] = joined[k - 1] \o <<Newline>> \o pgs[k]
  <2>1. 1 \in 0 .. n /\ \A k \in 2 .. n : k \in 0 .. n /\ k # 0 /\ k # 1
    BY <1>3
  <2> QED
    BY <1>1, <2>1, Zenon DEF Joins
<1>5. total[0] = 0 /\ \A k \in 1 .. n : total[k] = total[k - 1] + Len(pgs[k]) + 1
  <2>1. 0 \in 0 .. n /\ \A k \in 1 .. n : k \in 0 .. n /\ k # 0
    BY <1>3
  <2> QED
    BY <1>1, <2>1 DEF Counts
<1> HIDE DEF n
<1> DEFINE Within(k) == joined[k + 1] \in Seq(Characters) /\ total[k + 1] \in Nat /\ Len(joined[k + 1]) <= total[k + 1]
           T == {k \in Nat : k + 1 <= n => Within(k)}
<1>6. 0 \in T
  <2>1. 1 \in 1 .. n /\ 1 - 1 = 0 /\ 0 + 1 = 1
    BY <1>3
  <2>2. total[1] = total[0] + Len(pgs[1]) + 1
    BY <1>5, <2>1
  <2>3. pgs[1] \in Seq(Characters) /\ Len(pgs[1]) \in Nat
    BY <1>3, <2>1
  <2>4. total[1] \in Nat /\ Len(pgs[1]) <= total[1]
    BY <1>5, <2>2, <2>3
  <2> QED
    BY <1>4, <2>1, <2>3, <2>4
<1>7. ASSUME NEW k \in T PROVE k + 1 \in T
  <2>0. k \in Nat /\ (k + 1 <= n => Within(k))
    OBVIOUS
  <2> DEFINE m == k + 2
             s == joined[k + 1]
             t == joined[m]
  <2>1. k + 1 + 1 = m /\ m - 1 = k + 1 /\ k + 1 \in Nat
    BY <2>0
  <2> SUFFICES ASSUME m <= n PROVE t \in Seq(Characters) /\ total[m] \in Nat /\ Len(t) <= total[m]
    BY <2>1
  <2>2. m \in 2 .. n /\ m \in 1 .. n /\ k + 1 <= n
    BY <1>3, <2>0
  <2>3. s \in Seq(Characters) /\ total[k + 1] \in Nat /\ Len(s) <= total[k + 1]
    BY <2>0, <2>2
  <2> HIDE DEF m, s, t
  <2>4. pgs[m] \in Seq(Characters) /\ Len(pgs[m]) \in Nat
    BY <1>3, <2>2
  <2>5. total[m] = total[k + 1] + Len(pgs[m]) + 1
    BY <1>5, <2>1, <2>2
  <2>6. t = s \o <<Newline>> \o pgs[m]
    BY <1>4, <2>1, <2>2, Zenon DEF s, t
  <2>7. t \in Seq(Characters) /\ Len(t) = Len(s) + 1 + Len(pgs[m])
    BY <2>3, <2>4, <2>6, PageJoined
  <2>8. Len(s) \in Nat
    BY <2>3, LenProperties
  <2> DEFINE u == total[k + 1]
             v == total[m]
             l == Len(s)
             p == Len(pgs[m])
  <2>9. u \in Nat /\ l \in Nat /\ p \in Nat /\ l <= u /\ v = u + p + 1 /\ Len(t) = l + 1 + p
    BY <2>3, <2>4, <2>5, <2>7, <2>8
  <2> HIDE DEF u, v, l, p
  <2>10. v \in Nat /\ Len(t) <= v
    BY <2>9
  <2> QED
    BY <2>7, <2>10 DEF v
<1>8. T = Nat
  <2> HIDE DEF T
  <2>1. T \subseteq Nat
    BY DEF T
  <2> QED
    BY <1>6, <1>7, <2>1, EveryNumber
<1>9. joined[n] \in Seq(Characters) /\ total[n] \in Nat /\ Len(joined[n]) <= total[n]
  <2>1. n - 1 \in Nat /\ (n - 1) + 1 = n
    BY <1>3
  <2>2. n - 1 \in T /\ (n - 1) + 1 <= n
    <3> HIDE DEF T
    <3> QED
      BY <1>3, <1>8, <2>1
  <2>3. Within(n - 1)
    BY <2>2
  <2> HIDE DEF T
  <2> QED
    BY <2>1, <2>3
<1>10. ~(total[n] > limit) /\ text = joined[n]
  BY <1>2
<1>11. Len(text) \in Nat
  BY <1>9, <1>10, LenProperties
<1> QED
  BY <1>9, <1>10, <1>11

FileInv ==
  file \in [type : {"text", "pdf", "other"}, pages : Seq(Seq(Characters))] /\ Len(file.pages) >= 1

\* A file grows by a character of its last page, or by a page.
LEMMA FileInvHolds == Spec => []FileInv
<1>1. Init => FileInv
  <2> SUFFICES ASSUME Init PROVE FileInv
    OBVIOUS
  <2> DEFINE ps == <<<<>>>>
  <2>1. ps \in Seq(Seq(Characters)) /\ Len(ps) = 1
    <3>1. <<>> \in Seq(Characters)
      BY EmptySeq
    <3>2. ASSUME NEW S, NEW x \in S PROVE <<x>> \in Seq(S) /\ Len(<<x>>) = 1
      OBVIOUS
    <3> QED
      BY <3>1, <3>2
  <2>2. file = [type |-> "text", pages |-> ps]
    BY DEF Init
  <2> HIDE DEF ps
  <2> QED
    BY <2>1, <2>2 DEF FileInv
<1>2. FileInv /\ [Next]_vars => FileInv'
  <2> SUFFICES ASSUME FileInv, [Next]_vars PROVE FileInv'
    OBVIOUS
  <2> DEFINE ps == file.pages
             n == Len(ps)
  <2>0. ps \in Seq(Seq(Characters)) /\ n >= 1 /\ n \in Nat
    <3>1. ps \in Seq(Seq(Characters)) /\ n >= 1
      BY DEF FileInv
    <3> QED
      BY <3>1, LenProperties
  <2>1. CASE AddCharacter
    <3>1. PICK c \in Characters : file' = [file EXCEPT !.pages[Len(file.pages)] = Append(@, c)]
      BY <2>1 DEF AddCharacter
    <3> DEFINE qs == [ps EXCEPT ![n] = Append(ps[n], c)]
    <3>2. qs \in Seq(Seq(Characters)) /\ Len(qs) = n
      <4>1. ps[n] \in Seq(Characters)
        BY <2>0, ElementOfSeq
      <4>2. Append(ps[n], c) \in Seq(Characters)
        BY <4>1, AppendProperties
      <4> DEFINE x == Append(ps[n], c)
      <4> HIDE DEF x, ps
      <4> QED
        BY <2>0, <4>2, ExceptSeq DEF x
    <3>3. file' = [file EXCEPT !.pages = qs]
      BY <3>1 DEF FileInv
    <3> HIDE DEF qs
    <3> QED
      BY <2>0, <3>2, <3>3 DEF FileInv
  <2>2. CASE AddPage
    <3> DEFINE qs == Append(ps, <<>>)
    <3>1. file' = [type |-> "pdf", pages |-> qs]
      BY <2>2 DEF AddPage
    <3>2. qs \in Seq(Seq(Characters)) /\ Len(qs) = n + 1
      <4>1. <<>> \in Seq(Characters)
        BY EmptySeq
      <4> QED
        BY <2>0, <4>1, AppendProperties
    <3> HIDE DEF qs
    <3> QED
      BY <2>0, <3>1, <3>2 DEF FileInv
  <2>3. CASE ChangeType
    BY <2>0, <2>3 DEF ChangeType, FileInv
  <2>4. CASE file' = file
    BY <2>4 DEF FileInv
  <2> QED
    BY <2>1, <2>2, <2>3, <2>4 DEF Next, vars, AddSymbol, ConfigureBackend, AddReply, RecordRow, AskUsage, AddPiece
<1> QED
  BY <1>1, <1>2, PTL DEF Spec

LEMMA ExtractIs ==
  ASSUME FileInv, NEW text, text = ExtractText(file, MaxPages, MaxChars), text # ParseError
  PROVE  /\ text \in Seq(Characters) /\ Len(text) \in Nat /\ Len(text) <= MaxChars
         /\ file.type \in {"text", "pdf"}
<1> DEFINE ps == file.pages
<1>1. ps \in Seq(Seq(Characters)) /\ Len(ps) >= 1 /\ MaxChars \in Nat
  BY AlgorithmsBounds DEF FileInv
<1>2. /\ file.type \in {"text", "pdf"}
      /\ text = IF file.type = "text" THEN ReadText(ps[1], MaxChars) ELSE ReadPdf(ps, MaxPages, MaxChars)
  BY DEF ExtractText
<1> HIDE DEF ps
<1>3. CASE text = ReadText(ps[1], MaxChars)
  <2>1. 1 \in 1 .. Len(ps)
    <3>1. Len(ps) \in Nat
      BY <1>1, LenProperties
    <3> QED
      BY <1>1, <3>1
  <2>2. ps[1] \in Seq(Characters)
    BY <1>1, <2>1, ElementOfSeq
  <2>3. text = ps[1] /\ ~(Len(ps[1]) > MaxChars)
    BY <1>3 DEF ReadText
  <2>4. Len(ps[1]) \in Nat
    BY <2>2, LenProperties
  <2> QED
    BY <1>1, <1>2, <2>2, <2>3, <2>4
<1>4. CASE text = ReadPdf(ps, MaxPages, MaxChars)
  <2>1. text \in Seq(Characters) /\ Len(text) <= MaxChars
    BY <1>1, <1>4, ReadPdfIs
  <2> QED
    BY <1>2, <2>1, LenProperties
<1> QED
  BY <1>2, <1>3, <1>4

\* Of every file, of whatever length and for all sizes: each character of its text that is not
\* blank is in some chunk, no chunk is empty, over the target or bounded by a blank, and each
\* begins behind and ends no earlier than the one before it (chunk_text); a text that is
\* read is within the limit (extract_text).
THEOREM EveryCharacterChunkedAlways == Spec => []EveryCharacterChunked
<1>1. FileInv => EveryCharacterChunked
  <2> SUFFICES ASSUME FileInv PROVE EveryCharacterChunked
    OBVIOUS
  <2> DEFINE text == ExtractText(file, MaxPages, MaxChars)
  <2>1. ASSUME text # ParseError
        PROVE  /\ file.type \in {"text", "pdf"} /\ Len(text) <= MaxChars
               /\ \A target \in TargetTokens, overlap \in OverlapTokens :
                    ChunksFit(text, target, overlap, CharsPerToken)
    <3>1. text \in Seq(Characters) /\ Len(text) <= MaxChars /\ file.type \in {"text", "pdf"}
      BY <2>1, ExtractIs
    <3> HIDE DEF text
    <3>2. ASSUME NEW target \in TargetTokens, NEW overlap \in OverlapTokens
          PROVE  ChunksFit(text, target, overlap, CharsPerToken)
      <4>1. target \in Nat \ {0} /\ overlap \in Int /\ CharsPerToken \in Nat \ {0}
        BY AlgorithmsBounds
      <4> QED
        BY <3>1, <4>1, ChunkTextFits
    <3> QED
      BY <3>1, <3>2
  <2> QED
    BY <2>1, Zenon DEF EveryCharacterChunked, ChunksFit
<1> QED
  BY <1>1, FileInvHolds, PTL
=============================================================================
