--------------------------- MODULE EvaluationProofs --------------------------
(***************************************************************************)
(* What Evaluation guarantees for every corpus, every number of questions  *)
(* and runs, and every outcome of models and judges.                       *)
(*                                                                         *)
(* First come the operators of Scoring: what its folds add up to, the      *)
(* order its means keep, and what a ranking and a judge's payload come to. *)
(* Then the steps of a run keep EvaluationInv, which the theorems on what  *)
(* is left behind and on the exit status rest on, and with it ReportInv,   *)
(* which the numbers of a report follow from.                              *)
(***************************************************************************)
EXTENDS Evaluation, SequenceTheorems, FiniteSetTheorems, WellFoundedInduction, TLAPS

(***************************************************************************)
(* Induction, folds and sums                                               *)
(***************************************************************************)

\* A set of numbers that holds 0 and with a number the next one holds all.
LEMMA EveryNumber ==
  ASSUME NEW T, T \subseteq Nat, 0 \in T, \A k \in T : k + 1 \in T
  PROVE  T = Nat
<1> SUFFICES ASSUME Nat \ T # {} PROVE FALSE
  OBVIOUS
<1>1. PICK x \in Nat \ T : \A y \in Nat \ T : <<y, x>> \notin OpToRel(<, Nat)
  BY WFMin, NatLessThanWellFounded, Nat \ T \subseteq Nat
<1>2. x # 0 /\ x - 1 \in Nat /\ x - 1 < x
  OBVIOUS
<1>3. x - 1 \in T
  BY <1>1, <1>2 DEF OpToRel
<1>4. (x - 1) + 1 = x
  OBVIOUS
<1> QED
  BY <1>3, <1>4

\* The largest of some of the first numbers.
LEMMA LargestOf ==
  ASSUME NEW n \in Nat, NEW u \in SUBSET (1 .. n), u # {}
  PROVE  Max(u) \in u /\ \A x \in u : x <= Max(u)
<1> DEFINE T == {k \in Nat : \A w \in SUBSET (1 .. k) : w # {} => \E x \in w : \A y \in w : x >= y}
<1>1. 0 \in T
  <2>1. \A w \in SUBSET (1 .. 0) : w = {}
    OBVIOUS
  <2> QED
    BY <2>1
<1>2. ASSUME NEW k \in T PROVE k + 1 \in T
  <2> SUFFICES ASSUME NEW w \in SUBSET (1 .. (k + 1)), w # {}
               PROVE  \E x \in w : \A y \in w : x >= y
    OBVIOUS
  <2>1. CASE k + 1 \in w
    BY <2>1
  <2>2. CASE k + 1 \notin w
    <3>1. w \in SUBSET (1 .. k)
      BY <2>2
    <3> QED
      BY <3>1
  <2> QED
    BY <2>1, <2>2
<1>3. T = Nat
  <2> HIDE DEF T
  <2>1. T \subseteq Nat
    BY DEF T
  <2> QED
    BY <1>1, <1>2, <2>1, EveryNumber
<1>4. \E x \in u : \A y \in u : x >= y
  BY <1>3
<1>5. Max(u) \in u /\ \A y \in u : Max(u) >= y
  BY <1>4 DEF Max
<1> QED
  BY <1>5

\* The first numbers, one more at a time.
LEMMA FirstNumbers ==
  /\ 1 .. 0 = {}
  /\ \A k \in Nat : 1 .. (k + 1) # {} /\ Max(1 .. (k + 1)) = k + 1 /\ (1 .. (k + 1)) \ {k + 1} = 1 .. k
<1>1. 1 .. 0 = {}
  OBVIOUS
<1>2. ASSUME NEW k \in Nat PROVE 1 .. (k + 1) # {} /\ Max(1 .. (k + 1)) = k + 1 /\ (1 .. (k + 1)) \ {k + 1} = 1 .. k
  <2>1. k + 1 \in 1 .. (k + 1) /\ k + 1 \in Nat /\ 1 .. (k + 1) \in SUBSET (1 .. (k + 1))
    OBVIOUS
  <2>2. Max(1 .. (k + 1)) \in 1 .. (k + 1) /\ k + 1 <= Max(1 .. (k + 1))
    BY <2>1, LargestOf
  <2>3. Max(1 .. (k + 1)) = k + 1
    BY <2>2
  <2>4. (1 .. (k + 1)) \ {k + 1} = 1 .. k
    OBVIOUS
  <2> QED
    BY <2>1, <2>3, <2>4
<1> QED
  BY <1>1, <1>2

\* A fold of a sequence, on every set of its positions: F takes what the positions before
\* the last one gave and the element at the last.
Iterates(it, F, base, seq, n) ==
  it = [u \in SUBSET (1 .. n) |-> IF u = {} THEN base ELSE F[<<it[u \ {Max(u)}], seq[Max(u)]>>]]

LEMMA IterationExists ==
  ASSUME NEW A, NEW B, NEW F \in [A \X B -> A], NEW base \in A, NEW seq \in Seq(B)
  PROVE  \E it \in [SUBSET (1 .. Len(seq)) -> A] : Iterates(it, F, base, seq, Len(seq))
<1> DEFINE n == Len(seq)
           T == {k \in Nat : k <= n => \E it \in [SUBSET (1 .. k) -> A] : Iterates(it, F, base, seq, k)}
<1>n. n \in Nat /\ \A i \in 1 .. n : seq[i] \in B
  BY LenProperties, ElementOfSeq
<1>1. 0 \in T
  <2> DEFINE it == [u \in SUBSET (1 .. 0) |-> base]
  <2>1. \A u \in SUBSET (1 .. 0) : u = {}
    OBVIOUS
  <2>2. Iterates(it, F, base, seq, 0) /\ it \in [SUBSET (1 .. 0) -> A]
    BY <2>1 DEF Iterates
  <2> QED
    BY <2>2
<1>2. ASSUME NEW k \in T PROVE k + 1 \in T
  <2>k. k \in Nat /\ k + 1 \in Nat
    OBVIOUS
  <2> SUFFICES ASSUME k + 1 <= n
               PROVE  \E it \in [SUBSET (1 .. (k + 1)) -> A] : Iterates(it, F, base, seq, k + 1)
    BY <2>k
  <2>1. PICK it \in [SUBSET (1 .. k) -> A] : Iterates(it, F, base, seq, k)
    <3>1. k <= n
      BY <2>k, <1>n
    <3>2. k <= n => \E it \in [SUBSET (1 .. k) -> A] : Iterates(it, F, base, seq, k)
      OBVIOUS
    <3> QED
      BY <3>1, <3>2
  <2> DEFINE jt == [u \in SUBSET (1 .. (k + 1)) |->
                      IF k + 1 \in u THEN F[<<it[u \ {k + 1}], seq[k + 1]>>] ELSE it[u]]
  <2>2. ASSUME NEW u \in SUBSET (1 .. (k + 1))
        PROVE  jt[u] \in A /\ jt[u] = IF u = {} THEN base ELSE F[<<jt[u \ {Max(u)}], seq[Max(u)]>>]
    <3>1. CASE k + 1 \in u
      <4>1. Max(u) = k + 1
        <5>1. Max(u) \in u /\ k + 1 <= Max(u)
          BY <3>1, <2>k, LargestOf
        <5>2. Max(u) \in 1 .. (k + 1)
          BY <5>1
        <5> QED
          BY <2>k, <5>1, <5>2
      <4>2. u \ {k + 1} \in SUBSET (1 .. (k + 1)) /\ u \ {k + 1} \in SUBSET (1 .. k) /\ k + 1 \notin u \ {k + 1}
        BY <2>k
      <4>3. jt[u \ {k + 1}] = it[u \ {k + 1}]
        BY <4>2
      <4>4. it[u \ {k + 1}] \in A /\ seq[k + 1] \in B
        BY <4>2, <1>n, <2>k
      <4> QED
        BY <3>1, <4>1, <4>3, <4>4
    <3>2. CASE k + 1 \notin u
      <4>1. u \in SUBSET (1 .. k) /\ jt[u] = it[u]
        BY <3>2, <2>k
      <4>2. it[u] = IF u = {} THEN base ELSE F[<<it[u \ {Max(u)}], seq[Max(u)]>>]
        BY <2>1, <4>1 DEF Iterates
      <4>3. jt[u \ {Max(u)}] = it[u \ {Max(u)}]
        <5>1. u \ {Max(u)} \in SUBSET (1 .. (k + 1)) /\ k + 1 \notin u \ {Max(u)}
          BY <3>2
        <5> QED
          BY <5>1
      <4> QED
        BY <4>1, <4>2, <4>3
    <3> QED
      BY <3>1, <3>2
  <2>3. jt = [u \in SUBSET (1 .. (k + 1)) |-> jt[u]]
    OBVIOUS
  <2> HIDE DEF jt
  <2>4. Iterates(jt, F, base, seq, k + 1)
    BY <2>2, <2>3 DEF Iterates
  <2>5. jt \in [SUBSET (1 .. (k + 1)) -> A]
    BY <2>2, <2>3
  <2> QED
    BY <2>4, <2>5
<1> HIDE DEF T
<1>3. T = Nat
  <2>1. T \subseteq Nat
    BY DEF T
  <2> QED
    BY <1>1, <1>2, <2>1, EveryNumber
<1>4. n \in T /\ n <= n
  BY <1>n, <1>3
<1>5. n <= n => \E it \in [SUBSET (1 .. n) -> A] : Iterates(it, F, base, seq, n)
  BY <1>4 DEF T
<1> QED
  BY <1>4, <1>5

\* A sum is added up number by number.
LEMMA SumFold ==
  ASSUME NEW numbers \in Seq(Int)
  PROVE  \E r : /\ r[0] = 0 /\ r[Len(numbers)] = SumOf(numbers)
                /\ \A k \in 0 .. Len(numbers) - 1 : r[k + 1] = r[k] + numbers[k + 1]
<1> DEFINE St == Int
           El == Int
           seq == numbers
           n == Len(seq)
           F == [x \in St \X El |-> x[1] + x[2]]
           Fold(f) == f = [u \in SUBSET (1 .. n) |->
                             IF u = {} THEN 0 ELSE f[u \ {Max(u)}] + seq[Max(u)]]
           it == CHOOSE f : Fold(f)
           r == [k \in 0 .. n |-> it[1 .. k]]
<1>s. seq \in Seq(El)
  OBVIOUS
<1>n. n \in Nat /\ DOMAIN seq = 1 .. n /\ \A i \in 1 .. n : seq[i] \in El
  BY <1>s, LenProperties, ElementOfSeq
<1>3. SumOf(numbers) = it[1 .. n]
  BY <1>n DEF SumOf, FoldLeft, MapThenFoldSet
<1> HIDE DEF seq
<1>1. \E f : Fold(f)
  <2>1. F \in [St \X El -> St] /\ 0 \in St
    <3>1. 0 \in St
      OBVIOUS
    <3>2. ASSUME NEW done \in St, NEW x \in El PROVE done + x \in St
      BY SMT
    <3> HIDE DEF St, El
    <3> QED
      BY <3>1, <3>2
  <2> HIDE DEF F, St, El
  <2>2. PICK f \in [SUBSET (1 .. n) -> St] : Iterates(f, F, 0, seq, n)
    BY <1>s, <2>1, IterationExists
  <2>3. ASSUME NEW u \in SUBSET (1 .. n), u # {}
        PROVE  F[<<f[u \ {Max(u)}], seq[Max(u)]>>] = f[u \ {Max(u)}] + seq[Max(u)]
    <3>1. Max(u) \in u /\ u \ {Max(u)} \in SUBSET (1 .. n)
      BY <1>n, <2>3, LargestOf
    <3>2. f[u \ {Max(u)}] \in St /\ seq[Max(u)] \in El
      BY <1>n, <3>1
    <3> QED
      BY <3>2 DEF F
  <2>4. Fold(f)
    BY <2>2, <2>3 DEF Iterates
  <2> QED
    BY <2>4
<1>2. Fold(it)
  BY <1>1
<1> HIDE DEF it, n
<1>4. r[0] = 0
  <2>1. 0 \in 0 .. n /\ {} \in SUBSET (1 .. n) /\ 1 .. 0 = {}
    BY <1>n, FirstNumbers
  <2>2. it[{}] = 0
    BY <1>2, <2>1
  <2> QED
    BY <2>1, <2>2
<1>5. ASSUME NEW k \in 0 .. n - 1 PROVE r[k + 1] = r[k] + seq[k + 1]
  <2>1. k \in Nat /\ k \in 0 .. n /\ k + 1 \in 0 .. n /\ 1 .. (k + 1) \in SUBSET (1 .. n)
    BY <1>n
  <2>2. 1 .. (k + 1) # {} /\ Max(1 .. (k + 1)) = k + 1 /\ (1 .. (k + 1)) \ {k + 1} = 1 .. k
    BY <2>1, FirstNumbers
  <2>3. it[1 .. (k + 1)] = it[1 .. k] + seq[k + 1]
    BY <1>2, <2>1, <2>2
  <2> QED
    BY <2>1, <2>3
<1>6. r[n] = SumOf(numbers)
  BY <1>n, <1>3
<1> HIDE DEF r
<1> QED
  BY <1>4, <1>5, <1>6 DEF n, seq

LEMMA PlusType ==
  ASSUME NEW f \in Int \X Int, NEW g \in Int \X Int
  PROVE  Plus(f, g) \in Int \X Int
<1>1. f[1] \in Int /\ f[2] \in Int /\ g[1] \in Int /\ g[2] \in Int
  OBVIOUS
<1>2. ASSUME NEW a \in Int, NEW b \in Int PROVE a * b \in Int
  OBVIOUS
<1>3. f[1] * g[2] \in Int /\ f[2] * g[1] \in Int /\ f[2] * g[2] \in Int
  BY <1>1, <1>2
<1> DEFINE x == f[1] * g[2]
           y == f[2] * g[1]
           z == f[2] * g[2]
<1>4. x \in Int /\ y \in Int /\ z \in Int /\ Plus(f, g) = <<x + y, z>>
  BY <1>3 DEF Plus
<1> HIDE DEF x, y, z
<1> QED
  BY <1>4

\* Fractions are added up one by one.
LEMMA PlusFold ==
  ASSUME NEW fractions \in Seq(Int \X Int)
  PROVE  \E r : /\ r[0] = <<0, 1>> /\ r[Len(fractions)] = PlusAll(fractions)
                /\ \A k \in 0 .. Len(fractions) - 1 : r[k + 1] = Plus(r[k], fractions[k + 1])
<1> DEFINE St == Int \X Int
           El == Int \X Int
           seq == fractions
           n == Len(seq)
           F == [x \in St \X El |-> Plus(x[1], x[2])]
           Fold(f) == f = [u \in SUBSET (1 .. n) |->
                             IF u = {} THEN <<0, 1>> ELSE Plus(f[u \ {Max(u)}], seq[Max(u)])]
           it == CHOOSE f : Fold(f)
           r == [k \in 0 .. n |-> it[1 .. k]]
<1>s. seq \in Seq(El)
  OBVIOUS
<1>n. n \in Nat /\ DOMAIN seq = 1 .. n /\ \A i \in 1 .. n : seq[i] \in El
  BY <1>s, LenProperties, ElementOfSeq
<1>3. PlusAll(fractions) = it[1 .. n]
  BY <1>n DEF PlusAll, FoldLeft, MapThenFoldSet
<1> HIDE DEF seq
<1>1. \E f : Fold(f)
  <2>1. F \in [St \X El -> St] /\ <<0, 1>> \in St
    <3>1. <<0, 1>> \in St
      OBVIOUS
    <3>2. ASSUME NEW done \in St, NEW x \in El PROVE Plus(done, x) \in St
      BY PlusType
    <3> HIDE DEF St, El
    <3> QED
      BY <3>1, <3>2
  <2> HIDE DEF F, St, El
  <2>2. PICK f \in [SUBSET (1 .. n) -> St] : Iterates(f, F, <<0, 1>>, seq, n)
    BY <1>s, <2>1, IterationExists
  <2>3. ASSUME NEW u \in SUBSET (1 .. n), u # {}
        PROVE  F[<<f[u \ {Max(u)}], seq[Max(u)]>>] = Plus(f[u \ {Max(u)}], seq[Max(u)])
    <3>1. Max(u) \in u /\ u \ {Max(u)} \in SUBSET (1 .. n)
      BY <1>n, <2>3, LargestOf
    <3>2. f[u \ {Max(u)}] \in St /\ seq[Max(u)] \in El
      BY <1>n, <3>1
    <3> QED
      BY <3>2 DEF F
  <2>4. Fold(f)
    BY <2>2, <2>3 DEF Iterates
  <2> QED
    BY <2>4
<1>2. Fold(it)
  BY <1>1
<1> HIDE DEF it, n
<1>4. r[0] = <<0, 1>>
  <2>1. 0 \in 0 .. n /\ {} \in SUBSET (1 .. n) /\ 1 .. 0 = {}
    BY <1>n, FirstNumbers
  <2>2. it[{}] = <<0, 1>>
    BY <1>2, <2>1
  <2> QED
    BY <2>1, <2>2
<1>5. ASSUME NEW k \in 0 .. n - 1 PROVE r[k + 1] = Plus(r[k], seq[k + 1])
  <2>1. k \in Nat /\ k \in 0 .. n /\ k + 1 \in 0 .. n /\ 1 .. (k + 1) \in SUBSET (1 .. n)
    BY <1>n
  <2>2. 1 .. (k + 1) # {} /\ Max(1 .. (k + 1)) = k + 1 /\ (1 .. (k + 1)) \ {k + 1} = 1 .. k
    BY <2>1, FirstNumbers
  <2>3. it[1 .. (k + 1)] = Plus(it[1 .. k], seq[k + 1])
    BY <1>2, <2>1, <2>2
  <2> QED
    BY <2>1, <2>3
<1>6. r[n] = PlusAll(fractions)
  BY <1>n, <1>3
<1> HIDE DEF r
<1> QED
  BY <1>4, <1>5, <1>6 DEF n, seq

\* A list of numbers, as a function.
LEMMA ListOf ==
  ASSUME NEW m \in Nat, NEW S, NEW list \in [1 .. m -> S]
  PROVE  list \in Seq(S) /\ Len(list) = m
<1>1. list \in Seq(S) /\ DOMAIN list = 1 .. m
  BY SeqDef
<1>2. DOMAIN list = 1 .. Len(list) /\ Len(list) \in Nat
  BY <1>1, LenProperties
<1> QED
  BY <1>1, <1>2

\* What the first of some numbers add up to.
Sums(r, numbers, m) ==
  /\ r[0] = 0 /\ r[m] = SumOf(numbers)
  /\ \A k \in 0 .. m - 1 : r[k + 1] = r[k] + numbers[k + 1]
  /\ \A k \in 0 .. m : r[k] \in Int

LEMMA SumRuns ==
  ASSUME NEW m \in Nat, NEW numbers \in [1 .. m -> Int]
  PROVE  \E r : Sums(r, numbers, m)
<1>1. numbers \in Seq(Int) /\ Len(numbers) = m
  BY ListOf
<1>2. PICK r : /\ r[0] = 0 /\ r[m] = SumOf(numbers)
               /\ \A k \in 0 .. m - 1 : r[k + 1] = r[k] + numbers[k + 1]
  BY <1>1, SumFold
<1> DEFINE T == {k \in Nat : k <= m => r[k] \in Int}
<1>3. 0 \in T
  BY <1>2
<1>4. ASSUME NEW k \in T PROVE k + 1 \in T
  <2>1. k \in Nat /\ (k <= m => r[k] \in Int)
    OBVIOUS
  <2>2. ASSUME k + 1 <= m PROVE r[k + 1] \in Int
    <3>1. k \in 0 .. m - 1 /\ k + 1 \in 1 .. m /\ r[k] \in Int
      BY <2>1, <2>2
    <3>2. r[k + 1] = r[k] + numbers[k + 1] /\ numbers[k + 1] \in Int
      BY <1>2, <3>1
    <3> QED
      BY <3>1, <3>2
  <2> QED
    BY <2>1, <2>2
<1> HIDE DEF T
<1>5. T = Nat
  <2>1. T \subseteq Nat
    BY DEF T
  <2> QED
    BY <1>3, <1>4, <2>1, EveryNumber
<1>6. \A k \in 0 .. m : k \in T /\ k <= m
  BY <1>5
<1>7. \A k \in 0 .. m : r[k] \in Int
  BY <1>6 DEF T
<1> QED
  BY <1>2, <1>7 DEF Sums

LEMMA SumIsNumber ==
  ASSUME NEW m \in Nat, NEW numbers \in [1 .. m -> Int]
  PROVE  SumOf(numbers) \in Int
<1>1. PICK r : Sums(r, numbers, m)
  BY SumRuns
<1>2. m \in 0 .. m
  OBVIOUS
<1> QED
  BY <1>1, <1>2 DEF Sums

AddUp(f, g, h, m) == \A i \in 1 .. m : h[i] = f[i] + g[i]

\* Numbers that are the sums of two others add up to the sum of what those add up to.
LEMMA SumAdds ==
  ASSUME NEW m \in Nat, NEW f \in [1 .. m -> Int], NEW g \in [1 .. m -> Int], NEW h \in [1 .. m -> Int],
         AddUp(f, g, h, m)
  PROVE  SumOf(h) = SumOf(f) + SumOf(g)
<1>1. PICK a : Sums(a, f, m)
  BY SumRuns
<1>2. PICK b : Sums(b, g, m)
  BY SumRuns
<1>3. PICK c : Sums(c, h, m)
  BY SumRuns
<1> DEFINE T == {k \in Nat : k <= m => c[k] = a[k] + b[k]}
<1>4. 0 \in T
  BY <1>1, <1>2, <1>3 DEF Sums
<1>5. ASSUME NEW k \in T PROVE k + 1 \in T
  <2>1. k \in Nat /\ (k <= m => c[k] = a[k] + b[k])
    OBVIOUS
  <2>2. ASSUME k + 1 <= m PROVE c[k + 1] = a[k + 1] + b[k + 1]
    <3> DEFINE x == f[k + 1]
               y == g[k + 1]
    <3>1. k \in 0 .. m - 1 /\ k \in 0 .. m /\ k + 1 \in 1 .. m /\ c[k] = a[k] + b[k]
      BY <2>1, <2>2
    <3>2. a[k] \in Int /\ b[k] \in Int /\ x \in Int /\ y \in Int /\ h[k + 1] = x + y
      BY <1>1, <1>2, <3>1 DEF Sums, AddUp
    <3>3. a[k + 1] = a[k] + x /\ b[k + 1] = b[k] + y /\ c[k + 1] = c[k] + h[k + 1]
      BY <1>1, <1>2, <1>3, <3>1 DEF Sums
    <3> HIDE DEF x, y
    <3> QED
      BY <3>1, <3>2, <3>3
  <2> QED
    BY <2>1, <2>2
<1> HIDE DEF T
<1>6. T = Nat
  <2>1. T \subseteq Nat
    BY DEF T
  <2> QED
    BY <1>4, <1>5, <2>1, EveryNumber
<1>7. m \in T /\ m <= m
  BY <1>6
<1>8. c[m] = a[m] + b[m]
  BY <1>7 DEF T
<1> QED
  BY <1>1, <1>2, <1>3, <1>8 DEF Sums

\* Numbers that are at most others add up to at most what those add up to.
LEMMA SumLess ==
  ASSUME NEW m \in Nat, NEW f \in [1 .. m -> Int], NEW g \in [1 .. m -> Int],
         \A i \in 1 .. m : f[i] <= g[i]
  PROVE  SumOf(f) <= SumOf(g)
<1>1. PICK a : Sums(a, f, m)
  BY SumRuns
<1>2. PICK b : Sums(b, g, m)
  BY SumRuns
<1> DEFINE T == {k \in Nat : k <= m => a[k] <= b[k]}
<1>4. 0 \in T
  BY <1>1, <1>2 DEF Sums
<1>5. ASSUME NEW k \in T PROVE k + 1 \in T
  <2>1. k \in Nat /\ (k <= m => a[k] <= b[k])
    OBVIOUS
  <2>2. ASSUME k + 1 <= m PROVE a[k + 1] <= b[k + 1]
    <3> DEFINE x == f[k + 1]
               y == g[k + 1]
    <3>1. k \in 0 .. m - 1 /\ k \in 0 .. m /\ k + 1 \in 1 .. m /\ a[k] <= b[k]
      BY <2>1, <2>2
    <3>2. a[k] \in Int /\ b[k] \in Int /\ x \in Int /\ y \in Int /\ x <= y
      BY <1>1, <1>2, <3>1 DEF Sums
    <3>3. a[k + 1] = a[k] + x /\ b[k + 1] = b[k] + y
      BY <1>1, <1>2, <3>1 DEF Sums
    <3> HIDE DEF x, y
    <3> QED
      BY <3>1, <3>2, <3>3
  <2> QED
    BY <2>1, <2>2
<1> HIDE DEF T
<1>6. T = Nat
  <2>1. T \subseteq Nat
    BY DEF T
  <2> QED
    BY <1>4, <1>5, <2>1, EveryNumber
<1>7. m \in T /\ m <= m
  BY <1>6
<1>8. a[m] <= b[m]
  BY <1>7 DEF T
<1> QED
  BY <1>1, <1>2, <1>8 DEF Sums

LEMMA FinitePart ==
  ASSUME NEW m \in Nat, NEW u \in SUBSET (1 .. m)
  PROVE  /\ IsFiniteSet(u) /\ Cardinality(u) \in Nat /\ Cardinality(u) <= m
         /\ \A i \in u : i \in Nat /\ 0 < i /\ i <= m
<1>1. IsFiniteSet(1 .. m) /\ Cardinality(1 .. m) = m
  <2>1. 1 \in Int /\ m \in Int /\ (IF 1 > m THEN 0 ELSE m - 1 + 1) = m
    OBVIOUS
  <2> QED
    BY <2>1, FS_Interval
<1>2. IsFiniteSet(u) /\ Cardinality(u) <= Cardinality(1 .. m)
  BY <1>1, FS_Subset
<1>3. Cardinality(u) \in Nat
  BY <1>2, FS_CardinalityType
<1>4. \A i \in u : i \in 1 .. m
  OBVIOUS
<1> QED
  BY <1>1, <1>2, <1>3, <1>4

\* Ones for some positions and noughts for the others count those positions.
Ones(at, m) == [i \in 1 .. m |-> IF i \in at THEN 1 ELSE 0]

LEMMA SumCounts ==
  ASSUME NEW m \in Nat, NEW at \in SUBSET (1 .. m)
  PROVE  IsFiniteSet(at) /\ Cardinality(at) \in Nat /\ SumOf(Ones(at, m)) = Cardinality(at)
<1>0. Ones(at, m) \in [1 .. m -> Int] /\ \A i \in 1 .. m : Ones(at, m)[i] = IF i \in at THEN 1 ELSE 0
  BY DEF Ones
<1>f. \A u \in SUBSET (1 .. m) : IsFiniteSet(u) /\ Cardinality(u) \in Nat
  BY FinitePart
<1>g. \A i \in at : i \in Nat /\ 0 < i /\ i <= m
  BY FinitePart
<1>1. PICK a : Sums(a, Ones(at, m), m)
  BY <1>0, SumRuns
<1> DEFINE up(k) == {i \in at : i <= k}
           T == {k \in Nat : k <= m => a[k] = Cardinality(up(k))}
<1>4. 0 \in T
  <2>0. \A i \in at : ~(i <= 0)
    BY <1>g
  <2>1. up(0) = {}
    BY <2>0
  <2>2. Cardinality(up(0)) = 0
    BY <2>1, FS_EmptySet
  <2> QED
    BY <1>1, <2>2 DEF Sums
<1>5. ASSUME NEW k \in T PROVE k + 1 \in T
  <2>1. k \in Nat /\ (k <= m => a[k] = Cardinality(up(k)))
    OBVIOUS
  <2>2. ASSUME k + 1 <= m PROVE a[k + 1] = Cardinality(up(k + 1))
    <3>1. k \in 0 .. m - 1 /\ k \in 0 .. m /\ k + 1 \in 1 .. m /\ a[k] = Cardinality(up(k)) /\ k + 1 \in Nat
      BY <2>1, <2>2
    <3>2. a[k] \in Int /\ a[k + 1] = a[k] + Ones(at, m)[k + 1]
      BY <1>1, <3>1 DEF Sums
    <3>3. CASE k + 1 \in at
      <4>0. \A i \in at : (i <= k + 1 <=> i <= k \/ i = k + 1) /\ i \in 1 .. m
        BY <1>g, <3>1
      <4>1. up(k + 1) = up(k) \cup {k + 1} /\ k + 1 \notin up(k) /\ up(k) \in SUBSET (1 .. m)
        <5>1. ~(k + 1 <= k)
          BY <3>1
        <5>2. up(k + 1) = up(k) \cup {k + 1}
          BY <4>0, <3>3
        <5>3. k + 1 \notin up(k)
          BY <5>1
        <5>4. up(k) \in SUBSET (1 .. m)
          BY <4>0
        <5> QED
          BY <5>2, <5>3, <5>4
      <4> HIDE DEF up
      <4>2. Cardinality(up(k + 1)) = Cardinality(up(k)) + 1
        BY <1>f, <4>1, FS_AddElement
      <4>3. Ones(at, m)[k + 1] = 1
        BY <1>0, <3>1, <3>3
      <4> QED
        BY <3>1, <3>2, <4>2, <4>3
    <3>4. CASE k + 1 \notin at
      <4>0. \A i \in at : i <= k + 1 <=> i <= k
        BY <1>g, <3>1, <3>4
      <4>1. up(k + 1) = up(k)
        BY <4>0
      <4>3. Ones(at, m)[k + 1] = 0
        BY <1>0, <3>1, <3>4
      <4> HIDE DEF up
      <4> QED
        BY <3>1, <3>2, <4>1, <4>3
    <3> QED
      BY <3>3, <3>4
  <2> QED
    BY <2>1, <2>2
<1> HIDE DEF T
<1>6. T = Nat
  <2>1. T \subseteq Nat
    BY DEF T
  <2> QED
    BY <1>4, <1>5, <2>1, EveryNumber
<1>7. m \in T /\ m <= m
  BY <1>6
<1>8. a[m] = Cardinality(up(m))
  BY <1>7 DEF T
<1>9. up(m) = at
  BY <1>g
<1> HIDE DEF up
<1> QED
  BY <1>1, <1>8, <1>9, <1>f DEF Sums

\* The chosen elements are as many as the positions, and elements of the sequence.
LEMMA PlaceOf ==
  ASSUME NEW m \in Nat, NEW at \in SUBSET (1 .. m), NEW n \in 1 .. Cardinality(at)
  PROVE  \E i \in at : Cardinality({j \in at : j <= i}) = n
<1>f. ASSUME NEW k \in Nat, NEW u \in SUBSET (1 .. k) PROVE IsFiniteSet(u) /\ Cardinality(u) \in Nat
  BY FinitePart
<1> DEFINE T == {k \in Nat : \A u \in SUBSET (1 .. k) : \A x \in 1 .. Cardinality(u) :
                               \E i \in u : Cardinality({j \in u : j <= i}) = x}
<1>1. 0 \in T
  <2> SUFFICES ASSUME NEW u \in SUBSET (1 .. 0), NEW x \in 1 .. Cardinality(u) PROVE FALSE
    OBVIOUS
  <2>1. u = {}
    OBVIOUS
  <2>2. Cardinality(u) = 0
    BY <2>1, FS_EmptySet
  <2> QED
    BY <2>2
<1>2. ASSUME NEW k \in T PROVE k + 1 \in T
  <2> SUFFICES ASSUME NEW u \in SUBSET (1 .. (k + 1)), NEW x \in 1 .. Cardinality(u)
               PROVE  \E i \in u : Cardinality({j \in u : j <= i}) = x
    OBVIOUS
  <2>0. k \in Nat /\ k + 1 \in Nat
    OBVIOUS
  <2>1. CASE k + 1 \notin u
    <3>1. u \in SUBSET (1 .. k)
      BY <2>0, <2>1
    <3> QED
      BY <3>1
  <2>2. CASE k + 1 \in u
    <3> DEFINE w == u \ {k + 1}
    <3>1. w \in SUBSET (1 .. k) /\ u = w \cup {k + 1} /\ k + 1 \notin w
      BY <2>0, <2>2
    <3>2. Cardinality(u) = Cardinality(w) + 1 /\ Cardinality(w) \in Nat
      <4> HIDE DEF w
      <4>1. IsFiniteSet(w) /\ Cardinality(w) \in Nat
        BY <1>f, <2>0, <3>1
      <4> QED
        BY <3>1, <4>1, FS_AddElement
    <3>3. CASE x \in 1 .. Cardinality(w)
      <4>1. PICK i \in w : Cardinality({j \in w : j <= i}) = x
        BY <3>1, <3>3
      <4>2. {j \in w : j <= i} = {j \in u : j <= i} /\ i \in u
        BY <2>0, <3>1
      <4> QED
        BY <4>1, <4>2
    <3>4. CASE x \notin 1 .. Cardinality(w)
      <4>1. x = Cardinality(u)
        BY <3>2, <3>4
      <4>2. {j \in u : j <= k + 1} = u
        <5>1. \A j \in u : j <= k + 1
          BY <2>0
        <5> QED
          BY <5>1
      <4> QED
        BY <2>2, <4>1, <4>2
    <3> QED
      BY <3>3, <3>4
  <2> QED
    BY <2>1, <2>2
<1> HIDE DEF T
<1>3. T = Nat
  <2>1. T \subseteq Nat
    BY DEF T
  <2> QED
    BY <1>1, <1>2, <2>1, EveryNumber
<1>4. m \in T
  BY <1>3
<1> QED
  BY <1>4 DEF T

LEMMA ThoseAre ==
  ASSUME NEW S, NEW list \in Seq(S), NEW at \in SUBSET DOMAIN list
  PROVE  /\ Those(list, at) \in Seq(S) /\ Len(Those(list, at)) = Cardinality(at)
         /\ Cardinality(at) \in Nat /\ Cardinality(at) <= Len(list)
         /\ \A n \in 1 .. Cardinality(at) : \E i \in at : Those(list, at)[n] = list[i]
<1>1. Len(list) \in Nat /\ DOMAIN list = 1 .. Len(list) /\ \A i \in 1 .. Len(list) : list[i] \in S
  BY LenProperties, ElementOfSeq
<1> DEFINE m == Len(list)
           c == Cardinality(at)
           t == Those(list, at)
           place(n) == CHOOSE i \in at : Cardinality({j \in at : j <= i}) = n
<1>2. IsFiniteSet(at) /\ c \in Nat /\ c <= m
  <2>1. IsFiniteSet(1 .. m) /\ Cardinality(1 .. m) = m
    BY <1>1, FS_Interval
  <2> QED
    BY <1>1, <2>1, FS_Subset, FS_CardinalityType
<1>3. t = [n \in 1 .. c |-> list[place(n)]]
  BY DEF Those
<1>4. ASSUME NEW n \in 1 .. c PROVE place(n) \in at /\ list[place(n)] \in S
  <2>1. \E i \in at : Cardinality({j \in at : j <= i}) = n
    BY <1>1, PlaceOf
  <2>2. place(n) \in at
    BY <2>1
  <2> HIDE DEF place
  <2> QED
    BY <1>1, <2>2
<1> HIDE DEF place, c, t
<1>5. t \in [1 .. c -> S] /\ \A n \in 1 .. c : \E i \in at : t[n] = list[i]
  BY <1>3, <1>4
<1>6. t \in Seq(S) /\ Len(t) = c
  BY <1>2, <1>5, ListOf
<1> QED
  BY <1>2, <1>5, <1>6 DEF t, c

(***************************************************************************)
(* Fractions                                                               *)
(***************************************************************************)
Fraction == Int \X (Nat \ {0})

LEMMA TimesMonotone ==
  ASSUME NEW a \in Int, NEW b \in Int, a <= b, NEW c \in Nat
  PROVE  a * c <= b * c
OBVIOUS

LEMMA TimesNumber ==
  ASSUME NEW a \in Int, NEW b \in Int
  PROVE  a * b \in Int
OBVIOUS

LEMMA TimesPositive ==
  ASSUME NEW a \in Nat \ {0}, NEW b \in Nat \ {0}
  PROVE  a * b \in Nat \ {0}
OBVIOUS

LEMMA TimesFour ==
  ASSUME NEW a \in Int, NEW b \in Int, NEW c \in Int, NEW d \in Int
  PROVE  (a * b) * (c * d) = (a * c) * (b * d)
OBVIOUS

LEMMA TimesOver ==
  ASSUME NEW a \in Int, NEW b \in Int, NEW c \in Int
  PROVE  (a + b) * c = a * c + b * c
OBVIOUS

LEMMA PlusIsFraction ==
  ASSUME NEW f \in Fraction, NEW g \in Fraction
  PROVE  Plus(f, g) \in Fraction
<1> DEFINE z == f[2] * g[2]
           x == f[1] * g[2] + g[1] * f[2]
<1>1. f[1] \in Int /\ g[1] \in Int /\ f[2] \in Nat \ {0} /\ g[2] \in Nat \ {0}
  BY DEF Fraction
<1>2. z \in Nat \ {0}
  BY <1>1, TimesPositive
<1>3. x \in Int
  <2>1. f[1] * g[2] \in Int /\ g[1] * f[2] \in Int
    BY <1>1, TimesNumber
  <2> QED
    BY <2>1
<1>4. Plus(f, g) = <<x, z>>
  BY DEF Plus
<1> HIDE DEF x, z
<1> QED
  BY <1>2, <1>3, <1>4 DEF Fraction

\* Sums keep the order of what is added.
LEMMA PlusOrdered ==
  ASSUME NEW f \in Fraction, NEW g \in Fraction, NEW h \in Fraction, NEW j \in Fraction,
         AtMost(f, h), AtMost(g, j)
  PROVE  AtMost(Plus(f, g), Plus(h, j))
<1> DEFINE a == f[1]  b == f[2]  c == g[1]  d == g[2]
           p == h[1]  q == h[2]  s == j[1]  t == j[2]
<1>1. /\ a \in Int /\ b \in Nat \ {0} /\ c \in Int /\ d \in Nat \ {0}
      /\ p \in Int /\ q \in Nat \ {0} /\ s \in Int /\ t \in Nat \ {0}
  BY DEF Fraction
<1>2. a * q <= p * b /\ c * t <= s * d
  BY DEF AtMost
<1>3. /\ Plus(f, g) = <<a * d + c * b, b * d>> /\ Plus(h, j) = <<p * t + s * q, q * t>>
  BY DEF Plus
<1> HIDE DEF a, b, c, d, p, q, s, t
<1>4. (a * d) * (q * t) <= (p * t) * (b * d)
  <2>1. (a * d) * (q * t) = (a * q) * (d * t)
    BY <1>1, TimesFour
  <2>2. (p * t) * (b * d) = (p * b) * (t * d)
    BY <1>1, TimesFour
  <2>3. d * t = t * d /\ d * t \in Nat /\ a * q \in Int /\ p * b \in Int
    BY <1>1, TimesPositive, TimesNumber
  <2>4. (a * q) * (d * t) <= (p * b) * (d * t)
    BY <1>2, <2>3, TimesMonotone
  <2> QED
    BY <2>1, <2>2, <2>3, <2>4
<1>5. (c * b) * (q * t) <= (s * q) * (b * d)
  <2>1. (c * b) * (q * t) = (c * t) * (b * q)
    <3>1. q * t = t * q
      BY <1>1
    <3>2. (c * b) * (t * q) = (c * t) * (b * q)
      BY <1>1, TimesFour
    <3> QED
      BY <3>1, <3>2
  <2>2. (s * q) * (b * d) = (s * d) * (b * q)
    <3>1. b * d = d * b /\ q * b = b * q
      BY <1>1
    <3>2. (s * q) * (d * b) = (s * d) * (q * b)
      BY <1>1, TimesFour
    <3> QED
      BY <3>1, <3>2
  <2>3. b * q \in Nat /\ c * t \in Int /\ s * d \in Int
    BY <1>1, TimesPositive, TimesNumber
  <2>4. (c * t) * (b * q) <= (s * d) * (b * q)
    BY <1>2, <2>3, TimesMonotone
  <2> QED
    BY <2>1, <2>2, <2>4
<1>6. /\ a * d \in Int /\ c * b \in Int /\ p * t \in Int /\ s * q \in Int /\ q * t \in Int /\ b * d \in Int
  BY <1>1, TimesNumber
<1> DEFINE ad == a * d  cb == c * b  pt == p * t  sq == s * q  qt == q * t  bd == b * d
<1>7. /\ ad \in Int /\ cb \in Int /\ pt \in Int /\ sq \in Int /\ qt \in Int /\ bd \in Int
      /\ ad * qt <= pt * bd /\ cb * qt <= sq * bd
      /\ Plus(f, g) = <<ad + cb, bd>> /\ Plus(h, j) = <<pt + sq, qt>>
  BY <1>3, <1>4, <1>5, <1>6
<1> HIDE DEF ad, cb, pt, sq, qt, bd
<1>8. (ad + cb) * qt <= (pt + sq) * bd
  <2>1. (ad + cb) * qt = ad * qt + cb * qt /\ (pt + sq) * bd = pt * bd + sq * bd
    BY <1>7, TimesOver
  <2>2. ad * qt \in Int /\ cb * qt \in Int /\ pt * bd \in Int /\ sq * bd \in Int
    BY <1>7, TimesNumber
  <2> QED
    BY <1>7, <2>1, <2>2
<1> QED
  BY <1>7, <1>8 DEF AtMost

\* What the first of some fractions add up to.
PlusRuns(r, fractions, m) ==
  /\ r[0] = <<0, 1>> /\ r[m] = PlusAll(fractions)
  /\ \A k \in 0 .. m - 1 : r[k + 1] = Plus(r[k], fractions[k + 1])
  /\ \A k \in 0 .. m : r[k] \in Fraction

LEMMA PlusRunsExist ==
  ASSUME NEW m \in Nat, NEW fractions \in [1 .. m -> Fraction]
  PROVE  \E r : PlusRuns(r, fractions, m)
<1>0. fractions \in [1 .. m -> Int \X Int]
  BY DEF Fraction
<1>1. fractions \in Seq(Int \X Int) /\ Len(fractions) = m
  BY <1>0, ListOf
<1>2. PICK r : /\ r[0] = <<0, 1>> /\ r[m] = PlusAll(fractions)
               /\ \A k \in 0 .. m - 1 : r[k + 1] = Plus(r[k], fractions[k + 1])
  BY <1>1, PlusFold
<1> DEFINE T == {k \in Nat : k <= m => r[k] \in Fraction}
<1>3. 0 \in T
  <2>1. <<0, 1>> \in Fraction
    BY DEF Fraction
  <2> QED
    BY <1>2, <2>1
<1>4. ASSUME NEW k \in T PROVE k + 1 \in T
  <2>1. k \in Nat /\ (k <= m => r[k] \in Fraction)
    OBVIOUS
  <2>2. ASSUME k + 1 <= m PROVE r[k + 1] \in Fraction
    <3>1. k \in 0 .. m - 1 /\ k + 1 \in 1 .. m /\ r[k] \in Fraction
      BY <2>1, <2>2
    <3>2. r[k + 1] = Plus(r[k], fractions[k + 1]) /\ fractions[k + 1] \in Fraction
      BY <1>2, <3>1
    <3> QED
      BY <3>1, <3>2, PlusIsFraction
  <2> QED
    BY <2>1, <2>2
<1> HIDE DEF T
<1>5. T = Nat
  <2>1. T \subseteq Nat
    BY DEF T
  <2> QED
    BY <1>3, <1>4, <2>1, EveryNumber
<1>6. \A k \in 0 .. m : k \in T /\ k <= m
  BY <1>5
<1>7. \A k \in 0 .. m : r[k] \in Fraction
  BY <1>6 DEF T
<1> QED
  BY <1>2, <1>7 DEF PlusRuns

LEMMA MeanIs ==
  ASSUME NEW m \in Nat \ {0}, NEW fractions \in [1 .. m -> Fraction]
  PROVE  /\ PlusAll(fractions) \in Fraction
         /\ MeanOf(fractions) = <<PlusAll(fractions)[1], PlusAll(fractions)[2] * m>>
<1>1. PICK r : PlusRuns(r, fractions, m)
  BY PlusRunsExist
<1>2. m \in 0 .. m
  OBVIOUS
<1>3. PlusAll(fractions) \in Fraction
  BY <1>1, <1>2 DEF PlusRuns
<1>4. fractions \in Seq(Fraction) /\ Len(fractions) = m
  BY ListOf
<1>5. fractions # <<>>
  BY <1>4, EmptySeq
<1>6. MeanOf(fractions) = <<PlusAll(fractions)[1], PlusAll(fractions)[2] * Len(fractions)>>
  BY <1>5 DEF MeanOf
<1> QED
  BY <1>3, <1>4, <1>6

\* Means keep the order of what they are taken over.
LEMMA MeansOrdered ==
  ASSUME NEW m \in Nat \ {0}, NEW low \in [1 .. m -> Fraction], NEW high \in [1 .. m -> Fraction],
         \A i \in 1 .. m : AtMost(low[i], high[i])
  PROVE  AtMost(MeanOf(low), MeanOf(high))
<1>1. PICK r : PlusRuns(r, low, m)
  BY PlusRunsExist
<1>2. PICK s : PlusRuns(s, high, m)
  BY PlusRunsExist
<1> DEFINE T == {k \in Nat : k <= m => AtMost(r[k], s[k])}
<1>3. 0 \in T
  <2>1. AtMost(<<0, 1>>, <<0, 1>>)
    BY DEF AtMost
  <2> QED
    BY <1>1, <1>2, <2>1 DEF PlusRuns
<1>4. ASSUME NEW k \in T PROVE k + 1 \in T
  <2>1. k \in Nat /\ (k <= m => AtMost(r[k], s[k]))
    OBVIOUS
  <2>2. ASSUME k + 1 <= m PROVE AtMost(r[k + 1], s[k + 1])
    <3>1. k \in 0 .. m - 1 /\ k \in 0 .. m /\ k + 1 \in 1 .. m /\ AtMost(r[k], s[k])
      BY <2>1, <2>2
    <3>2. r[k] \in Fraction /\ s[k] \in Fraction /\ low[k + 1] \in Fraction /\ high[k + 1] \in Fraction
      BY <1>1, <1>2, <3>1 DEF PlusRuns
    <3>3. r[k + 1] = Plus(r[k], low[k + 1]) /\ s[k + 1] = Plus(s[k], high[k + 1])
      BY <1>1, <1>2, <3>1 DEF PlusRuns
    <3>4. AtMost(low[k + 1], high[k + 1])
      BY <3>1
    <3>5. AtMost(Plus(r[k], low[k + 1]), Plus(s[k], high[k + 1]))
      BY <3>1, <3>2, <3>4, PlusOrdered
    <3> QED
      BY <3>3, <3>5
  <2> QED
    BY <2>1, <2>2
<1> HIDE DEF T
<1>5. T = Nat
  <2>1. T \subseteq Nat
    BY DEF T
  <2> QED
    BY <1>3, <1>4, <2>1, EveryNumber
<1>6. m \in T /\ m <= m
  BY <1>5
<1>7. AtMost(PlusAll(low), PlusAll(high))
  <2>1. AtMost(r[m], s[m])
    BY <1>6 DEF T
  <2> QED
    BY <1>1, <1>2, <2>1 DEF PlusRuns
<1> DEFINE a == PlusAll(low)[1]  b == PlusAll(low)[2]  c == PlusAll(high)[1]  d == PlusAll(high)[2]
<1>8. a \in Int /\ b \in Int /\ c \in Int /\ d \in Int /\ m \in Nat
  <2>1. PlusAll(low) \in Fraction /\ PlusAll(high) \in Fraction
    BY MeanIs
  <2> QED
    BY <2>1 DEF Fraction
<1>9. MeanOf(low) = <<a, b * m>> /\ MeanOf(high) = <<c, d * m>>
  BY MeanIs
<1>10. a * d <= c * b
  BY <1>7 DEF AtMost
<1> HIDE DEF a, b, c, d
<1>11. a * (d * m) <= c * (b * m)
  <2>1. (a * d) * m <= (c * b) * m
    BY <1>8, <1>10, TimesNumber, TimesMonotone
  <2>2. a * (d * m) = (a * d) * m /\ c * (b * m) = (c * b) * m
    BY <1>8
  <2> QED
    BY <2>1, <2>2
<1> QED
  BY <1>9, <1>11 DEF AtMost
\* A mean of fractions that are at most one is at most one.
LEMMA MeanAtMostOne ==
  ASSUME NEW m \in Nat \ {0}, NEW list \in [1 .. m -> Fraction],
         \A i \in 1 .. m : AtMost(list[i], <<1, 1>>)
  PROVE  AtMost(MeanOf(list), <<1, 1>>)
<1>1. PICK r : PlusRuns(r, list, m)
  BY PlusRunsExist
<1> DEFINE Near(k) == r[k][1] <= k * r[k][2]
           T == {k \in Nat : k <= m => Near(k)}
<1>3. 0 \in T
  <2>1. r[0] = <<0, 1>>
    BY <1>1 DEF PlusRuns
  <2> QED
    BY <2>1
<1>4. ASSUME NEW k \in T PROVE k + 1 \in T
  <2>1. k \in Nat /\ (k <= m => Near(k))
    OBVIOUS
  <2>2. ASSUME k + 1 <= m PROVE Near(k + 1)
    <3>1. k \in 0 .. m - 1 /\ k \in 0 .. m /\ k + 1 \in 1 .. m /\ Near(k)
      BY <2>1, <2>2
    <3> DEFINE a == r[k][1]  b == r[k][2]  c == list[k + 1][1]  d == list[k + 1][2]
    <3>2. r[k] \in Fraction /\ list[k + 1] \in Fraction /\ r[k + 1] = Plus(r[k], list[k + 1])
      BY <1>1, <3>1 DEF PlusRuns
    <3>3. a \in Int /\ b \in Nat \ {0} /\ c \in Int /\ d \in Nat \ {0}
      BY <3>2 DEF Fraction
    <3>4. c <= d
      <4>1. AtMost(list[k + 1], <<1, 1>>)
        BY <3>1
      <4>2. c * 1 <= 1 * d
        BY <3>3, <4>1 DEF AtMost, Less
      <4> QED
        BY <3>3, <4>2
    <3>5. a <= k * b
      BY <3>1
    <3>6. r[k + 1] = <<a * d + c * b, b * d>>
      BY <3>2 DEF Plus
    <3> HIDE DEF a, b, c, d
    <3>7. k * b \in Int /\ a * d <= (k * b) * d /\ c * b <= d * b
      <4>1. k * b \in Int /\ b \in Nat /\ d \in Nat
        BY <2>1, <3>3, TimesNumber
      <4>2. a * d <= (k * b) * d
        BY <3>3, <3>5, <4>1, TimesMonotone
      <4>3. c * b <= d * b
        BY <3>3, <3>4, <4>1, TimesMonotone
      <4> QED
        BY <4>1, <4>2, <4>3
    <3>8. (k * b) * d + d * b = (k + 1) * (b * d)
      <4>1. (k * b) * d = k * (b * d) /\ d * b = b * d
        BY <2>1, <3>3
      <4>2. b * d \in Int /\ k \in Int
        BY <2>1, <3>3, TimesNumber
      <4>3. (k + 1) * (b * d) = k * (b * d) + 1 * (b * d)
        BY <4>2, TimesOver
      <4> QED
        BY <4>1, <4>2, <4>3
    <3>9. a * d \in Int /\ c * b \in Int /\ (k * b) * d \in Int /\ d * b \in Int
      BY <2>1, <3>3, <3>7, TimesNumber
    <3>10. a * d + c * b <= (k + 1) * (b * d)
      BY <3>7, <3>8, <3>9
    <3> QED
      BY <3>6, <3>10
  <2> QED
    BY <2>1, <2>2
<1> HIDE DEF T, Near
<1>5. T = Nat
  <2>1. T \subseteq Nat
    BY DEF T
  <2> QED
    BY <1>3, <1>4, <2>1, EveryNumber
<1>6. m \in T /\ m <= m
  BY <1>5
<1>7. Near(m)
  BY <1>6 DEF T
<1> DEFINE x == PlusAll(list)[1]  y == PlusAll(list)[2]
<1>8. MeanOf(list) = <<x, y * m>> /\ PlusAll(list) \in Fraction /\ r[m] = PlusAll(list)
  BY <1>1, MeanIs DEF PlusRuns
<1>9. x \in Int /\ y \in Nat \ {0} /\ x <= m * y
  BY <1>7, <1>8 DEF Near, Fraction
<1> HIDE DEF x, y
<1>10. x * 1 <= 1 * (y * m) /\ x * 1 \in Int /\ 1 * (y * m) \in Int
  BY <1>9, TimesNumber
<1> QED
  BY <1>8, <1>10 DEF AtMost, Less

\* A mean of fractions none of which is less than one is not.
LEMMA MeanIsOne ==
  ASSUME NEW m \in Nat \ {0}, NEW list \in [1 .. m -> Fraction],
         \A i \in 1 .. m : ~Less(list[i], <<1, 1>>)
  PROVE  ~Less(MeanOf(list), <<1, 1>>)
<1>1. PICK r : PlusRuns(r, list, m)
  BY PlusRunsExist
<1> DEFINE Near(k) == k * r[k][2] <= r[k][1]
           T == {k \in Nat : k <= m => Near(k)}
<1>3. 0 \in T
  <2>1. r[0] = <<0, 1>>
    BY <1>1 DEF PlusRuns
  <2> QED
    BY <2>1
<1>4. ASSUME NEW k \in T PROVE k + 1 \in T
  <2>1. k \in Nat /\ (k <= m => Near(k))
    OBVIOUS
  <2>2. ASSUME k + 1 <= m PROVE Near(k + 1)
    <3>1. k \in 0 .. m - 1 /\ k \in 0 .. m /\ k + 1 \in 1 .. m /\ Near(k)
      BY <2>1, <2>2
    <3> DEFINE a == r[k][1]  b == r[k][2]  c == list[k + 1][1]  d == list[k + 1][2]
    <3>2. r[k] \in Fraction /\ list[k + 1] \in Fraction /\ r[k + 1] = Plus(r[k], list[k + 1])
      BY <1>1, <3>1 DEF PlusRuns
    <3>3. a \in Int /\ b \in Nat \ {0} /\ c \in Int /\ d \in Nat \ {0}
      BY <3>2 DEF Fraction
    <3>4. d <= c
      <4>1. ~Less(list[k + 1], <<1, 1>>)
        BY <3>1
      <4>2. 1 * d <= c * 1
        BY <3>3, <4>1 DEF AtMost, Less
      <4> QED
        BY <3>3, <4>2
    <3>5. k * b <= a
      BY <3>1
    <3>6. r[k + 1] = <<a * d + c * b, b * d>>
      BY <3>2 DEF Plus
    <3> HIDE DEF a, b, c, d
    <3>7. k * b \in Int /\ (k * b) * d <= a * d /\ d * b <= c * b
      <4>1. k * b \in Int /\ b \in Nat /\ d \in Nat
        BY <2>1, <3>3, TimesNumber
      <4>2. (k * b) * d <= a * d
        BY <3>3, <3>5, <4>1, TimesMonotone
      <4>3. d * b <= c * b
        BY <3>3, <3>4, <4>1, TimesMonotone
      <4> QED
        BY <4>1, <4>2, <4>3
    <3>8. (k * b) * d + d * b = (k + 1) * (b * d)
      <4>1. (k * b) * d = k * (b * d) /\ d * b = b * d
        BY <2>1, <3>3
      <4>2. b * d \in Int /\ k \in Int
        BY <2>1, <3>3, TimesNumber
      <4>3. (k + 1) * (b * d) = k * (b * d) + 1 * (b * d)
        BY <4>2, TimesOver
      <4> QED
        BY <4>1, <4>2, <4>3
    <3>9. a * d \in Int /\ c * b \in Int /\ (k * b) * d \in Int /\ d * b \in Int
      BY <2>1, <3>3, <3>7, TimesNumber
    <3>10. (k + 1) * (b * d) <= a * d + c * b
      BY <3>7, <3>8, <3>9
    <3> QED
      BY <3>6, <3>10
  <2> QED
    BY <2>1, <2>2
<1> HIDE DEF T, Near
<1>5. T = Nat
  <2>1. T \subseteq Nat
    BY DEF T
  <2> QED
    BY <1>3, <1>4, <2>1, EveryNumber
<1>6. m \in T /\ m <= m
  BY <1>5
<1>7. Near(m)
  BY <1>6 DEF T
<1> DEFINE x == PlusAll(list)[1]  y == PlusAll(list)[2]
<1>8. MeanOf(list) = <<x, y * m>> /\ PlusAll(list) \in Fraction /\ r[m] = PlusAll(list)
  BY <1>1, MeanIs DEF PlusRuns
<1>9. x \in Int /\ y \in Nat \ {0} /\ m * y <= x
  BY <1>7, <1>8 DEF Near, Fraction
<1> HIDE DEF x, y
<1>10. 1 * (y * m) <= x * 1 /\ x * 1 \in Int /\ 1 * (y * m) \in Int
  BY <1>9, TimesNumber
<1> QED
  BY <1>8, <1>10 DEF AtMost, Less

(***************************************************************************)
(* The metrics of a ranking                                                *)
(***************************************************************************)
Found(relevance) == {i \in DOMAIN relevance : relevance[i]}

LEMMA SmallerOf ==
  ASSUME NEW a \in Nat, NEW b \in Nat
  PROVE  /\ Min({a, b}) \in Nat /\ Min({a, b}) <= a /\ Min({a, b}) <= b
         /\ Min({a, b}) = a \/ Min({a, b}) = b
<1>1. \E x \in {a, b} : \A y \in {a, b} : x <= y
  OBVIOUS
<1>2. Min({a, b}) \in {a, b} /\ \A y \in {a, b} : Min({a, b}) <= y
  BY <1>1 DEF Min
<1> QED
  BY <1>2

\* Documents are numbered, so that one of them is the first.
LEMMA FirstOf ==
  ASSUME NEW D \in SUBSET Nat, D # {}
  PROVE  Min(D) \in D /\ \A y \in D : Min(D) <= y
<1>1. PICK x \in D : \A y \in D : <<y, x>> \notin OpToRel(<, Nat)
  BY WFMin, NatLessThanWellFounded
<1>2. ASSUME NEW y \in D PROVE x <= y
  <2>1. x \in Nat /\ y \in Nat
    OBVIOUS
  <2>2. ~(y < x)
    BY <1>1, <2>1 DEF OpToRel
  <2> QED
    BY <2>1, <2>2
<1> QED
  BY <1>2 DEF Min

\* Hits are the ranks at which something was found.
LEMMA HitsAre ==
  ASSUME NEW relevance \in Seq(BOOLEAN)
  PROVE  /\ HitsIn(relevance) = Cardinality(Found(relevance))
         /\ HitsIn(relevance) \in Nat /\ HitsIn(relevance) <= Len(relevance)
         /\ IsFiniteSet(Found(relevance))
<1> DEFINE m == Len(relevance)
           at == Found(relevance)
<1>1. m \in Nat /\ DOMAIN relevance = 1 .. m
  BY LenProperties
<1>2. at \in SUBSET (1 .. m) /\ \A i \in 1 .. m : i \in at <=> relevance[i]
  BY <1>1 DEF Found
<1>3. HitsIn(relevance) = SumOf([i \in DOMAIN relevance |-> IF relevance[i] THEN 1 ELSE 0])
  BY DEF HitsIn, Total
<1> HIDE DEF at, m
<1>4. [i \in DOMAIN relevance |-> IF relevance[i] THEN 1 ELSE 0] = Ones(at, m)
  BY <1>1, <1>2 DEF Ones
<1>5. IsFiniteSet(at) /\ Cardinality(at) \in Nat /\ SumOf(Ones(at, m)) = Cardinality(at) /\ Cardinality(at) <= m
  BY <1>1, <1>2, SumCounts, FinitePart
<1> QED
  BY <1>3, <1>4, <1>5 DEF at, m

LEMMA TopKIs ==
  ASSUME NEW relevance \in Seq(BOOLEAN), NEW k \in Nat \ {0}
  PROVE  /\ TopK(relevance, k) \in Seq(BOOLEAN)
         /\ Len(TopK(relevance, k)) = Min({k, Len(relevance)})
         /\ Found(TopK(relevance, k)) = {i \in Found(relevance) : i <= Min({k, Len(relevance)})}
<1> DEFINE m == Len(relevance)
           n == Min({k, m})
           t == TopK(relevance, k)
<1>1. m \in Nat /\ DOMAIN relevance = 1 .. m /\ \A i \in 1 .. m : relevance[i] \in BOOLEAN
  BY LenProperties, ElementOfSeq
<1>2. n \in Nat /\ n <= m
  BY <1>1, SmallerOf
<1>3. t = SubSeq(relevance, 1, n)
  BY DEF TopK
<1> HIDE DEF n, t
<1>4. t \in Seq(BOOLEAN) /\ Len(t) = n /\ \A i \in 1 .. n : t[i] = relevance[i]
  <2>1. \A i \in 1 .. n : i \in 1 .. m
    BY <1>1, <1>2
  <2>2. 1 \in Int /\ n \in Int /\ \A i \in 1 .. n : relevance[i] \in BOOLEAN
    BY <1>1, <1>2, <2>1
  <2>3. /\ t \in Seq(BOOLEAN) /\ Len(t) = IF 1 <= n THEN n - 1 + 1 ELSE 0
        /\ \A i \in 1 .. n - 1 + 1 : t[i] = relevance[1 + i - 1]
    BY <1>3, <2>2, SubSeqProperties
  <2>4. n - 1 + 1 = n /\ (IF 1 <= n THEN n - 1 + 1 ELSE 0) = n /\ \A i \in 1 .. n : 1 + i - 1 = i
    BY <1>2
  <2> QED
    BY <2>3, <2>4
<1>5. DOMAIN t = 1 .. n
  BY <1>4, LenProperties
<1>6. Found(t) = {i \in Found(relevance) : i <= n}
  <2>1. ASSUME NEW i \in Found(t) PROVE i \in Found(relevance) /\ i <= n
    BY <1>1, <1>2, <1>4, <1>5, <2>1 DEF Found
  <2>2. ASSUME NEW i \in Found(relevance), i <= n PROVE i \in Found(t)
    BY <1>1, <1>2, <1>4, <1>5, <2>2 DEF Found
  <2> QED
    BY <2>1, <2>2
<1> QED
  BY <1>4, <1>6 DEF n, t

LEMMA AllFound ==
  ASSUME NEW relevance \in Seq(BOOLEAN), NEW k \in Nat \ {0}, Len(relevance) <= k
  PROVE  Found(TopK(relevance, k)) = Found(relevance)
<1>1. Len(relevance) \in Nat /\ DOMAIN relevance = 1 .. Len(relevance)
  BY LenProperties
<1>2. Min({k, Len(relevance)}) = Len(relevance)
  BY <1>1, SmallerOf
<1>3. \A i \in Found(relevance) : i <= Len(relevance)
  BY <1>1 DEF Found
<1>4. Found(TopK(relevance, k)) = {i \in Found(relevance) : i <= Len(relevance)}
  BY <1>2, TopKIs
<1> QED
  BY <1>3, <1>4

LEMMA HitIs ==
  ASSUME NEW relevance \in Seq(BOOLEAN), NEW k \in Nat \ {0}
  PROVE  /\ Found(TopK(relevance, k)) # {} => HitAtK(relevance, k) = <<1, 1>>
         /\ Found(TopK(relevance, k)) = {} => HitAtK(relevance, k) = <<0, 1>>
<1> DEFINE t == TopK(relevance, k)
<1>1. t \in Seq(BOOLEAN)
  BY TopKIs
<1> HIDE DEF t
<1>2. HitsIn(t) = Cardinality(Found(t)) /\ HitsIn(t) \in Nat /\ IsFiniteSet(Found(t))
  BY <1>1, HitsAre
<1>3. Cardinality(Found(t)) = 0 <=> Found(t) = {}
  BY <1>2, FS_EmptySet
<1>4. HitAtK(relevance, k) = IF HitsIn(t) > 0 THEN <<1, 1>> ELSE <<0, 1>>
  BY DEF HitAtK, t
<1>5. HitsIn(t) > 0 <=> Found(t) # {}
  BY <1>2, <1>3
<1> QED
  BY <1>4, <1>5 DEF t

LEMMA RankIs ==
  ASSUME NEW relevance \in Seq(BOOLEAN)
  PROVE  /\ Found(relevance) = {} => ReciprocalRank(relevance) = <<0, 1>>
         /\ Found(relevance) # {} =>
              /\ ReciprocalRank(relevance) = <<1, Min(Found(relevance))>>
              /\ Min(Found(relevance)) \in Nat \ {0}
              /\ \A i \in Found(relevance) : Min(Found(relevance)) <= i
<1>1. Found(relevance) \in SUBSET (Nat \ {0})
  <2>1. Len(relevance) \in Nat /\ DOMAIN relevance = 1 .. Len(relevance)
    BY LenProperties
  <2> QED
    BY <2>1 DEF Found
<1>2. ReciprocalRank(relevance) = IF Found(relevance) = {} THEN <<0, 1>> ELSE <<1, Min(Found(relevance))>>
  BY DEF ReciprocalRank, Found
<1>3. ASSUME Found(relevance) # {}
      PROVE  Min(Found(relevance)) \in Found(relevance) /\ \A i \in Found(relevance) : Min(Found(relevance)) <= i
  <2>1. Found(relevance) \in SUBSET Nat
    BY <1>1
  <2> QED
    BY <1>3, <2>1, FirstOf
<1> QED
  BY <1>1, <1>2, <1>3

LEMMA MetricsAreFractions ==
  ASSUME NEW relevance \in Seq(BOOLEAN), NEW k \in Nat \ {0}, NEW total \in Nat \ {0}
  PROVE  /\ HitAtK(relevance, k) \in Fraction /\ PrecisionAtK(relevance, k) \in Fraction
         /\ RecallAtK(relevance, total, k) \in Fraction /\ ReciprocalRank(relevance) \in Fraction
<1> DEFINE t == TopK(relevance, k)
           h == HitsIn(t)
           l == Len(t)
<1>0. <<0, 1>> \in Fraction /\ <<1, 1>> \in Fraction
  BY DEF Fraction
<1>1. t \in Seq(BOOLEAN)
  BY TopKIs
<1> HIDE DEF t
<1>2. h \in Nat /\ l \in Nat
  BY <1>1, HitsAre, LenProperties
<1>3. PrecisionAtK(relevance, k) = (IF l = 0 THEN <<0, 1>> ELSE <<h, l>>) /\ RecallAtK(relevance, total, k) = <<h, total>>
  BY DEF PrecisionAtK, RecallAtK, Share, t
<1> HIDE DEF h, l
<1>4. PrecisionAtK(relevance, k) \in Fraction
  <2>1. l # 0 => <<h, l>> \in Fraction
    BY <1>2 DEF Fraction
  <2> QED
    BY <1>0, <1>3, <2>1
<1>5. RecallAtK(relevance, total, k) \in Fraction
  BY <1>2, <1>3 DEF Fraction
<1>6. HitAtK(relevance, k) \in Fraction
  BY <1>0, HitIs
<1>7. ReciprocalRank(relevance) \in Fraction
  <2>1. Found(relevance) # {} => <<1, Min(Found(relevance))>> \in Fraction
    BY RankIs DEF Fraction
  <2> QED
    BY <1>0, <2>1, RankIs
<1> QED
  BY <1>4, <1>5, <1>6, <1>7

\* A hit at the first rank makes the reciprocal rank one.
LEMMA FirstHitRanks ==
  ASSUME NEW relevance \in Seq(BOOLEAN)
  PROVE  AtMost(HitAtK(relevance, 1), ReciprocalRank(relevance))
<1> DEFINE t == TopK(relevance, 1)
           x == ReciprocalRank(relevance)
           z == HitAtK(relevance, 1)
           found == Found(relevance)
           m == Len(relevance)
<1>1. found \in SUBSET (1 .. m) /\ m \in Nat
  <2>1. m \in Nat /\ DOMAIN relevance = 1 .. m
    BY LenProperties
  <2> QED
    BY <2>1 DEF Found
<1>2. CASE Found(t) = {}
  <2>1. z = <<0, 1>>
    BY <1>2, HitIs
  <2>2. x \in Fraction
    BY MetricsAreFractions
  <2>3. 0 <= x[1] /\ x[1] \in Int /\ x[2] \in Int
    <3>1. found = {} => x = <<0, 1>>
      BY RankIs
    <3>2. found # {} => x = <<1, Min(found)>>
      BY RankIs
    <3>3. x[1] = 0 \/ x[1] = 1
      BY <3>1, <3>2
    <3> QED
      BY <2>2, <3>3 DEF Fraction
  <2> HIDE DEF x, z
  <2>4. AtMost(<<0, 1>>, x)
    BY <2>3 DEF AtMost
  <2> QED
    BY <2>1, <2>4 DEF x, z
<1>3. CASE Found(t) # {}
  <2>1. z = <<1, 1>>
    BY <1>3, HitIs
  <2>2. PICK i \in Found(t) : TRUE
    BY <1>3
  <2>3. Found(t) = {j \in found : j <= Min({1, m})}
    BY TopKIs
  <2>4. Min({1, m}) <= 1 /\ Min({1, m}) \in Nat
    BY <1>1, SmallerOf
  <2>5. i \in found /\ i <= 1 /\ i \in Nat
    BY <1>1, <2>2, <2>3, <2>4
  <2>6. x = <<1, Min(found)>> /\ Min(found) \in Nat \ {0} /\ Min(found) <= i
    BY <2>5, RankIs
  <2>7. Min(found) = 1
    BY <2>5, <2>6
  <2>8. AtMost(<<1, 1>>, <<1, 1>>)
    BY DEF AtMost
  <2> HIDE DEF x, z
  <2> QED
    BY <2>1, <2>6, <2>7, <2>8 DEF x, z
<1> QED
  BY <1>2, <1>3

\* A rank is that of a hit within the last of them.
LEMMA RankHitsLast ==
  ASSUME NEW relevance \in Seq(BOOLEAN), NEW k \in Nat \ {0}, Len(relevance) <= k
  PROVE  AtMost(ReciprocalRank(relevance), HitAtK(relevance, k))
<1>1. Found(TopK(relevance, k)) = Found(relevance)
  BY AllFound
<1> DEFINE x == ReciprocalRank(relevance)
           z == HitAtK(relevance, k)
<1>2. CASE Found(relevance) = {}
  <2>1. x = <<0, 1>> /\ z = <<0, 1>>
    BY <1>1, <1>2, RankIs, HitIs
  <2>2. AtMost(<<0, 1>>, <<0, 1>>)
    BY DEF AtMost
  <2> HIDE DEF x, z
  <2> QED
    BY <2>1, <2>2 DEF x, z
<1>3. CASE Found(relevance) # {}
  <2> DEFINE n == Min(Found(relevance))
  <2>1. x = <<1, n>> /\ n \in Nat \ {0}
    BY <1>3, RankIs
  <2>2. z = <<1, 1>>
    BY <1>1, <1>3, HitIs
  <2> HIDE DEF n, x, z
  <2>3. AtMost(<<1, n>>, <<1, 1>>)
    BY <2>1 DEF AtMost
  <2> QED
    BY <2>1, <2>2, <2>3 DEF x, z
<1> QED
  BY <1>2, <1>3

LEMMA PrecisionAtMostOne ==
  ASSUME NEW relevance \in Seq(BOOLEAN), NEW k \in Nat \ {0}
  PROVE  AtMost(PrecisionAtK(relevance, k), <<1, 1>>)
<1> DEFINE t == TopK(relevance, k)
           h == HitsIn(t)
           l == Len(t)
<1>1. t \in Seq(BOOLEAN)
  BY TopKIs
<1> HIDE DEF t
<1>2. h \in Nat /\ l \in Nat /\ h <= l
  BY <1>1, HitsAre, LenProperties
<1>3. PrecisionAtK(relevance, k) = IF l = 0 THEN <<0, 1>> ELSE <<h, l>>
  BY DEF PrecisionAtK, Share, t
<1> HIDE DEF h, l
<1>4. AtMost(<<0, 1>>, <<1, 1>>) /\ AtMost(<<h, l>>, <<1, 1>>)
  BY <1>2 DEF AtMost
<1> QED
  BY <1>3, <1>4

LEMMA RecallIs ==
  ASSUME NEW relevance \in Seq(BOOLEAN), NEW k \in Nat \ {0}, NEW total \in Nat \ {0},
         Cardinality(Found(relevance)) <= total
  PROVE  /\ AtMost(RecallAtK(relevance, total, k), <<1, 1>>)
         /\ Len(relevance) <= k /\ Cardinality(Found(relevance)) = total =>
              ~Less(RecallAtK(relevance, total, k), <<1, 1>>)
<1> DEFINE t == TopK(relevance, k)
           h == HitsIn(t)
           c == Cardinality(Found(relevance))
<1>1. t \in Seq(BOOLEAN) /\ Found(t) \in SUBSET Found(relevance)
  BY TopKIs
<1>2. RecallAtK(relevance, total, k) = <<h, total>>
  BY DEF RecallAtK
<1>3. Len(relevance) <= k => Found(t) = Found(relevance)
  BY AllFound
<1> HIDE DEF t
<1>4. h \in Nat /\ h = Cardinality(Found(t))
  BY <1>1, HitsAre
<1>5. IsFiniteSet(Found(relevance)) /\ c \in Nat /\ c <= total
  BY HitsAre, FS_CardinalityType
<1>6. h <= c
  BY <1>1, <1>4, <1>5, FS_Subset
<1>7. Len(relevance) <= k => h = c
  BY <1>3, <1>4
<1> HIDE DEF h, c
<1>8. AtMost(<<h, total>>, <<1, 1>>)
  BY <1>4, <1>5, <1>6 DEF AtMost
<1>9. h = total => ~Less(<<h, total>>, <<1, 1>>)
  BY <1>4 DEF Less
<1> QED
  BY <1>2, <1>7, <1>8, <1>9 DEF c

\* What a mean is taken over.
LEMMA MeansAre ==
  ASSUME NEW list, NEW cutoffs, NEW k \in cutoffs
  PROVE  /\ Means(list, cutoffs).hit[k] = MeanOf([i \in DOMAIN list |-> HitAtK(list[i].relevance, k)])
         /\ Means(list, cutoffs).precision[k] = MeanOf([i \in DOMAIN list |-> PrecisionAtK(list[i].relevance, k)])
         /\ Means(list, cutoffs).recall[k] = MeanOf([i \in DOMAIN list |-> RecallAtK(list[i].relevance, list[i].total, k)])
         /\ Means(list, cutoffs).mrr = MeanOf([i \in DOMAIN list |-> ReciprocalRank(list[i].relevance)])
BY DEF Means

\* What is recorded of a question: what was found at its ranks, at most limit of them, and
\* of how many passages there are; of all of them when the ranks have room for all.
ScoreFits(score, limit, whole) ==
  /\ score.relevance \in Seq(BOOLEAN) /\ Len(score.relevance) <= limit
  /\ score.total \in Nat \ {0} /\ Cardinality(Found(score.relevance)) <= score.total
  /\ whole => Cardinality(Found(score.relevance)) = score.total

LEMMA MeanOfNone ==
  ASSUME NEW S, NEW list \in [1 .. 0 -> S]
  PROVE  MeanOf(list) = <<0, 1>>
<1>1. list \in Seq(S) /\ Len(list) = 0
  BY ListOf
<1>2. list = <<>>
  BY <1>1, EmptySeq
<1> QED
  BY <1>2 DEF MeanOf

LEMMA OrderedMeans ==
  ASSUME NEW m \in Nat, NEW low \in [1 .. m -> Fraction], NEW high \in [1 .. m -> Fraction],
         \A i \in 1 .. m : AtMost(low[i], high[i])
  PROVE  AtMost(MeanOf(low), MeanOf(high))
<1>1. CASE m = 0
  <2>1. MeanOf(low) = <<0, 1>> /\ MeanOf(high) = <<0, 1>>
    BY <1>1, MeanOfNone
  <2>2. AtMost(<<0, 1>>, <<0, 1>>)
    BY DEF AtMost
  <2> QED
    BY <2>1, <2>2
<1>2. CASE m # 0
  <2>1. m \in Nat \ {0}
    BY <1>2
  <2> QED
    BY <2>1, MeansOrdered
<1> QED
  BY <1>1, <1>2

LEMMA MeanWithinOne ==
  ASSUME NEW m \in Nat, NEW list \in [1 .. m -> Fraction], \A i \in 1 .. m : AtMost(list[i], <<1, 1>>)
  PROVE  AtMost(MeanOf(list), <<1, 1>>)
<1>1. CASE m = 0
  <2>1. MeanOf(list) = <<0, 1>>
    BY <1>1, MeanOfNone
  <2>2. AtMost(<<0, 1>>, <<1, 1>>)
    BY DEF AtMost
  <2> QED
    BY <2>1, <2>2
<1>2. CASE m # 0
  <2>1. m \in Nat \ {0}
    BY <1>2
  <2> QED
    BY <2>1, MeanAtMostOne
<1> QED
  BY <1>1, <1>2

\* The metrics of a report agree with each other.
MetricsAgree(means, limit) ==
  /\ AtMost(means.hit[1], means.mrr) /\ AtMost(means.mrr, means.hit[limit])
  /\ \A k \in 1 .. limit : AtMost(means.precision[k], <<1, 1>>) /\ AtMost(means.recall[k], <<1, 1>>)

LEMMA MeansAgree ==
  ASSUME NEW m \in Nat, NEW list, DOMAIN list = 1 .. m, NEW limit \in Nat \ {0}, NEW whole,
         \A i \in 1 .. m : ScoreFits(list[i], limit, whole)
  PROVE  /\ MetricsAgree(Means(list, 1 .. limit), limit)
         /\ whole /\ m > 0 => ~Less(Means(list, 1 .. limit).recall[limit], <<1, 1>>)
<1> DEFINE hits(k) == [i \in 1 .. m |-> HitAtK(list[i].relevance, k)]
           precisions(k) == [i \in 1 .. m |-> PrecisionAtK(list[i].relevance, k)]
           recalls(k) == [i \in 1 .. m |-> RecallAtK(list[i].relevance, list[i].total, k)]
           ranks == [i \in 1 .. m |-> ReciprocalRank(list[i].relevance)]
           means == Means(list, 1 .. limit)
<1>1. ASSUME NEW k \in 1 .. limit
      PROVE  /\ means.hit[k] = MeanOf(hits(k)) /\ means.precision[k] = MeanOf(precisions(k))
             /\ means.recall[k] = MeanOf(recalls(k)) /\ means.mrr = MeanOf(ranks)
  <2>1. /\ means.hit[k] = MeanOf([i \in DOMAIN list |-> HitAtK(list[i].relevance, k)])
        /\ means.precision[k] = MeanOf([i \in DOMAIN list |-> PrecisionAtK(list[i].relevance, k)])
        /\ means.recall[k] = MeanOf([i \in DOMAIN list |-> RecallAtK(list[i].relevance, list[i].total, k)])
        /\ means.mrr = MeanOf([i \in DOMAIN list |-> ReciprocalRank(list[i].relevance)])
    BY MeansAre
  <2> HIDE DEF means
  <2> QED
    BY <2>1
<1> HIDE DEF means
<1>2. ASSUME NEW i \in 1 .. m
      PROVE  /\ list[i].relevance \in Seq(BOOLEAN) /\ Len(list[i].relevance) <= limit
             /\ list[i].total \in Nat \ {0} /\ Cardinality(Found(list[i].relevance)) <= list[i].total
             /\ whole => Cardinality(Found(list[i].relevance)) = list[i].total
  <2>1. ScoreFits(list[i], limit, whole)
    OBVIOUS
  <2> QED
    BY <2>1 DEF ScoreFits
<1>3. ASSUME NEW k \in Nat \ {0}
      PROVE  /\ hits(k) \in [1 .. m -> Fraction] /\ precisions(k) \in [1 .. m -> Fraction]
             /\ recalls(k) \in [1 .. m -> Fraction] /\ ranks \in [1 .. m -> Fraction]
  <2>1. ASSUME NEW i \in 1 .. m
        PROVE  /\ HitAtK(list[i].relevance, k) \in Fraction /\ PrecisionAtK(list[i].relevance, k) \in Fraction
               /\ RecallAtK(list[i].relevance, list[i].total, k) \in Fraction
               /\ ReciprocalRank(list[i].relevance) \in Fraction
    BY <1>2, MetricsAreFractions
  <2> QED
    BY <2>1
<1>4. AtMost(means.hit[1], means.mrr)
  <2>1. 1 \in 1 .. limit /\ 1 \in Nat \ {0}
    OBVIOUS
  <2> DEFINE f == hits(1)
             g == ranks
  <2>2. \A i \in 1 .. m : AtMost(f[i], g[i])
    <3> SUFFICES ASSUME NEW i \in 1 .. m PROVE AtMost(f[i], g[i])
      OBVIOUS
    <3>1. f[i] = HitAtK(list[i].relevance, 1) /\ g[i] = ReciprocalRank(list[i].relevance)
      OBVIOUS
    <3>2. AtMost(HitAtK(list[i].relevance, 1), ReciprocalRank(list[i].relevance))
      BY <1>2, FirstHitRanks
    <3> HIDE DEF f, g
    <3> QED
      BY <3>1, <3>2
  <2>3. f \in [1 .. m -> Fraction] /\ g \in [1 .. m -> Fraction]
    BY <1>3, <2>1
  <2>4. means.hit[1] = MeanOf(f) /\ means.mrr = MeanOf(g)
    BY <1>1, <2>1
  <2> HIDE DEF f, g
  <2>5. AtMost(MeanOf(f), MeanOf(g))
    BY <2>2, <2>3, OrderedMeans
  <2> QED
    BY <2>4, <2>5
<1>5. AtMost(means.mrr, means.hit[limit])
  <2>1. limit \in 1 .. limit
    OBVIOUS
  <2> DEFINE f == ranks
             g == hits(limit)
  <2>2. \A i \in 1 .. m : AtMost(f[i], g[i])
    <3> SUFFICES ASSUME NEW i \in 1 .. m PROVE AtMost(f[i], g[i])
      OBVIOUS
    <3>1. g[i] = HitAtK(list[i].relevance, limit) /\ f[i] = ReciprocalRank(list[i].relevance)
      OBVIOUS
    <3>2. AtMost(ReciprocalRank(list[i].relevance), HitAtK(list[i].relevance, limit))
      BY <1>2, RankHitsLast
    <3> HIDE DEF f, g
    <3> QED
      BY <3>1, <3>2
  <2>3. f \in [1 .. m -> Fraction] /\ g \in [1 .. m -> Fraction]
    BY <1>3
  <2>4. means.hit[limit] = MeanOf(g) /\ means.mrr = MeanOf(f)
    BY <1>1, <2>1
  <2> HIDE DEF f, g
  <2>5. AtMost(MeanOf(f), MeanOf(g))
    BY <2>2, <2>3, OrderedMeans
  <2> QED
    BY <2>4, <2>5
<1>6. ASSUME NEW k \in 1 .. limit PROVE AtMost(means.precision[k], <<1, 1>>)
  <2> DEFINE f == precisions(k)
  <2>1. k \in Nat \ {0}
    OBVIOUS
  <2>2. \A i \in 1 .. m : AtMost(f[i], <<1, 1>>)
    <3> SUFFICES ASSUME NEW i \in 1 .. m PROVE AtMost(f[i], <<1, 1>>)
      OBVIOUS
    <3>1. f[i] = PrecisionAtK(list[i].relevance, k)
      OBVIOUS
    <3>2. AtMost(PrecisionAtK(list[i].relevance, k), <<1, 1>>)
      BY <1>2, <2>1, PrecisionAtMostOne
    <3> HIDE DEF f
    <3> QED
      BY <3>1, <3>2
  <2>3. f \in [1 .. m -> Fraction] /\ means.precision[k] = MeanOf(f)
    BY <1>1, <1>3, <2>1
  <2> HIDE DEF f
  <2> QED
    BY <2>2, <2>3, MeanWithinOne
<1>7. ASSUME NEW k \in 1 .. limit PROVE AtMost(means.recall[k], <<1, 1>>)
  <2> DEFINE f == recalls(k)
  <2>1. k \in Nat \ {0}
    OBVIOUS
  <2>2. \A i \in 1 .. m : AtMost(f[i], <<1, 1>>)
    <3> SUFFICES ASSUME NEW i \in 1 .. m PROVE AtMost(f[i], <<1, 1>>)
      OBVIOUS
    <3>1. f[i] = RecallAtK(list[i].relevance, list[i].total, k)
      OBVIOUS
    <3>2. AtMost(RecallAtK(list[i].relevance, list[i].total, k), <<1, 1>>)
      BY <1>2, <2>1, RecallIs
    <3> HIDE DEF f
    <3> QED
      BY <3>1, <3>2
  <2>3. f \in [1 .. m -> Fraction] /\ means.recall[k] = MeanOf(f)
    BY <1>1, <1>3, <2>1
  <2> HIDE DEF f
  <2> QED
    BY <2>2, <2>3, MeanWithinOne
<1>8. ASSUME whole, m > 0 PROVE ~Less(means.recall[limit], <<1, 1>>)
  <2> DEFINE f == recalls(limit)
  <2>1. limit \in 1 .. limit /\ m \in Nat \ {0}
    BY <1>8
  <2>2. \A i \in 1 .. m : ~Less(f[i], <<1, 1>>)
    <3> SUFFICES ASSUME NEW i \in 1 .. m PROVE ~Less(f[i], <<1, 1>>)
      OBVIOUS
    <3>1. f[i] = RecallAtK(list[i].relevance, list[i].total, limit)
      OBVIOUS
    <3>2. ~Less(RecallAtK(list[i].relevance, list[i].total, limit), <<1, 1>>)
      BY <1>2, <1>8, RecallIs
    <3> HIDE DEF f
    <3> QED
      BY <3>1, <3>2
  <2>3. f \in [1 .. m -> Fraction] /\ means.recall[limit] = MeanOf(f)
    BY <1>1, <1>3, <2>1
  <2> HIDE DEF f
  <2> QED
    BY <2>1, <2>2, <2>3, MeanIsOne
<1> HIDE DEF hits, precisions, recalls, ranks
<1> QED
  BY <1>4, <1>5, <1>6, <1>7, <1>8 DEF MetricsAgree, means

(***************************************************************************)
(* The verdicts on an answer                                               *)
(***************************************************************************)
Supported == "supported"
Unsupported == "unsupported"
Unclear == "unclear"

VerdictsMatch(verdicts, asked) ==
  /\ verdicts \in Seq(Range(verdicts)) /\ Len(verdicts) = Len(asked)
  /\ \A j \in DOMAIN verdicts :
       /\ verdicts[j].index = asked[j].index
       /\ verdicts[j].verdict \in {Supported, Unsupported, Unclear}

\* What is recorded of an answer: one verdict for each claim that cites, and a support only
\* where the judge gave it.
AnswerFits(answer) ==
  /\ answer.error \in BOOLEAN /\ answer.claims \in Seq(Range(answer.claims))
  /\ VerdictsMatch(answer.verdicts, CitedClaims(answer))
  /\ \A j \in DOMAIN answer.verdicts :
       answer.verdicts[j].verdict = Supported => answer.verdicts[j].index \in answer.backed

LEMMA OnesApart ==
  ASSUME NEW m \in Nat, NEW at \in SUBSET (1 .. m), NEW bt \in SUBSET (1 .. m), at \cap bt = {}
  PROVE  SumOf(Ones(at \cup bt, m)) = SumOf(Ones(at, m)) + SumOf(Ones(bt, m))
<1> DEFINE f == Ones(at, m)
           g == Ones(bt, m)
           h == Ones(at \cup bt, m)
<1>1. /\ f \in [1 .. m -> Int] /\ \A i \in 1 .. m : f[i] = IF i \in at THEN 1 ELSE 0
      /\ g \in [1 .. m -> Int] /\ \A i \in 1 .. m : g[i] = IF i \in bt THEN 1 ELSE 0
      /\ h \in [1 .. m -> Int] /\ \A i \in 1 .. m : h[i] = IF i \in at \/ i \in bt THEN 1 ELSE 0
  BY DEF Ones
<1> HIDE DEF f, g, h
<1>2. AddUp(f, g, h, m)
  BY <1>1 DEF AddUp
<1>3. m \in Nat /\ f \in [1 .. m -> Int] /\ g \in [1 .. m -> Int] /\ h \in [1 .. m -> Int]
  BY <1>1
<1>4. SumOf(h) = SumOf(f) + SumOf(g)
  BY <1>2, <1>3, SumAdds
<1> QED
  BY <1>4 DEF f, g, h

Judged(verdicts, said) == {i \in DOMAIN verdicts : verdicts[i].verdict = said}

LEMMA RuledIs ==
  ASSUME NEW answer, NEW said, NEW m \in Nat, DOMAIN answer.verdicts = 1 .. m
  PROVE  /\ Ruled(answer, said) = SumOf(Ones(Judged(answer.verdicts, said), m))
         /\ Ruled(answer, said) \in Int
<1> DEFINE at == Judged(answer.verdicts, said)
<1>1. at \in SUBSET (1 .. m) /\ \A i \in 1 .. m : i \in at <=> answer.verdicts[i].verdict = said
  BY DEF Judged
<1>2. Ruled(answer, said) = SumOf([i \in 1 .. m |-> IF answer.verdicts[i].verdict = said THEN 1 ELSE 0])
  BY DEF Ruled, Total
<1> HIDE DEF at
<1>3. [i \in 1 .. m |-> IF answer.verdicts[i].verdict = said THEN 1 ELSE 0] = Ones(at, m)
  BY <1>1 DEF Ones
<1>4. SumOf(Ones(at, m)) = Cardinality(at) /\ Cardinality(at) \in Nat
  BY <1>1, SumCounts
<1> QED
  BY <1>2, <1>3, <1>4 DEF at

\* Every verdict is one of the three, which are apart.
LEMMA VerdictsAdd ==
  ASSUME NEW answer, NEW asked, VerdictsMatch(answer.verdicts, asked)
  PROVE  Ruled(answer, Supported) + Ruled(answer, Unsupported) + Ruled(answer, Unclear) = Len(asked)
<1> DEFINE verdicts == answer.verdicts
           m == Len(verdicts)
           u == Judged(verdicts, Supported)
           v == Judged(verdicts, Unsupported)
           w == Judged(verdicts, Unclear)
<1>1. verdicts \in Seq(Range(verdicts)) /\ m = Len(asked)
  BY DEF VerdictsMatch
<1>2. m \in Nat /\ DOMAIN verdicts = 1 .. m
  BY <1>1, LenProperties
<1>3. \A j \in 1 .. m : verdicts[j].verdict \in {Supported, Unsupported, Unclear}
  BY <1>2 DEF VerdictsMatch
<1>4. Supported # Unsupported /\ Supported # Unclear /\ Unsupported # Unclear
  BY DEF Supported, Unsupported, Unclear
<1>5. /\ u \in SUBSET (1 .. m) /\ v \in SUBSET (1 .. m) /\ w \in SUBSET (1 .. m)
      /\ u \cap v = {} /\ (u \cup v) \cap w = {} /\ (u \cup v) \cup w = 1 .. m
  <2> HIDE DEF verdicts, m
  <2>1. \A s : Judged(verdicts, s) = {i \in 1 .. m : verdicts[i].verdict = s}
    BY <1>2 DEF Judged
  <2> QED
    BY <1>3, <1>4, <2>1
<1>6. /\ Ruled(answer, Supported) = SumOf(Ones(u, m)) /\ Ruled(answer, Unsupported) = SumOf(Ones(v, m))
      /\ Ruled(answer, Unclear) = SumOf(Ones(w, m))
  BY <1>2, RuledIs
<1> HIDE DEF u, v, w, m
<1>7. SumOf(Ones(u \cup v, m)) = SumOf(Ones(u, m)) + SumOf(Ones(v, m))
  BY <1>2, <1>5, OnesApart
<1>8. SumOf(Ones((u \cup v) \cup w, m)) = SumOf(Ones(u \cup v, m)) + SumOf(Ones(w, m))
  <2>1. u \cup v \in SUBSET (1 .. m)
    BY <1>5
  <2> QED
    BY <1>2, <1>5, <2>1, OnesApart
<1>9. SumOf(Ones(1 .. m, m)) = m
  <2>1. 1 .. m \in SUBSET (1 .. m)
    OBVIOUS
  <2>2. SumOf(Ones(1 .. m, m)) = Cardinality(1 .. m)
    BY <1>2, <2>1, SumCounts
  <2>3. 1 \in Int /\ m \in Int /\ (IF 1 > m THEN 0 ELSE m - 1 + 1) = m
    BY <1>2
  <2> QED
    BY <2>2, <2>3, FS_Interval
<1> QED
  BY <1>1, <1>5, <1>6, <1>7, <1>8, <1>9

LEMMA CitedAre ==
  ASSUME NEW answer, answer.claims \in Seq(Range(answer.claims))
  PROVE  /\ CitedClaims(answer) \in Seq(Range(answer.claims))
         /\ Len(CitedClaims(answer)) \in Nat /\ Len(CitedClaims(answer)) <= Len(answer.claims)
         /\ Len(answer.claims) \in Nat
<1> DEFINE at == {i \in DOMAIN answer.claims : IsCited(answer.claims[i])}
<1>1. at \in SUBSET DOMAIN answer.claims /\ CitedClaims(answer) = Those(answer.claims, at)
  BY DEF CitedClaims, Kept
<1> HIDE DEF at
<1>2. Len(answer.claims) \in Nat
  BY LenProperties
<1> QED
  BY <1>1, <1>2, ThoseAre

\* What the numbers on grounding say of each other.
GroundingAdds(f) == f.supported + f.unsupported + f.unclear = f.cited /\ f.cited <= f.claims

LEMMA GroundingAgrees ==
  ASSUME NEW list, list \in Seq(Range(list)), \A i \in DOMAIN list : AnswerFits(list[i])
  PROVE  /\ GroundingAdds(Faithfulness(list))
         /\ Faithfulness(list).measured = Cardinality({i \in DOMAIN list : ~list[i].error})
<1> DEFINE at == {i \in DOMAIN list : ~list[i].error}
           some == Measured(list)
           m == Len(some)
<1>1. at \in SUBSET DOMAIN list /\ some = Those(list, at)
  BY DEF Measured, Kept
<1>2. some \in Seq(Range(list)) /\ m = Cardinality(at)
  <2> HIDE DEF at, some
  <2> QED
    BY <1>1, ThoseAre
<1>3. m \in Nat /\ DOMAIN some = 1 .. m
  BY <1>2, LenProperties
<1>4. \A i \in 1 .. m : AnswerFits(some[i])
  <2> SUFFICES ASSUME NEW i \in 1 .. m PROVE AnswerFits(some[i])
    OBVIOUS
  <2> HIDE DEF some
  <2>1. some[i] \in Range(list)
    BY <1>2, <1>3, ElementOfSeq
  <2> QED
    BY <2>1 DEF Range
<1> DEFINE f == [i \in 1 .. m |-> Ruled(some[i], Supported)]
           g == [i \in 1 .. m |-> Ruled(some[i], Unsupported)]
           h == [i \in 1 .. m |-> Ruled(some[i], Unclear)]
           e == [i \in 1 .. m |-> f[i] + g[i]]
           c == [i \in 1 .. m |-> Len(CitedClaims(some[i]))]
           d == [i \in 1 .. m |-> Len(some[i].claims)]
           told == Faithfulness(list)
<1>5. /\ told.supported = Total(some, LAMBDA a : Ruled(a, Supported))
      /\ told.unsupported = Total(some, LAMBDA a : Ruled(a, Unsupported))
      /\ told.unclear = Total(some, LAMBDA a : Ruled(a, Unclear))
      /\ told.cited = Total(some, LAMBDA a : Len(CitedClaims(a)))
      /\ told.claims = Total(some, LAMBDA a : Len(a.claims))
      /\ told.measured = m
  BY DEF Faithfulness, Supported, Unsupported, Unclear
<1> HIDE DEF told, some, m
<1>6. /\ told.supported = SumOf(f) /\ told.unsupported = SumOf(g) /\ told.unclear = SumOf(h)
      /\ told.cited = SumOf(c) /\ told.claims = SumOf(d)
  BY <1>3, <1>5 DEF Total
<1>7. ASSUME NEW i \in 1 .. m
      PROVE  /\ Ruled(some[i], Supported) \in Int /\ Ruled(some[i], Unsupported) \in Int
             /\ Ruled(some[i], Unclear) \in Int
             /\ Ruled(some[i], Supported) + Ruled(some[i], Unsupported) + Ruled(some[i], Unclear)
                  = Len(CitedClaims(some[i]))
             /\ Len(CitedClaims(some[i])) \in Int /\ Len(some[i].claims) \in Int
             /\ Len(CitedClaims(some[i])) <= Len(some[i].claims)
  <2> DEFINE a == some[i]
  <2>1. AnswerFits(a)
    BY <1>4
  <2> HIDE DEF a
  <2>2. a.claims \in Seq(Range(a.claims)) /\ VerdictsMatch(a.verdicts, CitedClaims(a))
    BY <2>1 DEF AnswerFits
  <2>3. a.verdicts \in Seq(Range(a.verdicts))
    BY <2>2 DEF VerdictsMatch
  <2>4. Len(a.verdicts) \in Nat /\ DOMAIN a.verdicts = 1 .. Len(a.verdicts)
    BY <2>3, LenProperties
  <2>5. Ruled(a, Supported) \in Int /\ Ruled(a, Unsupported) \in Int /\ Ruled(a, Unclear) \in Int
    BY <2>4, RuledIs
  <2>6. Ruled(a, Supported) + Ruled(a, Unsupported) + Ruled(a, Unclear) = Len(CitedClaims(a))
    BY <2>2, VerdictsAdd
  <2>7. /\ Len(CitedClaims(a)) \in Nat /\ Len(CitedClaims(a)) <= Len(a.claims) /\ Len(a.claims) \in Nat
    BY <2>2, CitedAre
  <2> QED
    BY <2>5, <2>6, <2>7 DEF a
<1>8. /\ f \in [1 .. m -> Int] /\ g \in [1 .. m -> Int] /\ h \in [1 .. m -> Int] /\ e \in [1 .. m -> Int]
      /\ c \in [1 .. m -> Int] /\ d \in [1 .. m -> Int]
  BY <1>7
<1>9. \A i \in 1 .. m : e[i] = f[i] + g[i] /\ c[i] = e[i] + h[i] /\ c[i] <= d[i]
  BY <1>7
<1> HIDE DEF c, d, e, f, g, h
<1>10. SumOf(e) = SumOf(f) + SumOf(g)
  <2>1. AddUp(f, g, e, m)
    BY <1>9 DEF AddUp
  <2>2. m \in Nat /\ f \in [1 .. m -> Int] /\ g \in [1 .. m -> Int] /\ e \in [1 .. m -> Int]
    BY <1>3, <1>8
  <2> QED
    BY <2>1, <2>2, SumAdds
<1>11. SumOf(c) = SumOf(e) + SumOf(h)
  <2>1. AddUp(e, h, c, m)
    BY <1>9 DEF AddUp
  <2>2. m \in Nat /\ e \in [1 .. m -> Int] /\ h \in [1 .. m -> Int] /\ c \in [1 .. m -> Int]
    BY <1>3, <1>8
  <2> QED
    BY <2>1, <2>2, SumAdds
<1>12. SumOf(c) <= SumOf(d)
  BY <1>3, <1>8, <1>9, SumLess
<1>13. GroundingAdds(told)
  BY <1>6, <1>10, <1>11, <1>12 DEF GroundingAdds
<1> HIDE DEF at
<1>14. told.measured = Cardinality(at)
  BY <1>2, <1>5
<1> QED
  BY <1>13, <1>14 DEF told, at

Ranks(f, n, W) == f \in [1 .. n -> W] /\ \A i, j \in 1 .. n : f[i] = f[j] => i = j
Among(F, f, n, R) == F = {i \in 1 .. n : f[i] \in R}
Smaller(n, k, m) == n = Min({k, m})
Recorded(score, f, n, R) == score.relevance = [i \in 1 .. n |-> f[i] \in R] /\ score.total = Cardinality(R)

\* A ranking of distinct passages finds at most as many of a kind as there are, and all of
\* them when it ranks them all.
LEMMA RankingFinds ==
  ASSUME NEW W, IsFiniteSet(W), NEW n \in Nat, NEW f, Ranks(f, n, W), NEW R \in SUBSET W,
         NEW F, Among(F, f, n, R)
  PROVE  /\ Cardinality(F) <= Cardinality(R)
         /\ n = Cardinality(W) => Cardinality(F) = Cardinality(R)
<1> DEFINE g == [i \in F |-> f[i]]
<1>0. f \in [1 .. n -> W] /\ \A i, j \in 1 .. n : f[i] = f[j] => i = j
  BY DEF Ranks
<1>f. F = {i \in 1 .. n : f[i] \in R}
  BY DEF Among
<1>1. IsFiniteSet(R)
  BY FS_Subset
<1>2. g \in Injection(F, R)
  <2>1. g \in [F -> R]
    BY <1>0, <1>f
  <2>2. \A i, j \in F : g[i] = g[j] => i = j
    BY <1>0, <1>f
  <2> HIDE DEF g
  <2> QED
    BY <2>1, <2>2 DEF Injection, IsInjective
<1>3. ASSUME n = Cardinality(W) PROVE g \in Surjection(F, R)
  <2>1. f \in Injection(1 .. n, W)
    BY <1>0 DEF Injection, IsInjective
  <2>2. Cardinality(1 .. n) = n
    <3>1. 1 \in Int /\ n \in Int /\ (IF 1 > n THEN 0 ELSE n - 1 + 1) = n
      OBVIOUS
    <3> QED
      BY <3>1, FS_Interval
  <2>3. f \in Surjection(1 .. n, W)
    BY <1>3, <2>1, <2>2, FS_Injection
  <2>4. \A w \in W : \E i \in 1 .. n : f[i] = w
    BY <2>3 DEF Surjection
  <2>5. \A w \in R : \E i \in F : g[i] = w
    BY <1>f, <2>4
  <2>6. g \in [F -> R]
    BY <1>0, <1>f
  <2> HIDE DEF g
  <2> QED
    BY <2>5, <2>6 DEF Surjection
<1> HIDE DEF g
<1>4. Cardinality(F) <= Cardinality(R) /\ (n = Cardinality(W) => Cardinality(F) = Cardinality(R))
  BY <1>1, <1>2, <1>3, FS_Injection
<1> QED
  BY <1>4

\* Where each document has one entry the entries are as many as the documents.
LEMMA EntriesCounted ==
  ASSUME NEW W, IsFiniteSet(W), \A v, w \in W : v.doc = w.doc => v = w,
         NEW D, D = {w.doc : w \in W}
  PROVE  Cardinality(W) = Cardinality(D)
<1> DEFINE f == [w \in W |-> w.doc]
<1>1. f \in [W -> D] /\ (\A v, w \in W : f[v] = f[w] => v = w) /\ \A d \in D : \E w \in W : f[w] = d
  OBVIOUS
<1> HIDE DEF f
<1>2. f \in Surjection(W, D) /\ f \in Injection(W, D)
  BY <1>1 DEF Surjection, Injection, IsInjective
<1> QED
  BY <1>2, FS_Surjection

\* What a question whose passages were ranked has recorded.
LEMMA RankedFits ==
  ASSUME NEW W, IsFiniteSet(W), NEW R \in SUBSET W, Cardinality(R) > 0, NEW limit \in Nat \ {0},
         NEW n, Smaller(n, limit, Cardinality(W)), NEW f, Ranks(f, n, W),
         NEW whole, whole => Cardinality(W) <= limit,
         NEW score, Recorded(score, f, n, R)
  PROVE  ScoreFits(score, limit, whole)
<1> DEFINE list == score.relevance
<1>0. /\ n = Min({limit, Cardinality(W)})
      /\ score.relevance = [i \in 1 .. n |-> f[i] \in R] /\ score.total = Cardinality(R)
  BY DEF Smaller, Recorded
<1>1. Cardinality(W) \in Nat /\ Cardinality(R) \in Nat
  BY FS_Subset, FS_CardinalityType
<1>2. n \in Nat /\ n <= limit /\ (Cardinality(W) <= limit => n = Cardinality(W))
  BY <1>0, <1>1, SmallerOf
<1>3. list \in [1 .. n -> BOOLEAN] /\ \A i \in 1 .. n : list[i] = (f[i] \in R)
  BY <1>0
<1> HIDE DEF list
<1>4. list \in Seq(BOOLEAN) /\ Len(list) = n
  BY <1>2, <1>3, ListOf
<1>5. Found(list) = {i \in 1 .. n : f[i] \in R}
  BY <1>3 DEF Found
<1>6. /\ Cardinality(Found(list)) <= Cardinality(R)
      /\ n = Cardinality(W) => Cardinality(Found(list)) = Cardinality(R)
  <2>1. n \in Nat
    BY <1>2
  <2> DEFINE F == Found(list)
  <2>2. Among(F, f, n, R)
    BY <1>5 DEF Among
  <2> HIDE DEF F
  <2>3. Cardinality(F) <= Cardinality(R) /\ (n = Cardinality(W) => Cardinality(F) = Cardinality(R))
    BY <2>1, <2>2, RankingFinds
  <2> QED
    BY <2>3 DEF F
<1>7. Cardinality(R) \in Nat \ {0}
  BY <1>1
<1> QED
  BY <1>0, <1>2, <1>4, <1>6, <1>7 DEF ScoreFits, list

(***************************************************************************)
(* What a judge is asked and what becomes of its payload                   *)
(***************************************************************************)

\* The last of some numbers up to n.
LEMMA LastEntry ==
  ASSUME NEW n \in Nat, NEW entries, DOMAIN entries = 1 .. n, NEW about \in SUBSET DOMAIN entries, about # {}
  PROVE  Max(about) \in about
BY LargestOf

Rulings == [index : Nat, verdict : {Supported, Unsupported, Unclear}]

\* Each claim asked about has one verdict, and a support is one of the entries.
LEMMA CoercedFits ==
  ASSUME NEW m \in Nat, NEW expected, DOMAIN expected = 1 .. m,
         NEW entries \in Seq(Rulings), NEW i \in 1 .. m
  PROVE  LET v == CoerceVerdicts(entries, expected)[i]
         IN  /\ v.index = expected[i] /\ v.verdict \in {Supported, Unsupported, Unclear}
             /\ v.verdict = Supported => [index |-> expected[i], verdict |-> Supported] \in Range(entries)
<1> DEFINE about == {j \in DOMAIN entries : entries[j].index = expected[i]}
           v == CoerceVerdicts(entries, expected)[i]
           e == entries[Max(about)]
<1>1. DOMAIN entries = 1 .. Len(entries) /\ Len(entries) \in Nat /\ \A j \in 1 .. Len(entries) : entries[j] \in Rulings
  BY LenProperties, ElementOfSeq
<1>2. v.index = expected[i] /\ v.verdict = IF about = {} THEN Unclear ELSE e.verdict
  BY DEF CoerceVerdicts, Unclear
<1>3. Supported # Unclear
  BY DEF Supported, Unclear
<1> HIDE DEF v
<1>4. CASE about = {}
  BY <1>2, <1>3, <1>4 DEF v
<1>5. CASE about # {}
  <2>1. about \in SUBSET DOMAIN entries
    OBVIOUS
  <2>2. Max(about) \in about
    <3> HIDE DEF about
    <3> QED
      BY <1>1, <1>5, <2>1, LastEntry
  <2>3. Max(about) \in 1 .. Len(entries) /\ e.index = expected[i]
    BY <1>1, <2>2
  <2>4. e \in Rulings /\ e \in Range(entries)
    BY <1>1, <2>3 DEF Range
  <2> HIDE DEF e, about
  <2>5. e.verdict = Supported => e = [index |-> expected[i], verdict |-> Supported]
    BY <2>3, <2>4 DEF Rulings
  <2>6. v.verdict = e.verdict /\ e.verdict \in {Supported, Unsupported, Unclear}
    BY <1>2, <1>5, <2>4 DEF Rulings
  <2> QED
    BY <1>2, <2>4, <2>5, <2>6 DEF v
<1> QED
  BY <1>4, <1>5

LEMMA CoercedIs ==
  ASSUME NEW m \in Nat, NEW expected, DOMAIN expected = 1 .. m, NEW entries
  PROVE  DOMAIN CoerceVerdicts(entries, expected) = 1 .. m
BY DEF CoerceVerdicts

(***************************************************************************)
(* Sets of numbers, and sequences that grow by one                         *)
(***************************************************************************)

\* Some number of finitely many is the least, and some the greatest.
LEMMA Extremes ==
  ASSUME NEW n \in Nat \ {0}, NEW f \in [1 .. n -> Int]
  PROVE  /\ \E i \in 1 .. n : \A j \in 1 .. n : f[i] <= f[j]
         /\ \E i \in 1 .. n : \A j \in 1 .. n : f[j] <= f[i]
<1> DEFINE T == {k \in Nat : k < n => \E i, m \in 1 .. (k + 1) : \A j \in 1 .. (k + 1) : f[i] <= f[j] /\ f[j] <= f[m]}
<1>1. 0 \in T
  <2>1. 1 \in 1 .. (0 + 1) /\ \A j \in 1 .. (0 + 1) : j = 1
    OBVIOUS
  <2>2. f[1] \in Int
    OBVIOUS
  <2> QED
    BY <2>1, <2>2
<1>2. ASSUME NEW k \in T PROVE k + 1 \in T
  <2> SUFFICES ASSUME k + 1 < n
               PROVE  \E i, m \in 1 .. (k + 2) : \A j \in 1 .. (k + 2) : f[i] <= f[j] /\ f[j] <= f[m]
    OBVIOUS
  <2>1. PICK i \in 1 .. (k + 1), m \in 1 .. (k + 1) : \A j \in 1 .. (k + 1) : f[i] <= f[j] /\ f[j] <= f[m]
    OBVIOUS
  <2>2. 1 .. (k + 2) = (1 .. (k + 1)) \cup {k + 2} /\ 1 .. (k + 2) \subseteq 1 .. n
    OBVIOUS
  <2>3. f[i] \in Int /\ f[m] \in Int /\ f[k + 2] \in Int /\ \A j \in 1 .. (k + 1) : f[j] \in Int
    BY <2>2
  <2>4. PICK low \in {i, k + 2} : f[low] <= f[i] /\ f[low] <= f[k + 2]
    BY <2>3
  <2>5. PICK high \in {m, k + 2} : f[m] <= f[high] /\ f[k + 2] <= f[high]
    BY <2>3
  <2>6. low \in 1 .. (k + 2) /\ high \in 1 .. (k + 2)
    BY <2>2
  <2>7. \A j \in 1 .. (k + 2) : f[low] <= f[j] /\ f[j] <= f[high]
    BY <2>1, <2>2, <2>3, <2>4, <2>5, SMTT(30)
  <2> QED
    BY <2>6, <2>7
<1>3. T = Nat
  <2> HIDE DEF T
  <2>1. T \subseteq Nat
    BY DEF T
  <2> QED
    BY <1>1, <1>2, <2>1, EveryNumber
<1> HIDE DEF T
<1>4. n - 1 \in T
  BY <1>3
<1>5. n - 1 < n /\ (n - 1) + 1 = n
  OBVIOUS
<1> QED
  BY <1>4, <1>5 DEF T

\* A sequence that a result is appended to.
LEMMA Extended ==
  ASSUME NEW s, s \in Seq(Range(s)), NEW e
  PROVE  /\ Append(s, e) \in Seq(Range(Append(s, e)))
         /\ Len(s) \in Nat /\ Len(Append(s, e)) = Len(s) + 1
         /\ DOMAIN s = 1 .. Len(s) /\ DOMAIN Append(s, e) = 1 .. (Len(s) + 1)
         /\ \A i \in 1 .. Len(s) : Append(s, e)[i] = s[i]
         /\ Append(s, e)[Len(s) + 1] = e
<1> DEFINE S == Range(s) \cup {e}
           t == Append(s, e)
<1>1. s \in Seq(S)
  BY SeqMonotonic, Range(s) \subseteq S
<1> HIDE DEF S
<1>2. e \in S
  BY DEF S
<1>3. /\ t \in Seq(S) /\ Len(s) \in Nat /\ Len(t) = Len(s) + 1
      /\ DOMAIN s = 1 .. Len(s) /\ DOMAIN t = 1 .. (Len(s) + 1)
      /\ \A i \in 1 .. Len(s) : t[i] = s[i]
      /\ t[Len(s) + 1] = e
  BY <1>1, <1>2
<1> HIDE DEF t
<1>4. t \in [1 .. Len(t) -> S]
  BY <1>3
<1>5. t \in [1 .. Len(t) -> Range(t)]
  BY <1>4 DEF Range
<1>6. t \in Seq(Range(t))
  BY <1>3, <1>5
<1> QED
  BY <1>3, <1>6 DEF t

\* A run that has not measured anything.
LEMMA NoSequence == <<>> \in Seq(Range(<<>>)) /\ Len(<<>>) = 0 /\ DOMAIN <<>> = {}
BY EmptySeq

(***************************************************************************)
(* What holds at every point of a run: the one transaction, what it leaves *)
(* behind when it is rolled back, and the results so far.                  *)
(***************************************************************************)
RunFits ==
  /\ run \in 0 .. MaxRuns /\ pc \in Steps \cup {"idle", "ended", "killed"}
  /\ pc # "idle" => run > 0
  /\ faithful \in BOOLEAN /\ home \in [Questions -> Documents]
  /\ tenant \in BOOLEAN /\ aborted \in BOOLEAN /\ rolledBack \subseteq 1 .. MaxRuns
  /\ error \in {"none", "DatasetError", "EvaluationError", "drop", "other"}
  /\ failUnder \in FailUnders \cup {<<>>} /\ exit \in {-1, 0, 1, 2}

Works == [doc : Documents, status : {"PENDING", "READY", "FAILED"}, marks : SUBSET Questions]
WorkFits ==
  /\ work \subseteq Works
  /\ pc = "run" => \E w \in work : w.status = "PENDING"

StoresFit ==
  /\ rows \subseteq (1 .. MaxRuns) \X Documents /\ files \subseteq (1 .. MaxRuns) \X Documents
  /\ corpus \subseteq (1 .. MaxRuns) \X Documents

\* Only a tenant has rows, and the one a run works in starts without any.
TenantHolds ==
  /\ pc \in Inside => tenant /\ rows = {}
  /\ ~tenant => rows = {}

\* A file has a committed row, or a document of the open transaction, or is what a rolled
\* back transaction left.
FilesNamed ==
  \A f \in files :
    \/ f[1] \in rolledBack
    \/ f \in rows
    \/ pc \in Inside /\ f[1] = run /\ \E w \in work : w.doc = f[2]

ResultsFit ==
  /\ scores \in Seq(Range(scores)) /\ Len(scores) <= InCorpus
  /\ \A i \in DOMAIN scores : scores[i].top \in Int
  /\ outside \in Seq(Range(outside)) /\ Len(outside) <= OutOfCorpus
  /\ \A i \in DOMAIN outside : outside[i] \in Int
  /\ answers \in Seq(Range(answers)) /\ Len(answers) <= InCorpus

\* A run that goes on, or that ends without an error, has the results of the steps behind it.
ResultsWhole ==
  /\ pc \in Inside \cup {"before"} => error = "none"
  /\ pc = "after" => error \notin {"DatasetError", "drop"}
  /\ pc \in {"outside", "judge", "leave"} => Len(scores) = InCorpus
  /\ pc \in {"judge", "leave"} => Len(outside) = OutOfCorpus
  /\ pc = "leave" /\ faithful => Len(answers) = InCorpus
  /\ pc \in {"after", "ended"} /\ error = "none" =>
       Len(scores) = InCorpus /\ Len(outside) = OutOfCorpus /\ (faithful => Len(answers) = InCorpus)

EvaluationInv ==
  RunFits /\ WorkFits /\ StoresFit /\ TenantHolds /\ FilesNamed /\ ResultsFit /\ ResultsWhole

LEMMA Bounds ==
  /\ Documents \in SUBSET Nat /\ Documents # {}
  /\ InCorpus \in Nat /\ OutOfCorpus \in Nat /\ MaxRuns \in Nat /\ MaxRuns > 0
  /\ Similarities \subseteq Int /\ OutSimilarities \subseteq Int
  /\ MarkersIn \subseteq SUBSET Documents
BY EvaluationBounds

LEMMA EvaluationInit == Init => EvaluationInv
<1> SUFFICES ASSUME Init PROVE EvaluationInv
  OBVIOUS
<1>1. Min(Documents) \in Documents
  BY Bounds, FirstOf
<1>2. RunFits
  <2>1. run \in 0 .. MaxRuns /\ rolledBack \subseteq 1 .. MaxRuns
    BY Bounds DEF Init
  <2>2. home \in [Questions -> Documents]
    BY <1>1 DEF Init
  <2> QED
    BY <2>1, <2>2 DEF Init, RunFits
<1>3. WorkFits /\ StoresFit /\ TenantHolds /\ FilesNamed
  BY DEF Init, WorkFits, StoresFit, TenantHolds, FilesNamed, Inside
<1>4. ResultsFit
  BY NoSequence, Bounds DEF Init, ResultsFit
<1>5. ResultsWhole
  BY DEF Init, ResultsWhole, Inside
<1> QED
  BY <1>2, <1>3, <1>4, <1>5 DEF EvaluationInv

\* A run starts without results, whatever the dataset.
LEMMA LoadKeeps == EvaluationInv /\ LoadDataset => EvaluationInv'
<1> SUFFICES ASSUME EvaluationInv, LoadDataset PROVE EvaluationInv'
  OBVIOUS
<1>1. pc \notin Inside /\ pc' \in {"before", "ended"} /\ (pc' = "ended" => error' = "DatasetError")
  BY DEF LoadDataset, Inside
<1>2. home' \in [Questions -> Documents]
  <2>1. PICK dataset \in Datasets :
          (Valid(dataset) /\ home' = [q \in Questions |-> CHOOSE d \in Documents : d \in dataset.markers[q]])
            \/ UNCHANGED home
    BY DEF LoadDataset
  <2>2. CASE UNCHANGED home
    BY <2>2 DEF EvaluationInv, RunFits
  <2>3. CASE Valid(dataset) /\ home' = [q \in Questions |-> CHOOSE d \in Documents : d \in dataset.markers[q]]
    <3>1. ASSUME NEW q \in Questions PROVE \E d \in Documents : d \in dataset.markers[q]
      <4>1. dataset.markers \in [Questions -> MarkersIn]
        BY DEF Datasets
      <4>2. dataset.markers[q] \subseteq Documents /\ Cardinality(dataset.markers[q]) = 1
        BY <2>3, <4>1, Bounds DEF Valid
      <4> QED
        BY <4>2, FS_EmptySet
    <3> QED
      BY <2>3, <3>1
  <2> QED
    BY <2>1, <2>2, <2>3
<1>3. RunFits'
  BY <1>2, Bounds DEF LoadDataset, EvaluationInv, RunFits, Steps, Inside, databaseVars
<1>4. WorkFits' /\ StoresFit' /\ TenantHolds'
  BY <1>1 DEF LoadDataset, NoResults, EvaluationInv, WorkFits, StoresFit, TenantHolds, databaseVars, Inside
<1>5. FilesNamed'
  BY <1>1 DEF LoadDataset, EvaluationInv, FilesNamed, databaseVars
<1>6. ResultsFit'
  BY NoSequence, Bounds DEF LoadDataset, NoResults, ResultsFit
<1>7. ResultsWhole'
  BY <1>1 DEF LoadDataset, ResultsWhole, Inside
<1> QED
  BY <1>3, <1>4, <1>5, <1>6, <1>7 DEF EvaluationInv

\* The tenant is dropped in an order that never leaves a file without a row, and made anew.
LEMMA TenantKeeps ==
  ASSUME EvaluationInv, DropFile \/ DropRows \/ DropTenant \/ CreateTenant
  PROVE  EvaluationInv'
<1> USE DEF EvaluationInv, argumentVars, resultVars
<1>1. RunFits'
  BY ZenonT(60) DEF DropFile, DropRows, DropTenant, CreateTenant, RunFits, Steps, Inside
<1>2. WorkFits'
  BY DEF DropFile, DropRows, DropTenant, CreateTenant, WorkFits
<1>3. StoresFit' /\ TenantHolds'
  BY DEF DropFile, DropRows, DropTenant, CreateTenant, StoresFit, TenantHolds, Inside
<1>4. FilesNamed'
  <2>1. CASE DropFile
    BY <2>1 DEF DropFile, FilesNamed, Inside
  <2>2. CASE DropRows
    BY <2>2 DEF DropRows, FilesNamed, Inside
  <2>3. CASE DropTenant
    BY <2>3 DEF DropTenant, FilesNamed, Inside
  <2>4. CASE CreateTenant
    BY <2>4 DEF CreateTenant, FilesNamed, Inside
  <2> QED
    BY <2>1, <2>2, <2>3, <2>4
<1>5. ResultsFit'
  BY DEF DropFile, DropRows, DropTenant, CreateTenant, ResultsFit
<1>6. ResultsWhole'
  BY DEF DropFile, DropRows, DropTenant, CreateTenant, ResultsWhole, Inside
<1> QED
  BY <1>1, <1>2, <1>3, <1>4, <1>5, <1>6

\* An exception rolls the transaction back, and its files stay.
LEMMA RaiseKeeps ==
  ASSUME EvaluationInv, pc \in Inside, NEW e \in {"EvaluationError", "other"}, Raise(e)
  PROVE  EvaluationInv'
<1> USE DEF EvaluationInv, argumentVars
<1>1. run \in 1 .. MaxRuns
  BY Bounds DEF RunFits, Inside
<1>2. RunFits'
  <2>1. rolledBack' \subseteq 1 .. MaxRuns
    BY <1>1 DEF Raise, RunFits
  <2> QED
    BY <2>1 DEF Raise, RunFits, Steps, Inside
<1>3. WorkFits' /\ StoresFit' /\ TenantHolds'
  BY DEF Raise, NoResults, WorkFits, StoresFit, TenantHolds, Inside
<1>4. FilesNamed'
  BY DEF Raise, FilesNamed
<1>5. ResultsFit'
  BY NoSequence, Bounds DEF Raise, NoResults, ResultsFit
<1>6. ResultsWhole'
  BY DEF Raise, ResultsWhole, Inside
<1> QED
  BY <1>2, <1>3, <1>4, <1>5, <1>6

\* An error that is not caught ends the process before or after its transaction.
LEMMA DiesKeeps ==
  ASSUME EvaluationInv, DropFails \/ CreateFails
  PROVE  EvaluationInv'
<1> USE DEF EvaluationInv, argumentVars, databaseVars
<1>1. /\ pc \in {"before", "after"} /\ pc' = "ended" /\ error' \in {"drop", "other"} /\ exit' = 1
      /\ NoResults /\ UNCHANGED <<argumentVars, databaseVars, failUnder>>
  BY DEF DropFails, CreateFails, Dies
<1>2. RunFits'
  BY <1>1 DEF RunFits
<1>3. WorkFits' /\ StoresFit' /\ TenantHolds'
  BY <1>1 DEF NoResults, WorkFits, StoresFit, TenantHolds, Inside
<1>4. FilesNamed'
  BY <1>1 DEF FilesNamed, Inside
<1>5. ResultsFit'
  BY <1>1, NoSequence, Bounds DEF NoResults, ResultsFit
<1>6. ResultsWhole'
  BY <1>1 DEF ResultsWhole, Inside
<1> QED
  BY <1>2, <1>3, <1>4, <1>5, <1>6

LEMMA FailKeeps == EvaluationInv /\ Fail => EvaluationInv'
BY RaiseKeeps DEF Fail

\* The documents are stored and ingested one by one; a document keeps its name.
LEMMA SaveKeeps == EvaluationInv /\ SaveDocument => EvaluationInv'
<1> SUFFICES ASSUME EvaluationInv, SaveDocument PROVE EvaluationInv'
  OBVIOUS
<1> USE DEF EvaluationInv, argumentVars, resultVars
<1> DEFINE d == Min(Unsaved)
           w == [doc |-> d, status |-> "PENDING", marks |-> {}]
<1>1. d \in Documents
  <2>1. Unsaved \in SUBSET Nat /\ Unsaved # {} /\ Unsaved \subseteq Documents
    BY Bounds DEF SaveDocument, Unsaved
  <2> QED
    BY <2>1, FirstOf
<1>2. /\ pc = "ingest" /\ pc' = "run" /\ work' = work \cup {w} /\ files' = files \cup {<<run, d>>}
      /\ UNCHANGED <<argumentVars, tenant, rows, aborted, rolledBack, resultVars, error, failUnder, exit>>
  BY DEF SaveDocument
<1>3. run \in 1 .. MaxRuns
  BY <1>2, Bounds DEF RunFits
<1> HIDE DEF d
<1>4. RunFits'
  BY <1>2 DEF RunFits, Steps, Inside
<1>5. WorkFits'
  <2>1. w \in Works /\ w.status = "PENDING"
    BY <1>1 DEF Works
  <2> HIDE DEF w
  <2> QED
    BY <1>2, <2>1 DEF WorkFits
<1>6. StoresFit' /\ TenantHolds'
  BY <1>1, <1>2, <1>3 DEF StoresFit, TenantHolds, Inside
<1>7. FilesNamed'
  <2>1. w.doc = d
    OBVIOUS
  <2> HIDE DEF w
  <2> SUFFICES ASSUME NEW f \in files'
               PROVE  f[1] \in rolledBack \/ f \in rows \/ (f[1] = run /\ \E v \in work' : v.doc = f[2])
    BY <1>2 DEF FilesNamed, Inside
  <2>2. CASE f = <<run, d>>
    BY <1>2, <2>1, <2>2
  <2>3. CASE f \in files
    BY <1>2, <2>3 DEF FilesNamed
  <2> QED
    BY <1>2, <2>2, <2>3
<1>8. ResultsFit' /\ ResultsWhole'
  BY <1>2 DEF ResultsFit, ResultsWhole, Inside
<1> QED
  BY <1>4, <1>5, <1>6, <1>7, <1>8

LEMMA IngestKeeps == EvaluationInv /\ IngestDocument => EvaluationInv'
<1> SUFFICES ASSUME EvaluationInv, IngestDocument PROVE EvaluationInv'
  OBVIOUS
<1> DEFINE w == CHOOSE x \in work : x.status = "PENDING"
<1>1. pc = "run" /\ w \in work /\ w \in Works
  BY DEF IngestDocument, EvaluationInv, WorkFits
<1>2. pc' = "ingest" /\ UNCHANGED <<argumentVars, tenant, rows, files, aborted, rolledBack, resultVars, error, failUnder, exit>>
  BY DEF IngestDocument
<1>3. PICK marks \in SUBSET Questions, status \in {"READY", "FAILED"} :
        work' = (work \ {w}) \cup {[w EXCEPT !.status = status, !.marks = marks]}
  BY DEF IngestDocument
<1> HIDE DEF w
<1>4. PICK v : v \in Works /\ v.doc = w.doc /\ work' = (work \ {w}) \cup {v}
  <2>1. [w EXCEPT !.status = status, !.marks = marks] \in Works
        /\ [w EXCEPT !.status = status, !.marks = marks].doc = w.doc
    BY <1>1 DEF Works
  <2> QED
    BY <1>3, <2>1
<1> USE DEF EvaluationInv, argumentVars, resultVars
<1>5. RunFits' /\ WorkFits'
  BY <1>1, <1>2, <1>4 DEF RunFits, WorkFits, Steps, Inside
<1>6. StoresFit' /\ TenantHolds'
  BY <1>1, <1>2 DEF StoresFit, TenantHolds, Inside
<1>7. FilesNamed'
  <2> SUFFICES ASSUME NEW f \in files
               PROVE  f[1] \in rolledBack \/ f \in rows \/ (f[1] = run /\ \E x \in work' : x.doc = f[2])
    BY <1>2 DEF FilesNamed, Inside
  <2> QED
    BY <1>1, <1>4 DEF FilesNamed
<1>8. ResultsFit' /\ ResultsWhole'
  BY <1>1, <1>2 DEF ResultsFit, ResultsWhole, Inside
<1> QED
  BY <1>5, <1>6, <1>7, <1>8

LEMMA CheckKeeps == EvaluationInv /\ CheckIngested => EvaluationInv'
<1> SUFFICES ASSUME EvaluationInv, CheckIngested PROVE EvaluationInv'
  OBVIOUS
<1>1. pc = "ingest" /\ run \in 1 .. MaxRuns
  BY Bounds DEF CheckIngested, EvaluationInv, RunFits
<1>2. CASE Raise("EvaluationError")
  BY <1>1, <1>2, RaiseKeeps DEF Inside
<1>3. CASE /\ corpus' = rows \cup {<<run, w.doc>> : w \in work}
           /\ pc' = IF InCorpus = 0 THEN "outside" ELSE "score"
           /\ UNCHANGED <<argumentVars, databaseVars, scores, outside, answers, error, failUnder, exit>>
  <2> USE DEF EvaluationInv, argumentVars, databaseVars
  <2>1. RunFits' /\ WorkFits' /\ TenantHolds'
    BY <1>1, <1>3 DEF RunFits, WorkFits, TenantHolds, Inside, Steps
  <2>2. StoresFit'
    BY <1>1, <1>3 DEF StoresFit, WorkFits, Works
  <2>3. FilesNamed'
    BY <1>1, <1>3 DEF FilesNamed, Inside
  <2>4. ResultsFit' /\ ResultsWhole'
    BY <1>1, <1>3 DEF ResultsFit, ResultsWhole, Inside
  <2> QED
    BY <2>1, <2>2, <2>3, <2>4
<1> QED
  BY <1>2, <1>3 DEF CheckIngested

\* What leaves the run, the transaction and the stores as they are, and stays inside.
LEMMA MeasuringKeeps ==
  ASSUME EvaluationInv, pc \in Inside \ {"run"}, pc' \in Inside \ {"run"},
         UNCHANGED <<argumentVars, tenant, rows, files, work, rolledBack, corpus, error, failUnder, exit>>,
         aborted' \in BOOLEAN
  PROVE  RunFits' /\ WorkFits' /\ StoresFit' /\ TenantHolds' /\ FilesNamed'
<1> USE DEF EvaluationInv, argumentVars
<1>1. RunFits'
  BY DEF RunFits, Inside, Steps
<1>2. WorkFits' /\ StoresFit' /\ TenantHolds'
  BY DEF WorkFits, StoresFit, TenantHolds
<1>3. FilesNamed'
  BY DEF FilesNamed
<1> QED
  BY <1>1, <1>2, <1>3

LEMMA ScoreKeeps == EvaluationInv /\ Score => EvaluationInv'
<1> SUFFICES ASSUME EvaluationInv, Score PROVE EvaluationInv'
  OBVIOUS
<1>1. pc = "score" /\ Len(scores) < InCorpus
  BY DEF Score
<1>2. CASE Raise("EvaluationError")
  BY <1>1, <1>2, RaiseKeeps DEF Inside
<1>3. CASE ~Raise("EvaluationError")
  <2>1. PICK result : /\ scores' = Append(scores, result) /\ result.top \in Similarities
                      /\ pc' = IF Len(scores) + 1 = InCorpus THEN "outside" ELSE pc
                      /\ UNCHANGED <<argumentVars, databaseVars, corpus, outside, answers, error, failUnder, exit>>
    BY <1>3 DEF Score
  <2> USE DEF EvaluationInv, argumentVars, databaseVars
  <2>2. aborted' \in BOOLEAN
    BY <2>1 DEF RunFits
  <2>3. RunFits' /\ WorkFits' /\ StoresFit' /\ TenantHolds' /\ FilesNamed'
    BY <1>1, <2>1, <2>2, MeasuringKeeps DEF Inside
  <2>4. /\ scores' \in Seq(Range(scores')) /\ Len(scores') = Len(scores) + 1 /\ Len(scores) \in Nat
        /\ \A i \in DOMAIN scores' : scores'[i].top \in Int
    <3>1. scores \in Seq(Range(scores)) /\ \A i \in DOMAIN scores : scores[i].top \in Int
      BY DEF ResultsFit
    <3>2. result.top \in Int
      BY <2>1, Bounds
    <3> QED
      BY <2>1, <3>1, <3>2, Extended
  <2>5. ResultsFit'
    BY <1>1, <2>1, <2>4, Bounds DEF ResultsFit
  <2>6. ResultsWhole'
    BY <1>1, <2>1, <2>4 DEF ResultsWhole, Inside
  <2> QED
    BY <2>3, <2>5, <2>6
<1> QED
  BY <1>2, <1>3

LEMMA OutsideKeeps == EvaluationInv /\ ScoreOutside => EvaluationInv'
<1> SUFFICES ASSUME EvaluationInv, ScoreOutside PROVE EvaluationInv'
  OBVIOUS
<1>1. pc = "outside" /\ Len(outside) < OutOfCorpus
  BY DEF ScoreOutside
<1>2. UNCHANGED <<pc, argumentVars, databaseVars, corpus, scores, answers, error, failUnder, exit>>
  BY DEF ScoreOutside
<1>3. PICK top \in OutSimilarities : outside' = Append(outside, top)
  BY DEF ScoreOutside
<1> USE DEF EvaluationInv, argumentVars, databaseVars
<1>4. aborted' \in BOOLEAN
  BY <1>2 DEF RunFits
<1>5. RunFits' /\ WorkFits' /\ StoresFit' /\ TenantHolds' /\ FilesNamed'
  BY <1>1, <1>2, <1>4, MeasuringKeeps DEF Inside
<1>6. /\ outside' \in Seq(Range(outside')) /\ Len(outside') = Len(outside) + 1 /\ Len(outside) \in Nat
      /\ \A i \in DOMAIN outside' : outside'[i] \in Int
  <2>1. outside \in Seq(Range(outside)) /\ \A i \in DOMAIN outside : outside[i] \in Int
    BY DEF ResultsFit
  <2>2. top \in Int
    BY Bounds
  <2> QED
    BY <1>3, <2>1, <2>2, Extended
<1>7. ResultsFit'
  <2>1. Len(outside') <= OutOfCorpus
    BY <1>1, <1>6, Bounds
  <2>2. UNCHANGED <<scores, answers>>
    BY <1>2
  <2> QED
    BY <1>6, <2>1, <2>2 DEF ResultsFit
<1>8. ResultsWhole'
  BY <1>1, <1>2 DEF ResultsWhole, Inside
<1> QED
  BY <1>5, <1>7, <1>8

\* A judge's answer, whatever it is, is recorded once for its question.
LEMMA AnsweredKeeps ==
  ASSUME EvaluationInv, Judging, NEW answer, Answered(answer), aborted' \in BOOLEAN
  PROVE  EvaluationInv'
<1> USE DEF EvaluationInv, argumentVars
<1>1. /\ pc = "judge" /\ Len(answers) < InCorpus /\ answers' = Append(answers, answer)
      /\ UNCHANGED <<pc, argumentVars, tenant, rows, files, work, rolledBack, corpus, scores, outside, error, failUnder, exit>>
  BY DEF Judging, Answered
<1>2. RunFits' /\ WorkFits' /\ StoresFit' /\ TenantHolds' /\ FilesNamed'
  BY <1>1, MeasuringKeeps DEF Inside
<1>3. answers' \in Seq(Range(answers')) /\ Len(answers') = Len(answers) + 1 /\ Len(answers) \in Nat
  BY <1>1, Extended DEF ResultsFit
<1>4. ResultsFit'
  BY <1>1, <1>3, Bounds DEF ResultsFit
<1>5. ResultsWhole'
  BY <1>1 DEF ResultsWhole, Inside
<1> QED
  BY <1>2, <1>4, <1>5

LEMMA JudgeKeeps ==
  ASSUME EvaluationInv, ScoredAll \/ JudgeFails \/ JudgeRefusal \/ JudgeAnswer \/ JudgedAll
  PROVE  EvaluationInv'
<1>1. aborted \in BOOLEAN
  BY DEF EvaluationInv, RunFits
<1>2. CASE JudgeFails
  BY <1>1, <1>2, AnsweredKeeps DEF JudgeFails
<1>3. CASE JudgeRefusal
  BY <1>1, <1>3, AnsweredKeeps DEF JudgeRefusal
<1>4. CASE JudgeAnswer
  <2>1. Judging /\ UNCHANGED aborted /\ \E answer : Answered(answer)
    BY <1>4 DEF JudgeAnswer
  <2> QED
    BY <1>1, <2>1, AnsweredKeeps
<1>5. CASE ScoredAll \/ JudgedAll
  <2>1. /\ pc \in {"outside", "judge"} /\ pc' \in {"judge", "leave"}
        /\ pc = "outside" => Len(outside) = OutOfCorpus /\ (pc' = "leave" => ~faithful)
        /\ pc = "judge" => Len(answers) = InCorpus
        /\ UNCHANGED <<argumentVars, databaseVars, resultVars, error, failUnder, exit>>
    BY <1>5 DEF ScoredAll, JudgedAll
  <2> USE DEF EvaluationInv, argumentVars, databaseVars, resultVars
  <2>2. aborted' \in BOOLEAN
    BY <1>1, <2>1
  <2>3. RunFits' /\ WorkFits' /\ StoresFit' /\ TenantHolds' /\ FilesNamed'
    BY <2>1, <2>2, MeasuringKeeps DEF Inside
  <2>4. ResultsFit' /\ ResultsWhole'
    BY <2>1 DEF ResultsFit, ResultsWhole, Inside
  <2> QED
    BY <2>3, <2>4
<1> QED
  BY <1>2, <1>3, <1>4, <1>5

\* The transaction ends: it commits, unless a swallowed error has aborted it.
LEMMA LeaveKeeps == EvaluationInv /\ Leave => EvaluationInv'
<1> SUFFICES ASSUME EvaluationInv, Leave PROVE EvaluationInv'
  OBVIOUS
<1> USE DEF EvaluationInv, argumentVars, resultVars
<1>1. pc = "leave" /\ pc' = "after" /\ run \in 1 .. MaxRuns
  BY Bounds DEF Leave, RunFits
<1>2. RunFits'
  <2>1. rolledBack' \subseteq 1 .. MaxRuns
    BY <1>1 DEF Leave, RunFits
  <2> QED
    BY <1>1, <2>1 DEF Leave, RunFits, Steps, Inside
<1>3. WorkFits' /\ TenantHolds'
  BY <1>1 DEF Leave, WorkFits, TenantHolds, Inside
<1>4. StoresFit'
  BY <1>1 DEF Leave, StoresFit, WorkFits, Works
<1>5. FilesNamed'
  <2> SUFFICES ASSUME NEW f \in files PROVE f[1] \in rolledBack' \/ f \in rows'
    BY DEF Leave, FilesNamed
  <2>1. f = <<f[1], f[2]>>
    BY DEF StoresFit
  <2>2. CASE f[1] \in rolledBack \/ f \in rows
    BY <2>2 DEF Leave
  <2>3. CASE f[1] = run /\ \E w \in work : w.doc = f[2]
    <3>1. f \in {<<run, w.doc>> : w \in work}
      BY <2>1, <2>3
    <3> QED
      BY <2>3, <3>1 DEF Leave
  <2> QED
    BY <2>2, <2>3 DEF FilesNamed
<1>6. ResultsFit' /\ ResultsWhole'
  BY <1>1 DEF Leave, ResultsFit, ResultsWhole, Inside
<1> QED
  BY <1>2, <1>3, <1>4, <1>5, <1>6

\* The process ends, by itself or not.
LEMMA EndKeeps ==
  ASSUME EvaluationInv, Exit \/ Kill
  PROVE  EvaluationInv'
<1> USE DEF EvaluationInv, argumentVars, databaseVars, resultVars
<1>1. CASE Exit
  <2>1. RunFits'
    BY <1>1 DEF Exit, RunFits
  <2>2. WorkFits' /\ StoresFit' /\ TenantHolds'
    BY <1>1 DEF Exit, WorkFits, StoresFit, TenantHolds, Inside
  <2>3. FilesNamed'
    BY <1>1 DEF Exit, FilesNamed, Inside
  <2>4. ResultsFit' /\ ResultsWhole'
    BY <1>1 DEF Exit, ResultsFit, ResultsWhole, Inside
  <2> QED
    BY <2>1, <2>2, <2>3, <2>4
<1>2. CASE Kill
  <2>1. pc \in Steps /\ pc' = "killed" /\ run \in 1 .. MaxRuns /\ (pc \notin {"before", "after"} => pc \in Inside)
    BY <1>2, Bounds DEF Kill, RunFits, Steps, Inside
  <2>2. RunFits'
    <3>1. rolledBack' \subseteq 1 .. MaxRuns
      BY <1>2, <2>1 DEF Kill, RunFits
    <3>2. UNCHANGED <<run, faithful, home, tenant, error, failUnder, exit>> /\ aborted' = FALSE
      BY <1>2 DEF Kill
    <3>3. RunFits
      OBVIOUS
    <3>4. run' \in 0 .. MaxRuns /\ run' > 0
      BY <2>1, <3>2, Bounds
    <3> QED
      BY <2>1, <3>1, <3>2, <3>3, <3>4 DEF RunFits
  <2>3. WorkFits' /\ StoresFit' /\ TenantHolds'
    BY <1>2, <2>1 DEF Kill, NoResults, WorkFits, StoresFit, TenantHolds, Inside
  <2>4. FilesNamed'
    <3>1. CASE pc \in {"before", "after"}
      BY <1>2, <3>1 DEF Kill, FilesNamed, Inside
    <3>2. CASE pc \notin {"before", "after"}
      BY <1>2, <3>2 DEF Kill, FilesNamed
    <3> QED
      BY <3>1, <3>2
  <2>5. ResultsFit'
    BY <1>2, NoSequence, Bounds DEF Kill, NoResults, ResultsFit
  <2>6. ResultsWhole'
    BY <2>1 DEF ResultsWhole, Inside
  <2> QED
    BY <2>2, <2>3, <2>4, <2>5, <2>6
<1> QED
  BY <1>1, <1>2

LEMMA EvaluationStep == EvaluationInv /\ [Next]_vars => EvaluationInv'
<1> SUFFICES ASSUME EvaluationInv, [Next]_vars PROVE EvaluationInv'
  OBVIOUS
<1>1. CASE UNCHANGED vars
  BY <1>1 DEF vars, argumentVars, databaseVars, resultVars, EvaluationInv, RunFits, WorkFits,
              StoresFit, TenantHolds, FilesNamed, ResultsFit, ResultsWhole
<1> QED
  BY <1>1, LoadKeeps, TenantKeeps, SaveKeeps, IngestKeeps, CheckKeeps, ScoreKeeps, OutsideKeeps,
     JudgeKeeps, LeaveKeeps, EndKeeps, DiesKeeps, FailKeeps DEF Next

LEMMA EvaluationInvariant == Spec => []EvaluationInv
BY EvaluationInit, EvaluationStep, PTL DEF Spec

(***************************************************************************)
(* Every variable keeps its type: a run never records more results than it *)
(* has questions, and what it stores names runs and documents there are.   *)
(***************************************************************************)
THEOREM EvaluationTypeCorrect == Spec => []TypeOK
<1>1. EvaluationInv => TypeOK
  BY DEF EvaluationInv, RunFits, WorkFits, Works, StoresFit, ResultsFit, TypeOK
<1> QED
  BY <1>1, EvaluationInvariant, PTL

(***************************************************************************)
(* What a run leaves, after any number of runs killed, failed or rolled    *)
(* back before it: nothing but files of rolled back transactions when its  *)
(* clean-up got through; when it was killed, or the clean-up itself        *)
(* failed, no other file that the rows of the tenant do not name.          *)
(***************************************************************************)
THEOREM RunsCleanUp == Spec => []NothingLeftBehind
<1> DEFINE Ended == pc = "ended" /\ error \notin {"DatasetError", "drop"} => ~tenant
<1>1. Init => Ended
  BY DEF Init
<1>2. Ended /\ [Next]_vars => Ended'
  <2> SUFFICES ASSUME Ended, [Next]_vars, pc' = "ended" /\ error' \notin {"DatasetError", "drop"}
               PROVE  ~tenant'
    OBVIOUS
  <2>1. CASE UNCHANGED vars
    BY <2>1 DEF vars, databaseVars
  <2>2. CASE LoadDataset
    BY <2>2 DEF LoadDataset
  <2>3. CASE DropFile \/ DropRows \/ DropTenant \/ CreateTenant
    BY <2>3 DEF DropFile, DropRows, DropTenant, CreateTenant
  <2>4. CASE SaveDocument \/ IngestDocument \/ CheckIngested
    BY <2>4 DEF SaveDocument, IngestDocument, CheckIngested, Raise
  <2>5. CASE Score \/ ScoreOutside \/ ScoredAll
    BY <2>5 DEF Score, ScoreOutside, ScoredAll, Raise
  <2>6. CASE JudgeFails \/ JudgeRefusal \/ JudgeAnswer \/ JudgedAll
    BY <2>6 DEF JudgeFails, JudgeRefusal, JudgeAnswer, JudgedAll, Answered, Judging
  <2>7. CASE Leave \/ Exit \/ Kill
    BY <2>7 DEF Leave, Exit, Kill, databaseVars
  <2>8. CASE Fail \/ DropFails \/ CreateFails
    BY <2>8 DEF Fail, Raise, DropFails, CreateFails, Dies, databaseVars
  <2> QED
    BY <2>1, <2>2, <2>3, <2>4, <2>5, <2>6, <2>7, <2>8 DEF Next
<1>3. EvaluationInv /\ Ended => NothingLeftBehind
  <2> SUFFICES ASSUME EvaluationInv, Ended PROVE NothingLeftBehind
    OBVIOUS
  <2>1. pc = "ended" /\ error \notin {"DatasetError", "drop"} => ~tenant /\ rows = {}
    BY DEF EvaluationInv, TenantHolds
  <2>2. pc \in {"ended", "killed"} => \A f \in files : f[1] \in rolledBack \/ (tenant /\ f \in rows)
    BY DEF EvaluationInv, RunFits, TenantHolds, FilesNamed, Inside
  <2> QED
    BY <2>1, <2>2 DEF NothingLeftBehind
<1> QED
  BY <1>1, <1>2, <1>3, EvaluationInvariant, PTL DEF Spec

\* The gap lies between the worst similarity inside the corpus and the best outside it.
LEMMA GapIsBetween ==
  ASSUME NEW inside, inside \in Seq(Range(inside)), \A i \in DOMAIN inside : inside[i].top \in Int,
         NEW others, others \in Seq(Range(others)), \A j \in DOMAIN others : others[j] \in Int,
         NEW i \in DOMAIN inside, NEW j \in DOMAIN others
  PROVE  /\ Separation(inside, others) = <<WorstInCorpus(inside) - BestOutOfCorpus(others)>>
         /\ WorstInCorpus(inside) \in Int /\ WorstInCorpus(inside) <= inside[i].top
         /\ WorstInCorpus(inside) \in {inside[k].top : k \in DOMAIN inside}
         /\ BestOutOfCorpus(others) \in Int /\ others[j] <= BestOutOfCorpus(others)
         /\ BestOutOfCorpus(others) \in Range(others)
<1>1. /\ Len(inside) \in Nat \ {0} /\ DOMAIN inside = 1 .. Len(inside)
      /\ Len(others) \in Nat \ {0} /\ DOMAIN others = 1 .. Len(others)
  OBVIOUS
<1>2. inside # <<>> /\ others # <<>>
  BY <1>1, NoSequence
<1>3. /\ WorstInCorpus(inside) \in Int /\ WorstInCorpus(inside) <= inside[i].top
      /\ WorstInCorpus(inside) \in {inside[k].top : k \in DOMAIN inside}
  <2> DEFINE tops == {inside[k].top : k \in DOMAIN inside}
             f == [k \in 1 .. Len(inside) |-> inside[k].top]
  <2>1. f \in [1 .. Len(inside) -> Int]
    BY <1>1
  <2>2. PICK k \in 1 .. Len(inside) : \A m \in 1 .. Len(inside) : f[k] <= f[m]
    BY <1>1, <2>1, Extremes
  <2>3. \A x \in tops : inside[k].top <= x
    BY <1>1, <2>2
  <2>4. inside[k].top \in tops /\ inside[i].top \in tops /\ tops \subseteq Int
    BY <1>1
  <2> HIDE DEF tops
  <2>5. Min(tops) \in tops /\ \A x \in tops : Min(tops) <= x
    BY <2>3, <2>4 DEF Min
  <2> QED
    BY <2>4, <2>5 DEF WorstInCorpus, tops
<1>4. /\ BestOutOfCorpus(others) \in Int /\ others[j] <= BestOutOfCorpus(others)
      /\ BestOutOfCorpus(others) \in Range(others)
  <2> DEFINE f == [k \in 1 .. Len(others) |-> others[k]]
  <2>1. f \in [1 .. Len(others) -> Int]
    BY <1>1
  <2>2. PICK k \in 1 .. Len(others) : \A m \in 1 .. Len(others) : f[m] <= f[k]
    BY <1>1, <2>1, Extremes
  <2>3. \A x \in Range(others) : others[k] >= x
    BY <1>1, <2>1, <2>2 DEF Range
  <2>4. others[k] \in Range(others) /\ others[j] \in Range(others) /\ Range(others) \subseteq Int
    BY <1>1 DEF Range
  <2>5. Max(Range(others)) \in Range(others) /\ \A x \in Range(others) : Max(Range(others)) >= x
    BY <2>3, <2>4 DEF Max
  <2> QED
    BY <2>4, <2>5 DEF BestOutOfCorpus
<1> QED
  BY <1>2, <1>3, <1>4 DEF Separation

\* A run without a reason to fail separates the questions and reaches the required score.
LEMMA NoReasonToFail ==
  ASSUME ResultsFit, Failures(scores, outside, failUnder) = {}
  PROVE  /\ \A i \in DOMAIN scores, j \in DOMAIN outside : scores[i].top > outside[j]
         /\ failUnder # <<>> => ~Less(Means(scores, {1}).hit[1], failUnder)
<1>1. "hit@1" \notin Failures(scores, outside, failUnder) /\ "gap" \notin Failures(scores, outside, failUnder)
  OBVIOUS
<1>2. failUnder # <<>> => ~Less(Means(scores, {1}).hit[1], failUnder)
  BY <1>1, Zenon DEF Failures
<1>3. ~(Separation(scores, outside) # <<>> /\ Separation(scores, outside)[1] <= 0)
  BY <1>1, Zenon DEF Failures
<1>4. ASSUME NEW i \in DOMAIN scores, NEW j \in DOMAIN outside PROVE scores[i].top > outside[j]
  <2>1. /\ Separation(scores, outside) = <<WorstInCorpus(scores) - BestOutOfCorpus(outside)>>
        /\ WorstInCorpus(scores) \in Int /\ WorstInCorpus(scores) <= scores[i].top
        /\ BestOutOfCorpus(outside) \in Int /\ outside[j] <= BestOutOfCorpus(outside)
    BY GapIsBetween DEF ResultsFit
  <2>2. scores[i].top \in Int /\ outside[j] \in Int
    BY DEF ResultsFit
  <2>3. WorstInCorpus(scores) - BestOutOfCorpus(outside) > 0
    BY <1>3, <2>1
  <2> QED
    BY <2>1, <2>2, <2>3
<1> QED
  BY <1>2, <1>4

(***************************************************************************)
(* What the exit status tells, for every number of questions, every score  *)
(* required and every way the run went: 0 is a whole measurement whose     *)
(* nearest passages some floor separates, 2 a run that says why it         *)
(* measured nothing.                                                       *)
(***************************************************************************)
THEOREM StatusTellsOutcome == Spec => []ExitTellsOutcome
<1> DEFINE Told == pc = "ended" =>
             /\ exit = 2 <=> error \in {"DatasetError", "EvaluationError"}
             /\ exit = 0 => error = "none" /\ Failures(scores, outside, failUnder) = {}
<1>1. Init => Told
  BY DEF Init
<1>2. EvaluationInv /\ Told /\ [Next]_vars => Told'
  <2> SUFFICES ASSUME EvaluationInv, Told, [Next]_vars, pc' = "ended" PROVE Told'
    OBVIOUS
  <2>1. CASE UNCHANGED vars
    BY <2>1 DEF vars, databaseVars, resultVars
  <2>2. CASE LoadDataset
    BY <2>2 DEF LoadDataset
  <2>3. CASE Exit
    <3>1. error \notin {"DatasetError", "drop"}
      BY <2>3 DEF Exit, EvaluationInv, ResultsWhole
    <3>2. /\ UNCHANGED <<scores, outside, error>>
          /\ exit' = CASE error = "EvaluationError" -> 2
                       [] error = "other" -> 1
                       [] OTHER -> IF Failures(scores, outside, failUnder') = {} THEN 0 ELSE 1
      BY <2>3 DEF Exit, resultVars
    <3>3. error \in {"none", "EvaluationError", "other"}
      BY <3>1 DEF EvaluationInv, RunFits
    <3> QED
      BY <3>2, <3>3
  <2>4. ~(DropFile \/ DropRows \/ DropTenant \/ CreateTenant)
    BY DEF DropFile, DropRows, DropTenant, CreateTenant
  <2>5. ~(SaveDocument \/ IngestDocument \/ CheckIngested)
    BY DEF SaveDocument, IngestDocument, CheckIngested, Raise
  <2>6. ~(Score \/ ScoreOutside \/ ScoredAll)
    BY DEF Score, ScoreOutside, ScoredAll, Raise
  <2>7. ~(JudgeFails \/ JudgeRefusal \/ JudgeAnswer \/ JudgedAll)
    BY DEF JudgeFails, JudgeRefusal, JudgeAnswer, JudgedAll, Answered, Judging
  <2>8. ~(Leave \/ Kill \/ Fail)
    BY DEF Leave, Kill, Fail, Raise
  <2>9. CASE DropFails \/ CreateFails
    BY <2>9 DEF DropFails, CreateFails, Dies
  <2> QED
    BY <2>1, <2>2, <2>3, <2>4, <2>5, <2>6, <2>7, <2>8, <2>9 DEF Next
<1>3. EvaluationInv /\ Told => ExitTellsOutcome
  <2> SUFFICES ASSUME EvaluationInv, Told, pc = "ended" PROVE ExitTellsOutcome
    BY DEF ExitTellsOutcome
  <2>1. error = "none" => Len(scores) = InCorpus /\ Len(outside) = OutOfCorpus /\ (faithful => Len(answers) = InCorpus)
    BY DEF EvaluationInv, ResultsWhole
  <2>2. exit = 0 => /\ \A i \in DOMAIN scores, j \in DOMAIN outside : scores[i].top > outside[j]
                    /\ failUnder # <<>> => ~Less(Means(scores, {1}).hit[1], failUnder)
    BY NoReasonToFail DEF EvaluationInv
  <2> QED
    BY <2>1, <2>2 DEF ExitTellsOutcome
<1> QED
  BY <1>1, <1>2, <1>3, EvaluationInvariant, PTL DEF Spec

(***************************************************************************)
(* What a report rests on: the corpus of this run and no other, every      *)
(* question scored against it, and every answer with the judge's verdicts. *)
(***************************************************************************)
Measuring == {"score", "outside", "judge", "leave"}

WorkWhole ==
  /\ IsFiniteSet(work) /\ \A v, w \in work : v.doc = w.doc => v = w
  /\ pc \in Measuring => Documents = {w.doc : w \in work}

CorpusWhole ==
  pc \in Measuring \/ (pc = "after" /\ error = "none") => corpus = {<<run, d>> : d \in Documents}

ScoresFit == \A i \in DOMAIN scores : ScoreFits(scores[i], K, K >= Cardinality(Documents))

AnswersFit == \A i \in DOMAIN answers : AnswerFits(answers[i])

ReportInv == WorkWhole /\ CorpusWhole /\ ScoresFit /\ AnswersFit

LEMMA ReportInit == Init => ReportInv
<1> SUFFICES ASSUME Init PROVE ReportInv
  OBVIOUS
<1>1. WorkWhole
  BY FS_EmptySet DEF Init, WorkWhole, Measuring
<1>2. CorpusWhole
  BY DEF Init, CorpusWhole, Measuring
<1>3. ScoresFit /\ AnswersFit
  <2>1. DOMAIN scores = {} /\ DOMAIN answers = {}
    BY NoSequence DEF Init
  <2> QED
    BY <2>1 DEF ScoresFit, AnswersFit
<1> QED
  BY <1>1, <1>2, <1>3 DEF ReportInv

\* A run that measures nothing, or nothing any more.
LEMMA NothingMeasured ==
  ASSUME ReportInv, NoResults, work' \in {work, {}},
         pc' \notin Measuring, pc' = "after" => error' # "none"
  PROVE  ReportInv'
<1>1. WorkWhole'
  <2>1. IsFiniteSet(work') /\ \A v, w \in work' : v.doc = w.doc => v = w
    BY FS_EmptySet DEF ReportInv, WorkWhole
  <2> QED
    BY <2>1 DEF WorkWhole
<1>2. CorpusWhole'
  BY DEF CorpusWhole
<1>3. ScoresFit' /\ AnswersFit'
  <2>1. DOMAIN scores' = {} /\ DOMAIN answers' = {}
    BY NoSequence DEF NoResults
  <2> QED
    BY <2>1 DEF ScoresFit, AnswersFit
<1> QED
  BY <1>1, <1>2, <1>3 DEF ReportInv

\* What touches neither the results nor the documents of the transaction.
LEMMA ResultsKept ==
  ASSUME ReportInv, UNCHANGED <<run, corpus, scores, answers>>, work' \in {work, {}},
         pc' \in Measuring => pc \in Measuring /\ work' = work,
         pc' = "after" /\ error' = "none" => pc \in Measuring \/ (pc = "after" /\ error = "none")
  PROVE  ReportInv'
<1>1. WorkWhole'
  <2>1. IsFiniteSet(work') /\ \A v, w \in work' : v.doc = w.doc => v = w
    BY FS_EmptySet DEF ReportInv, WorkWhole
  <2>2. pc' \in Measuring => Documents = {w.doc : w \in work'}
    BY DEF ReportInv, WorkWhole
  <2> QED
    BY <2>1, <2>2 DEF WorkWhole
<1>2. CorpusWhole'
  BY DEF ReportInv, CorpusWhole
<1>3. ScoresFit' /\ AnswersFit'
  BY DEF ReportInv, ScoresFit, AnswersFit
<1> QED
  BY <1>1, <1>2, <1>3 DEF ReportInv

LEMMA ReportRaise ==
  ASSUME ReportInv, NEW e, e # "none", Raise(e)
  PROVE  ReportInv'
<1>1. NoResults /\ work' = {} /\ pc' = "after" /\ error' # "none"
  BY DEF Raise
<1> QED
  BY <1>1, NothingMeasured DEF Measuring

LEMMA ReportSave == EvaluationInv /\ ReportInv /\ SaveDocument => ReportInv'
<1> SUFFICES ASSUME EvaluationInv, ReportInv, SaveDocument PROVE ReportInv'
  OBVIOUS
<1> DEFINE d == Min(Unsaved)
           w == [doc |-> d, status |-> "PENDING", marks |-> {}]
<1>1. d \in Unsaved
  <2>1. Unsaved \in SUBSET Nat /\ Unsaved # {}
    BY Bounds DEF SaveDocument, Unsaved
  <2> QED
    BY <2>1, FirstOf
<1>2. work' = work \cup {w} /\ pc' = "run" /\ UNCHANGED <<scores, answers>>
  BY DEF SaveDocument, resultVars
<1>3. w.doc = d
  OBVIOUS
<1> HIDE DEF d, w
<1>4. \A v \in work : v.doc # w.doc
  BY <1>1, <1>3 DEF Unsaved
<1>5. IsFiniteSet(work) /\ \A u, v \in work : u.doc = v.doc => u = v
  BY DEF ReportInv, WorkWhole
<1>6. IsFiniteSet(work') /\ \A u, v \in work' : u.doc = v.doc => u = v
  <2>1. IsFiniteSet(work')
    BY <1>2, <1>5, FS_AddElement
  <2> QED
    BY <1>2, <1>4, <1>5, <2>1
<1>7. WorkWhole' /\ CorpusWhole'
  BY <1>2, <1>6 DEF WorkWhole, CorpusWhole, Measuring
<1>8. ScoresFit' /\ AnswersFit'
  BY <1>2 DEF ReportInv, ScoresFit, AnswersFit
<1> QED
  BY <1>7, <1>8 DEF ReportInv

LEMMA ReportIngest == EvaluationInv /\ ReportInv /\ IngestDocument => ReportInv'
<1> SUFFICES ASSUME EvaluationInv, ReportInv, IngestDocument PROVE ReportInv'
  OBVIOUS
<1> DEFINE w == CHOOSE x \in work : x.status = "PENDING"
<1>1. w \in work /\ w \in Works
  BY DEF IngestDocument, EvaluationInv, WorkFits
<1>2. PICK marks \in SUBSET Questions, status \in {"READY", "FAILED"} :
        work' = (work \ {w}) \cup {[w EXCEPT !.status = status, !.marks = marks]}
  BY DEF IngestDocument
<1>3. pc' = "ingest" /\ UNCHANGED <<scores, answers>>
  BY DEF IngestDocument, resultVars
<1> HIDE DEF w
<1>4. PICK v : v.doc = w.doc /\ work' = (work \ {w}) \cup {v}
  <2>1. [w EXCEPT !.status = status, !.marks = marks].doc = w.doc
    BY <1>1 DEF Works
  <2> QED
    BY <1>2, <2>1
<1>5. IsFiniteSet(work) /\ \A x, y \in work : x.doc = y.doc => x = y
  BY DEF ReportInv, WorkWhole
<1>6. IsFiniteSet(work')
  BY <1>4, <1>5, FS_RemoveElement, FS_AddElement
<1>7. \A x, y \in work' : x.doc = y.doc => x = y
  BY <1>1, <1>4, <1>5
<1>8. WorkWhole' /\ CorpusWhole'
  BY <1>3, <1>6, <1>7 DEF WorkWhole, CorpusWhole, Measuring
<1>9. ScoresFit' /\ AnswersFit'
  BY <1>3 DEF ReportInv, ScoresFit, AnswersFit
<1> QED
  BY <1>8, <1>9 DEF ReportInv

\* The corpus is of this run alone, since the tenant began without a row.
LEMMA ReportCheck == EvaluationInv /\ ReportInv /\ CheckIngested => ReportInv'
<1> SUFFICES ASSUME EvaluationInv, ReportInv, CheckIngested PROVE ReportInv'
  OBVIOUS
<1>1. CASE Raise("EvaluationError")
  BY <1>1, ReportRaise
<1>2. CASE /\ corpus' = rows \cup {<<run, w.doc>> : w \in work}
           /\ pc' = IF InCorpus = 0 THEN "outside" ELSE "score"
           /\ UNCHANGED <<argumentVars, databaseVars, scores, outside, answers, error, failUnder, exit>>
  <2>1. UNCHANGED <<run, work, scores, answers>>
    BY <1>2 DEF argumentVars, databaseVars
  <2>2. rows = {}
    BY DEF CheckIngested, EvaluationInv, TenantHolds, Inside
  <2>3. Documents = {w.doc : w \in work}
    <3>1. Unsaved = {}
      BY DEF CheckIngested
    <3>2. \A w \in work : w.doc \in Documents
      BY DEF EvaluationInv, WorkFits, Works
    <3> QED
      BY <3>1, <3>2 DEF Unsaved
  <2>4. corpus' = {<<run, d>> : d \in Documents}
    BY <1>2, <2>2, <2>3
  <2>5. WorkWhole'
    BY <2>1, <2>3 DEF ReportInv, WorkWhole
  <2>6. CorpusWhole'
    BY <2>1, <2>4 DEF CorpusWhole
  <2>7. ScoresFit' /\ AnswersFit'
    BY <2>1 DEF ReportInv, ScoresFit, AnswersFit
  <2> QED
    BY <2>5, <2>6, <2>7 DEF ReportInv
<1> QED
  BY <1>1, <1>2 DEF CheckIngested

\* A question is scored against a ranking of distinct passages.
LEMMA ScoreResult ==
  ASSUME EvaluationInv, ReportInv, Score, ~Raise("EvaluationError")
  PROVE  \E score : /\ scores' = Append(scores, score) /\ pc = "score" /\ pc' \in {"score", "outside"}
                    /\ ScoreFits(score, K, K >= Cardinality(Documents))
                    /\ UNCHANGED <<run, work, corpus, answers, error>>
<1> DEFINE q == Len(scores) + 1
           R == {w \in work : IsRelevant(w, q)}
<1>1. PICK ranking \in Rankings, top \in Similarities :
        /\ scores' = Append(scores, [relevance |-> [i \in DOMAIN ranking |-> IsRelevant(ranking[i], q)],
                                     total |-> Cardinality(R), top |-> top])
        /\ Cardinality(R) > 0 /\ pc = "score" /\ pc' = (IF q = InCorpus THEN "outside" ELSE pc)
        /\ UNCHANGED <<argumentVars, databaseVars, corpus, outside, answers, error, failUnder, exit>>
  BY DEF Score
<1> DEFINE n == Min({K, Cardinality(work)})
           list == [i \in 1 .. n |-> ranking[i] \in R]
           score == [relevance |-> [i \in DOMAIN ranking |-> IsRelevant(ranking[i], q)],
                     total |-> Cardinality(R), top |-> top]
<1>2. ranking \in [1 .. n -> work] /\ \A i, j \in 1 .. n : ranking[i] = ranking[j] => i = j
  BY DEF Rankings, IsInjective
<1>3. score.total = Cardinality(R) /\ score.relevance = [i \in DOMAIN ranking |-> IsRelevant(ranking[i], q)]
  OBVIOUS
<1>4. R \in SUBSET work /\ \A w \in work : IsRelevant(w, q) = (w \in R)
  BY DEF IsRelevant
<1>5. Ranks(ranking, n, work)
  BY <1>2 DEF Ranks
<1>6. score.relevance = list
  <2> HIDE DEF R, n, score
  <2> QED
    BY <1>2, <1>3, <1>4
<1>7. IsFiniteSet(work) /\ Cardinality(work) = Cardinality(Documents)
  <2>1. /\ IsFiniteSet(work) /\ \A v, w \in work : v.doc = w.doc => v = w
        /\ Documents = {w.doc : w \in work}
    BY <1>1 DEF ReportInv, WorkWhole, Measuring
  <2> QED
    BY <2>1, EntriesCounted
<1>8. K \in Nat \ {0}
  BY EvaluationBounds
<1> DEFINE whole == K >= Cardinality(Documents)
<1>9. whole => Cardinality(work) <= K
  <2>1. Cardinality(work) \in Nat
    BY <1>7, FS_CardinalityType
  <2> QED
    BY <1>7, <1>8, <2>1
<1>10. UNCHANGED <<run, work, corpus, answers, error>> /\ pc' \in {"score", "outside"}
  BY <1>1 DEF argumentVars, databaseVars
<1>11. ScoreFits(score, K, whole)
  <2>1. Cardinality(R) > 0
    BY <1>1
  <2>2. Smaller(n, K, Cardinality(work))
    BY DEF Smaller
  <2>3. Recorded(score, ranking, n, R)
    <3> HIDE DEF R, n, score
    <3> QED
      BY <1>3, <1>6 DEF Recorded
  <2>4. IsFiniteSet(work) /\ R \in SUBSET work
    BY <1>4, <1>7
  <2> HIDE DEF R, n, score, whole
  <2> QED
    BY <1>5, <1>8, <1>9, <2>1, <2>2, <2>3, <2>4, RankedFits
<1>12. scores' = Append(scores, score) /\ pc = "score"
  BY <1>1
<1> HIDE DEF score, R
<1> QED
  BY <1>10, <1>11, <1>12

LEMMA ReportScore == EvaluationInv /\ ReportInv /\ Score => ReportInv'
<1> SUFFICES ASSUME EvaluationInv, ReportInv, Score PROVE ReportInv'
  OBVIOUS
<1>1. CASE Raise("EvaluationError")
  BY <1>1, ReportRaise
<1>2. CASE ~Raise("EvaluationError")
  <2>1. PICK score : /\ scores' = Append(scores, score) /\ pc = "score" /\ pc' \in {"score", "outside"}
                     /\ ScoreFits(score, K, K >= Cardinality(Documents))
                     /\ UNCHANGED <<run, work, corpus, answers, error>>
    BY <1>2, ScoreResult
  <2>2. WorkWhole' /\ CorpusWhole'
    BY <2>1 DEF ReportInv, WorkWhole, CorpusWhole, Measuring
  <2>3. AnswersFit'
    BY <2>1 DEF ReportInv, AnswersFit
  <2>4. ScoresFit'
    <3>1. scores \in Seq(Range(scores))
      BY DEF EvaluationInv, ResultsFit
    <3>2. /\ Len(scores) \in Nat /\ DOMAIN scores = 1 .. Len(scores)
          /\ DOMAIN scores' = 1 .. (Len(scores) + 1)
          /\ \A i \in 1 .. Len(scores) : scores'[i] = scores[i]
          /\ scores'[Len(scores) + 1] = score
      BY <2>1, <3>1, Extended
    <3>3. \A i \in DOMAIN scores' : i \in DOMAIN scores \/ i = Len(scores) + 1
      BY <3>2
    <3>4. \A i \in DOMAIN scores : ScoreFits(scores[i], K, K >= Cardinality(Documents))
      BY DEF ReportInv, ScoresFit
    <3>5. \A i \in DOMAIN scores' : ScoreFits(scores'[i], K, K >= Cardinality(Documents))
      BY <2>1, <3>2, <3>3, <3>4
    <3> QED
      BY <3>5 DEF ScoresFit
  <2> QED
    BY <2>2, <2>3, <2>4 DEF ReportInv
<1> QED
  BY <1>1, <1>2

\* A sentence without a marker cites nothing.
LEMMA NothingCited == CitedNumbers(<<>>) = <<>>
<1> DEFINE seq == <<>>
           Seen(done, n) == IF n \in Range(done) THEN done ELSE Append(done, n)
           Fold(f) == f = [u \in SUBSET (DOMAIN seq) |->
                             IF u = {} THEN <<>> ELSE Seen(f[u \ {Max(u)}], seq[Max(u)])]
           it == CHOOSE f : Fold(f)
           f0 == [u \in SUBSET (DOMAIN seq) |-> <<>>]
<1>1. CitedNumbers(<<>>) = it[DOMAIN seq]
  BY DEF CitedNumbers, FoldLeft, MapThenFoldSet
<1>2. DOMAIN seq = {}
  BY EmptySeq
<1> HIDE DEF seq
<1>3. \A u \in SUBSET (DOMAIN seq) : u = {}
  BY <1>2
<1> HIDE DEF Seen
<1>4. Fold(f0)
  BY <1>3
<1>5. Fold(it)
  BY <1>4
<1> HIDE DEF it
<1> QED
  BY <1>1, <1>2, <1>5

\* An answer whose sentences become claims has them as a sequence, one for each kept.
LEMMA ClaimsAre ==
  ASSUME NEW S, NEW sentences \in Seq(S), NEW available
  PROVE  /\ SplitClaims(sentences, available) \in Seq(Range(SplitClaims(sentences, available)))
         /\ \A i \in DOMAIN SplitClaims(sentences, available) :
              /\ SplitClaims(sentences, available)[i].index \in Nat
              /\ \E s \in S : SplitClaims(sentences, available)[i].cited = CitedNumbers(s.markers)
<1> DEFINE at == {i \in DOMAIN sentences : ~sentences[i].short}
           kept == Those(sentences, at)
           m == Len(kept)
           claims == SplitClaims(sentences, available)
           Invents(cited) == Kept(cited, LAMBDA n : n \notin 1 .. available)
<1>1. claims = [i \in DOMAIN kept |-> [index |-> i - 1, cited |-> CitedNumbers(kept[i].markers),
                                      figure |-> kept[i].figure, invented |-> Invents(CitedNumbers(kept[i].markers))]]
  BY DEF SplitClaims, Kept
<1> HIDE DEF claims, Invents
<1>2. at \in SUBSET DOMAIN sentences
  OBVIOUS
<1> HIDE DEF at
<1>3. kept \in Seq(S)
  BY <1>2, ThoseAre
<1> HIDE DEF kept
<1>4. m \in Nat /\ DOMAIN kept = 1 .. m /\ \A i \in 1 .. m : kept[i] \in S
  BY <1>3, LenProperties, ElementOfSeq
<1> HIDE DEF m
<1>5. DOMAIN claims = 1 .. m /\ claims \in [1 .. m -> Range(claims)]
  BY <1>1, <1>4 DEF Range
<1>6. claims \in Seq(Range(claims))
  BY <1>4, <1>5, ListOf
<1>7. \A i \in 1 .. m : claims[i].index = i - 1 /\ claims[i].cited = CitedNumbers(kept[i].markers)
  BY <1>1, <1>4
<1>8. \A i \in 1 .. m : i - 1 \in Nat
  BY <1>4
<1> QED
  BY <1>4, <1>5, <1>6, <1>7, <1>8 DEF claims

\* An answer that cites nothing has nothing to be ruled on.
LEMMA NothingRuled ==
  ASSUME NEW answer, answer.claims \in Seq(Range(answer.claims)), answer.error \in BOOLEAN,
         \A i \in DOMAIN answer.claims : ~IsCited(answer.claims[i]), answer.verdicts = <<>>
  PROVE  AnswerFits(answer)
<1> DEFINE at == {i \in DOMAIN answer.claims : IsCited(answer.claims[i])}
<1>1. at = {} /\ at \in SUBSET DOMAIN answer.claims /\ CitedClaims(answer) = Those(answer.claims, at)
  BY DEF CitedClaims, Kept
<1> HIDE DEF at
<1>2. Len(CitedClaims(answer)) = 0
  BY <1>1, ThoseAre, FS_EmptySet
<1>3. DOMAIN answer.verdicts = {} /\ Len(answer.verdicts) = 0 /\ answer.verdicts \in Seq(Range(answer.verdicts))
  BY NoSequence
<1> QED
  BY <1>2, <1>3 DEF AnswerFits, VerdictsMatch

LEMMA GapFits == AnswerFits(Gap)
<1>1. /\ Gap.claims = <<>> /\ Gap.error \in BOOLEAN /\ Gap.verdicts = <<>>
  BY DEF Gap
<1>2. Gap.claims \in Seq(Range(Gap.claims)) /\ DOMAIN Gap.claims = {}
  BY <1>1, NoSequence
<1> QED
  BY <1>1, <1>2, NothingRuled

LEMMA RefusalFits ==
  ASSUME NEW answer,
         answer = [Gap EXCEPT !.error = FALSE, !.refused = TRUE,
                              !.claims = SplitClaims(<<[markers |-> <<>>, figure |-> FALSE, short |-> FALSE]>>, 0)]
  PROVE  AnswerFits(answer)
<1> DEFINE s == [markers |-> <<>>, figure |-> FALSE, short |-> FALSE]
           list == <<s>>
           claims == SplitClaims(list, 0)
<1>1. s.markers = <<>> /\ list \in Seq({s})
  OBVIOUS
<1>2. answer.error = FALSE /\ answer.claims = claims /\ answer.verdicts = <<>>
  BY DEF Gap
<1> HIDE DEF s, list
<1>3. claims \in Seq(Range(claims)) /\ \A i \in DOMAIN claims : \E x \in {s} : claims[i].cited = CitedNumbers(x.markers)
  <2>1. list \in Seq({s})
    BY <1>1
  <2> QED
    BY <2>1, ClaimsAre
<1> HIDE DEF claims
<1>4. \A i \in DOMAIN claims : ~IsCited(claims[i])
  BY <1>1, <1>3, NothingCited DEF IsCited
<1> QED
  BY <1>2, <1>3, <1>4, NothingRuled

\* Whatever a judge's payload is, each cited claim has one verdict.
LEMMA RuledFits ==
  ASSUME NEW answer, NEW claims, claims \in Seq(Range(claims)),
         \A i \in DOMAIN claims : claims[i].index \in Nat,
         NEW asked, asked = Kept(claims, IsCited),
         NEW expected, expected = [i \in DOMAIN asked |-> asked[i].index],
         NEW entries \in Seq(Rulings),
         answer.error = FALSE, answer.claims = claims,
         answer.verdicts = CoerceVerdicts(entries, expected),
         answer.backed = {i \in Range(expected) : [index |-> i, verdict |-> "supported"] \in Range(entries)}
  PROVE  AnswerFits(answer)
<1> DEFINE m == Len(asked)
           verdicts == answer.verdicts
<1>1. asked = CitedClaims(answer)
  BY DEF CitedClaims
<1>2. asked \in Seq(Range(claims))
  BY <1>1, CitedAre
<1>3. m \in Nat /\ DOMAIN asked = 1 .. m
  BY <1>2, LenProperties
<1> HIDE DEF m
<1>4. DOMAIN expected = 1 .. m /\ \A i \in 1 .. m : expected[i] = asked[i].index /\ expected[i] \in Range(expected)
  BY <1>3 DEF Range
<1>5. DOMAIN verdicts = 1 .. m
  BY <1>3, <1>4, CoercedIs
<1>6. ASSUME NEW i \in 1 .. m
      PROVE  /\ verdicts[i].index = expected[i] /\ verdicts[i].verdict \in {Supported, Unsupported, Unclear}
             /\ verdicts[i].verdict = Supported => [index |-> expected[i], verdict |-> Supported] \in Range(entries)
  BY <1>3, <1>4, CoercedFits
<1>7. ASSUME NEW i \in 1 .. m, verdicts[i].verdict = Supported
      PROVE  verdicts[i].index \in answer.backed
  BY <1>4, <1>6, <1>7 DEF Supported
<1>8. verdicts \in Seq(Range(verdicts)) /\ Len(verdicts) = m
  <2>1. verdicts = [i \in 1 .. m |-> verdicts[i]]
    BY <1>5 DEF CoerceVerdicts
  <2> HIDE DEF verdicts
  <2>2. verdicts \in [1 .. m -> Range(verdicts)]
    BY <1>5, <2>1 DEF Range
  <2> QED
    BY <1>3, <2>2, ListOf
<1> HIDE DEF verdicts
<1>9. VerdictsMatch(verdicts, asked)
  BY <1>4, <1>5, <1>6, <1>8 DEF VerdictsMatch, m
<1> QED
  BY <1>1, <1>5, <1>7, <1>9 DEF AnswerFits, verdicts

LEMMA ReportAnswered ==
  ASSUME EvaluationInv, ReportInv, Judging, NEW answer, Answered(answer), AnswerFits(answer)
  PROVE  ReportInv'
<1>1. /\ answers' = Append(answers, answer)
      /\ UNCHANGED <<run, pc, work, corpus, scores, error>>
  BY DEF Answered, argumentVars
<1>2. WorkWhole' /\ CorpusWhole' /\ ScoresFit'
  BY <1>1 DEF ReportInv, WorkWhole, CorpusWhole, ScoresFit
<1>3. AnswersFit'
  <2>1. answers \in Seq(Range(answers))
    BY DEF EvaluationInv, ResultsFit
  <2>2. /\ Len(answers) \in Nat /\ DOMAIN answers = 1 .. Len(answers)
        /\ DOMAIN answers' = 1 .. (Len(answers) + 1)
        /\ \A i \in 1 .. Len(answers) : answers'[i] = answers[i]
        /\ answers'[Len(answers) + 1] = answer
    BY <1>1, <2>1, Extended
  <2>3. \A i \in DOMAIN answers' : i \in DOMAIN answers \/ i = Len(answers) + 1
    BY <2>2
  <2>4. \A i \in DOMAIN answers : AnswerFits(answers[i])
    BY DEF ReportInv, AnswersFit
  <2>5. \A i \in DOMAIN answers' : AnswerFits(answers'[i])
    BY <2>2, <2>3, <2>4
  <2> QED
    BY <2>5 DEF AnswersFit
<1> QED
  BY <1>2, <1>3 DEF ReportInv

LEMMA ReportRuled == EvaluationInv /\ ReportInv /\ JudgeAnswer => ReportInv'
<1> SUFFICES ASSUME EvaluationInv, ReportInv, JudgeAnswer PROVE ReportInv'
  OBVIOUS
<1>1. PICK available \in 1 .. Len(scores[Len(answers) + 1].relevance),
          sentences \in BoundedSeq(Sentences, MaxSentences) :
        LET claims == SplitClaims(sentences, available)
            asked == Kept(claims, IsCited)
            expected == [i \in DOMAIN asked |-> asked[i].index]
        IN \E entries \in IF asked = <<>> THEN {<<>>} ELSE BoundedSeq(Entries(claims), 2) :
             Answered([error |-> FALSE, refused |-> FALSE, claims |-> claims,
                       verdicts |-> CoerceVerdicts(entries, expected),
                       backed |-> {i \in Range(expected) : [index |-> i, verdict |-> "supported"] \in Range(entries)}])
  BY DEF JudgeAnswer
<1> DEFINE claims == SplitClaims(sentences, available)
           asked == Kept(claims, IsCited)
           expected == [i \in DOMAIN asked |-> asked[i].index]
           Said(entries) == [error |-> FALSE, refused |-> FALSE, claims |-> claims,
                             verdicts |-> CoerceVerdicts(entries, expected),
                             backed |-> {i \in Range(expected) : [index |-> i, verdict |-> "supported"] \in Range(entries)}]
<1>2. PICK entries \in IF asked = <<>> THEN {<<>>} ELSE BoundedSeq(Entries(claims), 2) :
        Answered(Said(entries))
  BY <1>1
<1> DEFINE answer == Said(entries)
<1>3. /\ answer.error = FALSE /\ answer.claims = claims
      /\ answer.verdicts = CoerceVerdicts(entries, expected)
      /\ answer.backed = {i \in Range(expected) : [index |-> i, verdict |-> "supported"] \in Range(entries)}
  OBVIOUS
<1>4. Answered(answer)
  BY <1>2
<1> HIDE DEF answer
<1>5. sentences \in Seq(Sentences)
  <2>1. PICK n \in 0 .. MaxSentences : sentences \in [1 .. n -> Sentences]
    BY DEF BoundedSeq, SeqOf
  <2>2. n \in Nat
    BY <2>1, EvaluationBounds
  <2> QED
    BY <2>1, <2>2, ListOf
<1>6. claims \in Seq(Range(claims)) /\ \A i \in DOMAIN claims : claims[i].index \in Nat
  BY <1>5, ClaimsAre
<1> DEFINE some == IF asked = <<>> THEN {<<>>} ELSE BoundedSeq(Entries(claims), 2)
<1>7. entries \in some
  BY <1>2
<1> HIDE DEF claims
<1>8. entries \in Seq(Rulings)
  <2>1. CASE entries = <<>>
    BY <2>1, EmptySeq
  <2>2. CASE entries \in BoundedSeq(Entries(claims), 2)
    <3>1. PICK n \in 0 .. 2 : entries \in [1 .. n -> Entries(claims)]
      BY <2>2 DEF BoundedSeq, SeqOf
    <3>2. n \in Nat
      BY <3>1
    <3>3. Entries(claims) \subseteq Rulings
      <4>1. Len(claims) \in Nat
        BY <1>6, LenProperties
      <4>2. 0 .. Len(claims) \subseteq Nat
        BY <4>1
      <4> QED
        BY <4>2 DEF Entries, Rulings, Supported, Unsupported, Unclear
    <3>4. entries \in [1 .. n -> Rulings]
      BY <3>1, <3>3
    <3> QED
      BY <3>2, <3>4, ListOf
  <2> QED
    BY <1>7, <2>1, <2>2
<1> HIDE DEF asked, some
<1>9. AnswerFits(answer)
  <2>1. asked = Kept(claims, IsCited)
    BY DEF asked
  <2>2. expected = [i \in DOMAIN asked |-> asked[i].index]
    OBVIOUS
  <2> HIDE DEF expected
  <2> QED
    BY <1>3, <1>6, <1>8, <2>1, <2>2, RuledFits
<1>10. Judging
  BY DEF JudgeAnswer
<1> QED
  BY <1>4, <1>9, <1>10, ReportAnswered

LEMMA ReportJudge ==
  ASSUME EvaluationInv, ReportInv, JudgeFails \/ JudgeRefusal \/ JudgeAnswer
  PROVE  ReportInv'
<1>1. CASE JudgeFails
  BY <1>1, GapFits, ReportAnswered DEF JudgeFails
<1>2. CASE JudgeRefusal
  <2> DEFINE answer == [Gap EXCEPT !.error = FALSE, !.refused = TRUE,
                          !.claims = SplitClaims(<<[markers |-> <<>>, figure |-> FALSE, short |-> FALSE]>>, 0)]
  <2>1. Judging /\ Answered(answer)
    BY <1>2 DEF JudgeRefusal
  <2>2. AnswerFits(answer)
    BY RefusalFits
  <2> HIDE DEF answer
  <2> QED
    BY <2>1, <2>2, ReportAnswered
<1>3. CASE JudgeAnswer
  BY <1>3, ReportRuled
<1> QED
  BY <1>1, <1>2, <1>3

LEMMA ReportStep == EvaluationInv /\ ReportInv /\ [Next]_vars => ReportInv'
<1> SUFFICES ASSUME EvaluationInv, ReportInv, [Next]_vars PROVE ReportInv'
  OBVIOUS
<1>1. CASE UNCHANGED vars
  BY <1>1, ResultsKept DEF vars, argumentVars, databaseVars, resultVars
<1>2. CASE LoadDataset
  <2>1. NoResults /\ work' = work /\ pc' \in {"before", "ended"}
    BY <1>2 DEF LoadDataset, databaseVars
  <2> QED
    BY <2>1, NothingMeasured DEF Measuring
<1>3. CASE DropFile \/ DropRows \/ DropTenant \/ CreateTenant
  <2>1. /\ UNCHANGED <<run, corpus, scores, answers, work, error>>
        /\ pc' = pc \/ (pc = "before" /\ pc' = "ingest")
    BY <1>3 DEF DropFile, DropRows, DropTenant, CreateTenant, argumentVars, resultVars
  <2> QED
    BY <2>1, ResultsKept DEF Measuring
<1>4. CASE SaveDocument \/ IngestDocument \/ CheckIngested
  BY <1>4, ReportSave, ReportIngest, ReportCheck
<1>5. CASE Score
  BY <1>5, ReportScore
<1>6. CASE ScoreOutside
  <2>1. UNCHANGED <<pc, argumentVars, databaseVars, corpus, scores, answers, error, failUnder, exit>>
    BY <1>6 DEF ScoreOutside
  <2> QED
    BY <2>1, ResultsKept DEF argumentVars, databaseVars
<1>7. CASE ScoredAll \/ JudgedAll
  <2>1. /\ UNCHANGED <<run, corpus, scores, answers, work, error>>
        /\ pc \in Measuring /\ pc' \in Measuring
    BY <1>7 DEF ScoredAll, JudgedAll, Measuring, argumentVars, databaseVars, resultVars
  <2> QED
    BY <2>1, ResultsKept DEF Measuring
<1>8. CASE JudgeFails \/ JudgeRefusal \/ JudgeAnswer
  BY <1>8, ReportJudge
<1>9. CASE Leave
  <2>1. /\ UNCHANGED <<run, corpus, scores, answers>> /\ work' = {}
        /\ pc \in Measuring /\ pc' = "after"
    BY <1>9 DEF Leave, Measuring, argumentVars, resultVars
  <2> QED
    BY <2>1, ResultsKept DEF Measuring
<1>10. CASE Exit
  <2>1. UNCHANGED <<run, corpus, scores, answers, work>> /\ pc' = "ended"
    BY <1>10 DEF Exit, argumentVars, databaseVars, resultVars
  <2> QED
    BY <2>1, ResultsKept DEF Measuring
<1>11. CASE Kill
  <2>1. NoResults /\ work' = {} /\ pc' = "killed"
    BY <1>11 DEF Kill
  <2> QED
    BY <2>1, NothingMeasured DEF Measuring
<1>12. CASE Fail
  BY <1>12, ReportRaise DEF Fail
<1>13. CASE DropFails \/ CreateFails
  <2>1. NoResults /\ work' = work /\ pc' = "ended"
    BY <1>13 DEF DropFails, CreateFails, Dies, databaseVars
  <2> QED
    BY <2>1, NothingMeasured DEF Measuring
<1> QED
  BY <1>1, <1>2, <1>3, <1>4, <1>5, <1>6, <1>7, <1>8, <1>9, <1>10, <1>11, <1>12, <1>13 DEF Next

LEMMA ReportInvariant == Spec => [](EvaluationInv /\ ReportInv)
<1>1. EvaluationInv /\ ReportInv /\ [Next]_vars => ReportInv'
  BY ReportStep
<1> QED
  BY <1>1, ReportInit, EvaluationInvariant, PTL DEF Spec

\* A configured floor is said to separate only where it does, and otherwise to let through
\* or to refuse only what it does.
FloorSaid(inside, others, configured) ==
  (Separation(inside, others) # <<>> /\ Separation(inside, others)[1] > 0) =>
    LET tops == {inside[i].top : i \in DOMAIN inside}
        said == VerdictOnConfiguredFloor(configured, WorstInCorpus(inside), BestOutOfCorpus(others))
    IN /\ said = "separates" => \A t \in tops, o \in Range(others) : o < configured /\ configured <= t
       /\ said = "refuses nothing" => \E o \in Range(others) : o >= configured
       /\ said = "refuses answerable" => \E t \in tops : t <= configured

LEMMA FloorIsJudged ==
  ASSUME NEW inside, inside \in Seq(Range(inside)), \A i \in DOMAIN inside : inside[i].top \in Int,
         NEW others, others \in Seq(Range(others)), \A j \in DOMAIN others : others[j] \in Int,
         NEW configured \in Int
  PROVE  FloorSaid(inside, others, configured)
<1> DEFINE tops == {inside[i].top : i \in DOMAIN inside}
           low == WorstInCorpus(inside)
           high == BestOutOfCorpus(others)
           said == VerdictOnConfiguredFloor(configured, low, high)
<1> SUFFICES ASSUME Separation(inside, others) # <<>>
             PROVE  /\ said = "separates" => \A t \in tops, o \in Range(others) : o < configured /\ configured <= t
                    /\ said = "refuses nothing" => \E o \in Range(others) : o >= configured
                    /\ said = "refuses answerable" => \E t \in tops : t <= configured
  BY DEF FloorSaid
<1>1. inside # <<>> /\ others # <<>>
  BY DEF Separation
<1>2. (\E i : i \in DOMAIN inside) /\ (\E j : j \in DOMAIN others)
  BY <1>1
<1>3. low \in Int /\ low \in tops /\ high \in Int /\ high \in Range(others)
  BY <1>2, GapIsBetween
<1>4. \A t \in tops : t \in Int /\ low <= t
  <2>1. ASSUME NEW i \in DOMAIN inside PROVE low <= inside[i].top
    BY <1>2, GapIsBetween
  <2> QED
    BY <2>1
<1>5. \A o \in Range(others) : o \in Int /\ o <= high
  <2>1. ASSUME NEW j \in DOMAIN others PROVE others[j] <= high
    BY <1>2, GapIsBetween
  <2> QED
    BY <2>1 DEF Range
<1> HIDE DEF low, high, tops
<1>6. CASE configured <= high
  <2>1. said = "refuses nothing"
    BY <1>6 DEF VerdictOnConfiguredFloor
  <2> HIDE DEF said
  <2>2. \E o \in Range(others) : o >= configured
    BY <1>3, <1>6
  <2> QED
    BY <2>1, <2>2
<1>7. CASE ~(configured <= high) /\ configured >= low
  <2>1. said = "refuses answerable"
    BY <1>7 DEF VerdictOnConfiguredFloor
  <2> HIDE DEF said
  <2>2. \E t \in tops : t <= configured
    BY <1>3, <1>7
  <2> QED
    BY <2>1, <2>2
<1>8. CASE ~(configured <= high) /\ ~(configured >= low)
  <2>1. said = "separates"
    BY <1>8 DEF VerdictOnConfiguredFloor
  <2> HIDE DEF said
  <2>2. \A t \in tops, o \in Range(others) : o < configured /\ configured <= t
    BY <1>3, <1>4, <1>5, <1>8
  <2> QED
    BY <2>1, <2>2
<1> QED
  BY <1>6, <1>7, <1>8

\* The verdicts of an answer are on what it cites, in its order.
LEMMA VerdictsTell ==
  ASSUME NEW answer, AnswerFits(answer), NEW j \in DOMAIN answer.verdicts
  PROVE  LET v == answer.verdicts[j]
         IN v.index = CitedClaims(answer)[j].index
              /\ (v.verdict = "supported" => v.index \in answer.backed)
BY DEF AnswerFits, VerdictsMatch, Supported

LEMMA ReportHolds == EvaluationInv /\ ReportInv => ReportIsSound
<1> SUFFICES ASSUME EvaluationInv, ReportInv, Reported PROVE ReportIsSound
  BY DEF ReportIsSound
<1> DEFINE r == AsDict(scores, outside, answers, 1 .. K)
           f == r.faithfulness
<1>1. r.means = Means(scores, 1 .. K) /\ r.gap = Separation(scores, outside) /\ f = Faithfulness(answers)
  BY DEF AsDict
<1>2. pc = "after" /\ error = "none"
  BY DEF Reported
<1>3. corpus = {<<run, d>> : d \in Documents}
  BY <1>2 DEF ReportInv, CorpusWhole
<1>4. Len(scores) = InCorpus /\ scores \in Seq(Range(scores))
  BY <1>2 DEF EvaluationInv, ResultsWhole, ResultsFit
<1>5. /\ MetricsAgree(Means(scores, 1 .. K), K)
      /\ InCorpus > 0 /\ K >= Cardinality(Documents) => ~Less(Means(scores, 1 .. K).recall[K], <<1, 1>>)
  <2> DEFINE whole == K >= Cardinality(Documents)
             m == Len(scores)
  <2>1. m \in Nat /\ DOMAIN scores = 1 .. m
    BY <1>4, LenProperties
  <2>2. \A i \in 1 .. m : ScoreFits(scores[i], K, whole)
    BY <2>1 DEF ReportInv, ScoresFit
  <2>3. K \in Nat \ {0}
    BY EvaluationBounds
  <2> HIDE DEF m, whole
  <2>4. /\ MetricsAgree(Means(scores, 1 .. K), K)
        /\ whole /\ m > 0 => ~Less(Means(scores, 1 .. K).recall[K], <<1, 1>>)
    BY <2>1, <2>2, <2>3, MeansAgree
  <2> QED
    BY <1>4, <2>4 DEF m, whole
<1>6. /\ GroundingAdds(Faithfulness(answers))
      /\ Faithfulness(answers).measured = Cardinality({i \in DOMAIN answers : ~answers[i].error})
  BY GroundingAgrees DEF EvaluationInv, ResultsFit, ReportInv, AnswersFit
<1>7. \A i \in DOMAIN answers : \A j \in DOMAIN answers[i].verdicts :
        LET v == answers[i].verdicts[j]
        IN v.index = CitedClaims(answers[i])[j].index
             /\ (v.verdict = "supported" => v.index \in answers[i].backed)
  BY VerdictsTell DEF ReportInv, AnswersFit
<1>8. FloorSaid(scores, outside, Floor)
  BY FloorIsJudged, EvaluationBounds DEF EvaluationInv, ResultsFit
<1> HIDE DEF r
<1> QED
  BY <1>1, <1>3, <1>5, <1>6, <1>7, <1>8, Zenon DEF ReportIsSound, MetricsAgree, GroundingAdds, FloorSaid, r

(***************************************************************************)
(* What a report says, for every corpus and every number of questions: it  *)
(* is of this run's chunks and no other's, its metrics agree with each     *)
(* other, every cited claim of a measured answer has one verdict, a        *)
(* support counted is one the judge gave, and a floor said to separate the *)
(* questions does.                                                         *)
(***************************************************************************)
THEOREM ReportIsSoundAlways == Spec => []ReportIsSound
BY ReportInvariant, ReportHolds, PTL
=============================================================================
