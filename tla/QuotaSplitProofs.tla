--------------------------- MODULE QuotaSplitProofs ---------------------------
(***************************************************************************)
(* Proofs about QuotaSplit: what update computes for any number of nodes,  *)
(* any quotas and weights and any word size in which nothing wraps.        *)
(***************************************************************************)
EXTENDS QuotaSplit, FiniteSums, SequenceTheorems

(* Folds over a sequence.                                                      *)

\* The fold that picks an element of a set, does the step of that element last, and
\* begins with base.
Folding(S, base, pick, step, it) ==
  \A s \in SUBSET S :
    it[s] = IF s = {} THEN base ELSE step[pick[s]][it[s \ {pick[s]}]]

\* There is one.
LEMMA FoldingExists ==
  ASSUME NEW S, IsFiniteSet(S), NEW X, NEW base \in X, NEW step \in [S -> [X -> X]],
         NEW pick, \A s \in SUBSET S : s # {} => pick[s] \in s
  PROVE  \E it \in [SUBSET S -> X] : Folding(S, base, pick, step, it)
<1> DEFINE n == Cardinality(S)
           D(m) == {s \in SUBSET S : Cardinality(s) <= m}
           Next1(it, s) == IF s = {} THEN base ELSE step[pick[s]][it[s \ {pick[s]}]]
           P == {m \in 0..n : \E it \in [D(m) -> X] : \A s \in D(m) : it[s] = Next1(it, s)}
<1>1. n \in Nat /\ \A s \in SUBSET S : IsFiniteSet(s) /\ Cardinality(s) \in Nat /\ Cardinality(s) <= n
  BY FS_Subset, FS_CardinalityType
<1>2. 0 \in P
  <2>1. \A s \in D(0) : s = {}
    BY <1>1, FS_EmptySet
  <2>2. [s \in D(0) |-> base] \in [D(0) -> X] /\ \A s \in D(0) : [u \in D(0) |-> base][s] = base
    OBVIOUS
  <2> HIDE DEF D
  <2>3. \E it \in [D(0) -> X] : \A s \in D(0) : it[s] = Next1(it, s)
    BY <2>1, <2>2
  <2>4. 0 \in 0..n
    BY <1>1
  <2> HIDE DEF Next1
  <2> QED
    BY <2>3, <2>4
<1>3. ASSUME NEW m \in 0..(n - 1), m \in P PROVE m + 1 \in P
  <2>1. PICK it \in [D(m) -> X] : \A s \in D(m) : it[s] = Next1(it, s)
    BY <1>3
  <2>2. ASSUME NEW s \in D(m + 1), s # {}
        PROVE  pick[s] \in S /\ s \ {pick[s]} \in D(m)
    <3>1. pick[s] \in s /\ IsFiniteSet(s) /\ Cardinality(s) \in Nat /\ Cardinality(s) <= m + 1
      BY <1>1, <2>2
    <3>2. Cardinality(s \ {pick[s]}) = Cardinality(s) - 1
      BY <3>1, FS_RemoveElement
    <3> QED
      BY <3>1, <3>2
  <2> DEFINE it2 == [s \in D(m + 1) |-> Next1(it, s)]
  <2>3. it2 \in [D(m + 1) -> X]
    <3>1. ASSUME NEW s \in D(m + 1) PROVE Next1(it, s) \in X
      <4> HIDE DEF D
      <4>1. CASE s # {}
        BY <2>2, <4>1
      <4> QED
        BY <4>1
    <3> HIDE DEF Next1
    <3> QED
      BY <3>1
  <2>4. \A s \in D(m) : s \in D(m + 1)
    BY <1>1
  <2>5. \A s \in D(m) : it2[s] = it[s]
    <3> HIDE DEF D, Next1
    <3> QED
      BY <2>1, <2>4
  <2>6. \A s \in D(m + 1) : it2[s] = Next1(it2, s)
    <3> SUFFICES ASSUME NEW s \in D(m + 1) PROVE it2[s] = Next1(it2, s)
      OBVIOUS
    <3>1. it2[s] = Next1(it, s)
      BY DEF it2
    <3>2. Next1(it2, s) = Next1(it, s)
      <4> HIDE DEF D, it2
      <4>1. CASE s # {}
        BY <2>2, <2>5, <4>1
      <4> QED
        BY <4>1
    <3> QED
      BY <3>1, <3>2
  <2> HIDE DEF D, Next1, it2
  <2> QED
    BY <1>1, <2>3, <2>6 DEF P
<1>4. n \in P
  <2> HIDE DEF P
  <2>1. 0..n \subseteq P
    BY <1>1, <1>2, <1>3, CountingUp
  <2> QED
    BY <1>1, <2>1
<1>5. D(n) = SUBSET S
  BY <1>1
<1>6. PICK it \in [SUBSET S -> X] : \A s \in SUBSET S : it[s] = Next1(it, s)
  BY <1>4, <1>5
<1> QED
  BY <1>6 DEF Folding

\* The least and the greatest element of an interval.
LEMMA Ends ==
  ASSUME NEW a \in Nat, NEW b \in Nat, a <= b
  PROVE  Max(a..b) = b /\ Min(a..b) = a
<1>1. \A x \in a..b : (\A y \in a..b : x >= y) <=> x = b
  OBVIOUS
<1>2. \A x \in a..b : (\A y \in a..b : x =< y) <=> x = a
  OBVIOUS
<1>3. b \in a..b /\ a \in a..b
  OBVIOUS
<1>4. Max(a..b) = CHOOSE x \in a..b : x = b
  BY <1>1 DEF Max
<1>5. Min(a..b) = CHOOSE x \in a..b : x = a
  BY <1>2 DEF Min
<1> QED
  BY <1>3, <1>4, <1>5

\* A set of numbers up to n has a least and a greatest.
LEMMA EndsExist ==
  ASSUME NEW n \in Nat, NEW s \in SUBSET (1..n), s # {}
  PROVE  Max(s) \in s /\ Min(s) \in s
<1>1. \E x \in s : \A y \in s : x <= y
  <2>1. s \subseteq Nat
    OBVIOUS
  <2> QED
    BY <2>1, LeastNat
<1>2. \E x \in s : \A y \in s : x >= y
  <2>1. PICK T : T = {n - y : y \in s}
    OBVIOUS
  <2>2. T \subseteq Nat /\ T # {}
    <3>1. \A y \in s : y \in 1..n
      OBVIOUS
    <3>2. \A y \in s : n - y \in Nat
      BY <3>1
    <3> QED
      BY <2>1, <3>2
  <2>3. PICK z \in T : \A y \in T : z <= y
    BY <2>2, LeastNat
  <2>4. PICK x \in s : z = n - x
    BY <2>1, <2>3
  <2>5. \A y \in s : n - x <= n - y
    BY <2>1, <2>3, <2>4
  <2> QED
    BY <2>4, <2>5
<1> QED
  BY <1>1, <1>2 DEF Max, Min

\* f has the sums of the first elements of seq.
Running(f, seq, n) == f \in [0..n -> Int] /\ f[0] = 0 /\ \A k \in 1..n : f[k] = f[k - 1] + seq[k]

\* PlainSum is the last of them.
LEMMA PlainSumIs ==
  ASSUME NEW n \in Nat, NEW seq \in [1..n -> Int]
  PROVE  \E f : Running(f, seq, n) /\ PlainSum(seq) = f[n]
<1> DEFINE S == 1..n
           Adds(it) == it = [s \in SUBSET S |->
                               IF s = {} THEN 0 ELSE it[s \ {Max(s)}] + seq[Max(s)]]
<1>1. PlainSum(seq) = (CHOOSE it : Adds(it))[S]
  BY DEF PlainSum, FoldLeft, MapThenFoldSet
<1>2. \E it : Adds(it)
  <2>1. PICK pick : pick = [s \in SUBSET S |-> Max(s)]
    OBVIOUS
  <2>2. PICK step : step = [i \in S |-> [x \in Int |-> x + seq[i]]]
    OBVIOUS
  <2>3. step \in [S -> [Int -> Int]] /\ 0 \in Int
    <3>1. \A i \in S : [x \in Int |-> x + seq[i]] \in [Int -> Int]
      OBVIOUS
    <3> QED
      BY <2>2, <3>1
  <2>6. \A i \in S, x \in Int : step[i][x] = x + seq[i]
    BY <2>2
  <2>7. ASSUME NEW s \in SUBSET S, s # {} PROVE pick[s] = Max(s) /\ pick[s] \in s
    <3>1. Max(s) \in s
      BY <2>7, EndsExist
    <3>2. pick[s] = Max(s)
      BY <2>1
    <3> QED
      BY <3>1, <3>2
  <2>4. IsFiniteSet(S)
    BY FS_Interval
  <2> HIDE DEF S
  <2>5. PICK it \in [SUBSET S -> Int] : Folding(S, 0, pick, step, it)
    BY <2>3, <2>4, <2>7, FoldingExists
  <2>8. ASSUME NEW s \in SUBSET S
        PROVE  it[s] = IF s = {} THEN 0 ELSE it[s \ {Max(s)}] + seq[Max(s)]
    <3>1. CASE s # {}
      <4>1. pick[s] = Max(s) /\ Max(s) \in S /\ s \ {Max(s)} \in SUBSET S
        BY <2>7, <3>1
      <4>2. it[s] = step[pick[s]][it[s \ {pick[s]}]]
        BY <2>5, <3>1 DEF Folding
      <4>3. it[s \ {Max(s)}] \in Int
        BY <4>1
      <4> QED
        BY <2>6, <3>1, <4>1, <4>2, <4>3
    <3> QED
      BY <2>5, <3>1 DEF Folding
  <2> QED
    BY <2>8
<1>3. PICK it : Adds(it) /\ PlainSum(seq) = it[S]
  <2> HIDE DEF Adds
  <2> QED
    BY <1>1, <1>2
<1>4. it[{}] = 0 /\ \A k \in 1..n : it[1..k] = it[1..(k - 1)] + seq[k]
  <2>1. ASSUME NEW k \in 1..n PROVE it[1..k] = it[1..(k - 1)] + seq[k]
    <3>1. Max(1..k) = k
      BY Ends
    <3>2. (1..k) \ {k} = 1..(k - 1) /\ 1..k # {} /\ 1..k \subseteq S
      <4>1. k \in 1..k
        OBVIOUS
      <4>2. 1..k \subseteq S
        OBVIOUS
      <4>3. (1..k) \ {k} = 1..(k - 1)
        OBVIOUS
      <4> QED
        BY <4>1, <4>2, <4>3
    <3> QED
      BY <1>3, <3>1, <3>2
  <2>2. it[{}] = 0
    BY <1>3
  <2> QED
    BY <2>1, <2>2
<1>5. PICK f : f = [k \in 0..n |-> it[1..k]]
  OBVIOUS
<1>6. 1..0 = {}
  OBVIOUS
<1>7. f[0] = 0 /\ \A k \in 1..n : f[k] = f[k - 1] + seq[k]
  BY <1>4, <1>5, <1>6
<1>8. f \in [0..n -> Int]
  <2> DEFINE P == {k \in 0..n : f[k] \in Int}
  <2>1. 0 \in P
    BY <1>7
  <2>2. \A k \in 0..(n - 1) : k \in P => k + 1 \in P
    BY <1>7
  <2>3. 0..n \subseteq P
    <3> HIDE DEF P
    <3> QED
      BY <2>1, <2>2, CountingUp
  <2> QED
    BY <1>5, <2>3
<1>9. PlainSum(seq) = f[n]
  <2>1. f[n] = it[1..n]
    BY <1>5
  <2> QED
    BY <1>3, <2>1
<1> QED
  BY <1>7, <1>8, <1>9 DEF Running

-------------------------------------------------------------------------------
(* The context that adding all nodes yields.                                   *)

\* The nodes to divide among, by any ids, and the contexts of such nodes.
Entries(I) == [id : I, base : Nat, tmp : Nat, weight : Nat]
Ctxs(U) == [node : Seq(U), weight : Int, total : Int, static : Int, left : Int, loop : Int, pos : Int]

\* The word is not empty.
LEMMA WordIs == Word \in Nat /\ Word > 0 /\ Word \in Int
BY WordAssumption

\* A wrapped sum is a number.
LEMMA PlusInt == ASSUME NEW a \in Int, NEW c \in Int PROVE Plus(a, c) \in Int
<1>1. a + c \in Int
  OBVIOUS
<1> QED
  BY <1>1, WordIs, Division DEF Plus

\* What adding a node does to a context.
LEMMA AddResourceIs ==
  ASSUME NEW I, NEW u \in Entries(I), NEW c \in Ctxs(Entries(I))
  PROVE  /\ AddResource(c, u) \in Ctxs(Entries(I))
         /\ Len(AddResource(c, u).node) = Len(c.node) + 1
         /\ AddResource(c, u).node[1] = u
         /\ \A i \in 1..Len(c.node) : AddResource(c, u).node[i + 1] = c.node[i]
         /\ AddResource(c, u).weight = Plus(c.weight, u.weight)
         /\ AddResource(c, u).total = Plus(c.total, u.tmp)
         /\ AddResource(c, u).static = Plus(c.static, u.base)
         /\ AddResource(c, u).left = 0 /\ AddResource(c, u).loop = 0 /\ AddResource(c, u).pos = 1
<1>1. PICK U : U = Entries(I)
  OBVIOUS
<1>2. u \in U /\ c.node \in Seq(U)
  BY <1>1 DEF Ctxs
<1>3. PICK s \in Seq(U) : s = c.node
  BY <1>2
<1>4. /\ <<u>> \o s \in Seq(U) /\ Len(<<u>> \o s) = Len(s) + 1 /\ (<<u>> \o s)[1] = u
      /\ \A i \in 1..Len(s) : (<<u>> \o s)[i + 1] = s[i]
  <2>1. <<u>> \in Seq(U) /\ Len(<<u>>) = 1 /\ <<u>>[1] = u /\ Len(s) \in Nat
    BY <1>2
  <2>2. /\ <<u>> \o s \in Seq(U) /\ Len(<<u>> \o s) = Len(<<u>>) + Len(s)
        /\ \A i \in 1..(Len(<<u>>) + Len(s)) :
             (<<u>> \o s)[i] = IF i <= Len(<<u>>) THEN <<u>>[i] ELSE s[i - Len(<<u>>)]
    BY <2>1, ConcatProperties
  <2>3. \A i \in 1..Len(s) : i + 1 \in 1..(1 + Len(s)) /\ ~(i + 1 <= 1) /\ (i + 1) - 1 = i
    BY <2>1
  <2> QED
    BY <2>1, <2>2, <2>3
<1>5. /\ Plus(c.weight, u.weight) \in Int /\ Plus(c.total, u.tmp) \in Int
      /\ Plus(c.static, u.base) \in Int
  <2>1. /\ c.weight \in Int /\ c.total \in Int /\ c.static \in Int
        /\ u.weight \in Int /\ u.tmp \in Int /\ u.base \in Int
    BY DEF Entries, Ctxs
  <2> QED
    BY <2>1, PlusInt
<1>6. AddResource(c, u) =
        [node |-> <<u>> \o s, weight |-> Plus(c.weight, u.weight), total |-> Plus(c.total, u.tmp),
         static |-> Plus(c.static, u.base), left |-> 0, loop |-> 0, pos |-> 1]
  BY <1>3 DEF AddResource
<1>7. AddResource(c, u) \in Ctxs(U)
  BY <1>4, <1>5, <1>6 DEF Ctxs
<1> QED
  BY <1>1, <1>3, <1>4, <1>6, <1>7

\* Summed adds the last node first: f has the contexts of the nodes after each.
LEMMA SummedSteps ==
  ASSUME NEW I, NEW n \in Nat, NEW nodes \in [1..n -> Entries(I)]
  PROVE  \E f \in [0..n -> Ctxs(Entries(I))] :
           /\ f[n] = NoContext /\ Summed(nodes) = f[0]
           /\ \A k \in 1..n : f[k - 1] = AddResource(f[k], nodes[k])
<1> DEFINE S == 1..n
           U == Entries(I)
           X == Ctxs(U)
           Adds(it) == it = [s \in SUBSET S |->
                               IF s = {} THEN NoContext
                               ELSE AddResource(it[s \ {Min(s)}], nodes[Min(s)])]
<1>1. Summed(nodes) = (CHOOSE it : Adds(it))[S]
  BY DEF Summed, FoldRight, MapThenFoldSet
<1>0. NoContext \in X
  <2>1. <<>> \in Seq(U)
    OBVIOUS
  <2> HIDE DEF U
  <2> QED
    BY <2>1 DEF NoContext, Ctxs
<1>2. \E it \in [SUBSET S -> X] : Adds(it)
  <2>1. PICK pick : pick = [s \in SUBSET S |-> Min(s)]
    OBVIOUS
  <2>2. PICK step : step = [i \in S |-> [x \in X |-> AddResource(x, nodes[i])]]
    OBVIOUS
  <2>3. step \in [S -> [X -> X]]
    <3>1. \A i \in S, x \in X : AddResource(x, nodes[i]) \in X
      BY AddResourceIs
    <3> HIDE DEF X
    <3>2. \A i \in S : [x \in X |-> AddResource(x, nodes[i])] \in [X -> X]
      BY <3>1
    <3> QED
      BY <2>2, <3>2
  <2>4. IsFiniteSet(S)
    BY FS_Interval
  <2>6. \A i \in S, x \in X : step[i][x] = AddResource(x, nodes[i])
    BY <2>2
  <2>7. ASSUME NEW s \in SUBSET S, s # {} PROVE pick[s] = Min(s) /\ pick[s] \in s
    <3>1. Min(s) \in s
      BY <2>7, EndsExist
    <3>2. pick[s] = Min(s)
      BY <2>1
    <3> QED
      BY <3>1, <3>2
  <2> HIDE DEF S, X
  <2>5. PICK it \in [SUBSET S -> X] : Folding(S, NoContext, pick, step, it)
    BY <1>0, <2>3, <2>4, <2>7, FoldingExists
  <2>8. ASSUME NEW s \in SUBSET S
        PROVE  it[s] = IF s = {} THEN NoContext
                       ELSE AddResource(it[s \ {Min(s)}], nodes[Min(s)])
    <3>1. CASE s # {}
      <4>1. pick[s] = Min(s) /\ Min(s) \in S /\ s \ {Min(s)} \in SUBSET S
        BY <2>7, <3>1
      <4>2. it[s] = step[pick[s]][it[s \ {pick[s]}]]
        BY <2>5, <3>1 DEF Folding
      <4>3. it[s \ {Min(s)}] \in X
        BY <4>1
      <4> QED
        BY <2>6, <3>1, <4>1, <4>2, <4>3
    <3> QED
      BY <2>5, <3>1 DEF Folding
  <2>9. it = [s \in SUBSET S |-> IF s = {} THEN NoContext
                                 ELSE AddResource(it[s \ {Min(s)}], nodes[Min(s)])]
    BY <2>8
  <2> QED
    BY <2>9
<1>3. PICK it : Adds(it) /\ Summed(nodes) = it[S]
  <2> HIDE DEF Adds
  <2> QED
    BY <1>1, <1>2
<1>4. it[{}] = NoContext
  BY <1>3
<1>5. ASSUME NEW k \in 1..n PROVE it[k..n] = AddResource(it[(k + 1)..n], nodes[k])
  <2>1. Min(k..n) = k
    BY Ends
  <2>2. k..n # {} /\ k..n \subseteq S
    <3>1. k \in k..n
      OBVIOUS
    <3>2. k..n \subseteq S
      OBVIOUS
    <3> QED
      BY <3>1, <3>2
  <2>3. (k..n) \ {k} = (k + 1)..n
    OBVIOUS
  <2> QED
    BY <1>3, <2>1, <2>2, <2>3
<1>6. PICK f : f = [k \in 0..n |-> it[(k + 1)..n]]
  OBVIOUS
<1>7. f[n] = NoContext
  <2>1. (n + 1)..n = {}
    OBVIOUS
  <2> QED
    BY <1>4, <1>6, <2>1
<1>8. ASSUME NEW k \in 1..n PROVE f[k - 1] = AddResource(f[k], nodes[k])
  <2>1. k - 1 \in 0..n /\ (k - 1) + 1 = k /\ k \in 0..n
    OBVIOUS
  <2> QED
    BY <1>5, <1>6, <2>1
<1>9. f \in [0..n -> X]
  <2> DEFINE P == {j \in 0..n : f[n - j] \in X}
  <2>1. 0 \in P
    BY <1>0, <1>7
  <2>2. ASSUME NEW j \in 0..(n - 1), j \in P PROVE j + 1 \in P
    <3>1. n - j \in 1..n /\ (n - j) - 1 = n - (j + 1) /\ j + 1 \in 0..n
      OBVIOUS
    <3>2. f[n - (j + 1)] = AddResource(f[n - j], nodes[n - j])
      BY <1>8, <3>1
    <3>3. nodes[n - j] \in U /\ f[n - j] \in X
      BY <2>2, <3>1
    <3>4. AddResource(f[n - j], nodes[n - j]) \in X
      BY <3>3, AddResourceIs
    <3> QED
      BY <3>1, <3>2, <3>4
  <2>3. 0..n \subseteq P
    <3> HIDE DEF P
    <3> QED
      BY <2>1, <2>2, CountingUp
  <2>4. ASSUME NEW k \in 0..n PROVE f[k] \in X
    <3>1. n - k \in 0..n /\ n - (n - k) = k
      OBVIOUS
    <3> QED
      BY <2>3, <3>1
  <2> HIDE DEF X
  <2> QED
    BY <1>6, <2>4
<1>10. Summed(nodes) = f[0]
  <2>1. f[0] = it[(0 + 1)..n]
    BY <1>6
  <2> QED
    BY <1>3, <2>1
<1> QED
  BY <1>7, <1>8, <1>9, <1>10

\* Summed wraps the sums of all.
LEMMA SuffixSum ==
  ASSUME NEW n \in Nat, NEW seq \in [1..n -> Int], NEW w, Running(w, seq, n),
         NEW g \in [0..n -> Int], g[n] = 0, \A k \in 1..n : g[k - 1] = Plus(g[k], seq[k])
  PROVE  g[0] = w[n] % Word
<1> DEFINE P == {j \in 0..n : g[n - j] = (w[n] - w[n - j]) % Word}
<1>0. \A k \in 0..n : w[k] \in Int
  BY DEF Running
<1>1. 0 \in P
  <2>1. w[n] - w[n] = 0 /\ 0 % Word = 0 /\ n - 0 = n
    BY <1>0, WordIs
  <2> QED
    BY <2>1
<1>2. ASSUME NEW j \in 0..(n - 1), j \in P PROVE j + 1 \in P
  <2>1. PICK k \in 1..n : k = n - j /\ k - 1 = n - (j + 1) /\ k - 1 \in 0..n
    OBVIOUS
  <2>2. PICK a \in Int, c \in Int, d \in Int, e \in Int :
          a = w[n] /\ c = w[k] /\ d = w[k - 1] /\ e = seq[k]
    <3>1. w[n] \in Int /\ w[k] \in Int /\ w[k - 1] \in Int
      BY <1>0, <2>1
    <3>2. seq[k] \in Int
      OBVIOUS
    <3> QED
      BY <3>1, <3>2
  <2>3. c = d + e
    BY <2>2 DEF Running
  <2>4. g[k] = (a - c) % Word
    BY <1>2, <2>1, <2>2
  <2>5. (((a - c) % Word) + e) % Word = (a - d) % Word
    <3>1. PICK x \in Int : x = a - c /\ x + e = a - d
      BY <2>3
    <3>2. ((x % Word) + e) % Word = (x + e) % Word
      BY WordIs, RemainderSum
    <3> QED
      BY <3>1, <3>2
  <2>6. g[k - 1] = (a - d) % Word
    BY <2>2, <2>4, <2>5 DEF Plus
  <2> QED
    BY <2>1, <2>2, <2>6
<1>3. n \in P
  <2> HIDE DEF P
  <2>1. 0..n \subseteq P
    BY <1>1, <1>2, CountingUp
  <2> QED
    BY <2>1
<1>4. n - n = 0 /\ w[0] = 0 /\ w[n] - 0 = w[n]
  BY <1>0 DEF Running
<1> QED
  BY <1>3, <1>4

\* The fields of the nodes.
Weights(nodes, n) == [k \in 1..n |-> nodes[k].weight]
Tmps(nodes, n) == [k \in 1..n |-> nodes[k].tmp]
Bases(nodes, n) == [k \in 1..n |-> nodes[k].base]

\* The list is the nodes in their order, and the sums are those of the fields.
LEMMA SummedIs ==
  ASSUME NEW I, NEW n \in Nat, NEW nodes \in [1..n -> Entries(I)],
         NEW w, Running(w, Weights(nodes, n), n),
         NEW t, Running(t, Tmps(nodes, n), n),
         NEW b, Running(b, Bases(nodes, n), n)
  PROVE  Summed(nodes) = [node |-> nodes, weight |-> w[n] % Word, total |-> t[n] % Word,
                          static |-> b[n] % Word, left |-> 0, loop |-> 0, pos |-> 1]
<1>1. PICK f \in [0..n -> Ctxs(Entries(I))] :
           /\ f[n] = NoContext /\ Summed(nodes) = f[0]
           /\ \A k \in 1..n : f[k - 1] = AddResource(f[k], nodes[k])
  BY SummedSteps
<1>2. ASSUME NEW k \in 1..n
      PROVE  /\ f[k] \in Ctxs(Entries(I)) /\ k - 1 \in 0..n
             /\ Len(f[k - 1].node) = Len(f[k].node) + 1
             /\ f[k - 1].node[1] = nodes[k]
             /\ \A i \in 1..Len(f[k].node) : f[k - 1].node[i + 1] = f[k].node[i]
             /\ f[k - 1].weight = Plus(f[k].weight, nodes[k].weight)
             /\ f[k - 1].total = Plus(f[k].total, nodes[k].tmp)
             /\ f[k - 1].static = Plus(f[k].static, nodes[k].base)
             /\ f[k - 1].left = 0 /\ f[k - 1].loop = 0 /\ f[k - 1].pos = 1
  <2>1. f[k] \in Ctxs(Entries(I)) /\ nodes[k] \in Entries(I) /\ k - 1 \in 0..n
    OBVIOUS
  <2> QED
    BY <1>1, <2>1, AddResourceIs
<1>3. \A k \in 0..n : /\ f[k].weight \in Int /\ f[k].total \in Int /\ f[k].static \in Int
                      /\ f[k].node \in Seq(Entries(I))
  BY DEF Ctxs
<1>4. \A k \in 1..n : nodes[k].weight \in Int /\ nodes[k].tmp \in Int /\ nodes[k].base \in Int
  BY DEF Entries
<1>5. f[0].weight = w[n] % Word
  <2>1. PICK g : g = [k \in 0..n |-> f[k].weight]
    OBVIOUS
  <2>2. PICK seq : seq = Weights(nodes, n)
    OBVIOUS
  <2>3. /\ g \in [0..n -> Int] /\ seq \in [1..n -> Int] /\ Running(w, seq, n) /\ g[n] = 0
        /\ \A k \in 1..n : g[k - 1] = Plus(g[k], seq[k])
    BY <1>1, <1>2, <1>3, <1>4, <2>1, <2>2 DEF NoContext, Weights
  <2>4. g[0] = w[n] % Word
    BY <2>3, SuffixSum
  <2> QED
    BY <2>1, <2>4
<1>6. f[0].total = t[n] % Word
  <2>1. PICK g : g = [k \in 0..n |-> f[k].total]
    OBVIOUS
  <2>2. PICK seq : seq = Tmps(nodes, n)
    OBVIOUS
  <2>3. /\ g \in [0..n -> Int] /\ seq \in [1..n -> Int] /\ Running(t, seq, n) /\ g[n] = 0
        /\ \A k \in 1..n : g[k - 1] = Plus(g[k], seq[k])
    BY <1>1, <1>2, <1>3, <1>4, <2>1, <2>2 DEF NoContext, Tmps
  <2>4. g[0] = t[n] % Word
    BY <2>3, SuffixSum
  <2> QED
    BY <2>1, <2>4
<1>7. f[0].static = b[n] % Word
  <2>1. PICK g : g = [k \in 0..n |-> f[k].static]
    OBVIOUS
  <2>2. PICK seq : seq = Bases(nodes, n)
    OBVIOUS
  <2>3. /\ g \in [0..n -> Int] /\ seq \in [1..n -> Int] /\ Running(b, seq, n) /\ g[n] = 0
        /\ \A k \in 1..n : g[k - 1] = Plus(g[k], seq[k])
    BY <1>1, <1>2, <1>3, <1>4, <2>1, <2>2 DEF NoContext, Bases
  <2>4. g[0] = b[n] % Word
    BY <2>3, SuffixSum
  <2> QED
    BY <2>1, <2>4
<1>8. f[0].left = 0 /\ f[0].loop = 0 /\ f[0].pos = 1
  <2>1. CASE n = 0
    BY <1>1, <2>1 DEF NoContext
  <2>2. CASE n # 0
    <3>1. 1 \in 1..n /\ 1 - 1 = 0
      BY <2>2
    <3> QED
      BY <1>2, <3>1
  <2> QED
    BY <2>1, <2>2
<1>9. f[0].node = nodes
  <2> DEFINE P == {j \in 0..n : /\ Len(f[n - j].node) = j
                                /\ \A i \in 1..j : f[n - j].node[i] = nodes[(n - j) + i]}
  <2>1. 0 \in P
    <3>1. n - 0 = n /\ Len(f[n].node) = 0
      BY <1>1 DEF NoContext
    <3> QED
      BY <3>1
  <2>2. ASSUME NEW j \in 0..(n - 1), j \in P PROVE j + 1 \in P
    <3>1. PICK k \in 1..n : k = n - j /\ k - 1 = n - (j + 1)
      OBVIOUS
    <3>2. Len(f[k].node) = j /\ \A i \in 1..j : f[k].node[i] = nodes[k + i]
      BY <2>2, <3>1
    <3>3. Len(f[k - 1].node) = j + 1
      BY <1>2, <3>2
    <3>4. ASSUME NEW i \in 1..(j + 1) PROVE f[k - 1].node[i] = nodes[(k - 1) + i]
      <4>1. CASE i = 1
        <5>1. (k - 1) + 1 = k
          OBVIOUS
        <5> QED
          BY <1>2, <4>1, <5>1
      <4>2. CASE i # 1
        <5>1. i - 1 \in 1..j /\ (i - 1) + 1 = i /\ k + (i - 1) = (k - 1) + i
          BY <4>2
        <5>2. f[k - 1].node[i] = f[k].node[i - 1]
          BY <1>2, <3>2, <5>1
        <5> QED
          BY <3>2, <5>1, <5>2
      <4> QED
        BY <4>1, <4>2
    <3>5. j + 1 \in 0..n
      OBVIOUS
    <3>6. /\ Len(f[n - (j + 1)].node) = j + 1
          /\ \A i \in 1..(j + 1) : f[n - (j + 1)].node[i] = nodes[(n - (j + 1)) + i]
      BY <3>1, <3>3, <3>4
    <3> QED
      BY <3>5, <3>6
  <2>3. n \in P
    <3> HIDE DEF P
    <3>1. 0..n \subseteq P
      BY <2>1, <2>2, CountingUp
    <3> QED
      BY <3>1
  <2>4. Len(f[0].node) = n /\ \A i \in 1..n : f[0].node[i] = nodes[i]
    <3>1. n - n = 0 /\ \A i \in 1..n : 0 + i = i
      OBVIOUS
    <3> QED
      BY <2>3, <3>1
  <2>5. f[0].node \in [1..n -> Entries(I)]
    <3>1. 0 \in 0..n
      OBVIOUS
    <3> QED
      BY <1>3, <2>4, <3>1, LenProperties
  <2> QED
    BY <2>4, <2>5
<1>10. f[0] \in Ctxs(Entries(I))
  OBVIOUS
<1>11. f[0] = [node |-> f[0].node, weight |-> f[0].weight, total |-> f[0].total,
               static |-> f[0].static, left |-> f[0].left, loop |-> f[0].loop, pos |-> f[0].pos]
  BY <1>10 DEF Ctxs
<1> QED
  BY <1>1, <1>5, <1>6, <1>7, <1>8, <1>9, <1>11

-------------------------------------------------------------------------------
(* The shares and what is left after each.                                     *)

\* The sums of natural numbers only grow.
LEMMA RunningUp ==
  ASSUME NEW n \in Nat, NEW seq \in [1..n -> Nat], NEW f, Running(f, seq, n)
  PROVE  \A k \in 0..n : f[k] \in Nat /\ f[k] <= f[n]
<1> DEFINE P == {k \in 0..n : f[k] \in Nat}
           Q == {j \in 0..n : f[n - j] <= f[n]}
<1>0. f \in [0..n -> Int] /\ f[0] = 0 /\ \A k \in 1..n : f[k] = f[k - 1] + seq[k]
  BY DEF Running
<1>1. 0 \in P
  BY <1>0
<1>2. ASSUME NEW k \in 0..(n - 1), k \in P PROVE k + 1 \in P
  <2>1. k + 1 \in 1..n /\ (k + 1) - 1 = k
    OBVIOUS
  <2>2. PICK a \in Nat, c \in Nat : a = f[k] /\ c = seq[k + 1] /\ f[k + 1] = a + c
    BY <1>0, <1>2, <2>1
  <2> QED
    BY <2>1, <2>2
<1>3. 0..n \subseteq P
  <2> HIDE DEF P
  <2> QED
    BY <1>1, <1>2, CountingUp
<1>4. 0 \in Q
  BY <1>0
<1>5. ASSUME NEW j \in 0..(n - 1), j \in Q PROVE j + 1 \in Q
  <2>1. PICK k \in 1..n : k = n - j /\ k - 1 = n - (j + 1) /\ k - 1 \in 0..n
    OBVIOUS
  <2>2. PICK a \in Nat, c \in Nat : a = f[k - 1] /\ c = seq[k] /\ f[k] = a + c
    BY <1>0, <1>3, <2>1
  <2>3. PICK d \in Int : d = f[n] /\ a + c <= d
    BY <1>0, <1>5, <2>1, <2>2
  <2> QED
    BY <2>1, <2>2, <2>3
<1>6. 0..n \subseteq Q
  <2> HIDE DEF Q
  <2> QED
    BY <1>4, <1>5, CountingUp
<1>7. ASSUME NEW k \in 0..n PROVE f[k] <= f[n]
  <2>1. n - k \in 0..n /\ n - (n - k) = k
    OBVIOUS
  <2> QED
    BY <1>6, <2>1
<1> QED
  BY <1>3, <1>7

\* No number is more than the sum, and a part is less than all where all are positive.
LEMMA RunningPart ==
  ASSUME NEW n \in Nat, NEW seq \in [1..n -> Nat], NEW f, Running(f, seq, n), NEW k \in 1..n
  PROVE  /\ f[k] = f[k - 1] + seq[k] /\ seq[k] \in Nat /\ f[k] \in Nat /\ f[k - 1] \in Nat
         /\ seq[k] <= f[n] /\ f[k] <= f[n] /\ f[k - 1] + seq[k] <= f[n]
<1>1. PICK a \in Nat, c \in Nat, d \in Nat :
        a = f[k - 1] /\ c = seq[k] /\ d = f[n] /\ f[k] = a + c /\ a + c <= d
  <2>1. k - 1 \in 0..n /\ k \in 0..n /\ n \in 0..n
    OBVIOUS
  <2>2. f[k - 1] \in Nat /\ f[n] \in Nat /\ f[k] <= f[n] /\ seq[k] \in Nat
    BY <2>1, RunningUp
  <2>3. f[k] = f[k - 1] + seq[k]
    BY DEF Running
  <2> QED
    BY <2>2, <2>3
<1> QED
  BY <1>1

\* A product with a positive factor can be divided by it.
LEMMA Cancel ==
  ASSUME NEW w \in Nat, w > 0, NEW a \in Int, NEW c \in Int
  PROVE  (a * w <= c * w => a <= c) /\ (a * w < c * w => a < c) /\ (a < c => a * w < c * w)
<1>1. PICK d \in Int : d = c - a /\ c = a + d
  OBVIOUS
<1>2. c * w = a * w + d * w
  BY <1>1
<1>3. d > 0 => d * w > 0
  OBVIOUS
<1>4. d < 0 => d * w < 0
  OBVIOUS
<1>5. d = 0 => d * w = 0
  OBVIOUS
<1>6. PICK x \in Int, y \in Int, z \in Int : x = a * w /\ y = c * w /\ z = d * w
  OBVIOUS
<1> QED
  BY <1>1, <1>2, <1>3, <1>4, <1>5, <1>6

\* A positive factor keeps the order.
LEMMA Scaled ==
  ASSUME NEW l \in Nat, l > 0, NEW a \in Int, NEW c \in Int, a < c PROVE l * a < l * c
BY Cancel

\* Nor does it change the order of the factors.
LEMMA CancelAtMost ==
  ASSUME NEW w \in Nat, w > 0, NEW a \in Nat, NEW c \in Nat, a * w <= c * w PROVE a <= c
BY Cancel
\* The same for less.
LEMMA CancelBelow ==
  ASSUME NEW w \in Nat, w > 0, NEW a \in Nat, NEW c \in Nat, a * w < c * w PROVE a < c
BY Cancel

\* A quotient of natural numbers is one.
LEMMA Quotient == ASSUME NEW w \in Nat, w > 0, NEW p \in Nat PROVE p \div w \in Nat
<1>1. PICK c \in Int, m \in 0..(w - 1) : c = p \div w /\ p = w * c + m
  BY Division
<1>2. c < 0 => w * c <= - w
  <2>1. PICK d \in Int : d = - c - 1 /\ c = - d - 1
    OBVIOUS
  <2>2. w * c = - (w * d) - w
    BY <2>1
  <2>3. d >= 0 => w * d >= 0
    OBVIOUS
  <2>4. PICK x \in Int, y \in Int : x = w * c /\ y = w * d
    OBVIOUS
  <2> QED
    BY <2>1, <2>2, <2>3, <2>4
<1>3. PICK x \in Int : x = w * c
  OBVIOUS
<1> QED
  BY <1>1, <1>2, <1>3

\* The part x of a weight W has in L.
ShareOf(L, x, W) == (L * x) \div W

\* Rounded shares of L by the weights: the sum of the first k is at most k short.
LEMMA SharesBound ==
  ASSUME NEW n \in Nat, NEW W \in Nat, W > 0, NEW L \in Nat,
         NEW weights \in [1..n -> Nat], NEW w, Running(w, weights, n),
         NEW s \in [1..n -> Nat], \A k \in 1..n : s[k] = ShareOf(L, weights[k], W),
         NEW r, Running(r, s, n)
  PROVE  \A k \in 0..n : r[k] * W <= L * w[k] /\ L * w[k] <= r[k] * W + k * (W - 1)
<1> DEFINE P == {k \in 0..n : r[k] * W <= L * w[k] /\ L * w[k] <= r[k] * W + k * (W - 1)}
<1>0. \A k \in 0..n : r[k] \in Int /\ w[k] \in Int
  BY DEF Running
<1>1. 0 \in P
  <2>1. r[0] = 0 /\ w[0] = 0 /\ 0 * W = 0 /\ L * 0 = 0 /\ 0 * (W - 1) = 0
    BY DEF Running
  <2> QED
    BY <2>1
<1>2. ASSUME NEW k \in 0..(n - 1), k \in P PROVE k + 1 \in P
  <2>1. k + 1 \in 1..n /\ (k + 1) - 1 = k /\ k \in 0..n /\ k + 1 \in 0..n
    OBVIOUS
  <2>2. PICK x \in Nat : x = weights[k + 1]
    BY <2>1
  <2>3. PICK p \in Int : p = L * x
    OBVIOUS
  <2>4. PICK c \in Int, m \in 0..(W - 1) : c = p \div W /\ p = W * c + m
    BY Division
  <2>5. s[k + 1] = c
    <3>1. s[k + 1] = ShareOf(L, x, W)
      BY <2>1, <2>2
    <3> QED
      BY <2>3, <2>4, <3>1 DEF ShareOf
  <2>6. PICK a \in Int, b \in Int : a = r[k] /\ b = w[k]
    BY <1>0, <2>1
  <2>7. r[k + 1] = a + c /\ w[k + 1] = b + x
    BY <2>1, <2>2, <2>5, <2>6 DEF Running
  <2>8. a * W <= L * b /\ L * b <= a * W + k * (W - 1)
    BY <1>2, <2>6
  <2>9. (a + c) * W = a * W + W * c
    OBVIOUS
  <2>10. L * (b + x) = L * b + p
    BY <2>3
  <2>11. (k + 1) * (W - 1) = k * (W - 1) + (W - 1)
    OBVIOUS
  <2>12. PICK e \in Int, g \in Int, h \in Int, j \in Int :
           e = a * W /\ g = L * b /\ h = k * (W - 1) /\ j = W * c
    OBVIOUS
  <2>13. e + j <= g + p /\ g + p <= (e + j) + (h + (W - 1))
    BY <2>4, <2>8, <2>12
  <2>14. (a + c) * W <= L * (b + x) /\ L * (b + x) <= (a + c) * W + (k + 1) * (W - 1)
    BY <2>9, <2>10, <2>11, <2>12, <2>13
  <2> QED
    BY <2>1, <2>7, <2>14
<1>3. 0..n \subseteq P
  <2> HIDE DEF P
  <2> QED
    BY <1>1, <1>2, CountingUp
<1> QED
  BY <1>3

\* The sum of positive weights is positive, and a part of it is less.
LEMMA WeightPositive ==
  ASSUME NEW n \in Nat, n > 0, NEW weights \in [1..n -> Nat \ {0}], NEW w, Running(w, weights, n)
  PROVE  w[n] \in Nat /\ w[n] > 0 /\ \A k \in 0..(n - 1) : w[k] \in Nat /\ w[k] < w[n]
<1>0. weights \in [1..n -> Nat]
  OBVIOUS
<1>1. ASSUME NEW k \in 0..(n - 1) PROVE w[k] \in Nat /\ w[k] < w[n]
  <2>1. k + 1 \in 1..n /\ (k + 1) - 1 = k
    OBVIOUS
  <2>2. PICK a \in Nat, c \in Nat : a = w[k] /\ c = weights[k + 1] /\ a + c <= w[n]
    BY <1>0, <2>1, RunningPart
  <2>3. c > 0
    BY <2>1, <2>2
  <2>4. w[n] \in Nat
    <3>1. n \in 0..n
      OBVIOUS
    <3> QED
      BY <1>0, <3>1, RunningUp
  <2> QED
    BY <2>2, <2>3, <2>4
<1>2. PICK a \in Nat : a = w[0] /\ a < w[n]
  <2>1. 0 \in 0..(n - 1)
    OBVIOUS
  <2> QED
    BY <1>1, <2>1
<1>3. w[n] \in Nat
  <2>1. n \in 0..n
    OBVIOUS
  <2> QED
    BY <1>0, <2>1, RunningUp
<1> QED
  BY <1>1, <1>2, <1>3

\* Shares are natural numbers.
LEMMA SharesType ==
  ASSUME NEW n \in Nat, NEW W \in Nat, W > 0, NEW L \in Nat, NEW weights \in [1..n -> Nat]
  PROVE  \A k \in 1..n : ShareOf(L, weights[k], W) \in Nat
<1>1. ASSUME NEW k \in 1..n PROVE ShareOf(L, weights[k], W) \in Nat
  <2>1. PICK p \in Nat : p = L * weights[k]
    <3>1. PICK x \in Nat : x = weights[k]
      OBVIOUS
    <3> QED
      BY <3>1
  <2>2. p \div W \in Nat
    BY Quotient
  <2> QED
    BY <2>1, <2>2 DEF ShareOf
<1> QED
  BY <1>1

\* So rounding leaves less than one token for each, and nothing is out before the last.
LEMMA RestBound ==
  ASSUME NEW n \in Nat, n > 0, NEW L \in Nat, L > 0,
         NEW weights \in [1..n -> Nat \ {0}], NEW w \in [0..n -> Int], Running(w, weights, n),
         NEW s \in [1..n -> Nat], \A k \in 1..n : s[k] = ShareOf(L, weights[k], w[n]),
         NEW r \in [0..n -> Int], Running(r, s, n)
  PROVE  /\ r[n] \in Nat /\ L - r[n] \in 0..(n - 1)
         /\ \A k \in 0..(n - 1) : r[k] \in Nat /\ r[k] < L
<1>0. weights \in [1..n -> Nat]
  OBVIOUS
<1>2. PICK W \in Nat : W = w[n] /\ W > 0
  BY WeightPositive
<1>1. \A k \in 0..(n - 1) : w[k] \in Nat /\ w[k] < W
  BY <1>2, WeightPositive
<1>3. s \in [1..n -> Nat]
  OBVIOUS
<1>4. \A k \in 0..n : r[k] \in Nat
  BY <1>3, RunningUp
<1>5. \A k \in 0..n : r[k] * W <= L * w[k] /\ L * w[k] <= r[k] * W + k * (W - 1)
  BY <1>0, <1>2, SharesBound
<1>6. r[n] <= L /\ L < r[n] + n
  <2>0. n \in 0..n
    OBVIOUS
  <2>1. PICK a \in Nat : a = r[n]
    BY <1>4, <2>0
  <2>2. a * W <= L * W /\ L * W <= a * W + n * (W - 1)
    BY <1>2, <1>5, <2>0, <2>1
  <2>3. n * (W - 1) < n * W
    <3>1. n * (W - 1) = n * W - n
      OBVIOUS
    <3>2. PICK x \in Int : x = n * W
      OBVIOUS
    <3> QED
      BY <3>1, <3>2
  <2>4. (a + n) * W = a * W + n * W
    OBVIOUS
  <2>5. L * W < (a + n) * W
    <3>1. L * W \in Int /\ a * W \in Int /\ n * (W - 1) \in Int /\ n * W \in Int
      OBVIOUS
    <3>2. PICK x \in Int, y \in Int, z \in Int, u \in Int :
            x = L * W /\ y = a * W /\ z = n * (W - 1) /\ u = n * W
      BY <3>1
    <3>3. x <= y + z /\ z < u
      BY <2>2, <2>3, <3>2
    <3>4. x < y + u
      BY <3>3
    <3> QED
      BY <2>4, <3>2, <3>4
  <2>6. a <= L
    BY <1>2, <2>2, CancelAtMost
  <2>8. a + n \in Nat
    OBVIOUS
  <2>7. L < a + n
    BY <1>2, <2>5, <2>8, CancelBelow
  <2> QED
    BY <2>1, <2>6, <2>7
<1>7. ASSUME NEW k \in 0..(n - 1) PROVE r[k] < L
  <2>0. k \in 0..n
    OBVIOUS
  <2>1. PICK a \in Nat, b \in Nat : a = r[k] /\ b = w[k] /\ b < W
    BY <1>1, <1>4, <2>0
  <2>2. a * W <= L * b
    BY <1>2, <1>5, <2>0, <2>1
  <2>3. L * b < L * W
    BY <2>1, Scaled
  <2>4. a * W < L * W
    <3>0. a * W \in Int /\ L * b \in Int /\ L * W \in Int
      OBVIOUS
    <3>1. PICK x \in Int, y \in Int, z \in Int : x = a * W /\ y = L * b /\ z = L * W
      BY <3>0
    <3>2. x <= y /\ y < z
      BY <2>2, <2>3, <3>1
    <3>3. x < z
      BY <3>2
    <3> QED
      BY <3>1, <3>3
  <2> QED
    BY <1>2, <2>1, <2>4, CancelBelow
<1>8. r[n] \in Nat /\ L - r[n] \in 0..(n - 1)
  <2>1. n \in 0..n
    OBVIOUS
  <2>2. PICK a \in Nat : a = r[n] /\ a <= L /\ L < a + n
    BY <1>4, <1>6, <2>1
  <2>3. PICK d \in Int : d = L - a /\ 0 <= d /\ d <= n - 1
    BY <2>2
  <2> QED
    BY <2>2, <2>3
<1>9. \A k \in 0..(n - 1) : k \in 0..n
  OBVIOUS
<1> QED
  BY <1>4, <1>7, <1>8, <1>9

-------------------------------------------------------------------------------
(* The turns of the loops.                                                     *)

\* A turn, or none once update is over.
Turn(c) == IF c.loop = 3 THEN c ELSE Divide(c)

\* Divided makes them one after the other.
LEMMA DividedSteps ==
  ASSUME NEW n \in Nat, NEW nodes, Len(nodes) = n
  PROVE  \E f : /\ f[0] = Begun(Summed(nodes))
                /\ \A k \in 1..(2 * n) : f[k] = Turn(f[k - 1])
                /\ Divided(nodes) = f[2 * n].node
<1> DEFINE N == 2 * n
           B == Begun(Summed(nodes))
           Is(f, m) == f = [k \in 0..m |-> IF k = 0 THEN B
                                           ELSE IF f[k - 1].loop = 3 THEN f[k - 1]
                                           ELSE Divide(f[k - 1])]
           P == {m \in 0..N : \E f : Is(f, m)}
<1>0. N \in Nat
  OBVIOUS
<1>1. 0 \in P
  <2>1. Is([k \in 0..0 |-> B], 0)
    OBVIOUS
  <2> HIDE DEF Is
  <2> QED
    BY <1>0, <2>1
<1>2. ASSUME NEW m \in 0..(N - 1), m \in P PROVE m + 1 \in P
  <2>1. PICK f : Is(f, m)
    BY <1>2
  <2>2. PICK g : g = [k \in 0..(m + 1) |-> IF k <= m THEN f[k] ELSE Turn(f[m])]
    OBVIOUS
  <2>3. ASSUME NEW k \in 0..(m + 1)
        PROVE  g[k] = IF k = 0 THEN B
                      ELSE IF g[k - 1].loop = 3 THEN g[k - 1] ELSE Divide(g[k - 1])
    <3>1. CASE k = 0
      <4>1. 0 \in 0..m /\ 0 \in 0..(m + 1) /\ 0 <= m
        OBVIOUS
      <4>2. g[0] = f[0] /\ f[0] = B
        BY <2>1, <2>2, <4>1
      <4> QED
        BY <3>1, <4>2
    <3>2. CASE k # 0 /\ k <= m
      <4>1. k \in 0..m /\ k - 1 \in 0..(m + 1) /\ k - 1 <= m
        BY <3>2
      <4>2. g[k] = f[k] /\ g[k - 1] = f[k - 1]
        BY <2>2, <3>2, <4>1
      <4>3. f[k] = IF f[k - 1].loop = 3 THEN f[k - 1] ELSE Divide(f[k - 1])
        BY <2>1, <3>2, <4>1
      <4> QED
        BY <3>2, <4>2, <4>3
    <3>3. CASE k = m + 1
      <4>1. k - 1 = m /\ ~(k <= m) /\ m \in 0..(m + 1) /\ m <= m /\ k # 0
        BY <3>3
      <4>2. g[k] = Turn(f[m]) /\ g[k - 1] = f[m]
        BY <2>2, <4>1
      <4> QED
        BY <4>1, <4>2 DEF Turn
    <3> QED
      BY <3>1, <3>2, <3>3
  <2>4. g = [k \in 0..(m + 1) |-> IF k = 0 THEN B
                                  ELSE IF g[k - 1].loop = 3 THEN g[k - 1] ELSE Divide(g[k - 1])]
    BY <2>2, <2>3
  <2>5. m + 1 \in 0..N
    BY <1>0
  <2> QED
    BY <2>4, <2>5
<1>3. N \in P
  <2> HIDE DEF P, N
  <2>1. 0..N \subseteq P
    BY <1>0, <1>1, <1>2, CountingUp
  <2> QED
    BY <1>0, <2>1
<1>4. Divided(nodes) = (CHOOSE f : Is(f, N))[N].node
  BY DEF Divided
<1>5. PICK f : Is(f, N) /\ Divided(nodes) = f[N].node
  <2> HIDE DEF Is
  <2> QED
    BY <1>3, <1>4
<1>6. f[0] = B
  BY <1>0, <1>5
<1>7. ASSUME NEW k \in 1..N PROVE f[k] = Turn(f[k - 1])
  <2>1. k \in 0..N /\ k # 0
    BY <1>0
  <2> QED
    BY <1>5, <2>1 DEF Turn
<1> QED
  BY <1>5, <1>6, <1>7

\* A list with another tmp in one node.
SetTmp(d, i, q) == [d EXCEPT ![i].tmp = q]

\* A record with the fields of a context.
IsContext(c) ==
  c = [node |-> c.node, weight |-> c.weight, total |-> c.total, static |-> c.static,
       left |-> c.left, loop |-> c.loop, pos |-> c.pos]

\* What is left after a turn, and whether it was the loop's last.
LeftAfter(c) ==
  Minus(c.left, Minus(NextQuota(c), IF c.loop = 1 THEN Current(c).base ELSE Current(c).tmp))
Over(c) == LeftAfter(c) = 0 \/ c.pos = Len(c.node)

\* What a turn makes of a context, field by field.
LEMMA DivideIs ==
  ASSUME NEW c, IsContext(c)
  PROVE  Divide(c) = [node |-> SetTmp(c.node, c.pos, NextQuota(c)), weight |-> c.weight,
                      total |-> c.total, static |-> c.static, left |-> LeftAfter(c),
                      loop |-> IF Over(c) THEN c.loop + 1 ELSE c.loop,
                      pos |-> IF Over(c) THEN 1 ELSE c.pos + 1]
<1>1. PICK q, l, x, y : /\ q = NextQuota(c) /\ l = LeftAfter(c)
                        /\ x = (IF Over(c) THEN c.loop + 1 ELSE c.loop)
                        /\ y = (IF Over(c) THEN 1 ELSE c.pos + 1)
  OBVIOUS
<1>2. Divide(c) = [c EXCEPT !.node[c.pos].tmp = q, !.left = l, !.loop = x, !.pos = y]
  BY <1>1 DEF Divide, LeftAfter, Over
<1>3. PICK e : e = SetTmp(c.node, c.pos, q)
  OBVIOUS
<1>4. [c EXCEPT !.node[c.pos].tmp = q, !.left = l, !.loop = x, !.pos = y]
        = [c EXCEPT !.node = [c.node EXCEPT ![c.pos].tmp = q], !.left = l, !.loop = x, !.pos = y]
  OBVIOUS
<1>5. [c.node EXCEPT ![c.pos].tmp = q] = e
  BY <1>3 DEF SetTmp
<1>6. [c EXCEPT !.node = e, !.left = l, !.loop = x, !.pos = y]
        = [node |-> e, weight |-> c.weight, total |-> c.total, static |-> c.static,
           left |-> l, loop |-> x, pos |-> y]
  <2>1. PICK c2 : c2 = [c EXCEPT !.node = e, !.left = l, !.loop = x, !.pos = y]
    OBVIOUS
  <2>2. c = [node |-> c.node, weight |-> c.weight, total |-> c.total, static |-> c.static,
             left |-> c.left, loop |-> c.loop, pos |-> c.pos]
    BY DEF IsContext
  <2>3. /\ c2.node = e /\ c2.weight = c.weight /\ c2.total = c.total /\ c2.static = c.static
        /\ c2.left = l /\ c2.loop = x /\ c2.pos = y
    BY <2>1, <2>2
  <2>4. c2 = [node |-> c2.node, weight |-> c2.weight, total |-> c2.total, static |-> c2.static,
              left |-> c2.left, loop |-> c2.loop, pos |-> c2.pos]
    BY <2>1, <2>2
  <2> QED
    BY <2>1, <2>3, <2>4
<1> QED
  BY <1>1, <1>2, <1>3, <1>4, <1>5, <1>6

-------------------------------------------------------------------------------
(* The quotas that come out.                                                   *)

\* A number below the word wraps to itself.
LEMMA Fits == ASSUME NEW x \in Nat, x < Word PROVE x % Word = x
<1>1. x = x + 0 * Word /\ x \in 0..(Word - 1)
  BY WordIs
<1> QED
  BY <1>1, WordIs, RemainderIs

\* The nodes after k turns of the first loop: the first k have their shares.
Given(nodes, n, s, k) ==
  [i \in 1..n |-> [nodes[i] EXCEPT !.tmp = IF i <= k THEN nodes[i].base + s[i] ELSE @]]

\* The context then.  After the n-th turn the second loop begins.
After(nodes, n, s, r, W, T, B, k) ==
  [node |-> Given(nodes, n, s, k), weight |-> W, total |-> T, static |-> B,
   left |-> (T - B) - r[k], loop |-> IF k = n THEN 2 ELSE 1, pos |-> IF k = n THEN 1 ELSE k + 1]

\* One more node has its share.
LEMMA GivenNext ==
  ASSUME NEW I, NEW n \in Nat, NEW nodes \in [1..n -> Entries(I)], NEW s \in [1..n -> Nat],
         NEW k \in 0..(n - 1)
  PROVE  SetTmp(Given(nodes, n, s, k), k + 1, nodes[k + 1].base + s[k + 1])
           = Given(nodes, n, s, k + 1)
<1>1. PICK d : d = Given(nodes, n, s, k)
  OBVIOUS
<1>2. \A i \in 1..n : d[i] = [nodes[i] EXCEPT !.tmp = IF i <= k THEN nodes[i].base + s[i] ELSE @]
  BY <1>1 DEF Given
<1>3. k + 1 \in 1..n
  OBVIOUS
<1>4. PICK e : e = [d EXCEPT ![k + 1].tmp = nodes[k + 1].base + s[k + 1]]
  OBVIOUS
<1>5. d = [i \in 1..n |-> d[i]]
  BY <1>1 DEF Given
<1>6. e = [i \in 1..n |-> IF i = k + 1 THEN [d[k + 1] EXCEPT !.tmp = nodes[k + 1].base + s[k + 1]]
                          ELSE d[i]]
  BY <1>4, <1>5
<1>7. ASSUME NEW i \in 1..n
      PROVE  e[i] = [nodes[i] EXCEPT !.tmp = IF i <= k + 1 THEN nodes[i].base + s[i] ELSE @]
  <2>1. CASE i = k + 1
    <3>1. i <= k + 1 /\ ~(i <= k)
      BY <2>1
    <3>2. d[i] = [nodes[i] EXCEPT !.tmp = nodes[i].tmp]
      BY <1>2, <3>1
    <3>3. e[i] = [d[i] EXCEPT !.tmp = nodes[i].base + s[i]]
      BY <1>6, <2>1
    <3>4. PICK u \in Entries(I) : u = nodes[i]
      OBVIOUS
    <3>5. d[i] = u
      BY <3>2, <3>4 DEF Entries
    <3> QED
      BY <3>1, <3>3, <3>4, <3>5
  <2>2. CASE i # k + 1
    <3>1. (i <= k + 1) <=> (i <= k)
      BY <2>2
    <3>2. e[i] = d[i]
      BY <1>6, <2>2
    <3> QED
      BY <1>2, <3>1, <3>2
  <2> QED
    BY <2>1, <2>2
<1>8. e = [i \in 1..n |-> [nodes[i] EXCEPT !.tmp = IF i <= k + 1 THEN nodes[i].base + s[i] ELSE @]]
  BY <1>6, <1>7
<1> QED
  BY <1>1, <1>4, <1>8 DEF Given, SetTmp

\* The conditions under which the turns are followed: sums w, t, b of the weights, of the
\* quotas above the base and of the bases, and r of the shares s.
Splitting(I, nodes, n, w, t, b, s, r) ==
  /\ n > 0 /\ nodes \in [1..n -> Entries(I)]
  /\ Running(w, Weights(nodes, n), n)
  /\ Running(t, Tmps(nodes, n), n)
  /\ Running(b, Bases(nodes, n), n)
  /\ b[n] < t[n] /\ t[n] < Word /\ w[n] < Word
  /\ \A k \in 1..n : nodes[k].weight > 0 /\ (t[n] - b[n]) * nodes[k].weight < Word
  /\ s = [k \in 1..n |-> ShareOf(t[n] - b[n], nodes[k].weight, w[n])]
  /\ Running(r, s, n)

\* The numbers of a division, and that they are in range.
LEMMA SplittingIs ==
  ASSUME NEW I, NEW n \in Nat, NEW nodes, NEW w, NEW t, NEW b, NEW s, NEW r,
         Splitting(I, nodes, n, w, t, b, s, r)
  PROVE  /\ w[n] \in Nat /\ w[n] > 0 /\ w[n] < Word
         /\ t[n] \in Nat /\ b[n] \in Nat /\ t[n] < Word /\ t[n] - b[n] \in Nat /\ t[n] - b[n] > 0
         /\ s \in [1..n -> Nat] /\ r[n] \in Nat /\ (t[n] - b[n]) - r[n] \in 0..(n - 1)
         /\ \A k \in 0..(n - 1) : r[k] \in Nat /\ r[k] < t[n] - b[n]
         /\ \A k \in 1..n : /\ nodes[k].base \in Nat /\ nodes[k].weight \in Nat
                            /\ nodes[k].tmp \in Nat /\ nodes[k].base <= b[n]
                            /\ r[k] = r[k - 1] + s[k] /\ r[k] \in Nat /\ r[k - 1] \in Nat
                            /\ s[k] \in Nat /\ r[k] <= r[n] /\ s[k] <= r[k]
<1> USE DEF Splitting
<1>1. PICK weights, tmps, bases :
        /\ weights = [k \in 1..n |-> nodes[k].weight] /\ Running(w, weights, n)
        /\ tmps = [k \in 1..n |-> nodes[k].tmp] /\ Running(t, tmps, n)
        /\ bases = [k \in 1..n |-> nodes[k].base] /\ Running(b, bases, n)
  BY DEF Weights, Tmps, Bases
<1>2. \A k \in 1..n : nodes[k].base \in Nat /\ nodes[k].weight \in Nat /\ nodes[k].tmp \in Nat
  BY DEF Entries
<1>3. weights \in [1..n -> Nat] /\ tmps \in [1..n -> Nat] /\ bases \in [1..n -> Nat]
  BY <1>1, <1>2
<1>4. w[n] \in Nat /\ t[n] \in Nat /\ b[n] \in Nat
  <2>1. n \in 0..n
    OBVIOUS
  <2> QED
    BY <1>1, <1>3, <2>1, RunningUp
<1>5. PICK L \in Nat, W \in Nat : L = t[n] - b[n] /\ L > 0 /\ W = w[n]
  BY <1>4
<1>6. s = [k \in 1..n |-> ShareOf(L, weights[k], W)]
  BY <1>1, <1>5
<1>11. Running(r, s, n)
  OBVIOUS
<1>12. Running(w, weights, n) /\ w[n] = W
  BY <1>1, <1>5
<1>7. weights \in [1..n -> Nat \ {0}]
  <2>1. \A k \in 1..n : weights[k] \in Nat /\ weights[k] > 0
    BY <1>1, <1>3
  <2>2. weights = [k \in 1..n |-> weights[k]]
    BY <1>3
  <2> HIDE DEF Splitting
  <2> QED
    BY <2>1, <2>2
<1>13. n > 0
  BY DEF Splitting
<1> HIDE DEF Splitting
<1>14. W > 0
  BY <1>5, <1>7, <1>12, <1>13, WeightPositive
<1>15. s \in [1..n -> Nat]
  <2>1. \A k \in 1..n : ShareOf(L, weights[k], W) \in Nat
    BY <1>3, <1>14, SharesType
  <2> QED
    BY <1>6, <2>1
<1>16. \A k \in 1..n : s[k] = ShareOf(L, weights[k], W)
  BY <1>6
<1>8. /\ r[n] \in Nat /\ L - r[n] \in 0..(n - 1)
      /\ \A k \in 0..(n - 1) : r[k] \in Nat /\ r[k] < L
  <2>1. w \in [0..n -> Int] /\ r \in [0..n -> Int]
    BY <1>11, <1>12 DEF Running
  <2>2. \A k \in 1..n : s[k] = ShareOf(L, weights[k], w[n])
    BY <1>12, <1>16
  <2>3. Running(w, weights, n) /\ L > 0
    BY <1>5, <1>12
  <2> QED
    BY <1>7, <1>11, <1>13, <1>15, <2>1, <2>2, <2>3, RestBound
<1>9. ASSUME NEW k \in 1..n
      PROVE  /\ nodes[k].base <= b[n]
             /\ r[k] = r[k - 1] + s[k] /\ r[k] \in Nat /\ r[k - 1] \in Nat
             /\ s[k] \in Nat /\ r[k] <= r[n] /\ s[k] <= r[k]
  <2>1. bases[k] <= b[n]
    BY <1>1, <1>3, RunningPart
  <2>2. /\ r[k] = r[k - 1] + s[k] /\ r[k] \in Nat /\ r[k - 1] \in Nat
        /\ s[k] \in Nat /\ r[k] <= r[n]
    BY <1>11, <1>15, RunningPart
  <2>3. PICK x \in Nat, y \in Nat : x = r[k - 1] /\ y = s[k] /\ r[k] = x + y
    BY <2>2
  <2> QED
    BY <1>1, <2>1, <2>2, <2>3
<1>10. w[n] < Word /\ t[n] < Word
  BY DEF Splitting
<1> QED
  BY <1>2, <1>4, <1>5, <1>8, <1>9, <1>10, <1>14, <1>15

\* The turns give the nodes their shares one by one.
LEMMA FirstTurns ==
  ASSUME NEW I, NEW n \in Nat, NEW nodes, NEW w, NEW t, NEW b, NEW s, NEW r,
         Splitting(I, nodes, n, w, t, b, s, r), NEW k \in 0..(n - 1)
  PROVE  Divide(After(nodes, n, s, r, w[n], t[n], b[n], k))
           = After(nodes, n, s, r, w[n], t[n], b[n], k + 1)
<1>1. PICK c, d : c = After(nodes, n, s, r, w[n], t[n], b[n], k) /\ d = Given(nodes, n, s, k)
  OBVIOUS
<1>2. k + 1 \in 1..n /\ (k + 1) - 1 = k /\ k # n /\ n > 0
  OBVIOUS
<1>3. PICK W \in Nat, T \in Nat, B \in Nat, L \in Nat :
        /\ W = w[n] /\ T = t[n] /\ B = b[n] /\ L = T - B /\ W > 0 /\ W < Word /\ T < Word /\ L > 0
        /\ L - r[n] >= 0 /\ r[n] \in Nat
  <2>1. /\ w[n] \in Nat /\ w[n] > 0 /\ w[n] < Word
        /\ t[n] \in Nat /\ b[n] \in Nat /\ t[n] < Word /\ t[n] - b[n] \in Nat /\ t[n] - b[n] > 0
    BY SplittingIs
  <2>2. r[n] \in Nat /\ (t[n] - b[n]) - r[n] \in 0..(n - 1)
    BY SplittingIs
  <2>3. (t[n] - b[n]) - r[n] >= 0
    BY <2>2
  <2> QED
    BY <2>1, <2>2, <2>3
<1>4. PICK base \in Nat, weight \in Nat, share \in Nat, before \in Nat, after \in Nat :
        /\ base = nodes[k + 1].base /\ weight = nodes[k + 1].weight /\ share = s[k + 1]
        /\ before = r[k] /\ after = r[k + 1] /\ after = before + share
        /\ base <= B /\ after <= L
  <2>1. /\ nodes[k + 1].base \in Nat /\ nodes[k + 1].weight \in Nat
        /\ nodes[k + 1].base <= b[n]
        /\ r[k + 1] = r[k] + s[k + 1] /\ r[k + 1] \in Nat /\ r[k] \in Nat
        /\ s[k + 1] \in Nat /\ r[k + 1] <= r[n]
    <3>1. \A i \in 1..n : /\ nodes[i].base \in Nat /\ nodes[i].weight \in Nat
                          /\ nodes[i].tmp \in Nat /\ nodes[i].base <= b[n]
                          /\ r[i] = r[i - 1] + s[i] /\ r[i] \in Nat /\ r[i - 1] \in Nat
                          /\ s[i] \in Nat /\ r[i] <= r[n] /\ s[i] <= r[i]
      BY SplittingIs
    <3> QED
      BY <1>2, <3>1
  <2>2. r[k + 1] <= L
    <3>1. PICK x \in Nat, y \in Nat : x = r[k + 1] /\ y = r[n] /\ x <= y /\ L - y >= 0
      BY <1>3, <2>1
    <3> QED
      BY <3>1
  <2> QED
    BY <1>3, <2>1, <2>2
<1>5. after < L \/ k + 1 = n
  <2>1. CASE k + 1 # n
    <3>1. k + 1 \in 0..(n - 1)
      BY <2>1
    <3>2. r[k + 1] < t[n] - b[n]
      BY <3>1, SplittingIs
    <3> QED
      BY <1>3, <1>4, <3>2
  <2> QED
    BY <2>1
<1>6. c = [node |-> d, weight |-> W, total |-> T, static |-> B, left |-> L - before, loop |-> 1,
           pos |-> k + 1]
  BY <1>1, <1>2, <1>3, <1>4 DEF After
<1>7. Len(d) = n /\ d[k + 1].base = base /\ d[k + 1].weight = weight
  <2>1. d = [i \in 1..n |-> [nodes[i] EXCEPT !.tmp = IF i <= k THEN nodes[i].base + s[i] ELSE @]]
    BY <1>1 DEF Given
  <2>2. Len(d) = n
    BY <2>1
  <2>3. nodes[k + 1] \in Entries(I)
    BY <1>2 DEF Splitting
  <2>4. d[k + 1].base = nodes[k + 1].base /\ d[k + 1].weight = nodes[k + 1].weight
    BY <1>2, <2>1, <2>3 DEF Entries
  <2> QED
    BY <1>4, <2>2, <2>4
<1>8. NextQuota(c) = base + share
  <2>1. LeftBase(c) = L
    <3>1. LeftBase(c) = L % Word
      BY <1>3, <1>6 DEF LeftBase, Minus
    <3>2. L < Word
      BY <1>3, WordIs
    <3> QED
      BY <3>1, <3>2, Fits
  <2>2. Current(c).weight = weight /\ Current(c).base = base /\ c.weight = W /\ c.loop = 1
    BY <1>6, <1>7 DEF Current
  <2>3. PICK p \in Nat : p = L * weight /\ p < Word
    <3>1. (t[n] - b[n]) * nodes[k + 1].weight < Word
      BY <1>2 DEF Splitting
    <3>2. L * weight < Word
      BY <1>3, <1>4, <3>1
    <3>3. L * weight \in Nat
      OBVIOUS
    <3> QED
      BY <3>2, <3>3
  <2>4. p % Word = p
    BY <2>3, Fits
  <2>5. s[k + 1] = ShareOf(t[n] - b[n], nodes[k + 1].weight, w[n])
    BY <1>2 DEF Splitting
  <2>6. p \div W = share
    <3>1. share = ShareOf(L, weight, W)
      BY <1>3, <1>4, <2>5
    <3> QED
      BY <2>3, <3>1 DEF ShareOf
  <2>7. share + base \in Nat /\ share + base < Word
    BY <1>3, <1>4, WordIs
  <2>8. Plus(share, base) = share + base
    BY <2>7, Fits DEF Plus
  <2>9. NextQuota(c) = Plus((p % Word) \div W, base)
    BY <2>1, <2>2, <2>3 DEF NextQuota
  <2> QED
    BY <2>4, <2>6, <2>8, <2>9
<1>9. Minus(L - before, Minus(base + share, base)) = L - after
  <2>1. (base + share) - base = share /\ share < Word
    BY <1>3, <1>4, WordIs
  <2>2. Minus(base + share, base) = share
    BY <2>1, Fits DEF Minus
  <2>3. PICK x \in Nat : x = L - after /\ (L - before) - share = x /\ x < Word
    BY <1>3, <1>4, WordIs
  <2>4. Minus(L - before, share) = x
    BY <2>3, Fits DEF Minus
  <2> QED
    BY <2>2, <2>3, <2>4
<1>10. PICK q, l, x, y : /\ q = base + share /\ l = L - after
                         /\ x = (IF k + 1 = n THEN 2 ELSE 1) /\ y = (IF k + 1 = n THEN 1 ELSE (k + 1) + 1)
  OBVIOUS
<1>11. LeftAfter(c) = l /\ (Over(c) <=> k + 1 = n)
  <2>1. Current(c).base = base /\ c.loop = 1 /\ c.left = L - before
    BY <1>6, <1>7 DEF Current
  <2>2. LeftAfter(c) = l
    BY <1>8, <1>9, <1>10, <2>1 DEF LeftAfter
  <2>3. c.pos = k + 1 /\ Len(c.node) = n
    BY <1>6, <1>7
  <2>4. l = 0 => k + 1 = n
    BY <1>4, <1>5, <1>10
  <2> QED
    BY <2>2, <2>3, <2>4 DEF Over
<1>12. Divide(c) = [node |-> SetTmp(d, k + 1, q), weight |-> W, total |-> T, static |-> B,
                    left |-> l, loop |-> x, pos |-> y]
  <2>1. IsContext(c)
    BY <1>6 DEF IsContext
  <2>2. /\ c.node = d /\ c.pos = k + 1 /\ c.weight = W /\ c.total = T /\ c.static = B /\ c.loop = 1
        /\ NextQuota(c) = q
    BY <1>6, <1>8, <1>10
  <2>3. /\ x = (IF Over(c) THEN c.loop + 1 ELSE c.loop)
        /\ y = (IF Over(c) THEN 1 ELSE c.pos + 1)
    BY <1>10, <1>11, <2>2
  <2>4. Divide(c) = [node |-> SetTmp(c.node, c.pos, NextQuota(c)), weight |-> c.weight,
                     total |-> c.total, static |-> c.static, left |-> LeftAfter(c),
                     loop |-> IF Over(c) THEN c.loop + 1 ELSE c.loop,
                     pos |-> IF Over(c) THEN 1 ELSE c.pos + 1]
    BY <2>1, DivideIs
  <2> QED
    BY <1>11, <2>2, <2>3, <2>4
<1>13. SetTmp(d, k + 1, q) = Given(nodes, n, s, k + 1)
  <2>1. nodes \in [1..n -> Entries(I)] /\ s \in [1..n -> Nat]
    <3>1. s \in [1..n -> Nat]
      BY SplittingIs
    <3> QED
      BY <3>1 DEF Splitting
  <2>2. SetTmp(Given(nodes, n, s, k), k + 1, nodes[k + 1].base + s[k + 1])
          = Given(nodes, n, s, k + 1)
    BY <2>1, GivenNext
  <2> QED
    BY <1>1, <1>4, <1>10, <2>2
<1>14. After(nodes, n, s, r, w[n], t[n], b[n], k + 1)
         = [node |-> Given(nodes, n, s, k + 1), weight |-> W, total |-> T, static |-> B,
            left |-> l, loop |-> x, pos |-> y]
  BY <1>3, <1>4, <1>10 DEF After
<1> QED
  BY <1>1, <1>12, <1>13, <1>14

\* After the shares the first node gets the rest, and update is over.
LEMMA SecondTurn ==
  ASSUME NEW I, NEW n \in Nat, NEW nodes, NEW w, NEW t, NEW b, NEW s, NEW r,
         Splitting(I, nodes, n, w, t, b, s, r)
  PROVE  /\ Divide(After(nodes, n, s, r, w[n], t[n], b[n], n)).loop = 3
         /\ Divide(After(nodes, n, s, r, w[n], t[n], b[n], n)).node
              = SetTmp(Given(nodes, n, s, n), 1, (nodes[1].base + s[1]) + ((t[n] - b[n]) - r[n]))
<1>1. PICK c, d : c = After(nodes, n, s, r, w[n], t[n], b[n], n) /\ d = Given(nodes, n, s, n)
  OBVIOUS
<1>2. 1 \in 1..n /\ 1 <= n
  BY DEF Splitting
<1>3. PICK W \in Nat, T \in Nat, B \in Nat, L \in Nat :
        W = w[n] /\ T = t[n] /\ B = b[n] /\ L = T - B /\ T < Word
  <2>1. /\ w[n] \in Nat /\ t[n] \in Nat /\ b[n] \in Nat /\ t[n] < Word /\ t[n] - b[n] \in Nat
    BY SplittingIs
  <2> QED
    BY <2>1
<1>13. PICK rest \in Nat, used \in Nat : used = r[n] /\ rest = L - used
  <2>1. r[n] \in Nat /\ (t[n] - b[n]) - r[n] \in 0..(n - 1)
    BY SplittingIs
  <2>2. L - r[n] \in Nat
    BY <1>3, <2>1
  <2> QED
    BY <2>1, <2>2
<1>4. PICK base \in Nat, share \in Nat :
        base = nodes[1].base /\ share = s[1] /\ base <= B /\ share <= used
  <2>1. /\ nodes[1].base \in Nat /\ nodes[1].base <= b[n] /\ s[1] \in Nat
        /\ r[1] \in Nat /\ r[1] <= r[n] /\ s[1] <= r[1]
    BY <1>2, SplittingIs
  <2>2. s[1] <= r[n]
    <3>1. PICK x \in Nat, y \in Nat, z \in Nat : x = s[1] /\ y = r[1] /\ z = r[n] /\ x <= y /\ y <= z
      BY <1>13, <2>1
    <3> QED
      BY <3>1
  <2> QED
    BY <1>3, <1>13, <2>1, <2>2
<1>5. c = [node |-> d, weight |-> W, total |-> T, static |-> B, left |-> rest, loop |-> 2, pos |-> 1]
  BY <1>1, <1>3, <1>13 DEF After
<1>6. Len(d) = n /\ d[1].tmp = base + share
  <2>1. d = [i \in 1..n |-> [nodes[i] EXCEPT !.tmp = IF i <= n THEN nodes[i].base + s[i] ELSE @]]
    BY <1>1 DEF Given
  <2>2. Len(d) = n
    BY <2>1
  <2>3. nodes[1] \in Entries(I)
    BY <1>2 DEF Splitting
  <2>4. d[1] = [nodes[1] EXCEPT !.tmp = nodes[1].base + s[1]]
    BY <1>2, <2>1
  <2>5. d[1].tmp = nodes[1].base + s[1]
    BY <2>3, <2>4 DEF Entries
  <2> QED
    BY <1>4, <2>2, <2>5
<1>7. PICK q \in Nat : q = (base + share) + rest /\ q < Word
  BY <1>3, <1>4, <1>13, WordIs
<1>8. NextQuota(c) = q
  <2>1. Current(c).tmp = base + share /\ c.left = rest /\ c.loop = 2
    BY <1>5, <1>6 DEF Current
  <2>2. NextQuota(c) = Plus(base + share, rest)
    BY <2>1 DEF NextQuota
  <2> QED
    BY <1>7, <2>2, Fits DEF Plus
<1>9. Minus(rest, Minus(q, base + share)) = 0
  <2>1. q - (base + share) = rest /\ rest < Word
    BY <1>3, <1>4, <1>7, <1>13, WordIs
  <2>2. Minus(q, base + share) = rest
    BY <2>1, Fits DEF Minus
  <2>3. rest - rest = 0 /\ 0 < Word
    BY WordIs
  <2>4. Minus(rest, rest) = 0
    BY <2>3, Fits DEF Minus
  <2> QED
    BY <2>2, <2>4
<1>10. PICK e : e = SetTmp(d, 1, q)
  OBVIOUS
<1>11. Divide(c).loop = 3 /\ Divide(c).node = e
  <2>1. IsContext(c)
    BY <1>5 DEF IsContext
  <2>2. c.node = d /\ c.pos = 1 /\ c.loop = 2 /\ c.left = rest
    BY <1>5
  <2>3. LeftAfter(c) = 0
    BY <1>6, <1>8, <1>9, <2>2 DEF LeftAfter, Current
  <2>4. Over(c)
    BY <2>3 DEF Over
  <2>5. Divide(c).node = SetTmp(c.node, c.pos, NextQuota(c)) /\ Divide(c).loop = c.loop + 1
    BY <2>1, <2>4, DivideIs
  <2> QED
    BY <1>8, <1>10, <2>2, <2>5
<1>12. q = (nodes[1].base + s[1]) + ((t[n] - b[n]) - r[n])
  BY <1>3, <1>4, <1>7, <1>13
<1> QED
  BY <1>1, <1>10, <1>11, <1>12

\* update begins with nothing given.
LEMMA BegunIs ==
  ASSUME NEW I, NEW n \in Nat, NEW nodes, NEW w, NEW t, NEW b, NEW s, NEW r,
         Splitting(I, nodes, n, w, t, b, s, r)
  PROVE  /\ Begun(Summed(nodes)) = After(nodes, n, s, r, w[n], t[n], b[n], 0)
         /\ LeftBase(Summed(nodes)) = t[n] - b[n] /\ Summed(nodes).weight = w[n]
<1>1. PICK W \in Nat, T \in Nat, B \in Nat, L \in Nat :
        /\ W = w[n] /\ T = t[n] /\ B = b[n] /\ L = T - B /\ W < Word /\ T < Word
  <2>1. /\ w[n] \in Nat /\ w[n] > 0 /\ w[n] < Word
        /\ t[n] \in Nat /\ b[n] \in Nat /\ t[n] < Word /\ t[n] - b[n] \in Nat /\ t[n] - b[n] > 0
    BY SplittingIs
  <2> QED
    BY <2>1
<1>2. PICK c : c = Summed(nodes)
  OBVIOUS
<1>3. nodes \in [1..n -> Entries(I)] /\ n > 0
  BY DEF Splitting
<1>4. c = [node |-> nodes, weight |-> w[n] % Word, total |-> t[n] % Word,
           static |-> b[n] % Word, left |-> 0, loop |-> 0, pos |-> 1]
  <2>1. /\ Running(w, Weights(nodes, n), n)
        /\ Running(t, Tmps(nodes, n), n)
        /\ Running(b, Bases(nodes, n), n)
    BY DEF Splitting
  <2> QED
    BY <1>2, <1>3, <2>1, SummedIs
<1>5. c = [node |-> nodes, weight |-> W, total |-> T, static |-> B, left |-> 0, loop |-> 0, pos |-> 1]
  <2>1. W % Word = W
    BY <1>1, Fits
  <2>2. T % Word = T
    BY <1>1, Fits
  <2>3. B % Word = B
    <3>1. B < Word
      BY <1>1, WordIs
    <3> QED
      BY <3>1, Fits
  <2> QED
    BY <1>1, <1>4, <2>1, <2>2, <2>3
<1>6. LeftBase(c) = L
  <2>1. LeftBase(c) = L % Word
    BY <1>1, <1>5 DEF LeftBase, Minus
  <2>2. L < Word
    BY <1>1, WordIs
  <2> QED
    BY <2>1, <2>2, Fits
<1>7. nodes # <<>>
  BY <1>3
<1>8. Begun(c) = [c EXCEPT !.left = L, !.loop = 1]
  BY <1>5, <1>6, <1>7 DEF Begun
<1>9. Begun(c) = [node |-> nodes, weight |-> W, total |-> T, static |-> B, left |-> L, loop |-> 1,
                  pos |-> 1]
  <2>1. PICK e : e = [c EXCEPT !.left = L, !.loop = 1]
    OBVIOUS
  <2>2. /\ e.node = nodes /\ e.weight = W /\ e.total = T /\ e.static = B
        /\ e.left = L /\ e.loop = 1 /\ e.pos = 1
    BY <1>5, <2>1
  <2>3. e = [node |-> e.node, weight |-> e.weight, total |-> e.total, static |-> e.static,
             left |-> e.left, loop |-> e.loop, pos |-> e.pos]
    BY <1>5, <2>1
  <2> QED
    BY <1>8, <2>1, <2>2, <2>3
<1>10. Given(nodes, n, s, 0) = nodes
  <2>1. PICK g : g = Given(nodes, n, s, 0)
    OBVIOUS
  <2>2. ASSUME NEW i \in 1..n PROVE g[i] = nodes[i]
    <3>1. g[i] = [nodes[i] EXCEPT !.tmp = IF i <= 0 THEN nodes[i].base + s[i] ELSE @]
      BY <2>1 DEF Given
    <3>2. ~(i <= 0)
      OBVIOUS
    <3>3. g[i] = [nodes[i] EXCEPT !.tmp = nodes[i].tmp]
      BY <3>1, <3>2
    <3>4. PICK u \in Entries(I) : u = nodes[i]
      BY <1>3
    <3> QED
      BY <3>3, <3>4 DEF Entries
  <2>3. g = [i \in 1..n |-> g[i]]
    BY <2>1 DEF Given
  <2> QED
    BY <1>3, <2>1, <2>2, <2>3
<1>11. After(nodes, n, s, r, w[n], t[n], b[n], 0)
         = [node |-> nodes, weight |-> W, total |-> T, static |-> B, left |-> L, loop |-> 1, pos |-> 1]
  <2>1. r[0] = 0
    BY DEF Splitting, Running
  <2>2. 0 # n /\ L - 0 = L /\ 0 + 1 = 1
    BY <1>3
  <2> QED
    BY <1>1, <1>10, <2>1, <2>2 DEF After
<1> QED
  BY <1>1, <1>2, <1>5, <1>6, <1>9, <1>11

\* The nodes when update is over.
LEMMA DividedIs ==
  ASSUME NEW I, NEW n \in Nat, NEW nodes, NEW w, NEW t, NEW b, NEW s, NEW r,
         Splitting(I, nodes, n, w, t, b, s, r)
  PROVE  Divided(nodes) = SetTmp(Given(nodes, n, s, n), 1,
                                 (nodes[1].base + s[1]) + ((t[n] - b[n]) - r[n]))
<1>1. nodes \in [1..n -> Entries(I)] /\ n > 0
  BY DEF Splitting
<1>2. Len(nodes) = n
  BY <1>1
<1>3. PICK f : /\ f[0] = Begun(Summed(nodes))
               /\ \A k \in 1..(2 * n) : f[k] = Turn(f[k - 1])
               /\ Divided(nodes) = f[2 * n].node
  BY <1>2, DividedSteps
<1>4. PICK F : F = [k \in 0..n |-> After(nodes, n, s, r, w[n], t[n], b[n], k)]
  OBVIOUS
<1>5. \A k \in 0..n : f[k] = F[k]
  <2> DEFINE P == {k \in 0..n : f[k] = F[k]}
  <2>1. 0 \in P
    <3>1. 0 \in 0..n
      OBVIOUS
    <3>2. f[0] = After(nodes, n, s, r, w[n], t[n], b[n], 0)
      BY <1>3, BegunIs
    <3> QED
      BY <1>4, <3>1, <3>2
  <2>2. ASSUME NEW k \in 0..(n - 1), k \in P PROVE k + 1 \in P
    <3>1. k \in 0..n /\ k + 1 \in 0..n /\ k + 1 \in 1..(2 * n) /\ (k + 1) - 1 = k /\ k # n
      OBVIOUS
    <3>2. f[k] = After(nodes, n, s, r, w[n], t[n], b[n], k)
      BY <1>4, <2>2, <3>1
    <3>3. f[k].loop = 1
      BY <3>1, <3>2 DEF After
    <3>4. f[k + 1] = Divide(f[k])
      <4>1. f[k + 1] = Turn(f[k])
        BY <1>3, <3>1
      <4> QED
        BY <3>3, <4>1 DEF Turn
    <3>5. f[k + 1] = After(nodes, n, s, r, w[n], t[n], b[n], k + 1)
      BY <3>2, <3>4, FirstTurns
    <3> QED
      BY <1>4, <3>1, <3>5
  <2>3. 0..n \subseteq P
    <3> HIDE DEF P
    <3> QED
      BY <2>1, <2>2, CountingUp
  <2> QED
    BY <2>3
<1>6. PICK g : g = f[n + 1]
  OBVIOUS
<1>7. g = Divide(After(nodes, n, s, r, w[n], t[n], b[n], n))
  <2>1. n \in 0..n /\ n + 1 \in 1..(2 * n) /\ (n + 1) - 1 = n
    BY <1>1
  <2>2. f[n] = After(nodes, n, s, r, w[n], t[n], b[n], n)
    BY <1>4, <1>5, <2>1
  <2>3. f[n].loop = 2
    BY <2>2 DEF After
  <2>4. f[n + 1] = Turn(f[n])
    BY <1>3, <2>1
  <2> QED
    BY <1>6, <2>2, <2>3, <2>4 DEF Turn
<1>8. g.loop = 3 /\ g.node = SetTmp(Given(nodes, n, s, n), 1,
                                    (nodes[1].base + s[1]) + ((t[n] - b[n]) - r[n]))
  BY <1>7, SecondTurn
<1>9. f[2 * n] = g
  <2> DEFINE P == {k \in 0..(n - 1) : f[(n + 1) + k] = g}
  <2>0. n - 1 \in Nat
    BY <1>1
  <2>1. 0 \in P
    <3>1. (n + 1) + 0 = n + 1
      OBVIOUS
    <3> QED
      BY <1>6, <2>0, <3>1
  <2>2. ASSUME NEW k \in 0..((n - 1) - 1), k \in P PROVE k + 1 \in P
    <3>1. /\ (n + 1) + (k + 1) \in 1..(2 * n) /\ ((n + 1) + (k + 1)) - 1 = (n + 1) + k
          /\ k + 1 \in 0..(n - 1)
      BY <1>1
    <3>2. f[(n + 1) + (k + 1)] = Turn(f[(n + 1) + k])
      BY <1>3, <3>1
    <3>3. Turn(g) = g
      BY <1>8 DEF Turn
    <3> QED
      BY <2>2, <3>1, <3>2, <3>3
  <2>3. n - 1 \in P
    <3> HIDE DEF P
    <3>1. 0..(n - 1) \subseteq P
      BY <2>0, <2>1, <2>2, CountingUp
    <3> QED
      BY <2>0, <3>1
  <2>4. (n + 1) + (n - 1) = 2 * n
    OBVIOUS
  <2> QED
    BY <2>3, <2>4
<1> QED
  BY <1>3, <1>8, <1>9

\* both adds up two lists, entry by entry.
AddedUp(n, X, Y, both) ==
  /\ X \in [1..n -> Int] /\ Y \in [1..n -> Int] /\ both \in [1..n -> Int]
  /\ \A k \in 1..n : both[k] = X[k] + Y[k]

\* The quotas that went in add up to the bases and what is above them.
LEMMA OldSum ==
  ASSUME NEW n \in Nat, NEW X, NEW Y, NEW both, AddedUp(n, X, Y, both),
         NEW x, Running(x, X, n), NEW y, Running(y, Y, n)
  PROVE  PlainSum(both) = x[n] + y[n]
<1>0. /\ X \in [1..n -> Int] /\ Y \in [1..n -> Int] /\ both \in [1..n -> Int]
      /\ \A k \in 1..n : both[k] = X[k] + Y[k]
  BY DEF AddedUp
<1>1. PICK u : Running(u, both, n) /\ PlainSum(both) = u[n]
  BY <1>0, PlainSumIs
<1> DEFINE P == {k \in 0..n : u[k] = x[k] + y[k]}
<1>2. 0 \in P
  BY <1>1 DEF Running
<1>3. ASSUME NEW k \in 0..(n - 1), k \in P PROVE k + 1 \in P
  <2>1. k + 1 \in 1..n /\ (k + 1) - 1 = k /\ k \in 0..n /\ k + 1 \in 0..n
    OBVIOUS
  <2>2. PICK c \in Int, d \in Int : c = x[k] /\ d = y[k] /\ u[k] = c + d
    BY <1>3, <2>1 DEF Running
  <2>3. PICK e \in Int, f \in Int : e = X[k + 1] /\ f = Y[k + 1]
    BY <1>0, <2>1
  <2>4. x[k + 1] = c + e /\ y[k + 1] = d + f /\ u[k + 1] = (c + d) + (e + f)
    BY <1>0, <1>1, <2>1, <2>2, <2>3 DEF Running
  <2> QED
    BY <2>1, <2>4
<1>4. n \in P
  <2>1. 0..n \subseteq P
    <3> HIDE DEF P
    <3> QED
      BY <1>2, <1>3, CountingUp
  <2> QED
    BY <2>1
<1> QED
  BY <1>1, <1>4

\* The quotas that come out add up to their bases, the shares and the rest.
LEMMA NewSum ==
  ASSUME NEW I, NEW n \in Nat, NEW nodes, NEW w, NEW t, NEW b, NEW s, NEW r,
         Splitting(I, nodes, n, w, t, b, s, r), NEW rest \in Int,
         NEW news \in [1..n -> Int],
         \A k \in 1..n : news[k] = nodes[k].base + s[k] + IF k = 1 THEN rest ELSE 0,
         NEW u, Running(u, news, n)
  PROVE  u[n] = b[n] + r[n] + rest
<1> DEFINE P == {k \in 0..n : u[k] = b[k] + r[k] + IF k = 0 THEN 0 ELSE rest}
<1>0. n > 0 /\ Running(b, Bases(nodes, n), n) /\ Running(r, s, n)
  BY DEF Splitting
<1>1. 0 \in P
  BY <1>0 DEF Running
<1>2. ASSUME NEW k \in 0..(n - 1), k \in P PROVE k + 1 \in P
  <2>1. k + 1 \in 1..n /\ (k + 1) - 1 = k /\ k \in 0..n /\ k + 1 \in 0..n
    OBVIOUS
  <2>2. PICK x \in Int, y \in Int, z \in Int : x = b[k] /\ y = r[k] /\ z = u[k]
    BY <1>0, <2>1 DEF Running
  <2>3. PICK base \in Nat, share \in Nat : base = nodes[k + 1].base /\ share = s[k + 1]
    <3>1. \A i \in 1..n : /\ nodes[i].base \in Nat /\ nodes[i].weight \in Nat
                          /\ nodes[i].tmp \in Nat /\ nodes[i].base <= b[n]
                          /\ r[i] = r[i - 1] + s[i] /\ r[i] \in Nat /\ r[i - 1] \in Nat
                          /\ s[i] \in Nat /\ r[i] <= r[n] /\ s[i] <= r[i]
      BY SplittingIs
    <3> QED
      BY <2>1, <3>1
  <2>4. b[k + 1] = x + base
    BY <1>0, <2>1, <2>2, <2>3 DEF Running, Bases
  <2>5. r[k + 1] = y + share
    BY <1>0, <2>1, <2>2, <2>3 DEF Running
  <2>6. u[k + 1] = z + news[k + 1]
    BY <2>1, <2>2 DEF Running
  <2>7. z = x + y + IF k = 0 THEN 0 ELSE rest
    BY <1>2, <2>2
  <2>8. news[k + 1] = base + share + IF k = 0 THEN rest ELSE 0
    <3>1. k + 1 = 1 <=> k = 0
      OBVIOUS
    <3> QED
      BY <2>1, <2>3, <3>1
  <2>9. u[k + 1] = (x + base) + (y + share) + rest
    <3>1. CASE k = 0
      BY <2>6, <2>7, <2>8, <3>1
    <3>2. CASE k # 0
      BY <2>6, <2>7, <2>8, <3>2
    <3> QED
      BY <3>1, <3>2
  <2>10. k + 1 # 0
    OBVIOUS
  <2> QED
    BY <2>1, <2>4, <2>5, <2>9, <2>10
<1>3. n \in P
  <2>1. 0..n \subseteq P
    <3> HIDE DEF P
    <3> QED
      BY <1>1, <1>2, CountingUp
  <2> QED
    BY <2>1
<1> QED
  BY <1>0, <1>3

\* For any number of nodes, any quotas and any press: update in sysqos_token_update.c
\* gives every node its base and its proportional share, and the first the rest, which is
\* less than one token for each node.  The new quotas together fall short of the old by
\* every node's base: update_token_left_base takes off what update_node_init had left out.
THEOREM ProportionalShares ==
  ASSUME NEW I, NEW nodes \in Seq(Entries(I)), Divisible(nodes)
  PROVE  GivesShares(nodes)
<1>1. PICK n \in Nat : n = Len(nodes) /\ nodes \in [1..n -> Entries(I)] /\ DOMAIN nodes = 1..n
  OBVIOUS
<1>23. ASSUME NEW k \in 1..n
       PROVE  nodes[k].weight \in Nat /\ nodes[k].tmp \in Nat /\ nodes[k].base \in Nat
  <2>1. PICK u : u = nodes[k] /\ u \in Entries(I)
    BY <1>1
  <2>2. u.weight \in Nat /\ u.tmp \in Nat /\ u.base \in Nat
    BY <2>1 DEF Entries
  <2> QED
    BY <2>1, <2>2
<1>2. PICK X, Y, Z : X = Weights(nodes, n) /\ Y = Tmps(nodes, n) /\ Z = Bases(nodes, n)
  OBVIOUS
<1>3. X \in [1..n -> Int] /\ Y \in [1..n -> Int] /\ Z \in [1..n -> Int]
  <2>1. \A k \in 1..n : nodes[k].weight \in Int /\ nodes[k].tmp \in Int /\ nodes[k].base \in Int
    BY <1>23
  <2> QED
    BY <1>2, <2>1 DEF Weights, Tmps, Bases
<1>4. PICK w : Running(w, X, n) /\ PlainSum(X) = w[n]
  BY <1>3, PlainSumIs
<1>5. PICK t : Running(t, Y, n) /\ PlainSum(Y) = t[n]
  BY <1>3, PlainSumIs
<1>6. PICK b : Running(b, Z, n) /\ PlainSum(Z) = b[n]
  BY <1>3, PlainSumIs
<1>7. /\ X = [k \in DOMAIN nodes |-> nodes[k].weight] /\ Y = [k \in DOMAIN nodes |-> nodes[k].tmp]
      /\ Z = [k \in DOMAIN nodes |-> nodes[k].base]
  BY <1>1, <1>2 DEF Weights, Tmps, Bases
<1>8. /\ b[n] < t[n] /\ t[n] < Word /\ w[n] < Word
      /\ \A k \in 1..n : nodes[k].weight > 0 /\ (t[n] - b[n]) * nodes[k].weight < Word
  BY <1>1, <1>4, <1>5, <1>6, <1>7 DEF Divisible
<1>9. n > 0
  <2>1. t[0] = 0 /\ b[0] = 0
    BY <1>5, <1>6 DEF Running
  <2> QED
    BY <1>8, <2>1
<1>10. PICK s : s = [k \in 1..n |-> ShareOf(t[n] - b[n], nodes[k].weight, w[n])]
  OBVIOUS
<1>11. s \in [1..n -> Int]
  <2>1. w[n] \in Nat /\ w[n] > 0
    <3>1. X \in [1..n -> Nat \ {0}]
      <4>1. \A k \in 1..n : nodes[k].weight \in Nat /\ nodes[k].weight > 0
        BY <1>1, <1>8 DEF Entries
      <4>2. \A k \in 1..n : nodes[k].weight \in Nat \ {0}
        BY <4>1
      <4> QED
        BY <1>2, <4>2 DEF Weights
    <3> QED
      BY <1>4, <1>9, <3>1, WeightPositive
  <2>2. PICK L \in Int : L = t[n] - b[n]
    <3>1. t[n] \in Int /\ b[n] \in Int
      BY <1>5, <1>6 DEF Running
    <3> QED
      BY <3>1
  <2>3. ASSUME NEW k \in 1..n PROVE ShareOf(L, nodes[k].weight, w[n]) \in Int
    <3>1. PICK x \in Int : x = nodes[k].weight
      BY <1>23
    <3>2. PICK p \in Int : p = L * x
      OBVIOUS
    <3>3. p \div w[n] \in Int
      BY <2>1, Division
    <3> QED
      BY <3>1, <3>2, <3>3 DEF ShareOf
  <2> QED
    BY <1>10, <2>2, <2>3
<1>12. PICK r : Running(r, s, n) /\ PlainSum(s) = r[n]
  BY <1>11, PlainSumIs
<1>13. Splitting(I, nodes, n, w, t, b, s, r)
  BY <1>1, <1>2, <1>4, <1>5, <1>6, <1>8, <1>9, <1>10, <1>12 DEF Splitting
<1>14. LeftBase(Summed(nodes)) = t[n] - b[n] /\ Summed(nodes).weight = w[n]
  BY <1>13, BegunIs
<1>15. Shares(nodes) = s
  BY <1>1, <1>10, <1>14 DEF Shares, ShareOf
<1>16. PICK rest \in Int : /\ rest = LeftBase(Summed(nodes)) - PlainSum(Shares(nodes))
                           /\ rest = (t[n] - b[n]) - r[n] /\ rest \in 0..(n - 1)
  <2>1. (t[n] - b[n]) - r[n] \in 0..(n - 1)
    BY <1>13, SplittingIs
  <2> QED
    BY <1>12, <1>14, <1>15, <2>1
<1>17. PICK g : g = Given(nodes, n, s, n)
  OBVIOUS
<1>18. PICK news : news = Divided(nodes)
  OBVIOUS
<1>19. news = SetTmp(g, 1, (nodes[1].base + s[1]) + rest)
  BY <1>13, <1>16, <1>17, <1>18, DividedIs
<1>20. ASSUME NEW k \in 1..n
       PROVE  /\ news[k].tmp = nodes[k].base + s[k] + IF k = 1 THEN rest ELSE 0
              /\ nodes[k].base + s[k] + (IF k = 1 THEN rest ELSE 0) \in Int
  <2>1. nodes[k] \in Entries(I) /\ nodes[k].base \in Int /\ s[k] \in Int
    BY <1>1, <1>11 DEF Entries
  <2>2. g[k] = [nodes[k] EXCEPT !.tmp = nodes[k].base + s[k]]
    BY <1>17 DEF Given
  <2>3. g[k].tmp = nodes[k].base + s[k]
    BY <2>1, <2>2 DEF Entries
  <2>4. DOMAIN g = 1..n
    BY <1>17 DEF Given
  <2>5. CASE k = 1
    <3>1. news[k] = [g[k] EXCEPT !.tmp = (nodes[k].base + s[k]) + rest]
      BY <1>19, <2>4, <2>5 DEF SetTmp
    <3>2. "tmp" \in DOMAIN g[k]
      BY <2>1, <2>2 DEF Entries
    <3>3. news[k].tmp = (nodes[k].base + s[k]) + rest
      BY <3>1, <3>2
    <3> QED
      BY <2>1, <2>5, <3>3
  <2>6. CASE k # 1
    <3>1. news[k] = g[k]
      BY <1>19, <2>4, <2>6 DEF SetTmp
    <3>2. nodes[k].base + s[k] + 0 = nodes[k].base + s[k]
      BY <2>1
    <3> QED
      BY <2>1, <2>3, <2>6, <3>1, <3>2
  <2> QED
    BY <2>5, <2>6
<1>21. PlainSum([k \in DOMAIN nodes |-> news[k].tmp]) = t[n]
  <2>1. PICK out : out = [k \in 1..n |-> news[k].tmp]
    OBVIOUS
  <2>2. /\ \A k \in 1..n : out[k] = nodes[k].base + s[k] + IF k = 1 THEN rest ELSE 0
        /\ out \in [1..n -> Int]
    BY <1>20, <2>1
  <2>3. PICK u : Running(u, out, n) /\ PlainSum(out) = u[n]
    BY <2>2, PlainSumIs
  <2>4. u[n] = b[n] + r[n] + rest
    BY <1>13, <2>2, <2>3, NewSum
  <2>5. u[n] = t[n]
    <3>1. b[n] \in Int /\ r[n] \in Int /\ t[n] \in Int
      BY <1>5, <1>6, <1>12 DEF Running
    <3> QED
      BY <1>16, <2>4, <3>1
  <2>6. out = [k \in DOMAIN nodes |-> news[k].tmp]
    BY <1>1, <2>1
  <2> QED
    BY <1>5, <1>7, <2>3, <2>5, <2>6
<1>22. \A k \in DOMAIN nodes :
         news[k].tmp = nodes[k].base + Shares(nodes)[k] + IF k = 1 THEN rest ELSE 0
  BY <1>1, <1>15, <1>20
<1>24. PlainSum([k \in DOMAIN nodes |-> nodes[k].base + nodes[k].tmp]) = b[n] + t[n]
  <2>1. PICK both : both = [k \in 1..n |-> nodes[k].base + nodes[k].tmp]
    OBVIOUS
  <2>2. both \in [1..n -> Int]
    BY <1>23, <2>1
  <2>3. \A k \in 1..n : both[k] = Z[k] + Y[k]
    BY <1>2, <2>1 DEF Tmps, Bases
  <2>4. PlainSum(both) = b[n] + t[n]
    <3>1. Running(b, Z, n) /\ Running(t, Y, n)
      BY <1>5, <1>6
    <3>2. AddedUp(n, Z, Y, both)
      BY <1>3, <2>2, <2>3 DEF AddedUp
    <3> QED
      BY <3>1, <3>2, OldSum
  <2> QED
    BY <1>1, <2>1, <2>4
<1>25. b[n] \in Int /\ t[n] \in Int /\ PlainSum([k \in DOMAIN nodes |-> nodes[k].base]) = b[n]
  BY <1>5, <1>6, <1>7 DEF Running
<1>26. PlainSum([k \in DOMAIN nodes |-> news[k].tmp])
         = PlainSum([k \in DOMAIN nodes |-> nodes[k].base + nodes[k].tmp])
             - PlainSum([k \in DOMAIN nodes |-> nodes[k].base])
  <2>1. t[n] = (b[n] + t[n]) - b[n]
    BY <1>25
  <2> QED
    BY <1>21, <1>24, <1>25, <2>1, Zenon
<1> QED
  BY <1>1, <1>16, <1>18, <1>22, <1>26 DEF GivesShares
===============================================================================
