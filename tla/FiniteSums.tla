------------------------------ MODULE FiniteSums ------------------------------
(***************************************************************************)
(* Sums over finite sets, and the two inductions their facts rest on.  An  *)
(* induction is stated for a set of cases instead of a predicate, and is   *)
(* shown by a least counterexample.  And the remainders of such sums in a  *)
(* word of any size.                                                       *)
(***************************************************************************)
EXTENDS Integers, FiniteSets, FiniteSetsExt, FiniteSetTheorems, WellFoundedInduction, TLAPS

\* A set of numbers that is not empty has a least one.
LEMMA LeastNat ==
  ASSUME NEW T, T \subseteq Nat, T # {}
  PROVE  \E x \in T : \A y \in T : x <= y
<1>1. PICK x \in T : \A y \in T : ~ (<<y, x>> \in OpToRel(<, Nat))
  BY NatLessThanWellFounded, WFMin
<1>2. \A y \in T : ~ (y < x)
  BY <1>1 DEF OpToRel
<1> QED
  BY <1>2

\* A set of numbers up to n that has 0 and the successor of each of its members has all.
LEMMA CountingUp ==
  ASSUME NEW n \in Nat, NEW P, 0 \in P, \A k \in 0..(n - 1) : k \in P => k + 1 \in P
  PROVE  0..n \subseteq P
<1> DEFINE T == {k \in 0..n : k \notin P}
<1>1. SUFFICES ASSUME T # {} PROVE FALSE
  OBVIOUS
<1>2. PICK k \in T : \A y \in T : k <= y
  <2> HIDE DEF T
  <2>1. T \subseteq Nat
    BY DEF T
  <2> QED
    BY <1>1, <2>1, LeastNat
<1>3. k # 0 /\ k - 1 \in 0..(n - 1) /\ k - 1 \notin T
  BY <1>2
<1> QED
  BY <1>2, <1>3

\* A set of subsets of a finite set has all of them if it has {} and each one whose
\* subsets with one element less it has.
LEMMA SubsetInduction ==
  ASSUME NEW S, IsFiniteSet(S), NEW P, {} \in P,
         \A s \in SUBSET S : s # {} /\ (\A x \in s : s \ {x} \in P) => s \in P
  PROVE  SUBSET S \subseteq P
<1> DEFINE T == {Cardinality(s) : s \in {u \in SUBSET S : u \notin P}}
<1>1. SUFFICES ASSUME T # {} PROVE FALSE
  OBVIOUS
<1>2. \A s \in SUBSET S : IsFiniteSet(s) /\ Cardinality(s) \in Nat
  BY FS_Subset, FS_CardinalityType
<1>3. PICK c \in T : \A y \in T : c <= y
  <2>1. T \subseteq Nat
    BY <1>2
  <2> HIDE DEF T
  <2> QED
    BY <1>1, <2>1, LeastNat
<1>4. PICK s \in SUBSET S : s \notin P /\ c = Cardinality(s)
  BY <1>3
<1>5. ASSUME NEW x \in s PROVE s \ {x} \in P
  <2>1. Cardinality(s \ {x}) = Cardinality(s) - 1
    BY <1>2, FS_RemoveElement
  <2>2. s \ {x} \in SUBSET S /\ Cardinality(s) \in Nat
    BY <1>2
  <2>3. Cardinality(s \ {x}) \notin T
    <3> HIDE DEF T
    <3> QED
      BY <1>3, <1>4, <2>1, <2>2
  <2> QED
    BY <2>2, <2>3
<1> QED
  BY <1>4, <1>5
-------------------------------------------------------------------------------
\* The sum of f over S.
SumOf(f, S) == MapThenSumSet(LAMBDA x : f[x], S)

First(s) == CHOOSE x \in s : TRUE

\* The function MapThenFoldSet defines by recursion, on the subsets D.
Adding(f, D, it) == it = [s \in D |-> IF s = {} THEN 0 ELSE f[First(s)] + it[s \ {First(s)}]]

\* It is this.
LEMMA SumIs ==
  ASSUME NEW f, NEW S
  PROVE  SumOf(f, S) = (CHOOSE it : Adding(f, SUBSET S, it))[S]
BY DEF SumOf, MapThenSumSet, MapThenFoldSet, Adding, First

\* The first element of a set is in it.
LEMMA FirstIn == ASSUME NEW s, s # {} PROVE First(s) \in s
BY DEF First

\* The recursion has a solution on the subsets of a finite set.
LEMMA AddingExists ==
  ASSUME NEW f, NEW S, IsFiniteSet(S)
  PROVE  \E it : Adding(f, SUBSET S, it)
<1> DEFINE n == Cardinality(S)
           D(m) == {s \in SUBSET S : Cardinality(s) <= m}
           P == {m \in 0..n : \E it : Adding(f, D(m), it)}
<1>1. n \in Nat /\ \A s \in SUBSET S : IsFiniteSet(s) /\ Cardinality(s) \in Nat /\ Cardinality(s) <= n
  BY FS_Subset, FS_CardinalityType
<1>2. 0 \in P
  <2>1. \A s \in D(0) : s = {}
    BY <1>1, FS_EmptySet
  <2>2. Adding(f, D(0), [s \in D(0) |-> 0])
    BY <2>1 DEF Adding
  <2>3. \E it : Adding(f, D(0), it)
    BY <2>2
  <2> HIDE DEF D
  <2> QED
    BY <1>1, <2>3
<1>3. ASSUME NEW m \in 0..(n - 1), m \in P PROVE m + 1 \in P
  <2>1. PICK it : Adding(f, D(m), it)
    BY <1>3
  <2> DEFINE it2 == [s \in D(m + 1) |-> IF s = {} THEN 0 ELSE f[First(s)] + it[s \ {First(s)}]]
  <2>2. ASSUME NEW s \in D(m + 1), s # {}
        PROVE  it2[s \ {First(s)}] = it[s \ {First(s)}]
    <3>1. First(s) \in s /\ IsFiniteSet(s) /\ Cardinality(s) \in Nat /\ Cardinality(s) <= m + 1
      BY <1>1, <2>2, FirstIn
    <3>2. Cardinality(s \ {First(s)}) = Cardinality(s) - 1
      BY <3>1, FS_RemoveElement
    <3>3. s \ {First(s)} \in D(m)
      BY <3>1, <3>2
    <3> DEFINE u == s \ {First(s)}
    <3> HIDE DEF u
    <3>4. u \in D(m) /\ u \in D(m + 1)
      <4>1. u \in D(m)
        BY <3>3 DEF u
      <4> QED
        BY <1>1, <4>1
    <3>5. it2[u] = IF u = {} THEN 0 ELSE f[First(u)] + it[u \ {First(u)}]
      BY <3>4
    <3>6. it[u] = IF u = {} THEN 0 ELSE f[First(u)] + it[u \ {First(u)}]
      BY <2>1, <3>4 DEF Adding
    <3> QED
      BY <3>5, <3>6 DEF u
  <2>3. it2 = [s \in D(m + 1) |-> IF s = {} THEN 0 ELSE f[First(s)] + it2[s \ {First(s)}]]
    <3> HIDE DEF D
    <3>1. \A s \in D(m + 1) : it2[s] = IF s = {} THEN 0 ELSE f[First(s)] + it2[s \ {First(s)}]
      BY <2>2
    <3> QED
      BY <3>1
  <2>4. Adding(f, D(m + 1), it2)
    BY <2>3 DEF Adding
  <2>5. \E it3 : Adding(f, D(m + 1), it3)
    BY <2>4
  <2> HIDE DEF D
  <2> QED
    BY <1>1, <2>5
<1>4. n \in P
  <2> HIDE DEF P
  <2>1. 0..n \subseteq P
    BY <1>1, <1>2, <1>3, CountingUp
  <2> QED
    BY <1>1, <2>1
<1>5. D(n) = SUBSET S
  BY <1>1
<1> QED
  BY <1>4, <1>5

\* So a sum is of its first element and the sum of the rest.
LEMMA SumFirst ==
  ASSUME NEW f, NEW S, IsFiniteSet(S)
  PROVE  SumOf(f, S) = IF S = {} THEN 0 ELSE f[First(S)] + SumOf(f, S \ {First(S)})
<1> DEFINE Solved(T) == CHOOSE it : Adding(f, SUBSET T, it)
<1>1. ASSUME NEW T, IsFiniteSet(T)
      PROVE  Adding(f, SUBSET T, Solved(T))
  BY <1>1, AddingExists
<1>2. ASSUME NEW T \in SUBSET S
      PROVE  \A s \in SUBSET T : Solved(T)[s] = Solved(S)[s]
  <2>1. IsFiniteSet(T)
    BY FS_Subset
  <2>2. PICK a : a = Solved(T) /\ Adding(f, SUBSET T, a)
    BY <1>1, <2>1
  <2>3. PICK b : b = Solved(S) /\ Adding(f, SUBSET S, b)
    BY <1>1
  <2> DEFINE P == {s \in SUBSET T : a[s] = b[s]}
  <2>4. {} \in P
    BY <2>2, <2>3 DEF Adding
  <2>5. ASSUME NEW s \in SUBSET T, s # {}, \A x \in s : s \ {x} \in P PROVE s \in P
    <3>1. a[s \ {First(s)}] = b[s \ {First(s)}]
      BY <2>5, FirstIn
    <3>2. a[s] = f[First(s)] + a[s \ {First(s)}]
      BY <2>2, <2>5 DEF Adding
    <3>3. b[s] = f[First(s)] + b[s \ {First(s)}]
      BY <2>3, <2>5 DEF Adding
    <3> QED
      BY <3>1, <3>2, <3>3
  <2>6. SUBSET T \subseteq P
    <3> HIDE DEF P
    <3> QED
      BY <2>1, <2>4, <2>5, SubsetInduction
  <2> QED
    BY <2>2, <2>3, <2>6
<1>3. \A T \in SUBSET S : SumOf(f, T) = Solved(S)[T]
  <2> TAKE T \in SUBSET S
  <2>1. SumOf(f, T) = Solved(T)[T]
    BY SumIs
  <2> HIDE DEF Solved
  <2> QED
    BY <1>2, <2>1
<1>4. Adding(f, SUBSET S, Solved(S))
  BY <1>1
<1> HIDE DEF Solved
<1>5. Solved(S)[S] = IF S = {} THEN 0 ELSE f[First(S)] + Solved(S)[S \ {First(S)}]
  BY <1>4 DEF Adding
<1> QED
  BY <1>3, <1>5

\* A sum of natural numbers is one.
LEMMA SumType ==
  ASSUME NEW f, NEW S, IsFiniteSet(S), \A x \in S : f[x] \in Nat
  PROVE  SumOf(f, S) \in Nat
<1> DEFINE P == {s \in SUBSET S : SumOf(f, s) \in Nat}
<1>1. \A s \in SUBSET S : IsFiniteSet(s)
  BY FS_Subset
<1>2. {} \in P
  <2>1. SumOf(f, {}) = 0
    BY <1>1, SumFirst
  <2> QED
    BY <2>1
<1>3. ASSUME NEW s \in SUBSET S, s # {}, \A x \in s : s \ {x} \in P PROVE s \in P
  <2>1. First(s) \in s
    BY <1>3, FirstIn
  <2>2. SumOf(f, s) = f[First(s)] + SumOf(f, s \ {First(s)})
    BY <1>1, <1>3, SumFirst
  <2>3. SumOf(f, s \ {First(s)}) \in Nat
    BY <1>3, <2>1
  <2> QED
    BY <2>1, <2>2, <2>3
<1> HIDE DEF P
<1>4. SUBSET S \subseteq P
  BY <1>2, <1>3, SubsetInduction
<1> QED
  BY <1>4 DEF P

\* Any element can be taken first.
LEMMA SumRemove ==
  ASSUME NEW f, NEW S, IsFiniteSet(S), \A x \in S : f[x] \in Nat, NEW e \in S
  PROVE  SumOf(f, S) = f[e] + SumOf(f, S \ {e})
<1> DEFINE P == {s \in SUBSET S : \A x \in s : SumOf(f, s) = f[x] + SumOf(f, s \ {x})}
<1>1. \A s \in SUBSET S : IsFiniteSet(s) /\ SumOf(f, s) \in Nat
  <2> TAKE s \in SUBSET S
  <2>1. IsFiniteSet(s)
    BY FS_Subset
  <2> QED
    BY <2>1, SumType
<1>2. {} \in P
  OBVIOUS
<1>3. ASSUME NEW s \in SUBSET S, s # {}, \A x \in s : s \ {x} \in P PROVE s \in P
  <2> SUFFICES ASSUME NEW x \in s PROVE SumOf(f, s) = f[x] + SumOf(f, s \ {x})
    OBVIOUS
  <2>1. PICK c \in s : SumOf(f, s) = f[c] + SumOf(f, s \ {c})
    <3>1. First(s) \in s
      BY <1>3, FirstIn
    <3>2. SumOf(f, s) = f[First(s)] + SumOf(f, s \ {First(s)})
      BY <1>1, <1>3, SumFirst
    <3> QED
      BY <3>1, <3>2
  <2>2. CASE c = x
    BY <2>1, <2>2
  <2>3. CASE c # x
    <3>1. SumOf(f, s \ {c}) = f[x] + SumOf(f, (s \ {c}) \ {x})
      BY <1>3, <2>3
    <3>2. SumOf(f, s \ {x}) = f[c] + SumOf(f, (s \ {x}) \ {c})
      BY <1>3, <2>3
    <3>3. (s \ {c}) \ {x} = (s \ {x}) \ {c} /\ (s \ {c}) \ {x} \in SUBSET S
      OBVIOUS
    <3>4. PICK k \in Nat : k = SumOf(f, (s \ {c}) \ {x}) /\ k = SumOf(f, (s \ {x}) \ {c})
      BY <1>1, <3>3
    <3>5. f[c] \in Nat /\ f[x] \in Nat
      OBVIOUS
    <3> QED
      BY <2>1, <3>1, <3>2, <3>4, <3>5
  <2> QED
    BY <2>2, <2>3
<1> HIDE DEF P
<1>4. SUBSET S \subseteq P
  BY <1>2, <1>3, SubsetInduction
<1> QED
  BY <1>4 DEF P

\* Nothing adds up to 0.
LEMMA SumEmpty == \A f : SumOf(f, {}) = 0
BY SumFirst, FS_EmptySet

\* One element more.
LEMMA SumAdd ==
  ASSUME NEW f, NEW S, IsFiniteSet(S), NEW e, e \notin S, \A x \in S \cup {e} : f[x] \in Nat
  PROVE  SumOf(f, S \cup {e}) = SumOf(f, S) + f[e] /\ SumOf(f, S) \in Nat
<1>1. PICK T : T = S \cup {e}
  OBVIOUS
<1>2. IsFiniteSet(T) /\ e \in T /\ T \ {e} = S /\ \A x \in T : f[x] \in Nat
  BY <1>1, FS_AddElement
<1>3. SumOf(f, T) = f[e] + SumOf(f, S)
  BY <1>2, SumRemove
<1>4. SumOf(f, S) \in Nat /\ f[e] \in Nat
  BY SumType
<1> QED
  BY <1>1, <1>3, <1>4

\* The sum depends on the values on the set only.
LEMMA SumSame ==
  ASSUME NEW S, IsFiniteSet(S), NEW f, NEW g, \A x \in S : f[x] = g[x]
  PROVE  SumOf(f, S) = SumOf(g, S)
<1> DEFINE P == {s \in SUBSET S : SumOf(f, s) = SumOf(g, s)}
<1>1. \A s \in SUBSET S : IsFiniteSet(s)
  BY FS_Subset
<1>2. {} \in P
  BY SumEmpty
<1>3. ASSUME NEW s \in SUBSET S, s # {}, \A x \in s : s \ {x} \in P PROVE s \in P
  <2>1. First(s) \in s
    BY <1>3, FirstIn
  <2>2. SumOf(f, s) = f[First(s)] + SumOf(f, s \ {First(s)})
    BY <1>1, <1>3, SumFirst
  <2>3. SumOf(g, s) = g[First(s)] + SumOf(g, s \ {First(s)})
    BY <1>1, <1>3, SumFirst
  <2>4. SumOf(f, s \ {First(s)}) = SumOf(g, s \ {First(s)}) /\ f[First(s)] = g[First(s)]
    BY <1>3, <2>1
  <2> QED
    BY <2>2, <2>3, <2>4
<1> HIDE DEF P
<1>4. SUBSET S \subseteq P
  BY <1>2, <1>3, SubsetInduction
<1> QED
  BY <1>4 DEF P

\* Zeros add up to zero.
LEMMA SumZero ==
  ASSUME NEW f, NEW S, IsFiniteSet(S), \A x \in S : f[x] = 0
  PROVE  SumOf(f, S) = 0
<1> DEFINE P == {s \in SUBSET S : SumOf(f, s) = 0}
<1>1. \A s \in SUBSET S : IsFiniteSet(s)
  BY FS_Subset
<1>2. {} \in P
  BY SumEmpty
<1>3. ASSUME NEW s \in SUBSET S, s # {}, \A x \in s : s \ {x} \in P PROVE s \in P
  <2>1. First(s) \in s
    BY <1>3, FirstIn
  <2>2. SumOf(f, s) = f[First(s)] + SumOf(f, s \ {First(s)})
    BY <1>1, <1>3, SumFirst
  <2> QED
    BY <1>3, <2>1, <2>2
<1> HIDE DEF P
<1>4. SUBSET S \subseteq P
  BY <1>2, <1>3, SubsetInduction
<1> QED
  BY <1>4 DEF P

\* One value of a function changes.
LEMMA SumChange ==
  ASSUME NEW S, IsFiniteSet(S), NEW f \in [S -> Nat], NEW e \in S, NEW v \in Nat
  PROVE  SumOf([f EXCEPT ![e] = v], S) - v = SumOf(f, S) - f[e]
         /\ SumOf([f EXCEPT ![e] = v], S) \in Nat /\ SumOf(f, S) \in Nat
<1>1. PICK g : g = [f EXCEPT ![e] = v]
  OBVIOUS
<1>2. g \in [S -> Nat] /\ g[e] = v /\ f[e] \in Nat /\ \A x \in S \ {e} : g[x] = f[x]
  BY <1>1
<1>3. IsFiniteSet(S \ {e})
  BY FS_Subset
<1>4. SumOf(g, S) = g[e] + SumOf(g, S \ {e})
  BY <1>2, SumRemove
<1>5. SumOf(f, S) = f[e] + SumOf(f, S \ {e})
  BY SumRemove
<1>6. SumOf(f, S \ {e}) = SumOf(g, S \ {e})
  BY <1>2, <1>3, SumSame
<1>7. SumOf(f, S \ {e}) \in Nat
  BY <1>3, SumType
<1> QED
  BY <1>1, <1>2, <1>4, <1>5, <1>6, <1>7

-------------------------------------------------------------------------------
(* Remainders, for a symbolic word w.                                          *)

\* What % and \div are.
LEMMA Division ==
  ASSUME NEW w \in Nat, w > 0, NEW a \in Int
  PROVE  a = w * (a \div w) + (a % w) /\ a \div w \in Int /\ a % w \in 0..(w - 1)
OBVIOUS

\* Two numbers below w that differ by a multiple of w are the same.
LEMMA OneRemainder ==
  ASSUME NEW w \in Nat, w > 0, NEW k \in Int, NEW x \in 0..(w - 1), NEW y \in 0..(w - 1),
         x = y + k * w
  PROVE  x = y
OBVIOUS

\* A number below w is the remainder of all that differ from it by a multiple of w.
LEMMA RemainderIs ==
  ASSUME NEW w \in Nat, w > 0, NEW x \in 0..(w - 1), NEW k \in Int
  PROVE  (x + k * w) % w = x
<1>1. PICK a \in Int : a = x + k * w
  OBVIOUS
<1>2. PICK q \in Int : a = w * q + (a % w)
  BY Division
<1>3. PICK y \in 0..(w - 1) : y = a % w
  BY Division
<1>4. k - q \in Int /\ y = x + (k - q) * w
  BY <1>1, <1>2, <1>3
<1>5. y = x
  BY <1>4, OneRemainder
<1> QED
  BY <1>1, <1>3, <1>5

\* A remainder can be taken before a sum, or of a part of it.
LEMMA RemainderSum ==
  ASSUME NEW w \in Nat, w > 0, NEW a \in Int, NEW c \in Int
  PROVE  ((a % w) + c) % w = (a + c) % w
<1>1. PICK q \in Int, x \in 0..(w - 1) : a = w * q + x /\ x = a % w
  BY Division
<1>2. PICK p \in Int, y \in 0..(w - 1) : x + c = w * p + y /\ y = (x + c) % w
  <2>1. x + c \in Int
    OBVIOUS
  <2> QED
    BY <2>1, Division
<1>3. a + c = y + (p + q) * w /\ p + q \in Int
  BY <1>1, <1>2
<1>4. (y + (p + q) * w) % w = y
  BY <1>3, RemainderIs
<1> QED
  BY <1>1, <1>2, <1>3, <1>4

\* Nor does a multiple of w change it.
LEMMA RemainderShift ==
  ASSUME NEW w \in Nat, w > 0, NEW a \in Int
  PROVE  (a + w) % w = a % w
<1>1. PICK q \in Int, x \in 0..(w - 1) : a = w * q + x /\ x = a % w
  BY Division
<1>2. a + w = x + (q + 1) * w /\ q + 1 \in Int
  BY <1>1
<1>3. (x + (q + 1) * w) % w = x
  BY <1>2, RemainderIs
<1> QED
  BY <1>1, <1>2, <1>3

\* The wrapped difference of two remainders is the difference's remainder.
LEMMA RemainderDifference ==
  ASSUME NEW w \in Nat, w > 0, NEW a \in Int, NEW b \in Int
  PROVE  ((a % w) + (w - (b % w))) % w = (a - b) % w
<1>1. PICK q \in Int, y \in 0..(w - 1) : b = w * q + y /\ y = b % w
  BY Division
<1>2. ((a % w) + (w - y)) % w = (a + (w - y)) % w
  <2>1. w - y \in Int
    OBVIOUS
  <2> QED
    BY <2>1, RemainderSum
<1>3. PICK p \in Int, z \in 0..(w - 1) : a - b = w * p + z /\ z = (a - b) % w
  <2>1. a - b \in Int
    OBVIOUS
  <2> QED
    BY <2>1, Division
<1>4. a + (w - y) = z + (p + q + 1) * w /\ p + q + 1 \in Int
  BY <1>1, <1>3
<1>5. (z + (p + q + 1) * w) % w = z
  BY <1>4, RemainderIs
<1> QED
  BY <1>1, <1>2, <1>3, <1>4, <1>5
===============================================================================
