--------------------------- MODULE SequenceProofs ---------------------------
(***************************************************************************)
(* Facts about picking from a sequence and folding over one, for the       *)
(* proofs about the components.  Induction is stated of sets of numbers    *)
(* and recursion of functions, so that both can be used with any property. *)
(***************************************************************************)
EXTENDS Selection, SequencesExt, FiniteSetTheorems, WellFoundedInduction, TLAPS

-----------------------------------------------------------------------------
(***************************************************************************)
(* Induction.                                                              *)
(***************************************************************************)
\* A set of natural numbers has a least element.
LEMMA LeastOfNats ==
  ASSUME NEW S \in SUBSET Nat, S # {}
  PROVE  \E x \in S : \A y \in S : x =< y
<1>1. PICK x \in S : \A y \in S : ~(<<y, x>> \in OpToRel(<, Nat))
  BY NatLessThanWellFounded, WFMin
<1>2. ASSUME NEW y \in S, y < x PROVE FALSE
  <2>1. <<y, x>> \in OpToRel(<, Nat)
    BY <1>2, Zenon DEF OpToRel
  <2> QED
    BY <1>1, <2>1
<1> QED
  BY <1>2

LEMMA MinOfNats ==
  ASSUME NEW S \in SUBSET Nat, S # {}
  PROVE  Min(S) \in S
BY LeastOfNats DEF Min

\* A set that has 0, and the successor of each of its numbers below n, has all
\* numbers up to n.
LEMMA Induction ==
  ASSUME NEW n \in Nat, NEW S, 0 \in S,
         \A m \in 0 .. n - 1 : m \in S => m + 1 \in S
  PROVE  \A m \in 0 .. n : m \in S
<1> SUFFICES ASSUME NEW k \in 0 .. n, k \notin S PROVE FALSE
  OBVIOUS
<1> DEFINE Missing == {m \in 0 .. n : m \notin S}
<1>1. PICK x \in Missing : \A y \in Missing : x =< y
  <2>1. Missing \in SUBSET Nat /\ Missing # {}
    OBVIOUS
  <2> HIDE DEF Missing
  <2> QED
    BY <2>1, LeastOfNats
<1>2. x # 0 /\ x - 1 \in 0 .. n - 1
  BY <1>1
<1>3. x - 1 \in S
  BY <1>1, <1>2
<1>4. (x - 1) + 1 = x
  BY <1>1
<1> QED
  BY <1>1, <1>2, <1>3, <1>4


(***************************************************************************)
(* Recursion.  FoldLeft is MapThenFoldSet with the greatest place of a set *)
(* of places: a function on the sets of places, of which only the values   *)
(* at 1 .. m are of interest.                                              *)
(***************************************************************************)
LEMMA MaxOfInterval ==
  ASSUME NEW n \in Nat, NEW s \in SUBSET (1 .. n), n \in s
  PROVE  Max(s) = n
<1>1. \A x \in s : (\A y \in s : x >= y) <=> x = n
  OBVIOUS
<1> QED
  BY <1>1 DEF Max

IsFold(f, n, base, step) ==
  \A s \in SUBSET (1 .. n) :
    f[s] = IF s = {} THEN base ELSE step[<<Max(s), f[s \ {Max(s)}]>>]

\* The function the fold is defined by exists.
LEMMA Recursion ==
  ASSUME NEW n \in Nat, NEW V, NEW base \in V, NEW step \in [(1 .. n) \X V -> V]
  PROVE  \E f \in [SUBSET (1 .. n) -> V] : IsFold(f, n, base, step)
<1> DEFINE Eq(f, m) ==
             \A s \in SUBSET (1 .. m) :
               f[s] = IF s = {} THEN base ELSE step[<<Max(s), f[s \ {Max(s)}]>>]
           S == {m \in 0 .. n : \E f \in [SUBSET (1 .. m) -> V] : Eq(f, m)}
<1>1. 0 \in S
  <2>1. SUBSET (1 .. 0) = {{}}
    OBVIOUS
  <2>2. [s \in SUBSET (1 .. 0) |-> base] \in [SUBSET (1 .. 0) -> V]
    OBVIOUS
  <2>3. Eq([s \in SUBSET (1 .. 0) |-> base], 0)
    BY <2>1
  <2>4. \E f \in [SUBSET (1 .. 0) -> V] : Eq(f, 0)
    BY <2>2, <2>3
  <2>5. 0 \in 0 .. n
    OBVIOUS
  <2> QED
    BY <2>4, <2>5, Zenon
<1>2. ASSUME NEW m \in 0 .. n - 1, m \in S PROVE m + 1 \in S
  <2>1. PICK f \in [SUBSET (1 .. m) -> V] : Eq(f, m)
    BY <1>2
  <2> DEFINE g == [s \in SUBSET (1 .. m + 1) |->
                     IF m + 1 \in s THEN step[<<m + 1, f[s \ {m + 1}]>>] ELSE f[s]]
  <2>2. \A s \in SUBSET (1 .. m + 1) : m + 1 \notin s => s \in SUBSET (1 .. m)
    OBVIOUS
  <2>3. \A s \in SUBSET (1 .. m + 1) : s \ {m + 1} \in SUBSET (1 .. m)
    OBVIOUS
  <2>4. m + 1 \in 1 .. n
    OBVIOUS
  <2>5. g \in [SUBSET (1 .. m + 1) -> V]
    BY <2>2, <2>3, <2>4
  <2>6. ASSUME NEW s \in SUBSET (1 .. m + 1)
        PROVE  g[s] = IF s = {} THEN base ELSE step[<<Max(s), g[s \ {Max(s)}]>>]
    <3>1. CASE m + 1 \in s
      <4>1. Max(s) = m + 1
        BY <3>1, MaxOfInterval
      <4>2. g[s \ {m + 1}] = f[s \ {m + 1}]
        BY <2>3
      <4> QED
        BY <3>1, <4>1, <4>2
    <3>2. CASE m + 1 \notin s
      <4>1. s \in SUBSET (1 .. m) /\ s \ {Max(s)} \in SUBSET (1 .. m)
        BY <2>2, <3>2
      <4>2. g[s] = f[s] /\ g[s \ {Max(s)}] = f[s \ {Max(s)}]
        BY <3>2, <4>1
      <4> QED
        BY <2>1, <4>1, <4>2
    <3> QED
      BY <3>1, <3>2
  <2>7. Eq(g, m + 1)
    BY <2>6
  <2> HIDE DEF g, Eq
  <2> QED
    BY <2>5, <2>7
<1>3. \A m \in 0 .. n : m \in S
  <2> HIDE DEF S
  <2> QED
    BY <1>1, <1>2, Induction
<1>4. n \in S
  <2> HIDE DEF S
  <2> QED
    BY <1>3
<1> QED
  BY <1>4, Zenon DEF IsFold

LEMMA MaxIsIn ==
  ASSUME NEW n \in Nat, NEW s \in SUBSET (1 .. n), s # {}
  PROVE  Max(s) \in s
<1> DEFINE T == {m \in 0 .. n : \A z \in s : z =< m}
<1>1. T \in SUBSET Nat /\ n \in T
  OBVIOUS
<1>2. PICK m \in T : \A k \in T : m =< k
  <2> HIDE DEF T
  <2> QED
    BY <1>1, LeastOfNats
<1>3. m \in s
  <2> SUFFICES ASSUME m \notin s PROVE FALSE
    OBVIOUS
  <2>1. \A z \in s : z \in 1 .. n /\ z =< m /\ z # m
    OBVIOUS
  <2>2. m # 0
    <3>1. PICK z \in s : TRUE
      OBVIOUS
    <3> QED
      BY <2>1, <3>1
  <2>3. m - 1 \in 0 .. n
    BY <2>2
  <2>4. \A z \in s : z =< m - 1
    BY <2>1
  <2>5. m - 1 \in T
    BY <2>3, <2>4
  <2> QED
    BY <1>2, <2>3, <2>5
<1>4. \A z \in s : m >= z
  OBVIOUS
<1> QED
  BY <1>3, <1>4 DEF Max

\* The values a fold takes place by place: its function, whatever its values are
\* elsewhere, follows the steps as long as it stays in V.
Follows(f, n, V, base, step) ==
  /\ f[{}] = base
  /\ \A s \in SUBSET (1 .. n) :
       s # {} /\ f[s \ {Max(s)}] \in V => f[s] = step[<<Max(s), f[s \ {Max(s)}]>>]

LEMMA FollowsOne ==
  ASSUME NEW n \in Nat, NEW V, NEW base, NEW step, NEW f, Follows(f, n, V, base, step),
         NEW m \in 1 .. n, f[1 .. (m - 1)] \in V
  PROVE  f[1 .. m] = step[<<m, f[1 .. (m - 1)]>>]
<1>1. 1 .. m \in SUBSET (1 .. n) /\ m \in 1 .. m /\ m \in Nat
  OBVIOUS
<1>2. Max(1 .. m) = m
  BY <1>1, MaxOfInterval
<1>3. (1 .. m) \ {m} = 1 .. (m - 1)
  OBVIOUS
<1> QED
  BY <1>1, <1>2, <1>3 DEF Follows

\* c lists the values from the base to the last one
AreStates(c, n, V, base, step, last) ==
  /\ c \in [0 .. n -> V]
  /\ c[0] = base
  /\ \A m \in 1 .. n : c[m] = step[<<m, c[m - 1]>>]
  /\ c[n] = last

LEMMA FoldStates ==
  ASSUME NEW n \in Nat, NEW V, NEW base \in V, NEW step \in [(1 .. n) \X V -> V], NEW f,
         Follows(f, n, V, base, step)
  PROVE  \E c : AreStates(c, n, V, base, step, f[1 .. n])
<1> DEFINE S == {m \in 0 .. n : f[1 .. m] \in V}
           c == [m \in 0 .. n |-> f[1 .. m]]
<1>1. f[1 .. 0] = base
  <2>1. 1 .. 0 = {}
    OBVIOUS
  <2> QED
    BY <2>1 DEF Follows
<1>2. 0 \in S
  BY <1>1
<1>3. ASSUME NEW m \in 0 .. n - 1, m \in S PROVE m + 1 \in S
  <2>1. m + 1 \in 1 .. n /\ (m + 1) - 1 = m
    OBVIOUS
  <2>2. f[1 .. (m + 1) - 1] \in V
    BY <1>3, <2>1
  <2>3. f[1 .. m + 1] = step[<<m + 1, f[1 .. (m + 1) - 1]>>]
    BY <2>1, <2>2, FollowsOne
  <2>4. f[1 .. m + 1] \in V
    BY <2>1, <2>2, <2>3
  <2> QED
    BY <2>1, <2>4
<1>4. \A m \in 0 .. n : m \in S
  <2> HIDE DEF S
  <2> QED
    BY <1>2, <1>3, Induction
<1>5. c \in [0 .. n -> V] /\ c[0] = base /\ c[n] = f[1 .. n]
  BY <1>1, <1>4
<1>6. ASSUME NEW m \in 1 .. n PROVE c[m] = step[<<m, c[m - 1]>>]
  <2>1. m \in 0 .. n /\ m - 1 \in 0 .. n /\ f[1 .. (m - 1)] \in V
    BY <1>4
  <2>2. f[1 .. m] = step[<<m, f[1 .. (m - 1)]>>]
    BY <2>1, FollowsOne
  <2> QED
    BY <2>1, <2>2
<1> HIDE DEF c
<1>7. AreStates(c, n, V, base, step, f[1 .. n])
  BY <1>5, <1>6 DEF AreStates
<1> QED
  BY <1>7

-----------------------------------------------------------------------------
(***************************************************************************)
(* Selection.                                                              *)
(***************************************************************************)
\* The i-th smallest element of a set of numbers is one of them, and has i - 1
\* of them below it.
LEMMA NthBelow ==
  ASSUME NEW n \in Nat, NEW S \in SUBSET (0 .. n), NEW i \in 1 .. Cardinality(S)
  PROVE  /\ Nth(S, i) \in S
         /\ Cardinality({m \in S : m < Nth(S, i)}) = i - 1
<1> DEFINE Below(k) == {m \in S : m < k}
           B == {k \in Nat : Cardinality(Below(k)) >= i}
<1>0. \A m \in S : m \in Nat
  OBVIOUS
<1>1. \A k \in Nat : IsFiniteSet(Below(k)) /\ Cardinality(Below(k)) \in Nat
  <2>1. IsFiniteSet(0 .. n)
    BY FS_Interval
  <2>2. IsFiniteSet(S)
    BY <2>1, FS_Subset
  <2> QED
    BY <2>2, FS_Subset, FS_CardinalityType
<1>2. Below(n + 1) = S
  <2>1. \A m \in S : m < n + 1
    OBVIOUS
  <2> QED
    BY <2>1
<1>3. Cardinality(S) \in Nat
  BY <1>1, <1>2
<1>4. n + 1 \in B
  BY <1>2, <1>3
<1>5. PICK k \in B : \A y \in B : k =< y
  BY <1>4, LeastOfNats
<1>6. k # 0
  <2>0. \A m \in S : ~(m < 0)
    BY <1>0
  <2>1. Below(0) = {}
    BY <2>0
  <2>2. Cardinality(Below(0)) = 0
    BY <2>1, FS_EmptySet
  <2> QED
    BY <2>2, <1>3
<1>7. k - 1 \in Nat /\ k - 1 \notin B
  BY <1>5, <1>6
<1>8. Cardinality(Below(k - 1)) < i /\ Cardinality(Below(k)) >= i
  BY <1>1, <1>3, <1>5, <1>7
<1>9. k - 1 \in S
  <2>1. k - 1 \notin S => Below(k) = Below(k - 1)
    <3>1. \A m \in S : m # k - 1 => (m < k <=> m < k - 1)
      BY <1>0, <1>5, <1>7
    <3> QED
      BY <3>1
  <2> QED
    BY <2>1, <1>1, <1>3, <1>7, <1>8
<1>10. Below(k) = Below(k - 1) \cup {k - 1} /\ k - 1 \notin Below(k - 1)
  <2>1. \A m \in S : m < k <=> m < k - 1 \/ m = k - 1
    BY <1>0, <1>5, <1>7
  <2>2. ~(k - 1 < k - 1)
    BY <1>7
  <2> HIDE DEF B
  <2> QED
    BY <1>9, <2>1, <2>2, Zenon
<1>11. Cardinality(Below(k)) = Cardinality(Below(k - 1)) + 1
  BY <1>1, <1>7, <1>10, FS_AddElement
<1>12. Cardinality(Below(k - 1)) = i - 1
  BY <1>1, <1>3, <1>7, <1>8, <1>11
<1> QED
  BY <1>9, <1>12 DEF Nth

LEMMA NthIsIn ==
  ASSUME NEW n \in Nat, NEW S \in SUBSET (0 .. n), NEW i \in 1 .. Cardinality(S)
  PROVE  Nth(S, i) \in S
BY NthBelow

LEMMA FiniteNumbers ==
  ASSUME NEW n \in Nat, NEW S \in SUBSET (0 .. n)
  PROVE  IsFiniteSet(S) /\ Cardinality(S) \in Nat
<1>1. IsFiniteSet(0 .. n)
  BY FS_Interval
<1>2. IsFiniteSet(S)
  BY <1>1, FS_Subset
<1> QED
  BY <1>2, FS_CardinalityType

\* They come in increasing order, and all of them.
LEMMA NthIncreases ==
  ASSUME NEW n \in Nat, NEW S \in SUBSET (0 .. n), NEW i \in 1 .. Cardinality(S),
         NEW j \in 1 .. Cardinality(S), i < j
  PROVE  Nth(S, i) < Nth(S, j)
<1> DEFINE Below(k) == {m \in S : m < k}
<1>1. PICK y \in S : y = Nth(S, i) /\ Cardinality(Below(y)) = i - 1
  BY NthBelow, Zenon
<1>2. PICK z \in S : z = Nth(S, j) /\ Cardinality(Below(z)) = j - 1
  BY NthBelow, Zenon
<1>3. ASSUME z =< y PROVE FALSE
  <2>1. Below(z) \subseteq Below(y)
    <3>1. \A m \in S : m \in Int
      OBVIOUS
    <3>2. \A m \in Int : m < z => m < y
      BY <1>3, <3>1
    <3> QED
      BY <3>1, <3>2, Zenon
  <2>2. IsFiniteSet(Below(y))
    BY FiniteNumbers, FS_Subset
  <2>3. j - 1 =< i - 1
    BY <1>1, <1>2, <2>1, <2>2, FS_Subset, FS_CardinalityType
  <2>4. i \in Int /\ j \in Int
    BY FiniteNumbers
  <2> QED
    BY <2>3, <2>4
<1>4. y < z
  BY <1>3
<1> QED
  BY <1>1, <1>2, <1>4

LEMMA NthOfAll ==
  ASSUME NEW n \in Nat, NEW S \in SUBSET (0 .. n), NEW x \in S
  PROVE  \E i \in 1 .. Cardinality(S) : Nth(S, i) = x
<1> DEFINE Below(k) == {m \in S : m < k}
           i == Cardinality(Below(x)) + 1
<1>0. \A m \in S : m \in Nat
  OBVIOUS
<1>1. \A k : IsFiniteSet(Below(k)) /\ Cardinality(Below(k)) \in Nat
  BY FiniteNumbers, FS_Subset, FS_CardinalityType
<1>2. ASSUME NEW y \in S, NEW z \in S, y < z
      PROVE  Cardinality(Below(y)) < Cardinality(Below(z))
  <2>1. Below(y) \cup {y} \subseteq Below(z) /\ y \notin Below(y)
    <3>1. \A m \in Nat : m < y => m < z
      BY <1>0, <1>2
    <3>2. ~(y < y)
      BY <1>0
    <3> QED
      BY <1>0, <1>2, <3>1, <3>2, Zenon
  <2>2. Cardinality(Below(y) \cup {y}) = Cardinality(Below(y)) + 1
    BY <1>1, <2>1, FS_AddElement
  <2>3. Cardinality(Below(y) \cup {y}) =< Cardinality(Below(z))
    BY <1>1, <2>1, FS_Subset
  <2> QED
    BY <1>1, <2>2, <2>3
<1>3. i \in 1 .. Cardinality(S)
  <2>1. Below(x) \cup {x} \subseteq S /\ x \notin Below(x)
    BY <1>0
  <2>2. Cardinality(Below(x) \cup {x}) = Cardinality(Below(x)) + 1
    BY <1>1, <2>1, FS_AddElement
  <2>3. Cardinality(Below(x) \cup {x}) =< Cardinality(S)
    BY <2>1, FiniteNumbers, FS_Subset
  <2> QED
    BY <1>1, <2>2, <2>3, FiniteNumbers
<1>4. PICK y \in S : y = Nth(S, i) /\ Cardinality(Below(y)) = i - 1
  BY <1>3, NthBelow, Zenon
<1>5. Cardinality(Below(y)) = Cardinality(Below(x))
  BY <1>1, <1>4
<1>6. ~(y < x) /\ ~(x < y)
  <2>1. \A k : Cardinality(Below(k)) \in Int /\ ~(Cardinality(Below(k)) < Cardinality(Below(k)))
    BY <1>1
  <2> HIDE DEF Below
  <2> QED
    BY <1>2, <1>5, <2>1, Zenon
<1>7. x = y
  BY <1>6
<1> QED
  BY <1>3, <1>4, <1>7, Zenon

\* What is picked from a sequence is a sequence of elements of it, in the
\* order of their places.
LEMMA PickedFacts ==
  ASSUME NEW T, NEW s \in Seq(T), NEW S \in SUBSET (1 .. Len(s))
  PROVE  /\ Cardinality(S) \in Nat
         /\ Picked(s, S) \in Seq(T)
         /\ Len(Picked(s, S)) = Cardinality(S)
         /\ \A i \in 1 .. Cardinality(S) : Nth(S, i) \in S /\ Picked(s, S)[i] = s[Nth(S, i)]
         /\ \A x \in S : \E i \in 1 .. Cardinality(S) : Nth(S, i) = x
<1>1. Len(s) \in Nat /\ S \in SUBSET (0 .. Len(s))
  OBVIOUS
<1>2. Cardinality(S) \in Nat
  BY <1>1, FiniteNumbers
<1>3. \A i \in 1 .. Cardinality(S) : Nth(S, i) \in S
  BY <1>1, NthIsIn
<1>4. \A x \in S : \E i \in 1 .. Cardinality(S) : Nth(S, i) = x
  BY <1>1, NthOfAll
<1>5. \A i \in 1 .. Cardinality(S) : s[Nth(S, i)] \in T
  <2>1. \A x \in S : s[x] \in T
    OBVIOUS
  <2> QED
    BY <1>3, <2>1, Zenon
<1>6. Picked(s, S) \in [1 .. Cardinality(S) -> T]
  BY <1>5 DEF Picked
<1>7. Picked(s, S) \in Seq(T) /\ Len(Picked(s, S)) = Cardinality(S)
  BY <1>2, <1>6
<1>8. \A i \in 1 .. Cardinality(S) : Picked(s, S)[i] = s[Nth(S, i)]
  BY DEF Picked
<1> QED
  BY <1>2, <1>3, <1>4, <1>7, <1>8

\* The place of a number among those of a set is given by how many are below it.
LEMMA NthIs ==
  ASSUME NEW n \in Nat, NEW S \in SUBSET (0 .. n), NEW x \in S,
         NEW i \in 1 .. Cardinality(S), Cardinality({m \in S : m < x}) = i - 1
  PROVE  Nth(S, i) = x
<1>1. PICK j \in 1 .. Cardinality(S) : Nth(S, j) = x
  BY NthOfAll
<1>2. Cardinality({m \in S : m < x}) = j - 1
  BY <1>1, NthBelow
<1>3. i \in Int /\ j \in Int
  BY FiniteNumbers
<1>4. i = j
  BY <1>2, <1>3
<1> QED
  BY <1>1, <1>4

\* What is picked is given by the elements at the places.
LEMMA PickedSame ==
  ASSUME NEW n \in Nat, NEW S \in SUBSET (0 .. n), NEW s, NEW t,
         \A x \in S : s[x] = t[x]
  PROVE  Picked(s, S) = Picked(t, S)
<1>1. \A i \in 1 .. Cardinality(S) : s[Nth(S, i)] = t[Nth(S, i)]
  BY NthIsIn
<1> QED
  BY <1>1 DEF Picked

\* A place behind the others adds its element at the end.
LEMMA PickedMore ==
  ASSUME NEW n \in Nat, NEW S \in SUBSET (0 .. n), NEW x \in 0 .. n,
         \A y \in S : y < x, NEW s
  PROVE  Picked(s, S \cup {x}) = Append(Picked(s, S), s[x])
<1> DEFINE c == Cardinality(S)
           R == S \cup {x}
           T == {s[y] : y \in S}
<1>1. c \in Nat /\ IsFiniteSet(S) /\ x \notin S /\ R \in SUBSET (0 .. n)
  <2>1. x \notin S
    OBVIOUS
  <2> QED
    BY <2>1, FiniteNumbers
<1>2. Cardinality(R) = c + 1
  BY <1>1, FS_AddElement
<1>3. ASSUME NEW i \in 1 .. c PROVE Nth(R, i) = Nth(S, i) /\ Nth(S, i) \in S
  <2>1. PICK y \in S : y = Nth(S, i) /\ Cardinality({m \in S : m < y}) = i - 1
    BY NthBelow, Zenon
  <2>2. ~(x < y)
    OBVIOUS
  <2>3. {m \in R : m < y} = {m \in S : m < y}
    BY <2>2
  <2>4. i \in 1 .. Cardinality(R) /\ y \in R
    BY <1>1, <1>2
  <2>5. Nth(R, i) = y
    <3>1. Cardinality({m \in R : m < y}) = i - 1
      BY <2>1, <2>3
    <3> HIDE DEF R, c, T
    <3> QED
      BY <1>1, <2>4, <3>1, NthIs
  <2> QED
    BY <2>1, <2>5
<1>4. Nth(R, c + 1) = x
  <2>1. ~(x < x)
    OBVIOUS
  <2>2. {m \in R : m < x} = S
    BY <2>1
  <2>3. Cardinality({m \in R : m < x}) = (c + 1) - 1
    <3>1. Cardinality({m \in R : m < x}) = c
      BY <2>2
    <3>2. (c + 1) - 1 = c
      BY <1>1
    <3> QED
      BY <3>1, <3>2
  <2>4. c + 1 \in 1 .. Cardinality(R) /\ x \in R
    BY <1>1, <1>2
  <2> HIDE DEF R, c
  <2> QED
    BY <1>1, <2>3, <2>4, NthIs
<1>5. Picked(s, S) = [i \in 1 .. c |-> s[Nth(S, i)]]
  BY DEF Picked
<1>6. Picked(s, S) \in Seq(T) /\ Len(Picked(s, S)) = c
  <2>1. Picked(s, S) \in [1 .. c -> T]
    BY <1>3, <1>5
  <2> HIDE DEF T, c
  <2> QED
    BY <1>1, <2>1
<1>7. Picked(s, R) = [i \in 1 .. c + 1 |-> s[Nth(R, i)]]
  BY <1>2 DEF Picked
<1> HIDE DEF c, R, T
<1>8. DOMAIN Append(Picked(s, S), s[x]) = 1 .. c + 1
      /\ Append(Picked(s, S), s[x]) = [i \in 1 .. c + 1 |-> Append(Picked(s, S), s[x])[i]]
  BY <1>1, <1>6
<1>9. ASSUME NEW i \in 1 .. c + 1 PROVE Append(Picked(s, S), s[x])[i] = s[Nth(R, i)]
  <2>1. CASE i = c + 1
    BY <1>1, <1>4, <1>6, <2>1
  <2>2. CASE i # c + 1
    <3>1. i \in 1 .. c
      BY <1>1, <2>2
    <3>2. Append(Picked(s, S), s[x])[i] = Picked(s, S)[i]
      BY <1>1, <1>6, <3>1
    <3> QED
      BY <1>3, <1>5, <3>1, <3>2
  <2> QED
    BY <2>1, <2>2
<1> QED
  BY <1>7, <1>8, <1>9, Zenon DEF R

-----------------------------------------------------------------------------
(***************************************************************************)
(* Building sequences.                                                     *)
(***************************************************************************)
LEMMA SeqOfMore ==
  ASSUME NEW S, NEW T, S \subseteq T, NEW s \in Seq(S)
  PROVE  s \in Seq(T)
OBVIOUS

\* A function on the places of a sequence is a sequence.
LEMMA MappedSeq ==
  ASSUME NEW S, NEW T, NEW s \in Seq(S), NEW f \in [DOMAIN s -> T]
  PROVE  f \in Seq(T) /\ Len(f) = Len(s)
<1>1. Len(s) \in Nat /\ f \in [1 .. Len(s) -> T]
  OBVIOUS
<1> QED
  BY <1>1

\* r spliced in behind the first p elements of s
LEMMA SplicedSeq ==
  ASSUME NEW T, NEW s \in Seq(T), NEW r \in Seq(T), NEW p \in 0 .. Len(s)
  PROVE  SubSeq(s, 1, p) \o r \o SubSeq(s, p + 1, Len(s)) \in Seq(T)
<1>1. SubSeq(s, 1, p) \in Seq(T) /\ SubSeq(s, p + 1, Len(s)) \in Seq(T)
  OBVIOUS
<1> QED
  BY <1>1

LEMMA InsertedSeq ==
  ASSUME NEW T, NEW s \in Seq(T), NEW e \in T, NEW i \in 1 .. Len(s) + 1
  PROVE  InsertAt(s, i, e) \in Seq(T)
<1>1. i - 1 \in 0 .. Len(s) /\ (i - 1) + 1 = i /\ <<e>> \in Seq(T)
  OBVIOUS
<1>2. SubSeq(s, 1, i - 1) \o <<e>> \o SubSeq(s, (i - 1) + 1, Len(s)) \in Seq(T)
  BY <1>1, SplicedSeq
<1> QED
  BY <1>1, <1>2 DEF InsertAt

-----------------------------------------------------------------------------
(***************************************************************************)
(* Sequences of sequences.                                                 *)
(***************************************************************************)
\* The concatenation of sequences over T is a sequence over T.
LEMMA FlattenedSeq ==
  ASSUME NEW T, NEW seqs \in Seq(Seq(T))
  PROVE  FlattenSeq(seqs) \in Seq(T)
<1> DEFINE n == Len(seqs)
           Eq(f, m) == f = [i \in 1 .. m |-> IF i = 1 THEN seqs[i] ELSE f[i - 1] \o seqs[i]]
           S == {m \in 0 .. n : \E f \in [1 .. m -> Seq(T)] : Eq(f, m)}
<1>0. n \in Nat /\ \A i \in 1 .. n : seqs[i] \in Seq(T)
  OBVIOUS
<1>1. 0 \in S
  <2>1. \A f : [i \in 1 .. 0 |-> i] = [i \in 1 .. 0 |-> IF i = 1 THEN seqs[i] ELSE f[i - 1] \o seqs[i]]
    OBVIOUS
  <2>2. [i \in 1 .. 0 |-> i] \in [1 .. 0 -> Seq(T)]
    OBVIOUS
  <2>3. \E f \in [1 .. 0 -> Seq(T)] : Eq(f, 0)
    BY <2>1, <2>2, Zenon
  <2>4. 0 \in 0 .. n
    BY <1>0
  <2> QED
    BY <2>3, <2>4, Zenon
<1>2. ASSUME NEW m \in 0 .. n - 1, m \in S PROVE m + 1 \in S
  <2>1. PICK f \in [1 .. m -> Seq(T)] : Eq(f, m)
    BY <1>2
  <2> DEFINE g == [i \in 1 .. m + 1 |-> IF i <= m THEN f[i]
                                        ELSE IF m = 0 THEN seqs[1] ELSE f[m] \o seqs[m + 1]]
  <2>2. m + 1 \in 1 .. n /\ m + 1 \in 0 .. n /\ m \in Nat
    BY <1>0
  <2>3. g \in [1 .. m + 1 -> Seq(T)]
    <3>1. \A i \in 1 .. m + 1 : i <= m => f[i] \in Seq(T)
      BY <2>2
    <3>2. m # 0 => f[m] \o seqs[m + 1] \in Seq(T)
      BY <1>0, <2>2
    <3>3. m = 0 => seqs[1] \in Seq(T)
      BY <1>0, <2>2
    <3> QED
      BY <2>2, <3>1, <3>2, <3>3
  <2>4. ASSUME NEW i \in 1 .. m + 1
        PROVE  g[i] = IF i = 1 THEN seqs[i] ELSE g[i - 1] \o seqs[i]
    <3>1. CASE i <= m
      <4>1. i \in 1 .. m /\ (i # 1 => i - 1 \in 1 .. m /\ i - 1 \in 1 .. m + 1 /\ i - 1 <= m)
        BY <2>2, <3>1
      <4>2. g[i] = f[i] /\ (i # 1 => g[i - 1] = f[i - 1])
        BY <4>1
      <4>3. f[i] = IF i = 1 THEN seqs[i] ELSE f[i - 1] \o seqs[i]
        BY <2>1, <4>1
      <4> QED
        BY <4>2, <4>3
    <3>2. CASE i = m + 1
      BY <2>2, <3>2
    <3> QED
      BY <2>2, <3>1, <3>2
  <2>5. Eq(g, m + 1)
    BY <2>2, <2>4
  <2> HIDE DEF g, Eq
  <2> QED
    BY <2>2, <2>3, <2>5
<1>3. \A m \in 0 .. n : m \in S
  <2> HIDE DEF S, n
  <2> QED
    BY <1>0, <1>1, <1>2, Induction
<1>4. PICK f \in [1 .. n -> Seq(T)] : Eq(f, n)
  <2>1. n \in 0 .. n
    BY <1>0
  <2> QED
    BY <1>3, <2>1, Zenon
<1> DEFINE F == CHOOSE g : Eq(g, n)
<1>5. Eq(F, n)
  <2> HIDE DEF Eq
  <2> QED
    BY <1>4, Zenon
<1>6. CASE n = 0
  BY <1>6 DEF FlattenSeq
<1>7. CASE n # 0
  <2>1. FlattenSeq(seqs) = F[n]
    BY <1>7, Zenon DEF FlattenSeq
  <2> HIDE DEF F
  <2> DEFINE R == {m \in 0 .. n : m # 0 => F[m] \in Seq(T)}
  <2>2. 0 \in R
    BY <1>0
  <2>3. ASSUME NEW m \in 0 .. n - 1, m \in R PROVE m + 1 \in R
    <3>1. m + 1 \in 1 .. n /\ (m + 1) - 1 = m /\ (m + 1 = 1 <=> m = 0) /\ m + 1 \in 0 .. n
      BY <1>0
    <3>2. F[m + 1] = IF m = 0 THEN seqs[m + 1] ELSE F[m] \o seqs[m + 1]
      BY <1>5, <3>1
    <3>3. F[m + 1] \in Seq(T)
      BY <1>0, <2>3, <3>1, <3>2
    <3> QED
      BY <3>1, <3>3
  <2>4. \A m \in 0 .. n : m \in R
    <3> HIDE DEF R
    <3> QED
      BY <1>0, <2>2, <2>3, Induction
  <2> QED
    BY <1>0, <1>7, <2>1, <2>4
<1> QED
  BY <1>6, <1>7
=============================================================================
