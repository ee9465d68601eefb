----------------------------- MODULE Inductions -----------------------------
(***************************************************************************)
(* Induction and recursion, as facts about sets.  Each is stated for a set *)
(* where a predicate would be expected: the set of those that have it.     *)
(***************************************************************************)
EXTENDS FiniteSetsExt, FiniteSetTheorems, SequenceTheorems, TLAPS

(* A non-empty set of naturals has a least element. *)
LEMMA LeastNatural ==
    ASSUME NEW T \in SUBSET Nat, T # {}
    PROVE  \E n \in T : \A m \in T : n <= m
<1> DEFINE R == OpToRel(<, Nat)
<1>1. IsWellFoundedOn(R, Nat)
  BY NatLessThanWellFounded
<1>2. \E n \in T : \A m \in T : ~ (<<m, n>> \in R)
  <2> HIDE DEF R
  <2> QED
    BY <1>1, WFMin
<1>3. \A n, m \in T : ~(<<m, n>> \in R) => n <= m
  BY DEF OpToRel
<1> QED
  BY <1>2, <1>3

(* A set with 0 and with each successor of its naturals has them all. *)
LEMMA NaturalInduction ==
    ASSUME NEW S, 0 \in S, \A n \in Nat : n \in S => n + 1 \in S
    PROVE  Nat \subseteq S
<1> DEFINE T == Nat \ S
<1> SUFFICES ASSUME T # {} PROVE FALSE
  OBVIOUS
<1>1. PICK n \in T : \A m \in T : n <= m
  BY LeastNatural
<1>2. n # 0 /\ n - 1 \in Nat /\ n - 1 \notin T
  BY <1>1
<1> QED
  BY <1>2

(* The same for sequences, which grow at their end. *)
LEMMA SequenceInduction ==
    ASSUME NEW A, NEW S, <<>> \in S,
           \A s \in Seq(A) : \A e \in A : s \in S => Append(s, e) \in S
    PROVE  Seq(A) \subseteq S
<1> DEFINE N == {n \in Nat : \A s \in Seq(A) : Len(s) = n => s \in S}
<1>1. 0 \in N
  <2>1. \A s \in Seq(A) : Len(s) = 0 => s = <<>>
    BY EmptySeq
  <2> QED
    BY <2>1
<1>2. ASSUME NEW n \in Nat, n \in N
      PROVE  n + 1 \in N
  <2> SUFFICES ASSUME NEW s \in Seq(A), Len(s) = n + 1
               PROVE  s \in S
    OBVIOUS
  <2>1. s # <<>>
    OBVIOUS
  <2>2. PICK t \in Seq(A), e \in A : s = Append(t, e)
    BY <2>1, SequenceEmptyOrAppend
  <2>3. Len(t) = n
    BY <2>2, AppendProperties
  <2> QED
    BY <1>2, <2>2, <2>3
<1>3. Nat \subseteq N
  <2> HIDE DEF N
  <2> QED
    BY <1>1, <1>2, NaturalInduction
<1> QED
  BY <1>3, LenProperties

(* The same for the subsets of a finite set, one element at a time. *)
LEMMA SubsetInduction ==
    ASSUME NEW S, IsFiniteSet(S), NEW C, {} \in C,
           \A T \in SUBSET S : \A x \in S \ T : T \in C => T \cup {x} \in C
    PROVE  SUBSET S \subseteq C
<1> DEFINE B == {T \in SUBSET S : T \notin C}
<1> SUFFICES ASSUME B # {} PROVE FALSE
  OBVIOUS
<1>1. B \subseteq FiniteSubsetsOf(S)
  BY FS_FiniteSubsetsOfFinite
<1>2. PICK T \in B : \A U \in B : ~(<<U, T>> \in StrictSubsetOrdering(S))
  <2> HIDE DEF B
  <2> QED
    BY <1>1, WFMin, FS_StrictSubsetOrderingWellFounded
<1>3. PICK x \in T : TRUE
  OBVIOUS
<1>4. T \ {x} \notin B
  BY <1>2, <1>3 DEF StrictSubsetOrdering
<1>5. (T \ {x}) \cup {x} = T /\ T \ {x} \in SUBSET S /\ x \in S \ (T \ {x})
  BY <1>3
<1> QED
  BY <1>4, <1>5

(* A function on the subsets of a finite set can be defined by saying how  *)
(* it follows from the value of the set without one element, which choose  *)
(* picks: the recursion behind the folds of the community modules.         *)
Chooses(choose, S) == \A T \in SUBSET S : T # {} => choose[T] \in T

IsFold(iter, S, V, base, choose, step) ==
    \A T \in SUBSET S :
        IF T = {} THEN iter[T] = base
        ELSE iter[T \ {choose[T]}] \in V =>
               iter[T] = step[<<choose[T], iter[T \ {choose[T]}]>>]

(* There is such a function: sets of one size after another are added to it. *)
LEMMA FoldExists ==
    ASSUME NEW S, IsFiniteSet(S), NEW V, NEW base \in V,
           NEW choose, Chooses(choose, S), NEW step \in [S \X V -> V]
    PROVE  \E iter \in [SUBSET S -> V] : IsFold(iter, S, V, base, choose, step)
<1> USE DEF Chooses, IsFold
<1> DEFINE Upto(n) == {T \in SUBSET S : Cardinality(T) <= n}
           Good(n, g) == /\ g \in [Upto(n) -> V]
                         /\ \A T \in Upto(n) : 
                              g[T] = IF T = {} THEN base
                                     ELSE step[<<choose[T], g[T \ {choose[T]}]>>]
           N == {n \in Nat : \E g : Good(n, g)}
<1>1. \A T \in SUBSET S : IsFiniteSet(T) /\ Cardinality(T) \in Nat
  BY FS_Subset, FS_CardinalityType
<1>2. \A T \in SUBSET S : T # {} => Cardinality(T \ {choose[T]}) = Cardinality(T) - 1
  BY <1>1, FS_RemoveElement
<1>3. \A T \in SUBSET S : Cardinality(T) = 0 <=> T = {}
  BY <1>1, FS_EmptySet
<1>4. 0 \in N
  <2> DEFINE g == [T \in Upto(0) |-> base]
  <2>1. \A T \in Upto(0) : T = {}
    BY <1>1, <1>3
  <2>2. Good(0, g)
    BY <2>1
  <2> QED
    BY <2>2
<1>5. ASSUME NEW n \in Nat, n \in N
      PROVE  n + 1 \in N
  <2>1. PICK g : Good(n, g)
    BY <1>5
  <2> DEFINE h == [T \in Upto(n + 1) |->
                     IF T \in Upto(n) THEN g[T]
                     ELSE step[<<choose[T], g[T \ {choose[T]}]>>]]
  <2>2. \A T \in Upto(n + 1) : T # {} =>
          /\ choose[T] \in S /\ T \ {choose[T]} \in Upto(n)
          /\ h[T \ {choose[T]}] = g[T \ {choose[T]}]
    BY <1>1, <1>2
  <2>3. \A T \in Upto(n + 1) \ Upto(n) : T # {}
    BY <1>1, <1>3
  <2>4. h \in [Upto(n + 1) -> V]
    BY <2>1, <2>2, <2>3
  <2>5. ASSUME NEW T \in Upto(n + 1)
        PROVE  h[T] = IF T = {} THEN base ELSE step[<<choose[T], h[T \ {choose[T]}]>>]
    <3>1. CASE T \in Upto(n)
      <4>1. h[T] = g[T]
        BY <3>1
      <4>2. g[T] = IF T = {} THEN base ELSE step[<<choose[T], g[T \ {choose[T]}]>>]
        BY <2>1, <3>1
      <4> HIDE DEF h
      <4> QED
        BY <2>2, <4>1, <4>2
    <3>2. CASE T \notin Upto(n)
      <4>1. h[T] = step[<<choose[T], g[T \ {choose[T]}]>>] /\ T # {}
        BY <2>3, <3>2
      <4> HIDE DEF h
      <4> QED
        BY <2>2, <4>1
    <3> QED
      BY <3>1, <3>2
  <2>6. Good(n + 1, h)
    <3> HIDE DEF h
    <3> QED
      BY <2>4, <2>5
  <2> HIDE DEF h, Good
  <2> QED
    BY <2>6
<1>6. Nat \subseteq N
  <2> HIDE DEF N
  <2> QED
    BY <1>4, <1>5, NaturalInduction
<1>7. PICK g : Good(Cardinality(S), g)
  BY <1>1, <1>6
<1>8. Upto(Cardinality(S)) = SUBSET S
  BY <1>1, FS_Subset
<1> QED
  BY <1>7, <1>8

(* Whatever satisfies such a definition has its values where they should be. *)
LEMMA FoldType ==
    ASSUME NEW S, IsFiniteSet(S), NEW V, NEW base \in V,
           NEW choose, Chooses(choose, S), NEW step \in [S \X V -> V],
           NEW iter, IsFold(iter, S, V, base, choose, step)
    PROVE  \A T \in SUBSET S : iter[T] \in V
<1> USE DEF Chooses, IsFold
<1> DEFINE N == {n \in Nat : \A T \in SUBSET S : Cardinality(T) = n => iter[T] \in V}
<1>1. \A T \in SUBSET S : IsFiniteSet(T) /\ Cardinality(T) \in Nat
  BY FS_Subset, FS_CardinalityType
<1>2. \A T \in SUBSET S : Cardinality(T) = 0 <=> T = {}
  BY <1>1, FS_EmptySet
<1>3. 0 \in N
  BY <1>2
<1>4. ASSUME NEW n \in Nat, n \in N
      PROVE  n + 1 \in N
  <2> SUFFICES ASSUME NEW T \in SUBSET S, Cardinality(T) = n + 1
               PROVE  iter[T] \in V
    OBVIOUS
  <2>1. T # {}
    BY <1>2
  <2>2. PICK c : /\ c = choose[T] /\ c \in T
                 /\ iter[T \ {c}] \in V => iter[T] = step[<<c, iter[T \ {c}]>>]
    BY <2>1
  <2>3. Cardinality(T \ {c}) = n
    <3>1. IsFiniteSet(T) /\ (n + 1) - 1 = n
      BY <1>1
    <3>2. ASSUME NEW y \in T
          PROVE  Cardinality(T \ {y}) = n
      BY <3>1, FS_RemoveElement
    <3> QED
      BY <2>2, <3>2
  <2>4. T \ {c} \in SUBSET S /\ iter[T \ {c}] \in V
    BY <1>4, <2>3
  <2> QED
    BY <2>2, <2>4
<1>5. Nat \subseteq N
  <2> HIDE DEF N
  <2> QED
    BY <1>3, <1>4, NaturalInduction
<1> QED
  BY <1>1, <1>5

(* A sum over a set does not depend on the order of its elements.          *)
IsSum(total, S, z) ==
    /\ total \in [SUBSET S -> Int]
    /\ total[{}] = 0
    /\ \A T \in SUBSET S : \A x \in T : total[T] = z[x] + total[T \ {x}]

(* Removing any element, not only the chosen one, takes its value away.    *)
LEMMA SumOrder ==
    ASSUME NEW S, IsFiniteSet(S), NEW z \in [S -> Int],
           NEW choose, Chooses(choose, S),
           NEW total \in [SUBSET S -> Int],
           \A T \in SUBSET S : 
             total[T] = IF T = {} THEN 0 ELSE z[choose[T]] + total[T \ {choose[T]}]
    PROVE  IsSum(total, S, z)
<1> USE DEF Chooses
<1> DEFINE Any(T) == \A x \in T : total[T] = z[x] + total[T \ {x}]
           N == {n \in Nat : \A T \in SUBSET S : Cardinality(T) = n => Any(T)}
<1>1. \A T \in SUBSET S : IsFiniteSet(T) /\ Cardinality(T) \in Nat
  BY FS_Subset, FS_CardinalityType
<1>2. \A T \in SUBSET S : Cardinality(T) = 0 <=> T = {}
  BY <1>1, FS_EmptySet
<1>3. 0 \in N
  BY <1>2
<1>4. ASSUME NEW n \in Nat, n \in N
      PROVE  n + 1 \in N
  <2> SUFFICES ASSUME NEW T \in SUBSET S, Cardinality(T) = n + 1, NEW x \in T
               PROVE  total[T] = z[x] + total[T \ {x}]
    OBVIOUS
  <2>1. PICK c : c \in T /\ total[T] = z[c] + total[T \ {c}]
    OBVIOUS
  <2>2. CASE x = c
    BY <2>1, <2>2
  <2>3. CASE x # c
    <3>1. Cardinality(T \ {c}) = n /\ Cardinality(T \ {x}) = n
      <4>1. IsFiniteSet(T) /\ (n + 1) - 1 = n
        BY <1>1
      <4>2. ASSUME NEW y \in T
            PROVE  Cardinality(T \ {y}) = n
        BY <4>1, FS_RemoveElement
      <4> QED
        BY <2>1, <4>2
    <3>2. Any(T \ {c}) /\ Any(T \ {x})
      BY <1>4, <3>1
    <3>3. (T \ {c}) \ {x} = (T \ {x}) \ {c}
      OBVIOUS
    <3>4. /\ total[T \ {c}] = z[x] + total[(T \ {c}) \ {x}]
          /\ total[T \ {x}] = z[c] + total[(T \ {x}) \ {c}]
      BY <2>1, <2>3, <3>2
    <3>5. z[x] \in Int /\ z[c] \in Int /\ total[(T \ {c}) \ {x}] \in Int
      BY <2>1
    <3> DEFINE r == total[(T \ {c}) \ {x}]
    <3>6. total[T] = z[c] + (z[x] + r) /\ total[T \ {x}] = z[c] + r
      BY <2>1, <3>3, <3>4
    <3>7. z[c] + (z[x] + r) = z[x] + (z[c] + r)
      BY <3>5
    <3> QED
      BY <3>6, <3>7
  <2> QED
    BY <2>2, <2>3
<1>5. Nat \subseteq N
  <2> HIDE DEF N
  <2> QED
    BY <1>3, <1>4, NaturalInduction
<1> QED
  BY <1>1, <1>5 DEF IsSum

-----------------------------------------------------------------------------
(* Folds over sequences take the largest index first. *)
LEMMA MaxOfNaturals ==
    ASSUME NEW T \in SUBSET Nat, T # {}, IsFiniteSet(T)
    PROVE  Max(T) \in T /\ \A k \in T : k <= Max(T)
<1> DEFINE C == {U \in SUBSET T : U # {} => \E m \in U : \A k \in U : k <= m}
<1>1. ASSUME NEW U \in SUBSET T, NEW x \in T \ U, U \in C
      PROVE  U \cup {x} \in C
  <2>1. CASE U = {}
    BY <2>1
  <2>2. CASE U # {}
    <3>1. PICK m \in U : \A k \in U : k <= m
      BY <1>1, <2>2
    <3>2. \E n \in U \cup {x} : \A k \in U \cup {x} : k <= n
      <4>1. CASE x <= m
        BY <3>1, <4>1
      <4>2. CASE ~(x <= m)
        <5>1. \A k \in U \cup {x} : k <= x
          BY <3>1, <4>2
        <5> QED
          BY <5>1
      <4> QED
        BY <4>1, <4>2
    <3> QED
      BY <3>2
  <2> QED
    BY <2>1, <2>2
<1>2. SUBSET T \subseteq C
  <2>1. {} \in C
    OBVIOUS
  <2> HIDE DEF C
  <2> QED
    BY <1>1, <2>1, SubsetInduction
<1>3. \E m \in T : \A k \in T : k <= m
  BY <1>2
<1> QED
  BY <1>3 DEF Max

Largest(n) == [T \in SUBSET (1..n) |-> Max(T)]

(* The largest index is a choice, and of a prefix it is the last.          *)
LEMMA LargestChooses ==
    ASSUME NEW n \in Nat
    PROVE  /\ IsFiniteSet(1..n) /\ Chooses(Largest(n), 1..n)
           /\ \A T \in SUBSET (1..n) : T # {} => /\ Largest(n)[T] = Max(T)
                                                 /\ Max(T) \in T
           /\ \A i \in 1..n : Max(1..i) = i
<1>1. IsFiniteSet(1..n) /\ \A T \in SUBSET (1..n) : IsFiniteSet(T)
  <2>1. IsFiniteSet(1..n)
    BY FS_Interval
  <2> QED
    BY <2>1, FS_Subset
<1>2. \A T \in SUBSET (1..n) : T # {} => Max(T) \in T /\ \A k \in T : k <= Max(T)
  <2> SUFFICES ASSUME NEW T \in SUBSET (1..n), T # {}
               PROVE  Max(T) \in T /\ \A k \in T : k <= Max(T)
    OBVIOUS
  <2>1. T \in SUBSET Nat
    OBVIOUS
  <2> QED
    BY <1>1, <2>1, MaxOfNaturals
<1>3. \A T \in SUBSET (1..n) : Largest(n)[T] = Max(T)
  BY DEF Largest
<1>4. ASSUME NEW i \in 1..n PROVE Max(1..i) = i
  <2>1. 1..i \in SUBSET (1..n) /\ i \in 1..i
    OBVIOUS
  <2>2. Max(1..i) \in 1..i /\ i <= Max(1..i)
    BY <1>2, <2>1
  <2> QED
    BY <2>2
<1> QED
  BY <1>1, <1>2, <1>3, <1>4 DEF Chooses

(* The values of a fold over a sequence, one prefix after another. *)
InSteps(iter, n, V, base, step) ==
    /\ \A i \in 0..n : iter[1..i] \in V
    /\ iter[1..0] = base
    /\ \A i \in 0..(n - 1) : iter[1..(i + 1)] = step[<<i + 1, iter[1..i]>>]

(* A fold that takes the largest index first steps along the prefixes.     *)
LEMMA FoldSteps ==
    ASSUME NEW n \in Nat, NEW V, NEW base \in V, NEW step \in [(1..n) \X V -> V],
           NEW iter, IsFold(iter, 1..n, V, base, Largest(n), step)
    PROVE  InSteps(iter, n, V, base, step)
<1>1. \A T \in SUBSET (1..n) : iter[T] \in V
  BY LargestChooses, FoldType
<1>2. \A i \in 0..n : 1..i \in SUBSET (1..n)
  OBVIOUS
<1>3. iter[1..0] = base
  <2>1. 1..0 = {} /\ {} \in SUBSET (1..n)
    OBVIOUS
  <2> QED
    BY <2>1 DEF IsFold
<1>4. ASSUME NEW i \in 0..(n - 1)
      PROVE  iter[1..(i + 1)] = step[<<i + 1, iter[1..i]>>]
  <2>1. i + 1 \in 1..n /\ 1..(i + 1) \in SUBSET (1..n) /\ 1..(i + 1) # {}
    <3>1. i + 1 \in 1..(i + 1) /\ i + 1 \in 1..n
      OBVIOUS
    <3>2. 1..(i + 1) \subseteq 1..n
      OBVIOUS
    <3> QED
      BY <3>1, <3>2
  <2>2. (1..(i + 1)) \ {i + 1} = 1..i
    OBVIOUS
  <2>3. Largest(n)[1..(i + 1)] = i + 1
    BY <2>1, LargestChooses
  <2>4. iter[1..i] \in V
    BY <1>1, <1>2
  <2> QED
    BY <2>1, <2>2, <2>3, <2>4 DEF IsFold
<1> QED
  BY <1>1, <1>2, <1>3, <1>4 DEF InSteps

=============================================================================
