----------------------------- MODULE DataLemmas -----------------------------
(***************************************************************************)
(* Lemmas about natural numbers, finite sets and folds that the proofs of  *)
(* several components cite.                                                *)
(*                                                                         *)
(* The induction theorems of the library take the induction hypothesis as  *)
(* an operator.  Here induction is stated with sets instead: a property is *)
(* the set of what has it.                                                 *)
(***************************************************************************)
EXTENDS FiniteSetsExt, NaturalsInduction, FiniteSetTheorems, TLAPS

\* A set of natural numbers has a least element.
LEMMA LeastOf ==
  ASSUME NEW S \in SUBSET Nat, S # {}
  PROVE  \E n \in S : \A m \in S : n =< m
<1> DEFINE R == {ss \in Nat \X Nat : ss[1] < ss[2]}
<1>1. IsWellFoundedOn(R, Nat)
  BY NatLessThanWellFounded DEF OpToRel
<1>2. \E x \in S : \A y \in S : ~(<<y, x>> \in R)
  <2> HIDE DEF R
  <2> QED BY <1>1, WFMin
<1>3. PICK n \in S : \A m \in S : ~(<<m, n>> \in R)
  BY <1>2
<1>4. ASSUME NEW m \in S PROVE n =< m
  <2>1. m \in Nat /\ n \in Nat
    OBVIOUS
  <2>2. ~(m < n)
    BY <1>3, <2>1
  <2> QED BY <2>1, <2>2
<1> QED BY <1>4

\* Induction on the natural numbers.
LEMMA NatInductionSet ==
  ASSUME NEW P, 0 \in P, \A n \in Nat : n \in P => n + 1 \in P
  PROVE  \A n \in Nat : n \in P
<1> SUFFICES ASSUME NEW k \in Nat, k \notin P PROVE FALSE
  OBVIOUS
<1> DEFINE S == {n \in Nat : n \notin P}
<1>1. S \in SUBSET Nat /\ S # {}
  OBVIOUS
<1> HIDE DEF S
<1>2. PICK n \in S : \A m \in S : n =< m
  BY <1>1, LeastOf
<1> USE DEF S
<1>3. n # 0 /\ n \in Nat /\ n \notin P
  BY <1>2
<1>4. n - 1 \in Nat /\ n - 1 \notin S
  BY <1>2, <1>3
<1> QED BY <1>3, <1>4

\* A finite set of integers has a least and a greatest element, and Min and
\* Max choose them.
LEMMA MinMaxProperties ==
  ASSUME NEW S \in SUBSET Int, IsFiniteSet(S), S # {}
  PROVE  /\ Min(S) \in S /\ \A x \in S : Min(S) =< x
         /\ Max(S) \in S /\ \A x \in S : x =< Max(S)
<1> DEFINE Has(T) == T # {} => /\ \E n \in T : \A x \in T : n =< x
                               /\ \E n \in T : \A x \in T : x =< n
           P == {n \in Nat : \A T \in SUBSET S : Cardinality(T) = n => Has(T)}
<1>1. 0 \in P
  BY FS_Subset, FS_EmptySet
<1>2. ASSUME NEW n \in Nat, n \in P PROVE n + 1 \in P
  <2> SUFFICES ASSUME NEW T \in SUBSET S, Cardinality(T) = n + 1, T # {}
               PROVE  Has(T)
    OBVIOUS
  <2>1. PICK e \in T : TRUE
    OBVIOUS
  <2> DEFINE U == T \ {e}
  <2>2. IsFiniteSet(T)
    BY FS_Subset
  <2>3. Cardinality(U) = n
    <3>1. Cardinality(U) = Cardinality(T) - 1
      BY <2>2, FS_RemoveElement
    <3> QED BY <3>1
  <2>4. Has(U)
    BY <2>3, <1>2
  <2>5. CASE U = {}
    <3>1. T = {e} /\ e \in Int
      BY <2>5
    <3> QED BY <3>1
  <2>6. CASE U # {}
    <3>1. PICK lo \in U : \A x \in U : lo =< x
      BY <2>4, <2>6
    <3>2. PICK hi \in U : \A x \in U : x =< hi
      BY <2>4, <2>6
    <3>3. \E m \in T : \A x \in T : m =< x
      <4>1. CASE lo =< e
        BY <3>1, <4>1
      <4>2. CASE ~(lo =< e)
        <5>1. \A x \in T : e =< x
          BY <3>1, <4>2
        <5> QED BY <5>1
      <4> QED BY <4>1, <4>2
    <3>4. \E m \in T : \A x \in T : x =< m
      <4>1. CASE e =< hi
        BY <3>2, <4>1
      <4>2. CASE ~(e =< hi)
        <5>1. \A x \in T : x =< e
          BY <3>2, <4>2
        <5> QED BY <5>1
      <4> QED BY <4>1, <4>2
    <3> QED BY <3>3, <3>4
  <2> QED BY <2>5, <2>6
<1>3. Cardinality(S) \in Nat
  BY FS_CardinalityType
<1>4. Has(S)
  <2> HIDE DEF P
  <2>1. \A n \in Nat : n \in P
    BY <1>1, <1>2, NatInductionSet
  <2>2. Cardinality(S) \in P
    BY <1>3, <2>1
  <2> QED BY <2>2 DEF P
<1> QED BY <1>4 DEF Min, Max

\* The elements of S with fewer than n below them are at most n: the slice S[:n].
LEMMA FirstFew ==
  ASSUME NEW S \in SUBSET Nat, IsFiniteSet(S), NEW n \in Nat
  PROVE  Cardinality({e \in S : Cardinality({x \in S : x < e}) < n}) =< n
<1> DEFINE Below(e) == {x \in S : x < e}
<1>1. \A e : Below(e) \subseteq S
  OBVIOUS
<1>2. \A e \in S, x \in S : x =< e => x = e \/ x \in Below(e)
  OBVIOUS
<1> HIDE DEF Below
<1> DEFINE T == {e \in S : Cardinality(Below(e)) < n}
<1>3. T \subseteq S
  OBVIOUS
<1>4. \A e \in T : Cardinality(Below(e)) < n
  OBVIOUS
<1> HIDE DEF T
<1>5. IsFiniteSet(T)
  BY <1>3, FS_Subset
<1>6. ASSUME T = {} PROVE Cardinality(T) =< n
  BY <1>6, FS_EmptySet
<1>7. ASSUME T # {} PROVE Cardinality(T) =< n
  <2>1. T \in SUBSET Int
    BY <1>3
  <2>2. PICK e \in T : \A x \in T : x =< e
    BY <1>5, <1>7, <2>1, MinMaxProperties
  <2>3. T \ {e} \subseteq Below(e)
    BY <1>2, <1>3, <2>2
  <2>4. IsFiniteSet(Below(e))
    BY <1>1, FS_Subset
  <2>5. Cardinality(Below(e)) \in Nat /\ Cardinality(Below(e)) < n
    BY <1>4, <2>4, FS_CardinalityType
  <2>6. Cardinality(T \ {e}) =< Cardinality(Below(e))
    BY <2>3, <2>4, FS_Subset
  <2>7. Cardinality(T \ {e}) = Cardinality(T) - 1 /\ Cardinality(T) \in Nat
    BY <1>5, FS_RemoveElement, FS_CardinalityType
  <2>8. QED
    BY <2>5, <2>6, <2>7
<1>8. Cardinality(T) =< n
  BY <1>6, <1>7
<1>9. QED
  BY <1>8 DEF T, Below

-----------------------------------------------------------------------------
(* Folds.                                                                  *)

\* Induction on the subsets of a finite set.
LEMMA SubsetInduction ==
  ASSUME NEW S, IsFiniteSet(S), NEW P,
         {} \in P,
         \A T \in SUBSET S : T # {} => \E x \in T : T \ {x} \in P => T \in P
  PROVE  \A T \in SUBSET S : T \in P
<1> DEFINE Q == {n \in Nat : \A T \in SUBSET S : Cardinality(T) = n => T \in P}
<1>1. \A T \in SUBSET S : IsFiniteSet(T) /\ Cardinality(T) \in Nat
  BY FS_Subset, FS_CardinalityType
<1>2. 0 \in Q
  BY <1>1, FS_EmptySet
<1>3. ASSUME NEW n \in Nat, n \in Q PROVE n + 1 \in Q
  <2> SUFFICES ASSUME NEW T \in SUBSET S, Cardinality(T) = n + 1 PROVE T \in P
    OBVIOUS
  <2>1. T # {}
    <3>1. n + 1 # 0
      OBVIOUS
    <3> QED BY <3>1, FS_EmptySet
  <2>2. PICK x \in T : T \ {x} \in P => T \in P
    BY <2>1
  <2>3. Cardinality(T \ {x}) = Cardinality(T) - 1
    BY <1>1, FS_RemoveElement
  <2>4. Cardinality(T \ {x}) = n
    BY <2>3
  <2> QED BY <1>3, <2>2, <2>4
<1>4. \A n \in Nat : n \in Q
  <2> HIDE DEF Q
  <2> QED BY <1>2, <1>3, NatInductionSet
<1> QED BY <1>1, <1>4

\* The parts of a fold of the elements of S into values of V, one at a time.
IsFold(S, V, base, step, pick) ==
  /\ IsFiniteSet(S) /\ base \in V /\ step \in [S \X V -> V]
  /\ \A T \in SUBSET S : T # {} => pick[T] \in T

\* g holds the fold of every subset of S.
Folds(g, S, base, step, pick) ==
  \A T \in SUBSET S :
    g[T] = IF T = {} THEN base ELSE step[<<pick[T], g[T \ {pick[T]}]>>]

\* The recursive equation of a fold has a solution.
LEMMA FoldExists ==
  ASSUME NEW S, NEW V, NEW base, NEW step, NEW pick, IsFold(S, V, base, step, pick)
  PROVE  \E g \in [SUBSET S -> V] : Folds(g, S, base, step, pick)
<1>0. /\ IsFiniteSet(S) /\ base \in V /\ step \in [S \X V -> V]
      /\ \A T \in SUBSET S : T # {} => pick[T] \in T
  BY DEF IsFold
<1> DEFINE Eq(g, T) ==
             g[T] = IF T = {} THEN base ELSE step[<<pick[T], g[T \ {pick[T]}]>>]
           Approx(n) == \E g \in [SUBSET S -> V] :
             \A T \in SUBSET S : Cardinality(T) =< n => Eq(g, T)
           Q == {n \in Nat : Approx(n)}
<1>1. \A T \in SUBSET S : IsFiniteSet(T) /\ Cardinality(T) \in Nat
  BY <1>0, FS_Subset, FS_CardinalityType
<1>2. 0 \in Q
  <2>1. \A T \in SUBSET S : Cardinality(T) =< 0 => T = {}
    BY <1>1, FS_EmptySet
  <2>2. [T \in SUBSET S |-> base] \in [SUBSET S -> V]
    BY <1>0
  <2> QED BY <2>1, <2>2
<1>3. ASSUME NEW n \in Nat, n \in Q PROVE n + 1 \in Q
  <2>1. PICK g \in [SUBSET S -> V] :
          \A T \in SUBSET S : Cardinality(T) =< n => Eq(g, T)
    BY <1>3
  <2> DEFINE h == [T \in SUBSET S |->
               IF T = {} THEN base ELSE step[<<pick[T], g[T \ {pick[T]}]>>]]
  <2>2. h \in [SUBSET S -> V]
    <3>1. ASSUME NEW T \in SUBSET S, T # {}
          PROVE  step[<<pick[T], g[T \ {pick[T]}]>>] \in V
      <4>1. pick[T] \in S /\ T \ {pick[T]} \in SUBSET S
        BY <1>0, <3>1
      <4>2. g[T \ {pick[T]}] \in V
        BY <4>1
      <4> QED BY <1>0, <4>1, <4>2
    <3> QED BY <1>0, <3>1
  <2>3. ASSUME NEW T \in SUBSET S, Cardinality(T) =< n + 1 PROVE Eq(h, T)
    <3>1. CASE T = {}
      BY <3>1
    <3>2. CASE T # {}
      <4> DEFINE U == T \ {pick[T]}
      <4>1. pick[T] \in T /\ U \in SUBSET S
        BY <1>0, <3>2
      <4>2. Cardinality(U) = Cardinality(T) - 1
        BY <1>1, <4>1, FS_RemoveElement
      <4>3. Cardinality(U) =< n
        BY <1>1, <2>3, <4>2
      <4>4. h[U] = g[U]
        BY <2>1, <4>1, <4>3
      <4>5. h[T] = step[<<pick[T], g[U]>>]
        BY <3>2
      <4> QED BY <3>2, <4>4, <4>5
    <3> QED BY <3>1, <3>2
  <2> HIDE DEF h, Eq
  <2>4. Approx(n + 1)
    BY <2>2, <2>3
  <2> QED BY <2>4
<1>4. \A n \in Nat : n \in Q
  <2> HIDE DEF Q
  <2> QED BY <1>2, <1>3, NatInductionSet
<1>5. Approx(Cardinality(S))
  BY <1>1, <1>4
<1>6. \A T \in SUBSET S : Cardinality(T) =< Cardinality(S)
  BY <1>0, FS_Subset
<1> QED BY <1>5, <1>6 DEF Folds

-----------------------------------------------------------------------------
(* Sums.                                                                   *)

\* g holds the sum of f over every subset of S, as MapThenSumSet computes it:
\* one element at a time, in an order that CHOOSE fixes.
SumOf(g, S, f) ==
  /\ IsFiniteSet(S) /\ f \in [S -> Nat] /\ g \in [SUBSET S -> Nat]
  /\ g[{}] = 0
  /\ \A T \in SUBSET S : T # {} =>
       g[T] = f[CHOOSE x \in T : TRUE] + g[T \ {CHOOSE x \in T : TRUE}]

\* The order does not matter: any element may be taken out first.
LEMMA SumAnyOrder ==
  ASSUME NEW S, NEW f, NEW g, SumOf(g, S, f)
  PROVE  \A T \in SUBSET S : \A x \in T : g[T] = f[x] + g[T \ {x}]
<1> DEFINE Free(T) == \A x \in T : g[T] = f[x] + g[T \ {x}]
           Q == {n \in Nat : \A T \in SUBSET S : Cardinality(T) = n => Free(T)}
<1>0. IsFiniteSet(S) /\ f \in [S -> Nat] /\ g \in [SUBSET S -> Nat]
  BY DEF SumOf
<1>1. \A T \in SUBSET S : IsFiniteSet(T) /\ Cardinality(T) \in Nat
  BY <1>0, FS_Subset, FS_CardinalityType
<1>2. 0 \in Q
  BY <1>1, FS_EmptySet
<1>3. ASSUME NEW n \in Nat, n \in Q PROVE n + 1 \in Q
  <2> SUFFICES ASSUME NEW T \in SUBSET S, Cardinality(T) = n + 1, NEW x \in T
               PROVE  g[T] = f[x] + g[T \ {x}]
    OBVIOUS
  <2>1. PICK p \in T : g[T] = f[p] + g[T \ {p}]
    BY DEF SumOf
  <2>2. CASE p = x
    BY <2>1, <2>2
  <2>3. CASE p # x
    <3> DEFINE A == T \ {p}
               B == T \ {x}
               R == T \ {p, x}
    <3>1. Cardinality(A) = n /\ Cardinality(B) = n
      <4>1. Cardinality(A) = Cardinality(T) - 1 /\ Cardinality(B) = Cardinality(T) - 1
        BY <1>1, FS_RemoveElement
      <4> QED BY <4>1
    <3>2. g[A] = f[x] + g[A \ {x}]
      BY <1>3, <2>3, <3>1
    <3>3. g[B] = f[p] + g[B \ {p}]
      BY <1>3, <2>3, <3>1
    <3>4. A \ {x} = R /\ B \ {p} = R
      OBVIOUS
    <3>5. f[x] \in Nat /\ f[p] \in Nat /\ g[R] \in Nat
      BY <1>0
    <3> HIDE DEF A, B, R
    <3>6. g[A] = f[x] + g[R] /\ g[B] = f[p] + g[R]
      BY <3>2, <3>3, <3>4
    <3>7. g[T] = f[p] + g[A]
      BY <2>1 DEF A
    <3>8. g[T] = f[x] + g[B]
      BY <3>5, <3>6, <3>7
    <3> QED BY <3>8 DEF B
  <2> QED BY <2>2, <2>3
<1>4. \A n \in Nat : n \in Q
  <2> HIDE DEF Q
  <2> QED BY <1>2, <1>3, NatInductionSet
<1> QED BY <1>1, <1>4

\* The sum over a set does not depend on the set it is taken in.
LEMMA SumUnique ==
  ASSUME NEW S, NEW C \in SUBSET S,
         NEW f, NEW e, \A c \in C : e[c] = f[c],
         NEW g, SumOf(g, C, e), NEW h, SumOf(h, S, f)
  PROVE  \A T \in SUBSET C : g[T] = h[T]
<1> DEFINE P == {T \in SUBSET C : g[T] = h[T]}
<1>1. {} \in P
  BY DEF SumOf
<1>2. ASSUME NEW T \in SUBSET C, T # {}
      PROVE  \E x \in T : T \ {x} \in P => T \in P
  <2> DEFINE p == CHOOSE x \in T : TRUE
  <2>1. p \in T
    BY <1>2
  <2>2. g[T] = e[p] + g[T \ {p}]
    BY <1>2 DEF SumOf
  <2>3. T \in SUBSET S /\ h[T] = f[p] + h[T \ {p}]
    BY <1>2 DEF SumOf
  <2>4. e[p] = f[p]
    BY <2>1
  <2> HIDE DEF p
  <2> QED BY <2>1, <2>2, <2>3, <2>4
<1>3. IsFiniteSet(C)
  BY DEF SumOf
<1> HIDE DEF P
<1>4. \A T \in SUBSET C : T \in P
  BY <1>1, <1>2, <1>3, SubsetInduction
<1> QED BY <1>4 DEF P

\* The sum over a set is what any one of its elements adds to the rest.
LEMMA SumTakeOut ==
  ASSUME NEW S, NEW f, NEW g, SumOf(g, S, f), NEW x \in S
  PROVE  g[S] = f[x] + g[S \ {x}]
BY SumAnyOrder
=============================================================================
