---------------------------- MODULE SumTheorems ----------------------------
(***************************************************************************)
(* Sums over finite sets: MapThenSumSet takes the elements one by one, in   *)
(* an order that CHOOSE fixes.  Here is why the order does not matter, with *)
(* weights given as a function: the sum of a set is the weight of any of    *)
(* its elements and the sum of the others.                                  *)
(*                                                                          *)
(* The induction theorems of the library take the property to be proved as *)
(* an operator, which the provers cannot instantiate.  The inductions here  *)
(* take it as a set, the family of the subsets that have it, and look at a *)
(* counterexample of the least size (WFMin).                                *)
(***************************************************************************)
EXTENDS Integers, FiniteSets, FiniteSetsExt, FiniteSetTheorems,
        WellFoundedInduction, TLAPS

\* Some numbers, if any, have a least one.
LEMMA LeastNumber ==
    ASSUME NEW N \in SUBSET Nat, N # {}
    PROVE  \E n \in N : \A m \in N : n <= m
  <1> DEFINE R == OpToRel(<, Nat)
  <1>1. IsWellFoundedOn(R, Nat)
    BY NatLessThanWellFounded
  <1>2. \A n, m \in Nat : n < m => <<n, m>> \in R
    BY DEF OpToRel
  <1> HIDE DEF R
  <1>3. PICK n \in N : \A m \in N : ~(<<m, n>> \in R)
    BY <1>1, WFMin
  <1>4. ASSUME NEW m \in N PROVE n <= m
    <2>1. n \in Nat /\ m \in Nat
      OBVIOUS
    <2>2. ~(m < n)
      BY <1>2, <1>3, <2>1
    <2> QED
      BY <2>1, <2>2
  <1> QED
    BY <1>4

\* Induction on a finite set, with the property as a family of subsets: if it has
\* the empty set and, with a subset, that subset and one element more, then it has
\* the whole set.  (A counterexample leaves out the fewest elements.)
LEMMA SetInduction ==
    ASSUME NEW S, IsFiniteSet(S), NEW F \in SUBSET SUBSET S, {} \in F,
           \A A \in F : \A x \in S \ A : A \cup {x} \in F
    PROVE  S \in F
  <1> DEFINE N == {Cardinality(S \ A) : A \in F}
  <1>1. \A A \in F : IsFiniteSet(S \ A) /\ Cardinality(S \ A) \in Nat
    BY FS_Subset, FS_CardinalityType
  <1>2. N \in SUBSET Nat /\ N # {}
    BY <1>1
  <1> HIDE DEF N
  <1>3. PICK n \in N : \A m \in N : n <= m
    BY <1>2, LeastNumber
  <1>4. PICK A \in F : n = Cardinality(S \ A)
    BY DEF N
  <1>5. ASSUME A # S PROVE FALSE
    <2>1. PICK x \in S : x \notin A
      BY <1>5
    <2>2. A \cup {x} \in F /\ S \ (A \cup {x}) = (S \ A) \ {x}
      BY <2>1
    <2>3. Cardinality((S \ A) \ {x}) = n - 1
      BY <1>1, <1>4, <2>1, FS_RemoveElement
    <2>4. n \in Nat /\ n - 1 \in N
      BY <1>2, <2>2, <2>3 DEF N
    <2>5. n <= n - 1
      BY <1>3, <2>4
    <2> QED
      BY <2>4, <2>5
  <1> QED
    BY <1>5

\* The recursion of MapThenSumSet on the subsets of S, for the weights w.
Least(s) == CHOOSE x \in s : TRUE
SumStep(g, w, s) == IF s = {} THEN 0 ELSE w[Least(s)] + g[s \ {Least(s)}]
Totals(g, w, S) == g = [s \in SUBSET S |-> SumStep(g, w, s)]

\* The element the recursion takes first is one of the set.
LEMMA LeastIn == ASSUME NEW s, s # {} PROVE Least(s) \in s
  BY DEF Least

\* The recursion has a solution.  (On the subsets of up to n elements, for every n.)
LEMMA TotalsExist ==
    ASSUME NEW S, IsFiniteSet(S), NEW w
    PROVE  \E g : Totals(g, w, S)
  <1> DEFINE D(n) == {s \in SUBSET S : Cardinality(s) <= n}
             Good(n, g) == g = [s \in D(n) |-> SumStep(g, w, s)]
             Bad == {n \in Nat : ~\E g : Good(n, g)}
  <1>0. \A s \in SUBSET S : /\ IsFiniteSet(s) /\ Cardinality(s) \in Nat
                            /\ Cardinality(s) <= Cardinality(S)
                            /\ Cardinality(s) = 0 <=> s = {}
    BY FS_Subset, FS_CardinalityType, FS_EmptySet
  <1>a. Cardinality(S) \in Nat
    BY FS_CardinalityType
  <1>1. \E g : Good(0, g)
    <2> DEFINE g == [s \in D(0) |-> 0]
    <2>1. \A s \in D(0) : s = {}
      BY <1>0
    <2>2. g = [s \in D(0) |-> SumStep(g, w, s)]
      BY <2>1 DEF SumStep
    <2> QED
      BY <2>2
  <1>2. ASSUME NEW n \in Nat, NEW g, Good(n, g) PROVE \E h : Good(n + 1, h)
    <2> DEFINE h == [s \in D(n + 1) |-> SumStep(g, w, s)]
    <2>1. \A s \in D(n) : h[s] = g[s]
      <3>1. \A s \in D(n) : s \in D(n + 1)
        BY <1>0
      <3>2. \A s \in D(n) : g[s] = SumStep(g, w, s)
        BY <1>2
      <3> QED
        BY <3>1, <3>2
    <2>2. ASSUME NEW s \in D(n + 1) PROVE SumStep(g, w, s) = SumStep(h, w, s)
      <3>1. CASE s = {}
        BY <3>1 DEF SumStep
      <3>2. CASE s # {}
        <4>1. Least(s) \in s
          BY <3>2, LeastIn
        <4>2. Cardinality(s \ {Least(s)}) = Cardinality(s) - 1
          BY <1>0, <4>1, FS_RemoveElement
        <4>3. s \ {Least(s)} \in D(n)
          BY <1>0, <4>2
        <4>4. h[s \ {Least(s)}] = g[s \ {Least(s)}]
          BY <2>1, <4>3
        <4> HIDE DEF h, D
        <4> QED
          BY <4>4 DEF SumStep
      <3> QED
        BY <3>1, <3>2
    <2>3. h = [s \in D(n + 1) |-> SumStep(h, w, s)]
      BY <2>2
    <2> HIDE DEF h
    <2> QED
      BY <2>3
  <1>3. Bad = {}
    <2> SUFFICES ASSUME Bad # {} PROVE FALSE
      OBVIOUS
    <2> HIDE DEF Good
    <2>1. PICK n \in Bad : \A m \in Bad : n <= m
      <3>1. Bad \in SUBSET Nat
        OBVIOUS
      <3> HIDE DEF Bad
      <3> QED
        BY <3>1, LeastNumber
    <2>2. n \in Nat /\ n # 0
      BY <1>1
    <2>3. n - 1 \in Nat /\ n - 1 \notin Bad
      BY <2>1, <2>2
    <2>4. PICK g : Good(n - 1, g)
      BY <2>3
    <2>5. (n - 1) + 1 = n
      BY <2>2
    <2> HIDE DEF Good
    <2>6. \E h : Good(n, h)
      BY <1>2, <2>3, <2>4, <2>5
    <2> QED
      BY <2>6
  <1>4. PICK g : Good(Cardinality(S), g)
    BY <1>a, <1>3
  <1>5. D(Cardinality(S)) = SUBSET S
    BY <1>0
  <1> QED
    BY <1>4, <1>5 DEF Totals

\* Induction downwards: if a subset is in the family once it is so without any one
\* of its elements, then every subset is.
LEMMA SubsetInduction ==
    ASSUME NEW S, IsFiniteSet(S), NEW F,
           \A A \in SUBSET S : (\A x \in A : A \ {x} \in F) => A \in F
    PROVE  SUBSET S \subseteq F
  <1> DEFINE N == {Cardinality(A) : A \in (SUBSET S) \ F}
  <1>1. \A A \in SUBSET S : IsFiniteSet(A) /\ Cardinality(A) \in Nat
    BY FS_Subset, FS_CardinalityType
  <1>2. SUFFICES ASSUME N # {} PROVE FALSE
    OBVIOUS
  <1>3. N \in SUBSET Nat
    BY <1>1
  <1> HIDE DEF N
  <1>4. PICK n \in N : \A m \in N : n <= m
    BY <1>2, <1>3, LeastNumber
  <1>5. PICK A \in (SUBSET S) \ F : n = Cardinality(A)
    BY DEF N
  <1>6. PICK x \in A : A \ {x} \notin F
    OBVIOUS
  <1>7. Cardinality(A \ {x}) = n - 1
    BY <1>1, <1>5, FS_RemoveElement
  <1>8. n \in Nat /\ n - 1 \in N
    BY <1>3, <1>6, <1>7 DEF N
  <1>9. n <= n - 1
    BY <1>4, <1>8
  <1> QED
    BY <1>8, <1>9

\* The order in which a solution takes the elements does not matter: its value is
\* the weight of any element and the value of the others.
LEMMA TotalsOrder ==
    ASSUME NEW S, IsFiniteSet(S), NEW w, \A x \in S : w[x] \in Int,
           NEW g, Totals(g, w, S)
    PROVE  \A s \in SUBSET S :
              /\ g[s] \in Int
              /\ s = {} => g[s] = 0
              /\ \A x \in s : g[s] = w[x] + g[s \ {x}]
  <1> DEFINE Fine(s) == /\ g[s] \in Int
                        /\ s = {} => g[s] = 0
                        /\ \A x \in s : /\ g[s \ {x}] \in Int
                                       /\ g[s] = w[x] + g[s \ {x}]
             F == {s \in SUBSET S : Fine(s)}
  <1>1. ASSUME NEW s \in SUBSET S, \A x \in s : s \ {x} \in F
        PROVE  Fine(s)
    <2>0. g[s] = SumStep(g, w, s)
      BY DEF Totals
    <2>1. CASE s = {}
      BY <2>0, <2>1 DEF SumStep
    <2>3. \A x \in s : g[s \ {x}] \in Int
      BY <1>1
    <2>2. CASE s # {}
      <3> DEFINE x == Least(s)
      <3>1. x \in s /\ g[s] = w[x] + g[s \ {x}]
        BY <2>0, <2>2, LeastIn DEF SumStep
      <3>2. s \ {x} \in F
        BY <1>1, <3>1
      <3> HIDE DEF x
      <3>3. ASSUME NEW y \in s, y # x PROVE g[s] = w[y] + g[s \ {y}]
        <4> DEFINE r == (s \ {x}) \ {y}
        <4>1. g[s \ {x}] = w[y] + g[r] /\ g[r] \in Int
          BY <3>2, <3>3
        <4>2. s \ {y} \in F /\ x \in s \ {y}
          BY <1>1, <3>1, <3>3
        <4>3. g[s \ {y}] = w[x] + g[(s \ {y}) \ {x}]
          BY <4>2
        <4>4. r = (s \ {y}) \ {x}
          OBVIOUS
        <4>5. g[s \ {y}] = w[x] + g[r]
          BY <4>3, <4>4
        <4>6. w[x] \in Int /\ w[y] \in Int
          BY <3>1, <3>3
        <4> HIDE DEF r, F
        <4> QED
          BY <3>1, <4>1, <4>5, <4>6
      <3>4. g[s] \in Int
        BY <3>1, <3>2
      <3> QED
        BY <2>2, <2>3, <3>1, <3>3, <3>4
    <2> QED
      BY <2>1, <2>2
  <1>2. SUBSET S \subseteq F
    <2>1. \A s \in SUBSET S : (\A x \in s : s \ {x} \in F) => s \in F
      BY <1>1
    <2> HIDE DEF F
    <2> QED
      BY <2>1, SubsetInduction
  <1> QED
    BY <1>2

\* Two solutions for the same weights agree.
LEMMA TotalsUnique ==
    ASSUME NEW S, IsFiniteSet(S), NEW v, NEW w, \A x \in S : v[x] = w[x],
           NEW g, Totals(g, v, S), NEW h, Totals(h, w, S)
    PROVE  \A s \in SUBSET S : g[s] = h[s]
  <1> DEFINE F == {s \in SUBSET S : g[s] = h[s]}
  <1>1. ASSUME NEW s \in SUBSET S, \A x \in s : s \ {x} \in F
        PROVE  s \in F
    <2>1. g[s] = SumStep(g, v, s) /\ h[s] = SumStep(h, w, s)
      BY DEF Totals
    <2>2. CASE s = {}
      BY <2>1, <2>2 DEF SumStep
    <2>3. CASE s # {}
      <3>1. Least(s) \in s /\ Least(s) \in S
        BY <2>3, LeastIn
      <3>2. g[s \ {Least(s)}] = h[s \ {Least(s)}]
        BY <1>1, <3>1
      <3> QED
        BY <2>1, <2>3, <3>1, <3>2 DEF SumStep
    <2> QED
      BY <2>2, <2>3
  <1>2. SUBSET S \subseteq F
    <2> HIDE DEF F
    <2> QED
      BY <1>1, SubsetInduction
  <1> QED
    BY <1>2

Total(w, S) == (CHOOSE g : Totals(g, w, S))[S]

\* A solution on a set gives the total of every part.
LEMMA TotalOfPart ==
    ASSUME NEW S, IsFiniteSet(S), NEW v, NEW w, \A x \in S : v[x] = w[x],
           NEW g, Totals(g, v, S), NEW T \in SUBSET S
    PROVE  g[T] = Total(w, T)
  <1> DEFINE h == CHOOSE h : Totals(h, w, T)
             k == [s \in SUBSET T |-> g[s]]
  <1>0. IsFiniteSet(T)
    BY FS_Subset
  <1>1. Totals(h, w, T)
    BY <1>0, TotalsExist
  <1>2. Totals(k, v, T)
    <2>1. ASSUME NEW s \in SUBSET T PROVE g[s] = SumStep(k, v, s)
      <3>1. g[s] = SumStep(g, v, s)
        BY DEF Totals
      <3>2. s # {} => k[s \ {Least(s)}] = g[s \ {Least(s)}]
        OBVIOUS
      <3> HIDE DEF k
      <3> QED
        BY <3>1, <3>2 DEF SumStep
    <2>2. k = [s \in SUBSET T |-> SumStep(k, v, s)]
      BY <2>1
    <2> QED
      BY <2>2 DEF Totals
  <1>3. k[T] = h[T]
    <2> HIDE DEF h, k
    <2> QED
      BY <1>0, <1>1, <1>2, TotalsUnique
  <1> QED
    BY <1>3 DEF Total

\* A total is the weight of any element and the total of the others.
LEMMA TotalFacts ==
    ASSUME NEW S, IsFiniteSet(S), NEW w, \A x \in S : w[x] \in Int
    PROVE  /\ Total(w, S) \in Int
           /\ S = {} => Total(w, S) = 0
           /\ \A x \in S : Total(w, S) = w[x] + Total(w, S \ {x})
  <1>1. PICK g : Totals(g, w, S)
    BY TotalsExist
  <1>2. \A T \in SUBSET S : g[T] = Total(w, T)
    BY <1>1, TotalOfPart
  <1>3. /\ g[S] \in Int
        /\ S = {} => g[S] = 0
        /\ \A x \in S : g[S] = w[x] + g[S \ {x}]
    BY <1>1, TotalsOrder
  <1> QED
    BY <1>2, <1>3

\* Weights that agree give the same total.
LEMMA TotalAgrees ==
    ASSUME NEW S, IsFiniteSet(S), NEW v, NEW w, \A x \in S : v[x] = w[x]
    PROVE  Total(v, S) = Total(w, S)
  <1> DEFINE g == CHOOSE g : Totals(g, v, S)
  <1>1. Totals(g, v, S)
    BY TotalsExist
  <1>2. g[S] = Total(v, S)
    BY DEF Total
  <1> HIDE DEF g
  <1>3. g[S] = Total(w, S)
    BY <1>1, TotalOfPart
  <1> QED
    BY <1>2, <1>3

\* Weights that are not negative, and weights that are zero.
LEMMA TotalIsNat ==
    ASSUME NEW S, IsFiniteSet(S), NEW w, \A x \in S : w[x] \in Nat
    PROVE  /\ Total(w, S) \in Nat
           /\ (\A x \in S : w[x] = 0) => Total(w, S) = 0
  <1> DEFINE F == {A \in SUBSET S :
                     /\ Total(w, A) \in Nat
                     /\ (\A x \in A : w[x] = 0) => Total(w, A) = 0}
  <1>1. {} \in F
    <2>1. Total(w, {}) = 0
      BY TotalFacts, FS_EmptySet
    <2> QED
      BY <2>1
  <1>2. ASSUME NEW A \in F, NEW x \in S \ A PROVE A \cup {x} \in F
    <2>1. IsFiniteSet(A \cup {x}) /\ A \cup {x} \in SUBSET S
      BY FS_Subset
    <2>2. (A \cup {x}) \ {x} = A
      OBVIOUS
    <2> DEFINE B == A \cup {x}
    <2>3. Total(w, B) = w[x] + Total(w, A)
      BY <2>1, <2>2, TotalFacts
    <2>4. w[x] \in Nat /\ Total(w, A) \in Nat
      OBVIOUS
    <2>5. Total(w, B) \in Nat
      BY <2>3, <2>4
    <2>6. (\A y \in B : w[y] = 0) => Total(w, B) = 0
      BY <2>3, <2>4
    <2>7. B \in SUBSET S
      BY <2>1
    <2> HIDE DEF B
    <2>8. B \in F
      BY <2>5, <2>6, <2>7
    <2> QED
      BY <2>8 DEF B
  <1>3. S \in F
    <2>1. F \in SUBSET SUBSET S
      OBVIOUS
    <2> HIDE DEF F
    <2> QED
      BY <1>1, <1>2, <2>1, SetInduction
  <1> QED
    BY <1>3

\* MapThenSumSet with weights is their total.
LEMMA MapThenSumIsTotal ==
    ASSUME NEW S, IsFiniteSet(S), NEW w
    PROVE  MapThenSumSet(LAMBDA x : w[x], S) = Total(w, S)
  <1> DEFINE Iter(g) ==
          g = [s \in SUBSET S |->
                 IF s = {} THEN 0
                 ELSE w[CHOOSE x \in s : TRUE] + g[s \ {CHOOSE x \in s : TRUE}]]
             h == CHOOSE g : Iter(g)
  <1>1. \A g : Iter(g) <=> Totals(g, w, S)
    BY DEF Totals, SumStep, Least
  <1>2. MapThenSumSet(LAMBDA x : w[x], S) = h[S]
    BY DEF MapThenSumSet, MapThenFoldSet
  <1>3. Iter(h)
    <2> HIDE DEF Iter
    <2> QED
      BY <1>1, TotalsExist
  <1> HIDE DEF h, Iter
  <1>4. Totals(h, w, S)
    BY <1>1, <1>3
  <1> QED
    BY <1>2, <1>4, TotalOfPart

============================================================================
