----------------------------- MODULE SumTheorems -----------------------------
(***************************************************************************)
(* Sums over a finite set.  The folds of the community modules are a CHOOSE *)
(* of recursive functions, and the induction theorems of the library take an *)
(* operator, which the provers cannot instantiate: here is an induction over *)
(* the subsets of a finite set in terms of a set of them, and from it what the *)
(* proofs need of sums.                                                    *)
(***************************************************************************)
EXTENDS Integers, FiniteSets, FiniteSetTheorems, WellFoundedInduction, TLAPS

\* Induction on the subsets of a finite set, in the form of a set X that a set
\* belongs to if it does without each of its members.
LEMMA SubsetInduction ==
    ASSUME NEW D, IsFiniteSet(D), NEW X,
           \A S \in SUBSET D : (\A x \in S : S \ {x} \in X) => S \in X
    PROVE  \A S \in SUBSET D : S \in X
<1> DEFINE T == {S \in SUBSET D : S \notin X}
<1>1. ASSUME T # {} PROVE FALSE
  <2>1. T \subseteq FiniteSubsetsOf(D)
    BY FS_Subset DEF FiniteSubsetsOf
  <2>2. IsWellFoundedOn(StrictSubsetOrdering(D), FiniteSubsetsOf(D))
    BY FS_StrictSubsetOrderingWellFounded
  <2> HIDE DEF T
  <2>3. \E S \in T : \A U \in T : ~(<<U, S>> \in StrictSubsetOrdering(D))
    BY <1>1, <2>1, <2>2, WFMin
  <2> USE DEF T
  <2>4. PICK S \in T : \A U \in T : <<U, S>> \notin StrictSubsetOrdering(D)
    BY <2>3
  <2>5. ASSUME NEW x \in S PROVE S \ {x} \in X
    <3>1. S \ {x} \in SUBSET D /\ S \ {x} \subseteq S /\ S \ {x} # S
      OBVIOUS
    <3>2. <<S \ {x}, S>> \in StrictSubsetOrdering(D)
      BY <3>1 DEF StrictSubsetOrdering
    <3>3. QED
      BY <2>4, <3>1, <3>2
  <2>6. QED
    BY <2>4, <2>5
<1>2. QED
  BY <1>1

\* Induction on the naturals, in the form of a set.
LEMMA CountingInduction ==
    ASSUME NEW X, 0 \in X, \A n \in Nat : n \in X => n + 1 \in X
    PROVE  Nat \subseteq X
<1> SUFFICES ASSUME NEW m \in Nat PROVE m \in X
  OBVIOUS
<1> DEFINE Y == {S \in SUBSET (1..m) : \A n \in 0..m : S = 1..n => n \in X}
<1>1. IsFiniteSet(1..m)
  BY FS_Interval
<1>2. ASSUME NEW S \in SUBSET (1..m), \A x \in S : S \ {x} \in Y PROVE S \in Y
  <2>1. ASSUME NEW n \in 0..m, S = 1..n PROVE n \in X
    <3>1. CASE n = 0
      BY <3>1
    <3>2. CASE n # 0
      <4>1. n \in S /\ S \ {n} = 1..(n - 1) /\ n - 1 \in 0..m
        BY <2>1, <3>2
      <4>2. n - 1 \in X
        BY <1>2, <4>1
      <4>3. QED
        BY <4>1, <4>2
    <3>3. QED
      BY <3>1, <3>2
  <2>2. QED
    BY <2>1
<1> HIDE DEF Y
<1>3. \A S \in SUBSET (1..m) : S \in Y
  BY <1>1, <1>2, SubsetInduction
<1>4. 1..m \in Y
  BY <1>3
<1>5. QED
  BY <1>4 DEF Y

\* The member that the folds of the community modules take next.
Pick(s) == CHOOSE x \in s : TRUE

\* The function that MapThenFoldSet chooses to sum f.
Summing(f, D, h) == h = [s \in SUBSET D |-> IF s = {} THEN 0 ELSE f[Pick(s)] + h[s \ {Pick(s)}]]

\* The sum of f over D, as MapThenSumSet computes it.
SumOver(f, D) == (CHOOSE h : Summing(f, D, h))[D]

\* There is a next member.
LEMMA PickIn == ASSUME NEW s, s # {} PROVE Pick(s) \in s
BY DEF Pick

\* The recursive equation that MapThenFoldSet chooses a solution of has one.
LEMMA SummingExists ==
    ASSUME NEW D, IsFiniteSet(D), NEW f
    PROVE  Summing(f, D, CHOOSE h : Summing(f, D, h))
<1> DEFINE Body(h, s) == IF s = {} THEN 0 ELSE f[Pick(s)] + h[s \ {Pick(s)}]
           To(h, n) == \A s \in SUBSET D : Cardinality(s) <= n => h[s] = Body(h, s)
           X == {n \in Nat : \E h : To(h, n)}
<1>1. \A s \in SUBSET D : /\ IsFiniteSet(s) /\ Cardinality(s) \in Nat /\ Cardinality(s) <= Cardinality(D)
                          /\ Cardinality(s) = 0 <=> s = {}
                          /\ s # {} => /\ s \ {Pick(s)} \in SUBSET D
                                       /\ Cardinality(s \ {Pick(s)}) = Cardinality(s) - 1
  BY FS_Subset, FS_CardinalityType, FS_EmptySet, FS_RemoveElement, PickIn
<1>2. 0 \in X
  <2> DEFINE h == [s \in SUBSET D |-> 0]
  <2>1. ASSUME NEW s \in SUBSET D, Cardinality(s) <= 0 PROVE h[s] = Body(h, s)
    <3>1. Cardinality(s) \in Nat /\ (Cardinality(s) = 0 <=> s = {})
      BY <1>1
    <3>2. s = {}
      BY ONLY <2>1, <3>1
    <3>3. QED
      BY <3>2
  <2>2. To(h, 0)
    BY <2>1
  <2> HIDE DEF h, To
  <2>3. QED
    BY <2>2
<1>3. ASSUME NEW n \in X PROVE n + 1 \in X
  <2>1. PICK h : To(h, n)
    OBVIOUS
  <2> DEFINE g == [s \in SUBSET D |-> IF Cardinality(s) <= n THEN h[s] ELSE Body(h, s)]
  <2>2. ASSUME NEW s \in SUBSET D, Cardinality(s) <= n + 1 PROVE g[s] = Body(g, s)
    <3>1. CASE s = {}
      BY <1>1, <2>1, <3>1
    <3>2. CASE s # {}
      <4>1. g[s] = Body(h, s)
        BY <1>1, <2>1
      <4>2. g[s \ {Pick(s)}] = h[s \ {Pick(s)}]
        BY <1>1, <2>2, <3>2
      <4>3. QED
        BY <3>2, <4>1, <4>2
    <3>3. QED
      BY <3>1, <3>2
  <2>3. To(g, n + 1)
    BY <2>2
  <2> HIDE DEF g, To
  <2>4. QED
    BY <2>3
<1> HIDE DEF X
<1>4. Nat \subseteq X
  BY <1>2, <1>3, CountingInduction
<1>5. PICK h : To(h, Cardinality(D))
  <2>1. Cardinality(D) \in X
    BY <1>4, FS_CardinalityType
  <2>2. QED
    BY <2>1 DEF X
<1>6. \A s \in SUBSET D : h[s] = Body(h, s)
  BY <1>1, <1>5
<1> DEFINE g == [s \in SUBSET D |-> h[s]]
<1>7. \A s \in SUBSET D : g[s] = Body(g, s)
  BY <1>1, <1>6
<1>8. g = [s \in SUBSET D |-> Body(g, s)]
  BY <1>7
<1>9. Summing(f, D, g)
  BY <1>8 DEF Summing
<1>10. QED
  <2> HIDE DEF g
  <2> QED
    BY <1>9

\* One step of the sum, whatever the set was that it started from.
LEMMA SumStep ==
    ASSUME NEW S, IsFiniteSet(S), NEW f
    PROVE  SumOver(f, S) = IF S = {} THEN 0 ELSE f[Pick(S)] + SumOver(f, S \ {Pick(S)})
<1> DEFINE h(D) == CHOOSE g : Summing(f, D, g)
           X == {U \in SUBSET S : \A D \in SUBSET S : U \subseteq D => h(D)[U] = h(U)[U]}
<1>1. ASSUME NEW D \in SUBSET S
      PROVE  Summing(f, D, h(D))
  BY FS_Subset, SummingExists
<1> HIDE DEF h
<1>2. ASSUME NEW D \in SUBSET S, NEW U \in SUBSET D
      PROVE  h(D)[U] = IF U = {} THEN 0 ELSE f[Pick(U)] + h(D)[U \ {Pick(U)}]
  BY <1>1 DEF Summing
<1>3. ASSUME NEW U \in SUBSET S, \A x \in U : U \ {x} \in X PROVE U \in X
  <2>1. ASSUME NEW D \in SUBSET S, U \subseteq D PROVE h(D)[U] = h(U)[U]
    <3>1. CASE U = {}
      BY <1>2, <2>1, <3>1
    <3>2. CASE U # {}
      <4>1. Pick(U) \in U
        BY <3>2, PickIn
      <4>2. h(D)[U \ {Pick(U)}] = h(U)[U \ {Pick(U)}]
        BY <1>3, <2>1, <4>1
      <4>3. h(D)[U] = f[Pick(U)] + h(D)[U \ {Pick(U)}] /\ h(U)[U] = f[Pick(U)] + h(U)[U \ {Pick(U)}]
        BY <1>2, <2>1, <3>2
      <4>4. QED
        BY <4>2, <4>3
    <3>3. QED
      BY <3>1, <3>2
  <2>2. QED
    BY <2>1
<1> HIDE DEF X
<1>4. \A U \in SUBSET S : U \in X
  BY <1>3, SubsetInduction
<1>5. CASE S = {}
  BY <1>2, <1>5 DEF SumOver, h
<1>6. CASE S # {}
  <2>1. Pick(S) \in S
    BY <1>6, PickIn
  <2>2. h(S)[S] = f[Pick(S)] + h(S)[S \ {Pick(S)}]
    BY <1>2, <1>6
  <2>3. h(S)[S \ {Pick(S)}] = h(S \ {Pick(S)})[S \ {Pick(S)}]
    BY <1>4 DEF X
  <2>4. QED
    BY <1>6, <2>2, <2>3 DEF SumOver, h
<1>7. QED
  BY <1>5, <1>6

\* A sum of integers is one, of naturals too, and of zeros is zero.
LEMMA SumType ==
    ASSUME NEW D, IsFiniteSet(D), NEW f
    PROVE  /\ (\A x \in D : f[x] \in Int) => SumOver(f, D) \in Int
           /\ (\A x \in D : f[x] \in Nat) => SumOver(f, D) \in Nat
           /\ (\A x \in D : f[x] = 0) => SumOver(f, D) = 0
<1> DEFINE X == {S \in SUBSET D :
                   /\ (\A x \in S : f[x] \in Int) => SumOver(f, S) \in Int
                   /\ (\A x \in S : f[x] \in Nat) => SumOver(f, S) \in Nat
                   /\ (\A x \in S : f[x] = 0) => SumOver(f, S) = 0}
<1>1. ASSUME NEW S \in SUBSET D, \A x \in S : S \ {x} \in X PROVE S \in X
  <2>1. SumOver(f, S) = IF S = {} THEN 0 ELSE f[Pick(S)] + SumOver(f, S \ {Pick(S)})
    BY FS_Subset, SumStep
  <2>2. S # {} => Pick(S) \in S
    BY PickIn
  <2>3. QED
    BY <1>1, <2>1, <2>2
<1> HIDE DEF X
<1>2. \A S \in SUBSET D : S \in X
  BY <1>1, SubsetInduction
<1>3. QED
  BY <1>2 DEF X

\* The sum of sums.
LEMMA SumAdds ==
    ASSUME NEW D, IsFiniteSet(D), NEW f, NEW g, NEW k,
           \A x \in D : f[x] \in Int /\ g[x] \in Int /\ k[x] = f[x] + g[x]
    PROVE  SumOver(k, D) = SumOver(f, D) + SumOver(g, D)
<1> DEFINE X == {S \in SUBSET D : SumOver(k, S) = SumOver(f, S) + SumOver(g, S)}
<1>1. ASSUME NEW S \in SUBSET D, \A x \in S : S \ {x} \in X PROVE S \in X
  <2>1. IsFiniteSet(S)
    BY FS_Subset
  <2>2. CASE S = {}
    <3>1. SumOver(f, S) = 0 /\ SumOver(g, S) = 0 /\ SumOver(k, S) = 0
      BY <2>1, <2>2, SumStep
    <3>2. QED
      BY <3>1
  <2>3. CASE S # {}
    <3>1. Pick(S) \in S
      BY <2>3, PickIn
    <3> DEFINE R == S \ {Pick(S)}
    <3>2. IsFiniteSet(R)
      BY <2>1, FS_RemoveElement
    <3>3. SumOver(f, R) \in Int /\ SumOver(g, R) \in Int
      BY <3>2, SumType
    <3>4. SumOver(k, R) = SumOver(f, R) + SumOver(g, R)
      BY <1>1, <3>1
    <3>5. /\ SumOver(f, S) = f[Pick(S)] + SumOver(f, R)
          /\ SumOver(g, S) = g[Pick(S)] + SumOver(g, R)
          /\ SumOver(k, S) = k[Pick(S)] + SumOver(k, R)
      BY <2>1, <2>3, SumStep
    <3> HIDE DEF R
    <3>6. SumOver(k, S) = SumOver(f, S) + SumOver(g, S)
      BY <3>1, <3>3, <3>4, <3>5
    <3>7. QED
      BY <3>6
  <2>4. QED
    BY <2>2, <2>3
<1> HIDE DEF X
<1>2. \A S \in SUBSET D : S \in X
  BY <1>1, SubsetInduction
<1>3. QED
  BY <1>2 DEF X

\* A sum is one of its terms and the sum of the others.
LEMMA SumRemove ==
    ASSUME NEW D, IsFiniteSet(D), NEW f, NEW e \in D, \A x \in D : f[x] \in Int
    PROVE  SumOver(f, D) = f[e] + SumOver(f, D \ {e})
<1> DEFINE X == {S \in SUBSET D : \A y \in S : SumOver(f, S) = f[y] + SumOver(f, S \ {y})}
<1>1. ASSUME NEW S \in SUBSET D, \A x \in S : S \ {x} \in X PROVE S \in X
  <2>1. ASSUME NEW y \in S PROVE SumOver(f, S) = f[y] + SumOver(f, S \ {y})
    <3> DEFINE p == Pick(S)
    <3>1. p \in S /\ IsFiniteSet(S) /\ IsFiniteSet(S \ {y}) /\ IsFiniteSet(S \ {p})
          /\ IsFiniteSet((S \ {p}) \ {y})
      BY <2>1, PickIn, FS_Subset, FS_RemoveElement
    <3>2. SumOver(f, S) = f[p] + SumOver(f, S \ {p})
      BY <2>1, <3>1, SumStep
    <3> HIDE DEF p
    <3>3. CASE y = p
      BY <3>2, <3>3
    <3>4. CASE y # p
      <4>1. SumOver(f, S \ {p}) = f[y] + SumOver(f, (S \ {p}) \ {y})
        BY <1>1, <3>1, <3>4
      <4>2. SumOver(f, S \ {y}) = f[p] + SumOver(f, (S \ {y}) \ {p})
        BY <1>1, <3>1, <3>4
      <4>3. (S \ {y}) \ {p} = (S \ {p}) \ {y}
        OBVIOUS
      <4>4. f[y] \in Int /\ f[p] \in Int /\ SumOver(f, (S \ {p}) \ {y}) \in Int
        BY <3>1, SumType
      <4>5. PICK v : v = SumOver(f, (S \ {p}) \ {y})
        OBVIOUS
      <4>6. SumOver(f, S) = f[p] + (f[y] + v) /\ SumOver(f, S \ {y}) = f[p] + v
        BY <3>2, <4>1, <4>2, <4>3, <4>5
      <4>7. v \in Int
        BY <4>4, <4>5
      <4> HIDE DEF X
      <4>8. QED
        BY <4>4, <4>6, <4>7
    <3>5. QED
      BY <3>3, <3>4
  <2>2. QED
    BY <2>1
<1> HIDE DEF X
<1>2. \A S \in SUBSET D : S \in X
  BY <1>1, SubsetInduction
<1>3. QED
  BY <1>2 DEF X

\* Functions that agree have the same sum.
LEMMA SumSame ==
    ASSUME NEW D, IsFiniteSet(D), NEW f, NEW g, \A x \in D : f[x] = g[x]
    PROVE  SumOver(f, D) = SumOver(g, D)
<1> DEFINE X == {S \in SUBSET D : SumOver(f, S) = SumOver(g, S)}
<1>1. ASSUME NEW S \in SUBSET D, \A x \in S : S \ {x} \in X PROVE S \in X
  <2>1. /\ SumOver(f, S) = IF S = {} THEN 0 ELSE f[Pick(S)] + SumOver(f, S \ {Pick(S)})
        /\ SumOver(g, S) = IF S = {} THEN 0 ELSE g[Pick(S)] + SumOver(g, S \ {Pick(S)})
    BY FS_Subset, SumStep
  <2>2. S # {} => Pick(S) \in S
    BY PickIn
  <2>3. QED
    BY <1>1, <2>1, <2>2
<1> HIDE DEF X
<1>2. \A S \in SUBSET D : S \in X
  BY <1>1, SubsetInduction
<1>3. QED
  BY <1>2 DEF X

\* The largest element of a set, as the folds of sequences choose it.
Top(S) == CHOOSE x \in S : \A y \in S : x >= y

\* A finite set of numbers has one.
LEMMA TopIn ==
    ASSUME NEW D \in SUBSET Int, IsFiniteSet(D), D # {}
    PROVE  Top(D) \in D
<1> DEFINE X == {S \in SUBSET D : S # {} => \E x \in S : \A y \in S : x >= y}
<1>1. ASSUME NEW S \in SUBSET D, \A x \in S : S \ {x} \in X, S # {}
      PROVE  \E x \in S : \A y \in S : x >= y
  <2>1. PICK z \in S : TRUE
    BY <1>1
  <2>2. CASE S \ {z} = {}
    <3>1. \A y \in S : z >= y
      BY <2>2
    <3>2. QED
      BY <3>1
  <2>3. CASE S \ {z} # {}
    <3>1. PICK m \in S \ {z} : \A y \in S \ {z} : m >= y
      BY <1>1, <2>3
    <3>2. CASE m >= z
      BY <3>1, <3>2
    <3>3. CASE ~(m >= z)
      <4>1. \A y \in S : z >= y
        BY <3>1, <3>3
      <4>2. QED
        BY <4>1
    <3>4. QED
      BY <3>2, <3>3
  <2>4. QED
    BY <2>2, <2>3
<1> HIDE DEF X
<1>2. \A S \in SUBSET D : (\A x \in S : S \ {x} \in X) => S \in X
  BY <1>1 DEF X
<1>3. D \in X
  BY <1>2, SubsetInduction
<1>4. QED
  BY <1>3 DEF X, Top

\* A sum, from its largest index down.
LEMMA SumFromTop ==
    ASSUME NEW D \in SUBSET Int, IsFiniteSet(D), NEW f, \A x \in D : f[x] \in Int
    PROVE  \A S \in SUBSET D :
              SumOver(f, S) = IF S = {} THEN 0 ELSE SumOver(f, S \ {Top(S)}) + f[Top(S)]
<1> SUFFICES ASSUME NEW S \in SUBSET D
             PROVE  SumOver(f, S) = IF S = {} THEN 0 ELSE SumOver(f, S \ {Top(S)}) + f[Top(S)]
  OBVIOUS
<1>1. IsFiniteSet(S)
  BY FS_Subset
<1>2. CASE S = {}
  BY <1>1, <1>2, SumStep
<1>3. CASE S # {}
  <2>1. Top(S) \in S /\ IsFiniteSet(S \ {Top(S)})
    BY <1>1, <1>3, TopIn, FS_RemoveElement
  <2>2. SumOver(f, S) = f[Top(S)] + SumOver(f, S \ {Top(S)})
    BY <1>1, <2>1, SumRemove
  <2>3. SumOver(f, S \ {Top(S)}) \in Int /\ f[Top(S)] \in Int
    BY <2>1, SumType
  <2>4. PICK v, w : v = SumOver(f, S \ {Top(S)}) /\ w = f[Top(S)]
    OBVIOUS
  <2>5. w + v = v + w
    BY <2>3, <2>4
  <2>6. QED
    BY <1>3, <2>2, <2>4, <2>5
<1>4. QED
  BY <1>2, <1>3

\* A function on the subsets of D that adds from the top sums f.
LEMMA TopSums ==
    ASSUME NEW D \in SUBSET Int, IsFiniteSet(D), NEW f, \A x \in D : f[x] \in Int, NEW h,
           \A S \in SUBSET D : h[S] = IF S = {} THEN 0 ELSE h[S \ {Top(S)}] + f[Top(S)]
    PROVE  h[D] = SumOver(f, D)
<1> DEFINE X == {S \in SUBSET D : h[S] = SumOver(f, S)}
<1>1. ASSUME NEW S \in SUBSET D, \A x \in S : S \ {x} \in X PROVE S \in X
  <2>1. SumOver(f, S) = IF S = {} THEN 0 ELSE SumOver(f, S \ {Top(S)}) + f[Top(S)]
    BY SumFromTop
  <2>2. S # {} => Top(S) \in S
    BY FS_Subset, TopIn
  <2>3. QED
    BY <1>1, <2>1, <2>2
<1> HIDE DEF X
<1>2. D \in X
  BY <1>1, SubsetInduction
<1>3. QED
  BY <1>2 DEF X

\* A function on the subsets of D that adds a chosen element sums f.
LEMMA ChoiceSums ==
    ASSUME NEW D, IsFiniteSet(D), NEW f, NEW h,
           \A S \in SUBSET D : h[S] = IF S = {} THEN 0 ELSE f[Pick(S)] + h[S \ {Pick(S)}]
    PROVE  h[D] = SumOver(f, D)
<1> DEFINE X == {S \in SUBSET D : h[S] = SumOver(f, S)}
<1>1. ASSUME NEW S \in SUBSET D, \A x \in S : S \ {x} \in X PROVE S \in X
  <2>1. SumOver(f, S) = IF S = {} THEN 0 ELSE f[Pick(S)] + SumOver(f, S \ {Pick(S)})
    BY FS_Subset, SumStep
  <2>2. S # {} => Pick(S) \in S
    BY PickIn
  <2>3. QED
    BY <1>1, <2>1, <2>2
<1> HIDE DEF X
<1>2. \A S \in SUBSET D : S \in X
  BY <1>1, SubsetInduction
<1>3. D \in SUBSET D
  OBVIOUS
<1>4. QED
  BY <1>2, <1>3 DEF X

\* What is zero but for one element sums to that.
LEMMA SumSingle ==
    ASSUME NEW D, IsFiniteSet(D), NEW f, NEW e \in D, f[e] \in Int, \A x \in D \ {e} : f[x] = 0
    PROVE  SumOver(f, D) = f[e]
<1>1. \A x \in D : f[x] \in Int
  OBVIOUS
<1>2. SumOver(f, D) = f[e] + SumOver(f, D \ {e})
  BY <1>1, SumRemove
<1>3. SumOver(f, D \ {e}) = 0
  BY FS_RemoveElement, SumType
<1>4. PICK v : v = f[e]
  OBVIOUS
<1>5. v + 0 = v
  BY <1>4
<1>6. QED
  BY <1>2, <1>3, <1>4, <1>5

\* A sum grows with its terms.
LEMMA SumMonotone ==
    ASSUME NEW D, IsFiniteSet(D), NEW f, NEW g, \A x \in D : f[x] \in Int /\ g[x] \in Int /\ f[x] <= g[x]
    PROVE  SumOver(f, D) <= SumOver(g, D)
<1> DEFINE k == [x \in D |-> g[x] - f[x]]
<1>1. \A x \in D : k[x] \in Nat /\ k[x] \in Int /\ g[x] = f[x] + k[x]
  OBVIOUS
<1> HIDE DEF k
<1>2. SumOver(g, D) = SumOver(f, D) + SumOver(k, D)
  BY <1>1, SumAdds
<1>3. SumOver(f, D) \in Int /\ SumOver(k, D) \in Nat
  BY <1>1, SumType
<1>4. PICK v, w : v = SumOver(f, D) /\ w = SumOver(k, D)
  OBVIOUS
<1>5. v <= v + w
  BY <1>3, <1>4
<1>6. QED
  BY <1>2, <1>4, <1>5

\* Members that add nothing may be left out.
LEMMA SumWithin ==
    ASSUME NEW D, IsFiniteSet(D), NEW S \in SUBSET D, NEW f,
           \A x \in D : f[x] \in Int, \A x \in D \ S : f[x] = 0
    PROVE  SumOver(f, D) = SumOver(f, S)
<1> DEFINE X == {U \in SUBSET D : SumOver(f, U) = SumOver(f, U \cap S)}
<1>1. ASSUME NEW U \in SUBSET D, \A x \in U : U \ {x} \in X PROVE U \in X
  <2>1. CASE U \subseteq S
    <3>1. U \cap S = U
      BY <2>1
    <3>2. QED
      BY <3>1
  <2>2. ASSUME NEW e \in U, e \notin S PROVE U \in X
    <3>1. SumOver(f, U \ {e}) = SumOver(f, (U \ {e}) \cap S)
      BY <1>1
    <3>2. (U \ {e}) \cap S = U \cap S
      BY <2>2
    <3>3. SumOver(f, U) = f[e] + SumOver(f, U \ {e})
      BY FS_Subset, SumRemove
    <3>4. f[e] = 0 /\ SumOver(f, U \ {e}) \in Int
      BY <2>2, FS_Subset, SumType
    <3>5. SumOver(f, U) = SumOver(f, U \ {e})
      BY <3>3, <3>4
    <3>6. QED
      BY <3>1, <3>2, <3>5
  <2>3. QED
    BY <2>1, <2>2
<1> HIDE DEF X
<1>2. D \in X
  BY <1>1, SubsetInduction
<1>3. D \cap S = S
  OBVIOUS
<1>4. QED
  BY <1>2, <1>3 DEF X

\* A constant adds up to itself as often as there are members.
LEMMA SumConstant ==
    ASSUME NEW D, IsFiniteSet(D), NEW c \in Nat, NEW f, \A x \in D : f[x] = c
    PROVE  SumOver(f, D) = Cardinality(D) * c
<1> DEFINE X == {S \in SUBSET D : SumOver(f, S) = Cardinality(S) * c}
<1>1. ASSUME NEW S \in SUBSET D, \A x \in S : S \ {x} \in X PROVE S \in X
  <2>1. IsFiniteSet(S) /\ \A x \in S : f[x] = c /\ f[x] \in Int
    BY FS_Subset
  <2>2. CASE S = {}
    <3>1. SumOver(f, S) = 0 /\ Cardinality(S) = 0
      BY <2>1, <2>2, SumType, FS_EmptySet
    <3>2. QED
      BY <3>1
  <2>3. CASE S # {}
    <3>1. PICK x : x \in S
      BY <2>3
    <3>2. SumOver(f, S) = c + SumOver(f, S \ {x})
      BY <2>1, <3>1, SumRemove
    <3>3. SumOver(f, S \ {x}) = Cardinality(S \ {x}) * c
      BY <1>1, <3>1
    <3>4. PICK m \in Nat : Cardinality(S \ {x}) = m /\ Cardinality(S) = m + 1
      <4>1. IsFiniteSet(S \ {x}) /\ Cardinality(S \ {x}) = Cardinality(S) - 1
        BY <2>1, <3>1, FS_RemoveElement
      <4>2. Cardinality(S \ {x}) \in Nat /\ Cardinality(S) \in Nat
        BY <2>1, <4>1, FS_CardinalityType
      <4>3. QED
        BY <4>1, <4>2
    <3>5. (m + 1) * c = c + m * c
      OBVIOUS
    <3>6. QED
      BY <3>2, <3>3, <3>4, <3>5
  <2>4. QED
    BY <2>2, <2>3
<1> HIDE DEF X
<1>2. \A S \in SUBSET D : S \in X
  BY <1>1, SubsetInduction
<1>3. QED
  BY <1>2 DEF X

\* If one member gives up what is c for each member and itself, and none gains
\* more than c, there is c less.
LEMMA SumSpent ==
    ASSUME NEW D, IsFiniteSet(D), NEW e \in D, NEW c \in Nat, NEW f, NEW g,
           \A x \in D : f[x] \in Nat /\ g[x] \in Nat,
           f[e] = (Cardinality(D) + 1) * c, g[e] <= c,
           \A x \in D \ {e} : g[x] <= f[x] + c
    PROVE  SumOver(g, D) + c <= SumOver(f, D)
<1> DEFINE S == D \ {e}
           k == [x \in S |-> c]
           h == [x \in S |-> f[x] + c]
<1>1. IsFiniteSet(S) /\ Cardinality(D) \in Nat /\ Cardinality(S) = Cardinality(D) - 1
  BY FS_RemoveElement, FS_CardinalityType
<1>2. SumOver(f, D) = f[e] + SumOver(f, S) /\ SumOver(g, D) = g[e] + SumOver(g, S)
  BY SumRemove
<1>3. /\ \A x \in S : /\ f[x] \in Int /\ g[x] \in Int /\ k[x] \in Int /\ h[x] \in Int
                      /\ g[x] <= h[x] /\ h[x] = f[x] + k[x] /\ k[x] = c
  OBVIOUS
<1> HIDE DEF k, h, S
<1>4. SumOver(g, S) <= SumOver(h, S) /\ SumOver(h, S) = SumOver(f, S) + SumOver(k, S)
  BY <1>1, <1>3, SumMonotone, SumAdds
<1>5. SumOver(k, S) = Cardinality(S) * c
  BY <1>1, <1>3, SumConstant
<1>6. PICK n : n = Cardinality(D)
  OBVIOUS
<1>7. /\ SumOver(f, S) \in Int /\ SumOver(g, S) \in Int /\ SumOver(h, S) \in Int
  BY <1>1, <1>3, SumType
<1>8. (n + 1) * c = n * c + c /\ (n - 1) * c = n * c - c /\ n * c \in Int
  BY <1>1, <1>6
<1>9. PICK sf, sg, sh, df, dg, ge, m :
         /\ sf = SumOver(f, S) /\ sg = SumOver(g, S) /\ sh = SumOver(h, S)
         /\ df = SumOver(f, D) /\ dg = SumOver(g, D) /\ ge = g[e] /\ m = n * c
  OBVIOUS
<1>10. /\ df = (m + c) + sf /\ dg = ge + sg /\ sg <= sh /\ sh = sf + (m - c) /\ ge <= c
       /\ sf \in Int /\ sg \in Int /\ sh \in Int /\ m \in Int /\ ge \in Int /\ c \in Int
  BY <1>1, <1>2, <1>4, <1>5, <1>6, <1>7, <1>8, <1>9
<1>11. dg + c <= df
  BY ONLY <1>10
<1>12. QED
  BY <1>9, <1>11

\* A part of a set and the rest add up to the whole.
LEMMA SumUnion ==
    ASSUME NEW D, IsFiniteSet(D), NEW A \in SUBSET D, NEW f, \A x \in D : f[x] \in Int
    PROVE  SumOver(f, D) = SumOver(f, A) + SumOver(f, D \ A)
<1> DEFINE B == D \ A
           g == [x \in D |-> IF x \in A THEN f[x] ELSE 0]
           k == [x \in D |-> IF x \in A THEN 0 ELSE f[x]]
<1>1. /\ \A x \in D : g[x] \in Int /\ k[x] \in Int /\ f[x] = g[x] + k[x]
      /\ \A x \in D \ A : g[x] = 0
      /\ \A x \in D \ B : k[x] = 0
      /\ \A x \in A : g[x] = f[x]
      /\ \A x \in B : k[x] = f[x]
  OBVIOUS
<1>2. IsFiniteSet(A) /\ IsFiniteSet(B) /\ B \in SUBSET D
  BY FS_Subset
<1> HIDE DEF g, k, B
<1>3. SumOver(f, D) = SumOver(g, D) + SumOver(k, D)
  BY <1>1, SumAdds
<1>4. SumOver(g, D) = SumOver(g, A) /\ SumOver(k, D) = SumOver(k, B)
  BY <1>1, <1>2, SumWithin
<1>5. SumOver(g, A) = SumOver(f, A) /\ SumOver(k, B) = SumOver(f, B)
  BY <1>1, <1>2, SumSame
<1>6. QED
  BY <1>3, <1>4, <1>5 DEF B

\* The recursive equation of a fold of a sequence, from its last element down.
Folded(D, base, step, h) ==
    h = [S \in SUBSET D |-> IF S = {} THEN base ELSE step[Top(S)][h[S \ {Top(S)}]]]

\* It has a solution, with the values that its steps have.
LEMMA FoldExists ==
    ASSUME NEW D \in SUBSET Int, IsFiniteSet(D), NEW A, NEW base \in A, NEW step,
           \A x \in D, a \in A : step[x][a] \in A
    PROVE  \E h : Folded(D, base, step, h) /\ \A S \in SUBSET D : h[S] \in A
<1> DEFINE Body(h, s) == IF s = {} THEN base ELSE step[Top(s)][h[s \ {Top(s)}]]
           To(h, n) == \A s \in SUBSET D : Cardinality(s) <= n => h[s] = Body(h, s)
           X == {n \in Nat : \E h : To(h, n)}
<1>1. \A s \in SUBSET D : /\ IsFiniteSet(s) /\ Cardinality(s) \in Nat /\ Cardinality(s) <= Cardinality(D)
                          /\ Cardinality(s) = 0 <=> s = {}
                          /\ s # {} => /\ Top(s) \in s /\ s \ {Top(s)} \in SUBSET D
                                       /\ Cardinality(s \ {Top(s)}) = Cardinality(s) - 1
  BY FS_Subset, FS_CardinalityType, FS_EmptySet, FS_RemoveElement, TopIn
<1>2. 0 \in X
  <2> DEFINE h == [s \in SUBSET D |-> base]
  <2>1. ASSUME NEW s \in SUBSET D, Cardinality(s) <= 0 PROVE h[s] = Body(h, s)
    <3>1. Cardinality(s) \in Nat /\ (Cardinality(s) = 0 <=> s = {})
      BY <1>1
    <3>2. s = {}
      BY ONLY <2>1, <3>1
    <3>3. QED
      BY <3>2
  <2>2. To(h, 0)
    BY <2>1
  <2> HIDE DEF h, To
  <2>3. QED
    BY <2>2
<1>3. ASSUME NEW n \in X PROVE n + 1 \in X
  <2>1. PICK h : To(h, n)
    OBVIOUS
  <2> DEFINE g == [s \in SUBSET D |-> IF Cardinality(s) <= n THEN h[s] ELSE Body(h, s)]
  <2>2. ASSUME NEW s \in SUBSET D, Cardinality(s) <= n + 1 PROVE g[s] = Body(g, s)
    <3>1. CASE s = {}
      BY <1>1, <2>1, <3>1
    <3>2. CASE s # {}
      <4>1. g[s] = Body(h, s)
        BY <1>1, <2>1
      <4>2. g[s \ {Top(s)}] = h[s \ {Top(s)}]
        BY <1>1, <2>2, <3>2
      <4>3. QED
        BY <3>2, <4>1, <4>2
    <3>3. QED
      BY <3>1, <3>2
  <2>3. To(g, n + 1)
    BY <2>2
  <2> HIDE DEF g, To
  <2>4. QED
    BY <2>3
<1> HIDE DEF X
<1>4. Nat \subseteq X
  BY <1>2, <1>3, CountingInduction
<1>5. PICK h : To(h, Cardinality(D))
  <2>1. Cardinality(D) \in X
    BY <1>4, FS_CardinalityType
  <2>2. QED
    BY <2>1 DEF X
<1> DEFINE g == [s \in SUBSET D |-> h[s]]
<1>6. \A s \in SUBSET D : g[s] = Body(g, s)
  BY <1>1, <1>5
<1>7. Folded(D, base, step, g)
  <2>1. g = [s \in SUBSET D |-> Body(g, s)]
    BY <1>6
  <2>2. QED
    BY <2>1 DEF Folded
<1> DEFINE T == {S \in SUBSET D : g[S] \in A}
<1>8. ASSUME NEW S \in SUBSET D, \A x \in S : S \ {x} \in T PROVE S \in T
  <2> HIDE DEF g
  <2>1. S # {} => Top(S) \in S /\ Top(S) \in D
    BY <1>1
  <2>2. QED
    BY <1>6, <1>8, <2>1
<1> HIDE DEF T
<1>9. \A S \in SUBSET D : S \in T
  BY <1>8, SubsetInduction
<1> HIDE DEF g
<1>10. QED
  BY <1>7, <1>9 DEF T

\* The largest of the first numbers, and what is left without it.
LEMMA TopOfFirst ==
    ASSUME NEW k \in Nat, k # 0
    PROVE  Top(1..k) = k /\ (1..k) \ {Top(1..k)} = 1..(k - 1)
<1>1. k \in 1..k /\ \A y \in 1..k : k >= y
  OBVIOUS
<1>2. Top(1..k) \in 1..k /\ \A y \in 1..k : Top(1..k) >= y
  BY <1>1 DEF Top
<1>3. Top(1..k) = k
  BY <1>1, <1>2
<1>4. (1..k) \ {k} = 1..(k - 1)
  OBVIOUS
<1>5. QED
  BY <1>3, <1>4

=============================================================================
