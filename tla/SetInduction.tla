---------------------------- MODULE SetInduction ----------------------------
(***************************************************************************)
(* The least-number principle and induction, stated of sets: what the proofs *)
(* about clocks, queues and counters need and what the library states of     *)
(* predicates only.  All rests on the strict subsets of a finite set being   *)
(* well-founded; with it, what a sum over a finite set comes to.             *)
(***************************************************************************)
EXTENDS Integers, FiniteSets, Functions, FiniteSetTheorems, TLAPS

\* A nonempty set of natural numbers has a least element.
LEMMA LeastNatural ==
  ASSUME NEW T \in SUBSET Nat, T # {}
  PROVE  \E least \in T : \A y \in T : least <= y
<1>1. PICK n \in T : TRUE
  OBVIOUS
<1> DEFINE Below == {0 .. k : k \in {m \in T : m <= n}}
           R == StrictSubsetOrdering(0 .. n)
           F == FiniteSubsetsOf(0 .. n)
<1>2. IsWellFoundedOn(R, F)
  BY FS_StrictSubsetOrderingWellFounded
<1>3. Below \subseteq F
  <2> SUFFICES ASSUME NEW k \in T, k <= n PROVE 0 .. k \in F
    OBVIOUS
  <2>1. k \in Int /\ n \in Int /\ 0 .. k \subseteq 0 .. n
    BY <1>1
  <2>2. IsFiniteSet(0 .. k)
    BY <2>1, FS_Interval
  <2>3. QED
    BY <2>1, <2>2 DEF FiniteSubsetsOf
<1>4. Below # {}
  BY <1>1
<1> HIDE DEF R, F, Below
<1>5. PICK b \in Below : \A c \in Below : <<c, b>> \notin R
  BY <1>2, <1>3, <1>4, WFMin
<1>6. PICK k \in T : k <= n /\ b = 0 .. k
  BY DEF Below
<1>7. ASSUME NEW y \in T, ~(k <= y) PROVE FALSE
  <2>1. y \in Nat /\ k \in Nat /\ n \in Nat /\ y < k /\ y <= n
    BY <1>1, <1>6, <1>7
  <2>2. 0 .. y \in Below
    BY <2>1 DEF Below
  <2>3. 0 .. y \subseteq 0 .. k /\ k \in 0 .. k /\ k \notin 0 .. y
    BY <2>1
  <2>4. 0 .. y \subseteq 0 .. n /\ 0 .. k \subseteq 0 .. n
    BY <2>1, <1>6
  <2>5. <<0 .. y, 0 .. k>> \in R
    BY <2>3, <2>4 DEF R, StrictSubsetOrdering
  <2>6. QED
    BY <1>5, <1>6, <2>2, <2>5
<1>8. QED
  BY <1>7

\* A set that holds 0 and the successor of each of its members is all of Nat.
LEMMA NaturalSetInduction ==
  ASSUME NEW S, 0 \in S, \A n \in Nat : n \in S => n + 1 \in S
  PROVE  Nat \subseteq S
<1> SUFFICES ASSUME NEW T \in SUBSET Nat, T # {}, T = Nat \ S PROVE FALSE
  OBVIOUS
<1>1. PICK k \in T : \A y \in T : k <= y
  BY LeastNatural
<1>2. k \in Nat /\ k # 0 /\ k - 1 \in Nat
  BY <1>1
<1>3. k - 1 \in S
  BY <1>1, <1>2
<1>4. QED
  BY <1>2, <1>3
\* Induction over the subsets of a finite set: from the smaller ones to each.
LEMMA SubsetInduction ==
  ASSUME NEW S, IsFiniteSet(S), NEW F,
         \A T \in SUBSET S : (\A U \in SUBSET T : U # T => U \in F) => T \in F
  PROVE  S \in F
<1> SUFFICES ASSUME S \notin F PROVE FALSE
  OBVIOUS
<1> DEFINE bad == {T \in SUBSET S : T \notin F}
           sizes == {Cardinality(T) : T \in bad}
<1>1. \A T \in SUBSET S : IsFiniteSet(T) /\ Cardinality(T) \in Nat
  BY FS_Subset, FS_CardinalityType
<1>2. sizes \in SUBSET Nat /\ sizes # {}
  BY <1>1
<1>3. PICK n \in sizes : \A m \in sizes : n <= m
  BY <1>2, LeastNatural
<1>4. PICK T \in bad : Cardinality(T) = n
  BY <1>3
<1>5. ASSUME NEW U \in SUBSET T, U # T PROVE U \in F
  <2>1. U \in SUBSET S /\ IsFiniteSet(T)
    BY <1>1, <1>4
  <2>2. Cardinality(U) <= Cardinality(T) /\ Cardinality(U) # Cardinality(T)
    BY <1>5, <2>1, FS_Subset
  <2>3. Cardinality(U) \in Nat /\ n \in Nat
    BY <1>1, <1>2, <2>1
  <2>4. CASE U \in bad
    <3>1. n <= Cardinality(U)
      BY <1>3, <2>4
    <3>2. QED
      BY <1>4, <2>2, <2>3, <3>1
  <2>5. QED
    BY <2>1, <2>4
<1>6. QED
  BY <1>4, <1>5

-----------------------------------------------------------------------------
(* Sums over finite sets.                                                   *)

\* g sums f over every subset of S, as SumFunctionOnSet does.
Sums(g, f, S) ==
  g = [s \in SUBSET S |-> IF s = {} THEN 0
                          ELSE LET x == CHOOSE x \in s : TRUE IN f[x] + g[s \ {x}]]

LEMMA SumsExist ==
  ASSUME NEW S, IsFiniteSet(S), NEW f
  PROVE  \E g : Sums(g, f, S)
<1> DEFINE c(s) == CHOOSE x \in s : TRUE
           small(n) == {s \in SUBSET S : Cardinality(s) <= n}
           Step(g, s) == IF s = {} THEN 0 ELSE f[c(s)] + g[s \ {c(s)}]
           good == {n \in Nat : \E g : g = [s \in small(n) |-> Step(g, s)]}
<1>1. \A T \in SUBSET S : IsFiniteSet(T) /\ Cardinality(T) \in Nat /\ Cardinality(T) <= Cardinality(S)
  BY FS_Subset, FS_CardinalityType
<1>2. \A s \in SUBSET S : s # {} => /\ s \ {c(s)} \in SUBSET S
                                    /\ Cardinality(s \ {c(s)}) = Cardinality(s) - 1
  BY <1>1, FS_RemoveElement
<1> HIDE DEF c
<1>3. 0 \in good
  <2> DEFINE g == [s \in small(0) |-> 0]
  <2>1. \A s \in small(0) : s = {}
    <3> TAKE s \in small(0)
    <3>1. IsFiniteSet(s) /\ Cardinality(s) = 0
      BY <1>1
    <3>2. QED
      BY <3>1, FS_EmptySet
  <2>2. g = [s \in small(0) |-> Step(g, s)]
    BY <2>1
  <2>3. QED
    BY <2>2
<1>4. ASSUME NEW n \in Nat, n \in good PROVE n + 1 \in good
  <2>1. PICK g : g = [s \in small(n) |-> Step(g, s)]
    BY <1>4
  <2> DEFINE h == [s \in small(n + 1) |-> Step(g, s)]
  <2>2. \A s \in small(n) : s \in small(n + 1) /\ g[s] = Step(g, s)
    <3>1. \A s \in small(n) : s \in small(n + 1)
      BY <1>1
    <3> HIDE DEF small, Step
    <3>2. QED
      BY <2>1, <3>1
  <2>3. \A s \in small(n) : h[s] = g[s]
    BY <2>2
  <2>4. \A s \in small(n + 1) : s # {} => s \ {c(s)} \in small(n)
    BY <1>1, <1>2
  <2> HIDE DEF small
  <2>5. \A s \in small(n + 1) : Step(g, s) = Step(h, s)
    BY <2>3, <2>4
  <2>6. h = [s \in small(n + 1) |-> Step(h, s)]
    BY <2>5
  <2>7. \E k : k = [s \in small(n + 1) |-> Step(k, s)]
    <3> HIDE DEF h, Step
    <3>1. QED
      BY <2>6
  <2>8. n + 1 \in Nat
    OBVIOUS
  <2> HIDE DEF Step, h
  <2>9. QED
    BY <2>7, <2>8
<1>5. Cardinality(S) \in good
  <2> HIDE DEF good
  <2>1. Nat \subseteq good
    BY <1>3, <1>4, NaturalSetInduction
  <2>2. QED
    BY <2>1, <1>1
<1>6. small(Cardinality(S)) = SUBSET S
  BY <1>1
<1>7. QED
  BY <1>5, <1>6 DEF Sums, c

LEMMA SumsAreSum ==
  ASSUME NEW S, IsFiniteSet(S), NEW f
  PROVE  \E g : Sums(g, f, S) /\ SumFunctionOnSet(f, S) = g[S]
<1> DEFINE g == CHOOSE g : Sums(g, f, S)
<1>1. Sums(g, f, S)
  BY SumsExist
<1>2. SumFunctionOnSet(f, S) = g[S]
  BY DEF SumFunctionOnSet, FoldFunctionOnSet, MapThenFoldSet, Sums
<1>3. QED
  BY <1>1, <1>2

\* One function gives the sums over all subsets.
LEMMA SumsOfSubsets ==
  ASSUME NEW S, IsFiniteSet(S), NEW f, NEW g, Sums(g, f, S)
  PROVE  \A T \in SUBSET S : SumFunctionOnSet(f, T) = g[T]
<1> SUFFICES ASSUME NEW T \in SUBSET S PROVE SumFunctionOnSet(f, T) = g[T]
  OBVIOUS
<1>1. IsFiniteSet(T)
  BY FS_Subset
<1>2. PICK h : Sums(h, f, T) /\ SumFunctionOnSet(f, T) = h[T]
  BY <1>1, SumsAreSum
<1> DEFINE same == {U \in SUBSET T : h[U] = g[U]}
<1>3. ASSUME NEW U \in SUBSET T, \A V \in SUBSET U : V # U => V \in same
      PROVE  U \in same
  <2> DEFINE x == CHOOSE x \in U : TRUE
  <2>1. CASE U = {}
    BY <1>2, <2>1 DEF Sums
  <2>2. CASE U # {}
    <3>1. x \in U /\ U \ {x} \in same
      BY <1>3, <2>2
    <3>2. h[U] = f[x] + h[U \ {x}] /\ g[U] = f[x] + g[U \ {x}]
      BY <1>2, <2>2 DEF Sums
    <3>3. QED
      BY <3>1, <3>2
  <2>3. QED
    BY <2>1, <2>2
<1>4. T \in same
  <2> HIDE DEF same
  <2>1. QED
    BY <1>1, <1>3, SubsetInduction
<1>5. QED
  BY <1>2, <1>4

LEMMA SumStep ==
  ASSUME NEW S, IsFiniteSet(S), NEW f
  PROVE  /\ SumFunctionOnSet(f, {}) = 0
         /\ S # {} => \E x \in S : /\ x = CHOOSE y \in S : TRUE
                                   /\ SumFunctionOnSet(f, S) = f[x] + SumFunctionOnSet(f, S \ {x})
<1>1. PICK g : Sums(g, f, S)
  BY SumsExist
<1>2. \A T \in SUBSET S : SumFunctionOnSet(f, T) = g[T]
  BY <1>1, SumsOfSubsets
<1>3. \A T \in SUBSET S : g[T] = IF T = {} THEN 0 ELSE LET x == CHOOSE x \in T : TRUE IN f[x] + g[T \ {x}]
  BY <1>1 DEF Sums
<1>4. {} \in SUBSET S /\ S \in SUBSET S
  OBVIOUS
<1>5. SumFunctionOnSet(f, {}) = 0
  BY <1>2, <1>3, <1>4
<1>6. ASSUME S # {}
      PROVE  \E x \in S : /\ x = CHOOSE y \in S : TRUE
                          /\ SumFunctionOnSet(f, S) = f[x] + SumFunctionOnSet(f, S \ {x})
  <2> DEFINE x == CHOOSE y \in S : TRUE
  <2>1. x \in S /\ S \ {x} \in SUBSET S
    BY <1>6
  <2>2. g[S] = f[x] + g[S \ {x}]
    BY <1>3, <1>4, <1>6
  <2>3. SumFunctionOnSet(f, S) = f[x] + SumFunctionOnSet(f, S \ {x})
    BY <1>2, <1>4, <2>1, <2>2
  <2>4. QED
    BY <2>1, <2>3
<1>7. QED
  BY <1>5, <1>6

\* A sum of natural numbers is one.
LEMMA SumIsNat ==
  ASSUME NEW S, IsFiniteSet(S), NEW f, \A x \in S : f[x] \in Nat
  PROVE  SumFunctionOnSet(f, S) \in Nat
<1> DEFINE F == {T \in SUBSET S : SumFunctionOnSet(f, T) \in Nat}
<1>1. ASSUME NEW T \in SUBSET S, \A U \in SUBSET T : U # T => U \in F PROVE T \in F
  <2>1. IsFiniteSet(T)
    BY FS_Subset
  <2>2. CASE T = {}
    BY <2>2, <2>1, SumStep
  <2>3. CASE T # {}
    <3>1. PICK x \in T : SumFunctionOnSet(f, T) = f[x] + SumFunctionOnSet(f, T \ {x})
      BY <2>1, <2>3, SumStep
    <3>2. T \ {x} \in F
      BY <1>1
    <3>3. QED
      BY <3>1, <3>2
  <2>4. QED
    BY <2>2, <2>3
<1>2. S \in F
  <2> HIDE DEF F
  <2>1. QED
    BY <1>1, SubsetInduction
<1>3. QED
  BY <1>2

\* Any term may be taken out.
LEMMA SumWithout ==
  ASSUME NEW S, IsFiniteSet(S), NEW f, \A x \in S : f[x] \in Nat, NEW e \in S
  PROVE  SumFunctionOnSet(f, S) = f[e] + SumFunctionOnSet(f, S \ {e})
<1> DEFINE sum(T) == SumFunctionOnSet(f, T)
           F == {T \in SUBSET S : \A x \in T : sum(T) = f[x] + sum(T \ {x})}
<1>0. \A T \in SUBSET S : IsFiniteSet(T) /\ sum(T) \in Nat
  BY FS_Subset, SumIsNat
<1>1. ASSUME NEW T \in SUBSET S, \A U \in SUBSET T : U # T => U \in F, NEW x \in T
      PROVE  sum(T) = f[x] + sum(T \ {x})
  <2>1. PICK y \in T : y = (CHOOSE z \in T : TRUE) /\ sum(T) = f[y] + sum(T \ {y})
    BY <1>0, SumStep
  <2>2. CASE x = y
    BY <2>1, <2>2
  <2>3. CASE x # y
    <3>1. T \ {y} \in F /\ T \ {x} \in F
      BY <1>1
    <3>2. sum(T \ {y}) = f[x] + sum((T \ {y}) \ {x})
      BY <2>3, <3>1
    <3>3. sum(T \ {x}) = f[y] + sum((T \ {x}) \ {y})
      BY <2>3, <3>1
    <3>4. (T \ {y}) \ {x} = (T \ {x}) \ {y}
      OBVIOUS
    <3>5. f[x] \in Nat /\ f[y] \in Nat /\ sum((T \ {x}) \ {y}) \in Nat
      BY <1>0
    <3> HIDE DEF sum
    <3>6. sum(T) = f[y] + sum(T \ {y})
      BY <2>1
    <3>7. QED
      BY <3>2, <3>3, <3>4, <3>5, <3>6
  <2>4. QED
    BY <2>2, <2>3
<1>2. S \in F
  <2>1. \A T \in SUBSET S : (\A U \in SUBSET T : U # T => U \in F) => T \in F
    BY <1>1
  <2> HIDE DEF F
  <2>2. QED
    BY <2>1, SubsetInduction
<1>3. QED
  BY <1>2

\* A sum is of the terms.
LEMMA SumSame ==
  ASSUME NEW S, IsFiniteSet(S), NEW f, NEW g, \A x \in S : f[x] = g[x]
  PROVE  SumFunctionOnSet(f, S) = SumFunctionOnSet(g, S)
<1> DEFINE F == {T \in SUBSET S : SumFunctionOnSet(f, T) = SumFunctionOnSet(g, T)}
<1>1. ASSUME NEW T \in SUBSET S, \A U \in SUBSET T : U # T => U \in F PROVE T \in F
  <2>1. IsFiniteSet(T)
    BY FS_Subset
  <2>2. CASE T = {}
    BY <2>2, <2>1, SumStep
  <2>3. CASE T # {}
    <3> DEFINE x == CHOOSE y \in T : TRUE
    <3>1. /\ SumFunctionOnSet(f, T) = f[x] + SumFunctionOnSet(f, T \ {x})
          /\ SumFunctionOnSet(g, T) = g[x] + SumFunctionOnSet(g, T \ {x})
      BY <2>1, <2>3, SumStep
    <3>2. x \in T /\ T \ {x} \in F
      BY <1>1, <2>3
    <3> HIDE DEF x
    <3>3. QED
      BY <3>1, <3>2
  <2>4. QED
    BY <2>2, <2>3
<1>2. S \in F
  <2> HIDE DEF F
  <2>1. QED
    BY <1>1, SubsetInduction
<1>3. QED
  BY <1>2

\* A part sums to no more than the whole.
LEMMA SumOfPart ==
  ASSUME NEW S, IsFiniteSet(S), NEW f, \A x \in S : f[x] \in Nat, NEW T \in SUBSET S
  PROVE  SumFunctionOnSet(f, T) <= SumFunctionOnSet(f, S)
<1> DEFINE sum(U) == SumFunctionOnSet(f, U)
           F == {U \in SUBSET S : \A V \in SUBSET U : sum(V) <= sum(U)}
<1>0. \A U \in SUBSET S : IsFiniteSet(U) /\ sum(U) \in Nat
  BY FS_Subset, SumIsNat
<1>1. ASSUME NEW U \in SUBSET S, \A W \in SUBSET U : W # U => W \in F, NEW V \in SUBSET U
      PROVE  sum(V) <= sum(U)
  <2>1. CASE V = U
    BY <1>0, <2>1
  <2>2. CASE V # U
    <3>1. PICK e \in U : e \notin V
      BY <2>2
    <3>2. sum(U) = f[e] + sum(U \ {e})
      BY <1>0, SumWithout
    <3>3. U \ {e} \in F /\ V \in SUBSET (U \ {e})
      BY <1>1, <3>1
    <3>4. sum(V) <= sum(U \ {e})
      BY <3>3
    <3>5. f[e] \in Nat /\ sum(U \ {e}) \in Nat /\ sum(V) \in Nat
      BY <1>0
    <3> HIDE DEF sum
    <3>6. QED
      BY <3>2, <3>4, <3>5
  <2>3. QED
    BY <2>1, <2>2
<1>2. \A U \in SUBSET S : (\A W \in SUBSET U : W # U => W \in F) => U \in F
  BY <1>1
<1> HIDE DEF F
<1>3. S \in F
  BY <1>2, SubsetInduction
<1>4. QED
  BY <1>3 DEF F

\* The sum of two functions sums to both their sums.
LEMMA SumAdds ==
  ASSUME NEW S, IsFiniteSet(S), NEW f, NEW g, NEW h,
         \A x \in S : f[x] \in Nat /\ g[x] \in Nat /\ h[x] = f[x] + g[x]
  PROVE  SumFunctionOnSet(h, S) = SumFunctionOnSet(f, S) + SumFunctionOnSet(g, S)
<1> DEFINE sum(m, T) == SumFunctionOnSet(m, T)
           F == {T \in SUBSET S : sum(h, T) = sum(f, T) + sum(g, T)}
<1>1. ASSUME NEW T \in SUBSET S, \A U \in SUBSET T : U # T => U \in F PROVE T \in F
  <2>1. IsFiniteSet(T)
    BY FS_Subset
  <2>2. CASE T = {}
    <3>1. sum(h, T) = 0 /\ sum(f, T) = 0 /\ sum(g, T) = 0
      BY <2>1, <2>2, SumStep
    <3> HIDE DEF sum
    <3>2. QED
      BY <3>1
  <2>3. CASE T # {}
    <3>1. PICK x \in T : TRUE
      BY <2>3
    <3>2. \A y \in T : f[y] \in Nat /\ g[y] \in Nat /\ h[y] \in Nat
      OBVIOUS
    <3>3. /\ sum(h, T) = h[x] + sum(h, T \ {x}) /\ sum(f, T) = f[x] + sum(f, T \ {x})
          /\ sum(g, T) = g[x] + sum(g, T \ {x})
      BY <2>1, <3>2, SumWithout
    <3>4. IsFiniteSet(T \ {x})
      BY <2>1, FS_RemoveElement
    <3>5. sum(h, T \ {x}) \in Nat /\ sum(f, T \ {x}) \in Nat /\ sum(g, T \ {x}) \in Nat
      BY <3>2, <3>4, SumIsNat
    <3>6. T \ {x} \in F
      BY <1>1
    <3>7. f[x] \in Nat /\ g[x] \in Nat /\ h[x] = f[x] + g[x]
      OBVIOUS
    <3> HIDE DEF sum
    <3>8. QED
      BY <3>3, <3>5, <3>6, <3>7
  <2>4. QED
    BY <2>2, <2>3
<1>2. S \in F
  <2> HIDE DEF F
  <2>1. QED
    BY <1>1, SubsetInduction
<1>3. QED
  BY <1>2

\* Shares of a, each rounded up by less than one, exceed a by less than their number.
LEMMA SumOfShares ==
  ASSUME NEW S, IsFiniteSet(S), NEW m, NEW w, NEW a \in Nat, NEW d \in Nat,
         \A x \in S : m[x] \in Nat /\ w[x] \in Nat /\ d * m[x] <= a * w[x] + d
  PROVE  d * SumFunctionOnSet(m, S) <= a * SumFunctionOnSet(w, S) + d * Cardinality(S)
<1> DEFINE sum(f, T) == SumFunctionOnSet(f, T)
           F == {T \in SUBSET S : d * sum(m, T) <= a * sum(w, T) + d * Cardinality(T)}
<1>1. ASSUME NEW T \in SUBSET S, \A U \in SUBSET T : U # T => U \in F PROVE T \in F
  <2>1. IsFiniteSet(T)
    BY FS_Subset
  <2>2. CASE T = {}
    <3>1. sum(m, T) = 0 /\ sum(w, T) = 0 /\ Cardinality(T) = 0
      BY <2>1, <2>2, SumStep, FS_EmptySet
    <3> HIDE DEF sum
    <3>2. QED
      BY <3>1
  <2>3. CASE T # {}
    <3>1. PICK x \in T : TRUE
      BY <2>3
    <3>2. sum(m, T) = m[x] + sum(m, T \ {x}) /\ sum(w, T) = w[x] + sum(w, T \ {x})
      BY <2>1, SumWithout
    <3>3. IsFiniteSet(T \ {x}) /\ Cardinality(T \ {x}) = Cardinality(T) - 1 /\ Cardinality(T) \in Nat
      BY <2>1, FS_RemoveElement, FS_CardinalityType
    <3>4. sum(m, T \ {x}) \in Nat /\ sum(w, T \ {x}) \in Nat
      BY <3>3, SumIsNat
    <3>5. T \ {x} \in F
      BY <1>1
    <3>6. d * sum(m, T \ {x}) <= a * sum(w, T \ {x}) + d * (Cardinality(T) - 1)
      BY <3>3, <3>5
    <3>7. m[x] \in Nat /\ w[x] \in Nat /\ d * m[x] <= a * w[x] + d
      OBVIOUS
    <3> HIDE DEF sum
    <3>8. d * sum(m, T) = d * m[x] + d * sum(m, T \ {x})
      BY <3>2, <3>4, <3>7
    <3>9. a * sum(w, T) = a * w[x] + a * sum(w, T \ {x})
      BY <3>2, <3>4, <3>7
    <3>10. d * (Cardinality(T) - 1) = d * Cardinality(T) - d
      BY <3>3
    <3>11. d * m[x] \in Nat /\ a * w[x] \in Nat /\ d * sum(m, T \ {x}) \in Nat /\ a * sum(w, T \ {x}) \in Nat
           /\ d * Cardinality(T) \in Nat
      BY <3>3, <3>4, <3>7
    <3>12. QED
      BY <3>6, <3>7, <3>8, <3>9, <3>10, <3>11
  <2>4. QED
    BY <2>2, <2>3
<1>2. S \in F
  <2> HIDE DEF F
  <2>1. QED
    BY <1>1, SubsetInduction
<1>3. QED
  BY <1>2
=============================================================================
