-------------------------------- MODULE Sums --------------------------------
(***************************************************************************)
(* Sums of the values of a function over a finite set: units of stock over *)
(* batches and transfers, money over fundings, items and vouchers.         *)
(*                                                                         *)
(* SumFunctionOnSet folds along an order that CHOOSE fixes.  The proofs go *)
(* by a smallest set for which a claim would fail.                         *)
(***************************************************************************)
EXTENDS Integers, FiniteSets, Functions, FiniteSetTheorems, WellFoundedInduction, TLAPS

\* Among finitely many sets there is one that has no proper subset among them.
LEMMA SmallestSet ==
    ASSUME NEW S, IsFiniteSet(S), NEW B \in SUBSET SUBSET S, B # {}
    PROVE  \E T \in B : \A U \in B : U \subseteq T => U = T
  <1>1. IsWellFoundedOn(StrictSubsetOrdering(S), SUBSET S)
    BY FS_StrictSubsetOrderingWellFounded, FS_FiniteSubsetsOfFinite
  <1>2. PICK T \in B : \A U \in B : ~ (<<U, T>> \in StrictSubsetOrdering(S))
    BY <1>1, WFMin
  <1> SUFFICES ASSUME NEW U \in B, U \subseteq T, U # T PROVE FALSE
    BY <1>2
  <1> DEFINE x == <<U, T>>
  <1>3. x \in (SUBSET S) \X (SUBSET S) /\ x[1] \subseteq x[2] /\ x[1] # x[2]
    OBVIOUS
  <1>4. x \in StrictSubsetOrdering(S)
    BY <1>3, Zenon DEF StrictSubsetOrdering
  <1> QED
    BY <1>2, <1>4

Pick(T) == CHOOSE x \in T : TRUE
Rest(T) == T \ {Pick(T)}

LEMMA RestSmaller ==
    ASSUME NEW T, T # {}
    PROVE  Pick(T) \in T /\ Rest(T) \subseteq T /\ Rest(T) # T /\ T = Rest(T) \cup {Pick(T)}
  BY DEF Pick, Rest

\* What the fold computes for the subsets of S.
Adds(f, g, T) == IF T = {} THEN 0 ELSE f[Pick(T)] + g[Rest(T)]
PartialSums(f, S) == CHOOSE g : g = [T \in SUBSET S |-> Adds(f, g, T)]

LEMMA SumUnfolds ==
    ASSUME NEW f, NEW S
    PROVE  SumFunctionOnSet(f, S) = PartialSums(f, S)[S]
  BY Zenon DEF SumFunctionOnSet, FoldFunctionOnSet, MapThenFoldSet, PartialSums, Adds, Pick, Rest

LEMMA RestCardinality ==
    ASSUME NEW T, IsFiniteSet(T), T # {}
    PROVE  IsFiniteSet(Rest(T)) /\ Cardinality(T) \in Nat \ {0}
           /\ Cardinality(Rest(T)) = Cardinality(T) - 1
  BY RestSmaller, FS_RemoveElement, FS_CardinalityType, FS_EmptySet DEF Rest

\* The recursion has a solution: one for the sets of n elements extends to n + 1.
Solves(f, S, g, n) ==
    /\ g \in [SUBSET S -> Int]
    /\ \A T \in SUBSET S : Cardinality(T) <= n => g[T] = Adds(f, g, T)

LEMMA SolutionExists ==
    ASSUME NEW S, IsFiniteSet(S), NEW f, \A x \in S : f[x] \in Int
    PROVE  \E g \in [SUBSET S -> Int] : \A T \in SUBSET S : g[T] = Adds(f, g, T)
  <1>1. \A T \in SUBSET S : IsFiniteSet(T) /\ Cardinality(T) \in Nat /\ Cardinality(T) <= Cardinality(S)
    BY FS_Subset, FS_CardinalityType
  <1>2. \E g : Solves(f, S, g, 0)
    <2> DEFINE g == [T \in SUBSET S |-> 0]
    <2>1. \A T \in SUBSET S : Cardinality(T) <= 0 => T = {}
      BY <1>1, FS_EmptySet
    <2>2. Solves(f, S, g, 0)
      BY <2>1 DEF Solves, Adds
    <2> QED
      BY <2>2
  <1>3. ASSUME NEW n \in Nat, NEW g, Solves(f, S, g, n)
        PROVE  \E h : Solves(f, S, h, n + 1)
    <2> DEFINE h == [T \in SUBSET S |-> Adds(f, g, T)]
    <2>1. \A T \in SUBSET S : T # {} =>
             /\ Pick(T) \in S /\ Rest(T) \in SUBSET S
             /\ Cardinality(Rest(T)) = Cardinality(T) - 1
      BY <1>1, RestSmaller, RestCardinality
    <2>2. h \in [SUBSET S -> Int]
      BY <1>3, <2>1 DEF Solves, Adds
    <2>3. \A T \in SUBSET S : Cardinality(T) <= n => h[T] = g[T]
      BY <1>3 DEF Solves
    <2>4. \A T \in SUBSET S : Cardinality(T) <= n + 1 => h[T] = Adds(f, h, T)
      <3> SUFFICES ASSUME NEW T \in SUBSET S, Cardinality(T) <= n + 1, T # {}
                   PROVE  h[Rest(T)] = g[Rest(T)]
        BY DEF Adds
      <3>1. Rest(T) \in SUBSET S /\ Cardinality(Rest(T)) <= n
        BY <1>1, <2>1
      <3> HIDE DEF h
      <3> QED
        BY <2>3, <3>1
    <2> QED
      BY <2>2, <2>4 DEF Solves
  <1>4. \A n \in Nat : \E g : Solves(f, S, g, n)
    <2> DEFINE B == {n \in Nat : ~ \E g : Solves(f, S, g, n)}
    <2> SUFFICES ASSUME B # {} PROVE FALSE
      OBVIOUS
    <2>1. IsWellFoundedOn(OpToRel(<, Nat), Nat)
      BY NatLessThanWellFounded
    <2>2. PICK n \in B : \A m \in B : ~ (<<m, n>> \in OpToRel(<, Nat))
      BY <2>1, WFMin
    <2>3. n # 0
      BY <1>2
    <2>4. n - 1 \in Nat
      BY <2>3
    <2> DEFINE x == <<n - 1, n>>
    <2>5. x \in Nat \X Nat /\ x[1] < x[2]
      BY <2>4
    <2>6. x \in OpToRel(<, Nat)
      BY <2>5, Zenon DEF OpToRel
    <2>7. n - 1 \notin B
      BY <2>2, <2>6
    <2>8. PICK g : Solves(f, S, g, n - 1)
      BY <2>4, <2>7
    <2>9. \E h : Solves(f, S, h, (n - 1) + 1)
      BY <1>3, <2>4, <2>8
    <2>10. (n - 1) + 1 = n
      BY <2>4
    <2> QED
      BY <2>2, <2>9, <2>10
  <1> QED
    BY <1>1, <1>4, FS_CardinalityType DEF Solves

LEMMA PartialSumsAdd ==
    ASSUME NEW S, IsFiniteSet(S), NEW f, \A x \in S : f[x] \in Int
    PROVE  /\ \A T \in SUBSET S : PartialSums(f, S)[T] = Adds(f, PartialSums(f, S), T)
           /\ \A T \in SUBSET S : PartialSums(f, S)[T] \in Int
  <1>1. PICK g \in [SUBSET S -> Int] : \A T \in SUBSET S : g[T] = Adds(f, g, T)
    BY SolutionExists
  <1>2. g = [T \in SUBSET S |-> Adds(f, g, T)]
    BY <1>1
  <1> DEFINE h == PartialSums(f, S)
  <1>3. h = [T \in SUBSET S |-> Adds(f, h, T)]
    BY <1>2, Zenon DEF PartialSums
  <1> HIDE DEF h
  <1>4. \A T \in SUBSET S : h[T] = Adds(f, h, T)
    BY <1>3
  <1>5. \A T \in SUBSET S : h[T] = g[T]
    <2> DEFINE B == {T \in SUBSET S : h[T] # g[T]}
    <2> SUFFICES ASSUME B # {} PROVE FALSE
      OBVIOUS
    <2>1. PICK T \in B : \A U \in B : U \subseteq T => U = T
      <3>1. B \in SUBSET SUBSET S
        OBVIOUS
      <3> HIDE DEF B
      <3> QED
        BY <3>1, SmallestSet
    <2>2. T # {}
      BY <1>1, <1>4, <2>1 DEF Adds
    <2>3. Rest(T) \in SUBSET S /\ Rest(T) \notin B
      BY <2>1, <2>2, RestSmaller
    <2> QED
      BY <1>1, <1>4, <2>1, <2>2, <2>3 DEF Adds
  <1> QED
    BY <1>1, <1>4, <1>5 DEF h

\* The partial sums of a set are those of its subsets.
LEMMA PartialSumsAgree ==
    ASSUME NEW S, IsFiniteSet(S), NEW f, \A x \in S : f[x] \in Int, NEW T \in SUBSET S
    PROVE  SumFunctionOnSet(f, T) = PartialSums(f, S)[T]
  <1>1. /\ \A U \in SUBSET S : PartialSums(f, S)[U] = Adds(f, PartialSums(f, S), U)
        /\ \A U \in SUBSET T : PartialSums(f, T)[U] = Adds(f, PartialSums(f, T), U)
    BY PartialSumsAdd, FS_Subset
  <1> DEFINE B == {U \in SUBSET T : PartialSums(f, S)[U] # PartialSums(f, T)[U]}
  <1>2. B = {}
    <2> SUFFICES ASSUME B # {} PROVE FALSE
      OBVIOUS
    <2>1. PICK U \in B : \A V \in B : V \subseteq U => V = U
      <3>1. B \in SUBSET SUBSET S
        OBVIOUS
      <3> HIDE DEF B
      <3> QED
        BY <3>1, SmallestSet
    <2>2. U # {}
      BY <1>1, <2>1 DEF Adds
    <2>3. Rest(U) \in SUBSET T /\ Rest(U) \notin B
      BY <2>1, <2>2, RestSmaller
    <2> QED
      BY <1>1, <2>1, <2>2, <2>3 DEF Adds
  <1> QED
    BY <1>2, SumUnfolds

------------------------------------------------------------------------------
LEMMA SumEmpty == ASSUME NEW f PROVE SumFunctionOnSet(f, {}) = 0
  <1>1. IsFiniteSet({})
    BY FS_EmptySet
  <1> QED
    BY <1>1, PartialSumsAdd, SumUnfolds DEF Adds

LEMMA SumType ==
    ASSUME NEW S, IsFiniteSet(S), NEW f, \A x \in S : f[x] \in Int
    PROVE  SumFunctionOnSet(f, S) \in Int
  BY PartialSumsAdd, SumUnfolds

LEMMA SumPick ==
    ASSUME NEW S, IsFiniteSet(S), NEW f, \A x \in S : f[x] \in Int, NEW T \in SUBSET S, T # {}
    PROVE  SumFunctionOnSet(f, T) = f[Pick(T)] + SumFunctionOnSet(f, Rest(T))
  <1>1. Rest(T) \in SUBSET S
    BY RestSmaller
  <1> QED
    BY <1>1, PartialSumsAdd, PartialSumsAgree DEF Adds

\* Any element may be taken out first.
LEMMA SumRemove ==
    ASSUME NEW S, IsFiniteSet(S), NEW f, \A x \in S : f[x] \in Int, NEW x \in S
    PROVE  SumFunctionOnSet(f, S) = f[x] + SumFunctionOnSet(f, S \ {x})
  <1> DEFINE Wrong(T) == \E y \in T : SumFunctionOnSet(f, T) # f[y] + SumFunctionOnSet(f, T \ {y})
             B == {T \in SUBSET S : Wrong(T)}
  <1> SUFFICES ASSUME B # {} PROVE FALSE
    OBVIOUS
  <1>1. PICK T \in B : \A U \in B : U \subseteq T => U = T
    <2>1. B \in SUBSET SUBSET S
      OBVIOUS
    <2> HIDE DEF B
    <2> QED
      BY <2>1, SmallestSet
  <1>2. /\ T \in SUBSET S /\ Wrong(T)
        /\ \A U \in SUBSET S : U \subseteq T /\ U # T => ~Wrong(U)
    BY <1>1
  <1>3. PICK y \in T : SumFunctionOnSet(f, T) # f[y] + SumFunctionOnSet(f, T \ {y})
    BY <1>2
  <1>4. PICK z : z = Pick(T) /\ z \in T /\ Rest(T) = T \ {z}
    BY <1>3, RestSmaller DEF Rest
  <1> HIDE DEF B, Wrong
  <1>5. SumFunctionOnSet(f, T) = f[z] + SumFunctionOnSet(f, T \ {z})
    <2>1. T # {} /\ T \in SUBSET S
      BY <1>2, <1>4
    <2>2. SumFunctionOnSet(f, T) = f[Pick(T)] + SumFunctionOnSet(f, Rest(T))
      BY <2>1, SumPick
    <2> QED
      BY <1>4, <2>2
  <1>6. y # z
    BY <1>3, <1>5
  <1>7. SumFunctionOnSet(f, T \ {z}) = f[y] + SumFunctionOnSet(f, (T \ {z}) \ {y})
    BY <1>2, <1>3, <1>4, <1>6 DEF Wrong
  <1>8. SumFunctionOnSet(f, T \ {y}) = f[z] + SumFunctionOnSet(f, (T \ {y}) \ {z})
    BY <1>2, <1>3, <1>4, <1>6 DEF Wrong
  <1> DEFINE U == T \ {y, z}
  <1>9. (T \ {z}) \ {y} = U /\ (T \ {y}) \ {z} = U
    OBVIOUS
  <1>10. SumFunctionOnSet(f, U) \in Int /\ f[y] \in Int /\ f[z] \in Int
    <2>1. IsFiniteSet(U) /\ U \subseteq S
      BY <1>2, FS_Subset
    <2> HIDE DEF U
    <2> QED
      BY <1>2, <1>3, <1>4, <2>1, SumType
  <1> HIDE DEF U
  <1>11. /\ SumFunctionOnSet(f, T) = f[z] + (f[y] + SumFunctionOnSet(f, U))
         /\ SumFunctionOnSet(f, T \ {y}) = f[z] + SumFunctionOnSet(f, U)
    BY <1>5, <1>7, <1>8, <1>9
  <1> QED
    BY <1>3, <1>10, <1>11

\* Only the values on the set count.
LEMMA SumSame ==
    ASSUME NEW S, IsFiniteSet(S), NEW f, NEW g, \A x \in S : f[x] \in Int /\ g[x] = f[x]
    PROVE  SumFunctionOnSet(g, S) = SumFunctionOnSet(f, S)
  <1> DEFINE B == {T \in SUBSET S : SumFunctionOnSet(g, T) # SumFunctionOnSet(f, T)}
  <1> SUFFICES ASSUME B # {} PROVE FALSE
    OBVIOUS
  <1>1. PICK T \in B : \A U \in B : U \subseteq T => U = T
    <2>1. B \in SUBSET SUBSET S
      OBVIOUS
    <2> HIDE DEF B
    <2> QED
      BY <2>1, SmallestSet
  <1>2. /\ T \in SUBSET S /\ SumFunctionOnSet(g, T) # SumFunctionOnSet(f, T)
        /\ \A U \in SUBSET S : U \subseteq T /\ U # T =>
             SumFunctionOnSet(g, U) = SumFunctionOnSet(f, U)
    BY <1>1
  <1> HIDE DEF B
  <1>3. T # {}
    BY <1>2, SumEmpty
  <1>4. Rest(T) \in SUBSET S /\ Pick(T) \in S /\ Rest(T) # T /\ Rest(T) \subseteq T
    BY <1>2, <1>3, RestSmaller
  <1>5. /\ SumFunctionOnSet(f, T) = f[Pick(T)] + SumFunctionOnSet(f, Rest(T))
        /\ SumFunctionOnSet(g, T) = g[Pick(T)] + SumFunctionOnSet(g, Rest(T))
    BY <1>2, <1>3, SumPick
  <1>6. SumFunctionOnSet(g, Rest(T)) = SumFunctionOnSet(f, Rest(T))
    BY <1>2, <1>4
  <1> QED
    BY <1>2, <1>4, <1>5, <1>6
Part(f, S, x) == IF x \in S THEN f[x] ELSE 0

\* What f has on I and what g has on J differ at place k only.
DiffersAt(f, I, g, J, k) ==
    /\ IsFiniteSet(I) /\ J \ {k} = I \ {k}
    /\ \A x \in I : f[x] \in Int
    /\ \A x \in J : g[x] \in Int
    /\ \A x \in I \ {k} : g[x] = f[x]

\* The sum changes by what one place changes.
LEMMA SumChange ==
    ASSUME NEW f, NEW I, NEW g, NEW J, NEW k, DiffersAt(f, I, g, J, k)
    PROVE  /\ SumFunctionOnSet(f, I) \in Int
           /\ SumFunctionOnSet(g, J) = SumFunctionOnSet(f, I) - Part(f, I, k) + Part(g, J, k)
  <1>1. PICK R : R = I \ {k} /\ R = J \ {k}
    BY DEF DiffersAt
  <1>2. /\ IsFiniteSet(I) /\ IsFiniteSet(R) /\ IsFiniteSet(J)
        /\ \A x \in I : f[x] \in Int
        /\ \A x \in J : g[x] \in Int
        /\ \A x \in R : f[x] \in Int /\ g[x] = f[x]
    <2>1. IsFiniteSet(I) /\ IsFiniteSet(R) /\ J \subseteq R \cup {k}
      BY <1>1, FS_Subset DEF DiffersAt
    <2>2. IsFiniteSet(R \cup {k})
      BY <2>1, FS_AddElement
    <2>3. IsFiniteSet(J)
      BY <2>1, <2>2, FS_Subset
    <2> QED
      BY <1>1, <2>1, <2>3 DEF DiffersAt
  <1>3. /\ SumFunctionOnSet(f, R) \in Int /\ SumFunctionOnSet(f, I) \in Int
        /\ SumFunctionOnSet(g, R) = SumFunctionOnSet(f, R)
    BY <1>2, SumType, SumSame
  <1>4. SumFunctionOnSet(f, I) = SumFunctionOnSet(f, R) + Part(f, I, k) /\ Part(f, I, k) \in Int
    <2>1. CASE k \in I
      <3>1. SumFunctionOnSet(f, I) = f[k] + SumFunctionOnSet(f, I \ {k})
        BY <1>2, <2>1, SumRemove
      <3>2. SumFunctionOnSet(f, I \ {k}) = SumFunctionOnSet(f, R)
        BY <1>1
      <3>3. Part(f, I, k) = f[k] /\ f[k] \in Int
        BY <1>2, <2>1 DEF Part
      <3> QED
        BY <1>3, <3>1, <3>2, <3>3
    <2>2. CASE k \notin I
      <3>1. R = I
        BY <1>1, <2>2
      <3> QED
        BY <1>3, <2>2, <3>1 DEF Part
    <2> QED
      BY <2>1, <2>2
  <1>5. SumFunctionOnSet(g, J) = SumFunctionOnSet(g, R) + Part(g, J, k) /\ Part(g, J, k) \in Int
    <2>1. CASE k \in J
      <3>1. SumFunctionOnSet(g, J) = g[k] + SumFunctionOnSet(g, J \ {k})
        BY <1>2, <2>1, SumRemove
      <3>2. SumFunctionOnSet(g, J \ {k}) = SumFunctionOnSet(g, R)
        BY <1>1
      <3>3. Part(g, J, k) = g[k] /\ g[k] \in Int
        BY <1>2, <2>1 DEF Part
      <3> QED
        BY <1>3, <3>1, <3>2, <3>3
    <2>2. CASE k \notin J
      <3>1. R = J
        BY <1>1, <2>2
      <3> QED
        BY <1>3, <2>2, <3>1 DEF Part
    <2> QED
      BY <2>1, <2>2
  <1> QED
    BY <1>3, <1>4, <1>5

LEMMA SumAtOne ==
    ASSUME NEW f, NEW S, NEW g, NEW k \in S, DiffersAt(f, S, g, S, k)
    PROVE  /\ SumFunctionOnSet(f, S) \in Int
           /\ SumFunctionOnSet(g, S) = SumFunctionOnSet(f, S) - f[k] + g[k]
  <1>1. SumFunctionOnSet(g, S) = SumFunctionOnSet(f, S) - Part(f, S, k) + Part(g, S, k)
    BY SumChange
  <1> QED
    BY <1>1, SumType DEF Part, DiffersAt

\* The sum of two functions is the sum of their sums.
LEMMA SumPlus ==
    ASSUME NEW S, IsFiniteSet(S), NEW f, NEW g, NEW h,
           \A x \in S : f[x] \in Int /\ g[x] \in Int /\ h[x] = f[x] + g[x]
    PROVE  SumFunctionOnSet(h, S) = SumFunctionOnSet(f, S) + SumFunctionOnSet(g, S)
  <1> DEFINE B == {T \in SUBSET S : SumFunctionOnSet(h, T) #
                                     SumFunctionOnSet(f, T) + SumFunctionOnSet(g, T)}
  <1> SUFFICES ASSUME B # {} PROVE FALSE
    OBVIOUS
  <1>1. PICK T \in B : \A U \in B : U \subseteq T => U = T
    <2>1. B \in SUBSET SUBSET S
      OBVIOUS
    <2> HIDE DEF B
    <2> QED
      BY <2>1, SmallestSet
  <1>2. /\ T \in SUBSET S
        /\ SumFunctionOnSet(h, T) # SumFunctionOnSet(f, T) + SumFunctionOnSet(g, T)
        /\ \A U \in SUBSET S : U \subseteq T /\ U # T =>
             SumFunctionOnSet(h, U) = SumFunctionOnSet(f, U) + SumFunctionOnSet(g, U)
    BY <1>1
  <1> HIDE DEF B
  <1>3. T # {}
    BY <1>2, SumEmpty
  <1>4. Rest(T) \in SUBSET S /\ Pick(T) \in S /\ Rest(T) # T /\ Rest(T) \subseteq T
    BY <1>2, <1>3, RestSmaller
  <1>5. /\ SumFunctionOnSet(f, T) = f[Pick(T)] + SumFunctionOnSet(f, Rest(T))
        /\ SumFunctionOnSet(g, T) = g[Pick(T)] + SumFunctionOnSet(g, Rest(T))
        /\ SumFunctionOnSet(h, T) = h[Pick(T)] + SumFunctionOnSet(h, Rest(T))
    BY <1>2, <1>3, SumPick
  <1>6. SumFunctionOnSet(h, Rest(T)) = SumFunctionOnSet(f, Rest(T)) + SumFunctionOnSet(g, Rest(T))
    BY <1>2, <1>4
  <1>7. SumFunctionOnSet(f, Rest(T)) \in Int /\ SumFunctionOnSet(g, Rest(T)) \in Int
    <2>1. IsFiniteSet(Rest(T)) /\ Rest(T) \subseteq S
      BY <1>4, FS_Subset
    <2> QED
      BY <2>1, SumType
  <1>8. h[Pick(T)] = f[Pick(T)] + g[Pick(T)] /\ f[Pick(T)] \in Int /\ g[Pick(T)] \in Int
    BY <1>4
  <1> QED
    BY <1>2, <1>5, <1>6, <1>7, <1>8

\* A sum of zeros, and of what is not negative.
LEMMA SumSigns ==
    ASSUME NEW S, IsFiniteSet(S), NEW f
    PROVE  /\ (\A x \in S : f[x] = 0) => SumFunctionOnSet(f, S) = 0
           /\ (\A x \in S : f[x] \in Nat) => SumFunctionOnSet(f, S) \in Nat
  <1>1. ASSUME NEW Q \in {{0}, Nat}, \A x \in S : f[x] \in Q PROVE SumFunctionOnSet(f, S) \in Q
    <2>0. \A x \in S : f[x] \in Int
      BY <1>1
    <2> DEFINE B == {T \in SUBSET S : SumFunctionOnSet(f, T) \notin Q}
    <2> SUFFICES ASSUME B # {} PROVE FALSE
      OBVIOUS
    <2>1. PICK T \in B : \A U \in B : U \subseteq T => U = T
      <3>1. B \in SUBSET SUBSET S
        OBVIOUS
      <3> HIDE DEF B
      <3> QED
        BY <3>1, SmallestSet
    <2>2. /\ T \in SUBSET S /\ SumFunctionOnSet(f, T) \notin Q
          /\ \A U \in SUBSET S : U \subseteq T /\ U # T => SumFunctionOnSet(f, U) \in Q
      BY <2>1
    <2> HIDE DEF B
    <2>3. T # {}
      BY <2>2, SumEmpty
    <2>4. Rest(T) \in SUBSET S /\ Pick(T) \in S /\ Rest(T) # T /\ Rest(T) \subseteq T
      BY <2>2, <2>3, RestSmaller
    <2>5. SumFunctionOnSet(f, T) = f[Pick(T)] + SumFunctionOnSet(f, Rest(T))
      BY <2>0, <2>2, <2>3, SumPick
    <2>6. SumFunctionOnSet(f, Rest(T)) \in Q /\ f[Pick(T)] \in Q
      BY <1>1, <2>2, <2>4
    <2> QED
      BY <2>2, <2>5, <2>6
  <1>2. (\A x \in S : f[x] = 0) => \A x \in S : f[x] \in {0}
    OBVIOUS
  <1> QED
    BY <1>1, <1>2

\* The sum over two sets apart is the sum of the sums.
LEMMA SumApart ==
    ASSUME NEW S, NEW U, IsFiniteSet(S), IsFiniteSet(U), S \cap U = {}, NEW f,
           \A x \in S \cup U : f[x] \in Int
    PROVE  SumFunctionOnSet(f, S \cup U) = SumFunctionOnSet(f, S) + SumFunctionOnSet(f, U)
  <1> DEFINE B == {T \in SUBSET S : SumFunctionOnSet(f, T \cup U) #
                                     SumFunctionOnSet(f, T) + SumFunctionOnSet(f, U)}
  <1> SUFFICES ASSUME B # {} PROVE FALSE
    OBVIOUS
  <1>1. PICK T \in B : \A V \in B : V \subseteq T => V = T
    <2>1. B \in SUBSET SUBSET S
      OBVIOUS
    <2> HIDE DEF B
    <2> QED
      BY <2>1, SmallestSet
  <1>2. /\ T \in SUBSET S
        /\ SumFunctionOnSet(f, T \cup U) # SumFunctionOnSet(f, T) + SumFunctionOnSet(f, U)
        /\ \A V \in SUBSET S : V \subseteq T /\ V # T =>
             SumFunctionOnSet(f, V \cup U) = SumFunctionOnSet(f, V) + SumFunctionOnSet(f, U)
    BY <1>1
  <1> HIDE DEF B
  <1>3. SumFunctionOnSet(f, U) \in Int
    BY SumType
  <1>4. T # {}
    <2> SUFFICES ASSUME T = {} PROVE FALSE
      OBVIOUS
    <2>1. T \cup U = U
      OBVIOUS
    <2> QED
      BY <1>2, <1>3, <2>1, SumEmpty
  <1>5. PICK x \in T : TRUE
    BY <1>4
  <1> DEFINE V == T \ {x}
  <1>6. /\ V \in SUBSET S /\ V \subseteq T /\ V # T /\ (T \cup U) \ {x} = V \cup U
        /\ x \in T \cup U
    BY <1>2, <1>5
  <1>7. IsFiniteSet(T) /\ IsFiniteSet(V) /\ IsFiniteSet(T \cup U)
    BY <1>2, <1>6, FS_Subset, FS_Union
  <1>8. /\ SumFunctionOnSet(f, T) = f[x] + SumFunctionOnSet(f, V)
        /\ SumFunctionOnSet(f, V) \in Int /\ f[x] \in Int
    BY <1>2, <1>5, <1>6, <1>7, SumRemove, SumType
  <1> HIDE DEF V
  <1>9. SumFunctionOnSet(f, T \cup U) = f[x] + SumFunctionOnSet(f, V \cup U)
    <2>1. \A y \in T \cup U : f[y] \in Int
      BY <1>2
    <2> QED
      BY <1>6, <1>7, <2>1, SumRemove
  <1>10. SumFunctionOnSet(f, V \cup U) = SumFunctionOnSet(f, V) + SumFunctionOnSet(f, U)
    BY <1>2, <1>6
  <1> QED
    BY <1>2, <1>3, <1>8, <1>9, <1>10
\* The sum over a part of a set is the sum over the set of what is zero elsewhere.
LEMMA SumMasked ==
    ASSUME NEW S, IsFiniteSet(S), NEW T \in SUBSET S, NEW f, NEW g,
           \A x \in T : f[x] \in Int /\ g[x] = f[x], \A x \in S \ T : g[x] = 0
    PROVE  SumFunctionOnSet(g, S) = SumFunctionOnSet(f, T)
  <1>1. /\ IsFiniteSet(T) /\ IsFiniteSet(S \ T) /\ T \cap (S \ T) = {} /\ T \cup (S \ T) = S
        /\ \A x \in T \cup (S \ T) : g[x] \in Int
    BY FS_Subset
  <1>2. SumFunctionOnSet(g, S) = SumFunctionOnSet(g, T) + SumFunctionOnSet(g, S \ T)
    BY <1>1, SumApart
  <1>3. SumFunctionOnSet(g, S \ T) = 0
    BY <1>1, SumSigns
  <1>4. SumFunctionOnSet(g, T) = SumFunctionOnSet(f, T) /\ SumFunctionOnSet(f, T) \in Int
    BY <1>1, SumSame, SumType
  <1> QED
    BY <1>2, <1>3, <1>4

\* Over part of a set, nonnegative values add up to no more.
LEMMA SumPart ==
    ASSUME NEW S, IsFiniteSet(S), NEW T \in SUBSET S, NEW f, \A x \in S : f[x] \in Nat
    PROVE  /\ SumFunctionOnSet(f, S) \in Nat /\ SumFunctionOnSet(f, T) \in Nat
           /\ SumFunctionOnSet(f, T) <= SumFunctionOnSet(f, S)
  <1>1. PICK U : U = S \ T
    OBVIOUS
  <1>2. /\ IsFiniteSet(T) /\ IsFiniteSet(U) /\ T \cap U = {} /\ T \cup U = S
        /\ \A x \in T : f[x] \in Nat
        /\ \A x \in U : f[x] \in Nat
    BY <1>1, FS_Subset
  <1>3. \A x \in T \cup U : f[x] \in Int
    BY <1>2
  <1>4. SumFunctionOnSet(f, S) = SumFunctionOnSet(f, T) + SumFunctionOnSet(f, U)
    BY <1>2, <1>3, SumApart
  <1>5. SumFunctionOnSet(f, T) \in Nat /\ SumFunctionOnSet(f, U) \in Nat
    BY <1>2, SumSigns
  <1> QED
    BY <1>4, <1>5

LEMMA SumOne ==
    ASSUME NEW f, NEW x, f[x] \in Int
    PROVE  SumFunctionOnSet(f, {x}) = f[x]
  <1>1. IsFiniteSet({x}) /\ x \in {x} /\ \A y \in {x} : f[y] \in Int
    BY FS_Singleton
  <1>2. SumFunctionOnSet(f, {x}) = f[x] + SumFunctionOnSet(f, {x} \ {x})
    BY <1>1, SumRemove
  <1>3. {x} \ {x} = {}
    OBVIOUS
  <1> QED
    BY <1>2, <1>3, SumEmpty
=============================================================================
