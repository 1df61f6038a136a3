---------------------------- MODULE LedgerTheorems --------------------------
(***************************************************************************)
(* Facts about sums and decimals, for the proofs about balances, and about *)
(* the numbers of a channel's packets.                                     *)
(*                                                                         *)
(* SumFunctionOnSet is a fold of the community modules, defined by a       *)
(* function that is recursive on the subsets of a set.  That such a        *)
(* function exists, that it does not matter in which order it takes the    *)
(* elements, and what sums have in common are all proved by the same       *)
(* induction: of the subsets for which the statement fails, take one that  *)
(* is minimal, and take one element out of it.                             *)
(***************************************************************************)
EXTENDS Dec, FiniteSets, Functions, FiniteSetTheorems, TLAPS

\* The element the fold takes next, and the function it is defined by.
Pick(s) == CHOOSE x \in s : TRUE

IsSumFcn(g, f, S) ==
    g = [s \in SUBSET S |-> IF s = {} THEN 0 ELSE f[Pick(s)] + g[s \ {Pick(s)}]]

\* The sum of the community modules, a fold, is defined by a recursive function.
LEMMA SumDef ==
    ASSUME NEW f, NEW S
    PROVE  SumFunctionOnSet(f, S) = (CHOOSE g : IsSumFcn(g, f, S))[S]
  BY Zenon DEF SumFunctionOnSet, FoldFunctionOnSet, MapThenFoldSet, IsSumFcn, Pick

\* Induction over a finite set: a family of subsets has a minimal member.
LEMMA MinimalSubset ==
    ASSUME NEW S, IsFiniteSet(S), NEW B \in SUBSET SUBSET S, B # {}
    PROVE  \E T \in B : \A U \in B : U \subseteq T => U = T
  <1>1. IsWellFoundedOn(StrictSubsetOrdering(S), SUBSET S)
    BY FS_FiniteSubsetsOfFinite, FS_StrictSubsetOrderingWellFounded
  <1>2. PICK T \in B : \A U \in B : ~(<<U, T>> \in StrictSubsetOrdering(S))
    BY <1>1, WFMin, Zenon
  <1>3. \A U \in B : U \subseteq T => U = T
    BY <1>2 DEF StrictSubsetOrdering
  <1> QED
    BY <1>3

\* The recursive function on the subsets of S and that on the subsets of T agree.
LEMMA SumFcnUnique ==
    ASSUME NEW S, IsFiniteSet(S), NEW T \in SUBSET S, NEW f, NEW g, NEW h,
           IsSumFcn(g, f, S), IsSumFcn(h, f, T)
    PROVE  \A s \in SUBSET T : g[s] = h[s]
  <1> DEFINE B == {s \in SUBSET T : g[s] # h[s]}
  <1> SUFFICES ASSUME B # {} PROVE FALSE
    OBVIOUS
  <1>1. IsFiniteSet(T)
    BY FS_Subset
  <1>2. PICK s \in B : \A U \in B : U \subseteq s => U = s
    <2>1. B \in SUBSET SUBSET T
      OBVIOUS
    <2> HIDE DEF B
    <2> QED
      BY <1>1, <2>1, MinimalSubset
  <1>3. s # {}
    BY DEF IsSumFcn
  <1>4. Pick(s) \in s
    BY <1>3 DEF Pick
  <1>5. g[s \ {Pick(s)}] = h[s \ {Pick(s)}]
    BY <1>2, <1>4
  <1>6. g[s] = f[Pick(s)] + g[s \ {Pick(s)}]
    BY <1>3 DEF IsSumFcn
  <1>7. h[s] = f[Pick(s)] + h[s \ {Pick(s)}]
    BY <1>3 DEF IsSumFcn
  <1> QED
    BY <1>5, <1>6, <1>7

\* There is such a function.
LEMMA SumFcnExists ==
    ASSUME NEW S, IsFiniteSet(S), NEW f
    PROVE  \E g : IsSumFcn(g, f, S)
  <1> DEFINE B == {T \in SUBSET S : ~\E g : IsSumFcn(g, f, T)}
  <1> SUFFICES ASSUME B # {} PROVE FALSE
    OBVIOUS
  <1>1. PICK T \in B : \A U \in B : U \subseteq T => U = T
    <2>1. B \in SUBSET SUBSET S
      OBVIOUS
    <2> HIDE DEF B
    <2> QED
      BY <2>1, MinimalSubset
  <1>2. IsFiniteSet(T)
    BY FS_Subset
  <1> DEFINE F(U) == CHOOSE g : IsSumFcn(g, f, U)
  <1>3. ASSUME NEW U \in SUBSET T, U # T
        PROVE  IsSumFcn(F(U), f, U)
    <2>1. \E g : IsSumFcn(g, f, U)
      BY <1>1, <1>3
    <2> QED
      BY <2>1, Zenon
  <1> DEFINE val(s) == IF s = {} THEN 0 ELSE f[Pick(s)] + F(s \ {Pick(s)})[s \ {Pick(s)}]
             g == [s \in SUBSET T |-> val(s)]
  <1>4. ASSUME NEW s \in SUBSET T, s # T
        PROVE  F(s)[s] = g[s]
    <2>1. IsSumFcn(F(s), f, s)
      BY <1>3, <1>4
    <2>2. CASE s = {}
      BY <2>1, <2>2 DEF IsSumFcn
    <2>3. CASE s # {}
      <3>1. Pick(s) \in s
        BY <2>3 DEF Pick
      <3> DEFINE r == s \ {Pick(s)}
      <3>2. r \in SUBSET s /\ r \in SUBSET T /\ r # T /\ r # s
        BY <3>1
      <3>3. IsSumFcn(F(r), f, r)
        BY <1>3, <3>2
      <3>4. IsFiniteSet(s)
        BY <1>2, FS_Subset
      <3>5. F(s)[r] = F(r)[r]
        <4> HIDE DEF F, r
        <4> QED
          BY <3>2, <3>3, <3>4, <2>1, SumFcnUnique
      <3>6. F(s)[s] = f[Pick(s)] + F(s)[r]
        <4> HIDE DEF F
        <4> QED
          BY <2>1, <2>3 DEF IsSumFcn
      <3> QED
        BY <3>5, <3>6, <2>3
    <2> QED
      BY <2>2, <2>3
  <1>5. \A s \in SUBSET T : s # {} => g[s] = f[Pick(s)] + g[s \ {Pick(s)}]
    <2> SUFFICES ASSUME NEW s \in SUBSET T, s # {}
                 PROVE  g[s] = f[Pick(s)] + g[s \ {Pick(s)}]
      OBVIOUS
    <2>1. Pick(s) \in s
      BY DEF Pick
    <2> DEFINE r == s \ {Pick(s)}
    <2>2. r \in SUBSET T /\ r # T
      BY <2>1
    <2>3. g[r] = F(r)[r]
      BY <2>2, <1>4
    <2> QED
      BY <2>3
  <1>6. g[{}] = 0
    OBVIOUS
  <1> HIDE DEF val
  <1>7. g = [s \in SUBSET T |-> g[s]]
    OBVIOUS
  <1> HIDE DEF g
  <1>8. IsSumFcn(g, f, T)
    BY <1>5, <1>6, <1>7 DEF IsSumFcn
  <1> QED
    BY <1>8


\* So the sum over any subset of S is a value of one function.
LEMMA SumFcn ==
    ASSUME NEW S, IsFiniteSet(S), NEW f, NEW g, IsSumFcn(g, f, S), NEW T \in SUBSET S
    PROVE  SumFunctionOnSet(f, T) = g[T]
  <1> DEFINE h == CHOOSE k : IsSumFcn(k, f, T)
  <1>1. IsFiniteSet(T)
    BY FS_Subset
  <1>2. \E k : IsSumFcn(k, f, T)
    BY <1>1, SumFcnExists
  <1>3. IsSumFcn(h, f, T)
    BY <1>2, Zenon
  <1>4. SumFunctionOnSet(f, T) = h[T]
    BY SumDef
  <1> HIDE DEF h
  <1>5. \A s \in SUBSET T : g[s] = h[s]
    BY <1>3, SumFcnUnique
  <1> QED
    BY <1>4, <1>5

\* The empty sum.
LEMMA SumEmpty ==
    ASSUME NEW f
    PROVE  SumFunctionOnSet(f, {}) = 0
  <1>1. IsFiniteSet({})
    BY FS_EmptySet
  <1>2. PICK g : IsSumFcn(g, f, {})
    BY <1>1, SumFcnExists
  <1>3. g[{}] = 0
    BY <1>2 DEF IsSumFcn
  <1> QED
    BY <1>1, <1>2, <1>3, SumFcn

\* What the fold computes: one summand, and the sum of the others.
LEMMA SumPick ==
    ASSUME NEW S, IsFiniteSet(S), S # {}, NEW f
    PROVE  /\ Pick(S) \in S
           /\ SumFunctionOnSet(f, S) = f[Pick(S)] + SumFunctionOnSet(f, S \ {Pick(S)})
  <1>1. PICK g : IsSumFcn(g, f, S)
    BY SumFcnExists
  <1>2. Pick(S) \in S
    BY DEF Pick
  <1>3. SumFunctionOnSet(f, S) = g[S]
    BY <1>1, SumFcn
  <1>4. SumFunctionOnSet(f, S \ {Pick(S)}) = g[S \ {Pick(S)}]
    BY <1>1, SumFcn
  <1>5. g[S] = f[Pick(S)] + g[S \ {Pick(S)}]
    BY <1>1 DEF IsSumFcn
  <1> QED
    BY <1>2, <1>3, <1>4, <1>5

\* A sum of integers is an integer.
LEMMA SumInt ==
    ASSUME NEW S, IsFiniteSet(S), NEW f, \A x \in S : f[x] \in Int
    PROVE  SumFunctionOnSet(f, S) \in Int
  <1> DEFINE B == {T \in SUBSET S : SumFunctionOnSet(f, T) \notin Int}
  <1>1. B \in SUBSET SUBSET S
    OBVIOUS
  <1> SUFFICES ASSUME B # {} PROVE FALSE
    OBVIOUS
  <1>2. PICK T \in B : \A U \in B : U \subseteq T => U = T
    <2> HIDE DEF B
    <2> QED
      BY <1>1, MinimalSubset
  <1>3. IsFiniteSet(T)
    BY FS_Subset
  <1>4. T # {}
    BY SumEmpty
  <1>5. Pick(T) \in T /\ SumFunctionOnSet(f, T) = f[Pick(T)] + SumFunctionOnSet(f, T \ {Pick(T)})
    BY <1>3, <1>4, SumPick
  <1>6. T \ {Pick(T)} \notin B
    BY <1>2, <1>5
  <1> QED
    BY <1>5, <1>6

\* Any element of S may be taken out of the sum.
LEMMA SumRemove ==
    ASSUME NEW S, IsFiniteSet(S), NEW f, \A y \in S : f[y] \in Int, NEW x \in S
    PROVE  SumFunctionOnSet(f, S) = f[x] + SumFunctionOnSet(f, S \ {x})
  <1> DEFINE sum(T) == SumFunctionOnSet(f, T)
             B == {T \in SUBSET S : \E y \in T : sum(T) # f[y] + sum(T \ {y})}
  <1>1. B \in SUBSET SUBSET S
    OBVIOUS
  <1> SUFFICES ASSUME B # {} PROVE FALSE
    OBVIOUS
  <1>2. PICK T \in B : \A U \in B : U \subseteq T => U = T
    <2> HIDE DEF B
    <2> QED
      BY <1>1, MinimalSubset
  <1>3. IsFiniteSet(T) /\ T # {}
    BY FS_Subset
  <1>4. PICK y \in T : sum(T) # f[y] + sum(T \ {y})
    OBVIOUS
  <1> DEFINE p == Pick(T)
  <1>5. p \in T /\ sum(T) = f[p] + sum(T \ {p})
    BY <1>3, SumPick
  <1>6. p # y
    BY <1>4, <1>5
  <1>7. sum(T \ {p}) = f[y] + sum((T \ {p}) \ {y})
    <2>1. T \ {p} \notin B
      BY <1>2, <1>5
    <2> QED
      BY <2>1, <1>6
  <1>8. sum(T \ {y}) = f[p] + sum((T \ {y}) \ {p})
    <2>1. T \ {y} \notin B
      BY <1>2
    <2> QED
      BY <2>1, <1>5, <1>6
  <1>9. (T \ {p}) \ {y} = (T \ {y}) \ {p}
    OBVIOUS
  <1>10. sum((T \ {p}) \ {y}) \in Int /\ f[p] \in Int /\ f[y] \in Int
    <2>1. IsFiniteSet((T \ {p}) \ {y})
      BY <1>3, FS_Subset
    <2> QED
      BY <2>1, <1>5, SumInt
  <1> HIDE DEF sum, p
  <1> QED
    BY <1>4, <1>5, <1>7, <1>8, <1>9, <1>10

\* ... or put in.
LEMMA SumAdd ==
    ASSUME NEW S, IsFiniteSet(S), NEW f, \A y \in S : f[y] \in Int,
           NEW x, x \notin S, f[x] \in Int
    PROVE  SumFunctionOnSet(f, S \cup {x}) = f[x] + SumFunctionOnSet(f, S)
  <1>1. IsFiniteSet(S \cup {x})
    BY FS_AddElement
  <1>2. (S \cup {x}) \ {x} = S
    OBVIOUS
  <1>3. \A y \in S \cup {x} : f[y] \in Int
    OBVIOUS
  <1> DEFINE U == S \cup {x}
  <1>4. x \in U
    OBVIOUS
  <1> HIDE DEF U
  <1>5. SumFunctionOnSet(f, U) = f[x] + SumFunctionOnSet(f, U \ {x})
    BY <1>1, <1>3, <1>4, SumRemove DEF U
  <1> QED
    BY <1>2, <1>5 DEF U

\* Equal summands, equal sums.
LEMMA SumSame ==
    ASSUME NEW S, IsFiniteSet(S), NEW f, NEW g, \A x \in S : f[x] = g[x]
    PROVE  SumFunctionOnSet(f, S) = SumFunctionOnSet(g, S)
  <1> DEFINE B == {T \in SUBSET S : ~(SumFunctionOnSet(f, T) = SumFunctionOnSet(g, T))}
  <1>1. B \in SUBSET SUBSET S
    OBVIOUS
  <1> SUFFICES ASSUME B # {} PROVE FALSE
    OBVIOUS
  <1>2. PICK T \in B : \A U \in B : U \subseteq T => U = T
    <2> HIDE DEF B
    <2> QED
      BY <1>1, MinimalSubset
  <1>3. IsFiniteSet(T)
    BY FS_Subset
  <1>4. T # {}
    BY SumEmpty
  <1>5. /\ Pick(T) \in T
        /\ SumFunctionOnSet(f, T) = f[Pick(T)] + SumFunctionOnSet(f, T \ {Pick(T)})
        /\ SumFunctionOnSet(g, T) = g[Pick(T)] + SumFunctionOnSet(g, T \ {Pick(T)})
    BY <1>3, <1>4, SumPick
  <1>6. T \ {Pick(T)} \notin B
    BY <1>2, <1>5
  <1> QED
    BY <1>5, <1>6

\* A sum of natural numbers is one, ...
LEMMA SumNat ==
    ASSUME NEW S, IsFiniteSet(S), NEW f, \A x \in S : f[x] \in Nat
    PROVE  SumFunctionOnSet(f, S) \in Nat
  <1> DEFINE B == {T \in SUBSET S : ~(SumFunctionOnSet(f, T) \in Nat)}
  <1>1. B \in SUBSET SUBSET S
    OBVIOUS
  <1> SUFFICES ASSUME B # {} PROVE FALSE
    OBVIOUS
  <1>2. PICK T \in B : \A U \in B : U \subseteq T => U = T
    <2> HIDE DEF B
    <2> QED
      BY <1>1, MinimalSubset
  <1>3. IsFiniteSet(T)
    BY FS_Subset
  <1>4. T # {}
    BY SumEmpty
  <1>5. /\ Pick(T) \in T
        /\ SumFunctionOnSet(f, T) = f[Pick(T)] + SumFunctionOnSet(f, T \ {Pick(T)})
    BY <1>3, <1>4, SumPick
  <1>6. T \ {Pick(T)} \notin B
    BY <1>2, <1>5
  <1> QED
    BY <1>5, <1>6

\* ... a sum of zeros is zero, ...
LEMMA SumZero ==
    ASSUME NEW S, IsFiniteSet(S), NEW f, \A x \in S : f[x] = 0
    PROVE  SumFunctionOnSet(f, S) = 0
  <1> DEFINE B == {T \in SUBSET S : ~(SumFunctionOnSet(f, T) = 0)}
  <1>1. B \in SUBSET SUBSET S
    OBVIOUS
  <1> SUFFICES ASSUME B # {} PROVE FALSE
    OBVIOUS
  <1>2. PICK T \in B : \A U \in B : U \subseteq T => U = T
    <2> HIDE DEF B
    <2> QED
      BY <1>1, MinimalSubset
  <1>3. IsFiniteSet(T)
    BY FS_Subset
  <1>4. T # {}
    BY SumEmpty
  <1>5. /\ Pick(T) \in T
        /\ SumFunctionOnSet(f, T) = f[Pick(T)] + SumFunctionOnSet(f, T \ {Pick(T)})
    BY <1>3, <1>4, SumPick
  <1>6. T \ {Pick(T)} \notin B
    BY <1>2, <1>5
  <1> QED
    BY <1>5, <1>6

\* ... and sums are added summand by summand.
LEMMA SumPlus ==
    ASSUME NEW S, IsFiniteSet(S), NEW f, NEW g, NEW h,
           \A x \in S : f[x] \in Int /\ g[x] \in Int /\ h[x] = f[x] + g[x]
    PROVE  SumFunctionOnSet(h, S) = SumFunctionOnSet(f, S) + SumFunctionOnSet(g, S)
  <1> DEFINE B == {T \in SUBSET S : ~(SumFunctionOnSet(h, T) = SumFunctionOnSet(f, T) + SumFunctionOnSet(g, T))}
  <1>1. B \in SUBSET SUBSET S
    OBVIOUS
  <1> SUFFICES ASSUME B # {} PROVE FALSE
    OBVIOUS
  <1>2. PICK T \in B : \A U \in B : U \subseteq T => U = T
    <2> HIDE DEF B
    <2> QED
      BY <1>1, MinimalSubset
  <1>3. IsFiniteSet(T)
    BY FS_Subset
  <1>4. T # {}
    <2>1. /\ SumFunctionOnSet(f, {}) = 0
          /\ SumFunctionOnSet(g, {}) = 0
          /\ SumFunctionOnSet(h, {}) = 0
      BY SumEmpty
    <2>2. SumFunctionOnSet(h, {}) = SumFunctionOnSet(f, {}) + SumFunctionOnSet(g, {})
      BY <2>1
    <2> QED
      BY <2>2, Zenon
  <1> DEFINE r == T \ {Pick(T)}
  <1>5. /\ Pick(T) \in T
        /\ SumFunctionOnSet(f, T) = f[Pick(T)] + SumFunctionOnSet(f, r)
        /\ SumFunctionOnSet(g, T) = g[Pick(T)] + SumFunctionOnSet(g, r)
        /\ SumFunctionOnSet(h, T) = h[Pick(T)] + SumFunctionOnSet(h, r)
    BY <1>3, <1>4, SumPick
  <1>6. r \notin B
    BY <1>2, <1>5
  <1>7. SumFunctionOnSet(f, r) \in Int /\ SumFunctionOnSet(g, r) \in Int
    <2>1. IsFiniteSet(r)
      BY <1>3, FS_Subset
    <2> QED
      BY <2>1, SumInt
  <1> QED
    BY <1>5, <1>6, <1>7

\* The sum over two disjoint sets.
LEMMA SumUnion ==
    ASSUME NEW A, IsFiniteSet(A), NEW S, IsFiniteSet(S), A \cap S = {},
           NEW f, \A x \in A \cup S : f[x] \in Int
    PROVE  SumFunctionOnSet(f, A \cup S) = SumFunctionOnSet(f, A) + SumFunctionOnSet(f, S)
  <1> DEFINE B == {T \in SUBSET S : ~(SumFunctionOnSet(f, A \cup T) = SumFunctionOnSet(f, A) + SumFunctionOnSet(f, T))}
  <1>1. B \in SUBSET SUBSET S
    OBVIOUS
  <1> SUFFICES ASSUME B # {} PROVE FALSE
    OBVIOUS
  <1>2. PICK T \in B : \A U \in B : U \subseteq T => U = T
    <2> HIDE DEF B
    <2> QED
      BY <1>1, MinimalSubset
  <1>3. IsFiniteSet(T)
    BY FS_Subset
  <1>4. SumFunctionOnSet(f, A) \in Int
    BY SumInt
  <1>5. T # {}
    <2>1. A \cup {} = A
      OBVIOUS
    <2> QED
      BY <2>1, <1>4, SumEmpty
  <1> DEFINE r == T \ {Pick(T)}
  <1>6. /\ Pick(T) \in T
        /\ SumFunctionOnSet(f, T) = f[Pick(T)] + SumFunctionOnSet(f, r)
    BY <1>3, <1>5, SumPick
  <1>7. r \notin B
    BY <1>2, <1>6
  <1>8. IsFiniteSet(r) /\ SumFunctionOnSet(f, r) \in Int
    <2>1. IsFiniteSet(r)
      BY <1>3, FS_Subset
    <2> QED
      BY <2>1, SumInt
  <1>9. SumFunctionOnSet(f, A \cup T) = f[Pick(T)] + SumFunctionOnSet(f, A \cup r)
    <2>1. IsFiniteSet(A \cup r)
      BY <1>8, FS_Union
    <2>2. /\ Pick(T) \notin A \cup r /\ f[Pick(T)] \in Int
          /\ \A y \in A \cup r : f[y] \in Int
      BY <1>6
    <2>3. (A \cup r) \cup {Pick(T)} = A \cup T
      BY <1>6
    <2> HIDE DEF r
    <2> DEFINE U == A \cup r
    <2> HIDE DEF U
    <2>4. SumFunctionOnSet(f, U \cup {Pick(T)}) = f[Pick(T)] + SumFunctionOnSet(f, U)
      BY <2>1, <2>2, SumAdd DEF U
    <2> QED
      BY <2>3, <2>4 DEF U
  <1> QED
    BY <1>4, <1>6, <1>7, <1>8, <1>9

\* A part is at most the whole.
LEMMA SumSubset ==
    ASSUME NEW S, IsFiniteSet(S), NEW f, \A x \in S : f[x] \in Nat, NEW T \in SUBSET S
    PROVE  SumFunctionOnSet(f, T) <= SumFunctionOnSet(f, S)
  <1>1. IsFiniteSet(T) /\ IsFiniteSet(S \ T)
    BY FS_Subset
  <1>2. T \cup (S \ T) = S /\ T \cap (S \ T) = {}
    OBVIOUS
  <1>3. SumFunctionOnSet(f, T) \in Nat /\ SumFunctionOnSet(f, S \ T) \in Nat
    BY <1>1, SumNat
  <1> DEFINE R == S \ T
  <1> HIDE DEF R
  <1>4. \A x \in T \cup R : f[x] \in Int
    BY <1>2 DEF R
  <1>5. SumFunctionOnSet(f, T \cup R) = SumFunctionOnSet(f, T) + SumFunctionOnSet(f, R)
    BY <1>1, <1>2, <1>4, SumUnion DEF R
  <1>6. SumFunctionOnSet(f, S) = SumFunctionOnSet(f, T) + SumFunctionOnSet(f, R)
    BY <1>2, <1>5 DEF R
  <1>7. SumFunctionOnSet(f, T) \in Nat /\ SumFunctionOnSet(f, R) \in Nat
    BY <1>3 DEF R
  <1> QED
    BY <1>6, <1>7

\* Summing over the values of an injection.
LEMMA SumReindex ==
    ASSUME NEW S, IsFiniteSet(S), NEW h, NEW f, NEW g,
           \A x, y \in S : h[x] = h[y] => x = y,
           \A x \in S : f[x] = g[h[x]] /\ f[x] \in Int
    PROVE  SumFunctionOnSet(f, S) = SumFunctionOnSet(g, {h[x] : x \in S})
  <1> DEFINE im(T) == {h[x] : x \in T}
  <1> DEFINE B == {T \in SUBSET S : ~(IsFiniteSet(im(T)) /\ SumFunctionOnSet(f, T) = SumFunctionOnSet(g, im(T)))}
  <1>1. B \in SUBSET SUBSET S
    OBVIOUS
  <1> SUFFICES ASSUME B # {} PROVE FALSE
    OBVIOUS
  <1>2. PICK T \in B : \A U \in B : U \subseteq T => U = T
    <2> HIDE DEF B
    <2> QED
      BY <1>1, MinimalSubset
  <1>3. IsFiniteSet(T)
    BY FS_Subset
  <1>4. T # {}
    <2>1. im({}) = {}
      OBVIOUS
    <2> QED
      BY <2>1, SumEmpty, FS_EmptySet
  <1> DEFINE r == T \ {Pick(T)}
  <1>5. /\ Pick(T) \in T
        /\ SumFunctionOnSet(f, T) = f[Pick(T)] + SumFunctionOnSet(f, r)
    BY <1>3, <1>4, SumPick
  <1>6. r \notin B /\ r \in SUBSET S
    BY <1>2, <1>5
  <1>7. im(T) = im(r) \cup {h[Pick(T)]}
    BY <1>5
  <1>8. h[Pick(T)] \notin im(r)
    BY <1>5
  <1>9. \A y \in im(r) : g[y] \in Int
    OBVIOUS
  <1>10. g[h[Pick(T)]] \in Int /\ f[Pick(T)] = g[h[Pick(T)]]
    BY <1>5
  <1>11. IsFiniteSet(im(r)) /\ SumFunctionOnSet(f, r) = SumFunctionOnSet(g, im(r))
    BY <1>6
  <1>12. IsFiniteSet(im(T))
    <2> HIDE DEF im, r
    <2> QED
      BY <1>7, <1>11, FS_AddElement
  <1>13. SumFunctionOnSet(g, im(r) \cup {h[Pick(T)]}) = g[h[Pick(T)]] + SumFunctionOnSet(g, im(r))
    <2> HIDE DEF im, r
    <2> QED
      BY <1>8, <1>9, <1>10, <1>11, SumAdd
  <1>14. SumFunctionOnSet(f, T) = SumFunctionOnSet(g, im(T))
    <2> HIDE DEF im, r
    <2> QED
      BY <1>5, <1>7, <1>10, <1>11, <1>13
  <1> QED
    BY <1>12, <1>14

\* Summands that are zero may be left out.
LEMMA SumRestrict ==
    ASSUME NEW S, IsFiniteSet(S), NEW T \in SUBSET S, NEW f, NEW g,
           \A x \in T : f[x] = g[x] /\ g[x] \in Int,
           \A x \in S \ T : g[x] = 0
    PROVE  SumFunctionOnSet(f, T) = SumFunctionOnSet(g, S)
  <1> DEFINE R == S \ T
  <1>1. IsFiniteSet(T) /\ IsFiniteSet(R)
    BY FS_Subset
  <1>2. T \cup R = S /\ T \cap R = {} /\ \A x \in T \cup R : g[x] \in Int
    OBVIOUS
  <1>3. \A x \in R : g[x] = 0
    OBVIOUS
  <1> HIDE DEF R
  <1>4. SumFunctionOnSet(g, T \cup R) = SumFunctionOnSet(g, T) + SumFunctionOnSet(g, R)
    BY <1>1, <1>2, SumUnion
  <1>5. SumFunctionOnSet(g, R) = 0
    BY <1>1, <1>3, SumZero
  <1>6. SumFunctionOnSet(f, T) = SumFunctionOnSet(g, T)
    BY <1>1, SumSame
  <1>7. SumFunctionOnSet(g, T) \in Int
    BY <1>1, SumInt
  <1>8. SumFunctionOnSet(g, S) = SumFunctionOnSet(g, T) + SumFunctionOnSet(g, R)
    BY <1>2, <1>4, Zenon
  <1> QED
    BY <1>5, <1>6, <1>7, <1>8

\* When one summand changes, the sum changes by as much.
LEMMA SumChange ==
    ASSUME NEW S, IsFiniteSet(S), NEW f, NEW g, NEW x \in S,
           \A y \in S : f[y] \in Int /\ g[y] \in Int,
           \A y \in S \ {x} : g[y] = f[y]
    PROVE  SumFunctionOnSet(g, S) = SumFunctionOnSet(f, S) + g[x] - f[x]
  <1> DEFINE R == S \ {x}
  <1>1. IsFiniteSet(R)
    BY FS_Subset
  <1>2. SumFunctionOnSet(f, S) = f[x] + SumFunctionOnSet(f, R)
    BY SumRemove
  <1>3. SumFunctionOnSet(g, S) = g[x] + SumFunctionOnSet(g, R)
    BY SumRemove
  <1>4. SumFunctionOnSet(g, R) = SumFunctionOnSet(f, R)
    BY <1>1, SumSame
  <1>5. SumFunctionOnSet(f, R) \in Int
    BY <1>1, SumInt
  <1> QED
    BY <1>2, <1>3, <1>4, <1>5

\* Summands that are no greater have a sum that is no greater.
LEMMA SumLeq ==
    ASSUME NEW S, IsFiniteSet(S), NEW f, NEW g,
           \A x \in S : f[x] \in Int /\ g[x] \in Int /\ g[x] <= f[x]
    PROVE  SumFunctionOnSet(g, S) <= SumFunctionOnSet(f, S)
  <1> DEFINE d == [x \in S |-> f[x] - g[x]]
  <1>1. \A x \in S : g[x] \in Int /\ d[x] \in Int /\ f[x] = g[x] + d[x] /\ d[x] \in Nat
    OBVIOUS
  <1> HIDE DEF d
  <1>2. SumFunctionOnSet(f, S) = SumFunctionOnSet(g, S) + SumFunctionOnSet(d, S)
    BY <1>1, SumPlus
  <1>3. SumFunctionOnSet(d, S) \in Nat /\ SumFunctionOnSet(g, S) \in Int
    BY <1>1, SumNat, SumInt
  <1> QED
    BY <1>2, <1>3

\* What some summands lose is what a sum loses.
LEMMA SumMoved ==
    ASSUME NEW S, IsFiniteSet(S), NEW T \in SUBSET S, NEW f, NEW g, NEW k,
           \A x \in S : g[x] \in Int,
           \A x \in T : k[x] \in Int /\ f[x] = g[x] + k[x],
           \A x \in S \ T : f[x] = g[x]
    PROVE  SumFunctionOnSet(f, S) = SumFunctionOnSet(g, S) + SumFunctionOnSet(k, T)
  <1> DEFINE d == [x \in S |-> IF x \in T THEN k[x] ELSE 0]
  <1>1. \A x \in T : k[x] = d[x] /\ d[x] \in Int
    OBVIOUS
  <1>2. \A x \in S \ T : d[x] = 0
    OBVIOUS
  <1>3. \A x \in S : g[x] \in Int /\ d[x] \in Int /\ f[x] = g[x] + d[x]
    OBVIOUS
  <1> HIDE DEF d
  <1>4. SumFunctionOnSet(k, T) = SumFunctionOnSet(d, S)
    BY <1>1, <1>2, SumRestrict
  <1>5. SumFunctionOnSet(f, S) = SumFunctionOnSet(g, S) + SumFunctionOnSet(d, S)
    BY <1>3, SumPlus
  <1> QED
    BY <1>4, <1>5

\* Induction over numbers: a set of natural numbers has a least member.
LEMMA LeastNumber ==
    ASSUME NEW N \in SUBSET Nat, N # {}
    PROVE  \E n \in N : \A m \in N : n <= m
  <1>1. PICK n \in N : \A m \in N : ~(<<m, n>> \in OpToRel(<, Nat))
    BY NatLessThanWellFounded, WFMin, Zenon
  <1>2. \A m \in N : ~(m < n)
    BY <1>1 DEF OpToRel
  <1> QED
    BY <1>2

\* Of finitely many elements, one comes after all others in a linear order.
LEMMA LastOfFinite ==
    ASSUME NEW S, IsFiniteSet(S), S # {}, NEW R,
           \A x, y \in S : x # y => <<x, y>> \in R \/ <<y, x>> \in R,
           \A x, y, z \in S : <<x, y>> \in R /\ <<y, z>> \in R => <<x, z>> \in R
    PROVE  \E x \in S : \A y \in S \ {x} : <<y, x>> \in R
  <1> DEFINE B == {T \in SUBSET S : T # {} /\ ~\E x \in T : \A y \in T \ {x} : <<y, x>> \in R}
  <1> SUFFICES ASSUME B # {} PROVE FALSE
    BY DEF B
  <1>1. B \in SUBSET SUBSET S
    OBVIOUS
  <1> HIDE DEF B
  <1>2. PICK T \in B : \A U \in B : U \subseteq T => U = T
    BY <1>1, MinimalSubset
  <1> USE DEF B
  <1>3. PICK t \in T : TRUE
    BY <1>2
  <1> DEFINE U == T \ {t}
  <1>4. CASE U = {}
    BY <1>2, <1>3, <1>4
  <1>5. CASE U # {}
    <2>1. U \in SUBSET S /\ U \subseteq T /\ U # T
      BY <1>2, <1>3
    <2>0. U \notin B
      BY <1>2, <2>1 DEF B
    <2>2. PICK x \in U : \A y \in U \ {x} : <<y, x>> \in R
      BY <1>5, <2>0, <2>1
    <2>3. CASE <<t, x>> \in R
      BY <1>2, <2>2, <2>3
    <2>4. CASE <<x, t>> \in R
      BY <1>2, <1>3, <2>2, <2>4
    <2> QED
      BY <1>2, <1>3, <2>2, <2>3, <2>4
  <1> QED
    BY <1>4, <1>5

\* And finitely many elements can be listed in a linear order.
LEMMA SortedList ==
    ASSUME NEW S, IsFiniteSet(S), NEW R,
           \A x \in S : <<x, x>> \notin R,
           \A x, y \in S : x # y => <<x, y>> \in R \/ <<y, x>> \in R,
           \A x, y, z \in S : <<x, y>> \in R /\ <<y, z>> \in R => <<x, z>> \in R
    PROVE  \E s \in [1..Cardinality(S) -> S] :
             \A i, j \in 1..Cardinality(S) : i < j => <<s[i], s[j]>> \in R
  <1> DEFINE Sorted(T, s) == /\ s \in [1..Cardinality(T) -> T]
                             /\ \A i, j \in 1..Cardinality(T) : i < j => <<s[i], s[j]>> \in R
             B == {T \in SUBSET S : ~\E s : Sorted(T, s)}
  <1> SUFFICES ASSUME B # {} PROVE FALSE
    BY DEF B
  <1>1. B \in SUBSET SUBSET S
    OBVIOUS
  <1> HIDE DEF B
  <1>2. PICK T \in B : \A U \in B : U \subseteq T => U = T
    BY <1>1, MinimalSubset
  <1>3. T \in SUBSET S /\ ~\E s : Sorted(T, s)
    BY <1>2 DEF B
  <1>4. IsFiniteSet(T)
    BY <1>3, FS_Subset
  <1>5. CASE T = {}
    <2>1. Cardinality(T) = 0
      BY <1>5, FS_EmptySet
    <2>2. Sorted(T, [i \in 1..Cardinality(T) |-> i])
      BY <2>1
    <2> QED
      BY <1>3, <2>2
  <1>6. CASE T # {}
    <2>1. PICK x \in T : \A y \in T \ {x} : <<y, x>> \in R
      <3>1. \A y, z \in T : y # z => <<y, z>> \in R \/ <<z, y>> \in R
        BY <1>3
      <3>2. \A w, y, z \in T : <<w, y>> \in R /\ <<y, z>> \in R => <<w, z>> \in R
        BY <1>3
      <3> HIDE DEF Sorted
      <3> QED
        BY ONLY IsFiniteSet(T), T # {}, <1>4, <1>6, <3>1, <3>2, LastOfFinite
    <2> DEFINE U == T \ {x}
    <2>2. U \in SUBSET S /\ U \subseteq T /\ U # T
      BY <1>3, <2>1
    <2>3. U \notin B
      BY <1>2, <2>2
    <2>4. PICK s : Sorted(U, s)
      BY <2>2, <2>3 DEF B
    <2> DEFINE n == Cardinality(T)
    <2>5. n \in Nat /\ IsFiniteSet(U) /\ Cardinality(U) = n - 1 /\ n # 0
      BY <1>4, <1>6, <2>1, FS_RemoveElement, FS_CardinalityType, FS_EmptySet
    <2> HIDE DEF n, U
    <2> DEFINE t == [i \in 1..n |-> IF i = n THEN x ELSE s[i]]
    <2>6. \A i \in 1..n : i # n => i \in 1..n - 1
      BY <2>5
    <2>7. \A i \in 1..n - 1 : s[i] \in U
      BY <2>4, <2>5
    <2>8. t \in [1..n -> T]
      BY <2>1, <2>6, <2>7 DEF U
    <2>9. ASSUME NEW i \in 1..n, NEW j \in 1..n, i < j PROVE <<t[i], t[j]>> \in R
      <3>1. i \in 1..n - 1 /\ i # n
        BY <2>5, <2>9
      <3>2. t[i] = s[i] /\ s[i] \in T \ {x}
        BY <2>7, <3>1 DEF U
      <3>3. CASE j = n
        BY <2>1, <3>2, <3>3
      <3>4. CASE j # n
        BY <2>4, <2>5, <2>6, <2>9, <3>1, <3>2, <3>4
      <3> QED
        BY <3>3, <3>4
    <2>10. Sorted(T, t)
      BY <2>8, <2>9 DEF n
    <2> QED
      BY <1>3, <2>10
  <1> QED
    BY <1>5, <1>6

\* A sum with one summand that is not zero.
LEMMA SumOne ==
    ASSUME NEW S, IsFiniteSet(S), NEW f, NEW x \in S, f[x] \in Int,
           \A y \in S \ {x} : f[y] = 0
    PROVE  SumFunctionOnSet(f, S) = f[x]
  <1> DEFINE R == S \ {x}
  <1>1. IsFiniteSet(R)
    BY FS_Subset
  <1>2. SumFunctionOnSet(f, R) = 0
    BY <1>1, SumZero
  <1>3. \A y \in S : f[y] \in Int
    OBVIOUS
  <1>4. SumFunctionOnSet(f, S) = f[x] + SumFunctionOnSet(f, R)
    BY <1>3, SumRemove
  <1> QED
    BY <1>2, <1>4

\* A common factor.
LEMMA SumTimes ==
    ASSUME NEW S, IsFiniteSet(S), NEW c \in Int, NEW f, NEW g,
           \A x \in S : f[x] \in Int /\ g[x] = c * f[x]
    PROVE  SumFunctionOnSet(g, S) = c * SumFunctionOnSet(f, S)
  <1> DEFINE B == {T \in SUBSET S : ~(SumFunctionOnSet(g, T) = c * SumFunctionOnSet(f, T))}
  <1>1. B \in SUBSET SUBSET S
    OBVIOUS
  <1> SUFFICES ASSUME B # {} PROVE FALSE
    OBVIOUS
  <1>2. PICK T \in B : \A U \in B : U \subseteq T => U = T
    <2> HIDE DEF B
    <2> QED
      BY <1>1, MinimalSubset
  <1>3. IsFiniteSet(T) /\ T \in SUBSET S
    BY <1>2, FS_Subset
  <1>4. T # {}
    <2>1. SumFunctionOnSet(g, {}) = 0 /\ SumFunctionOnSet(f, {}) = 0 /\ c * 0 = 0
      BY SumEmpty
    <2> QED
      BY <1>2, <2>1
  <1>5. PICK x \in T : TRUE
    BY <1>4
  <1> DEFINE U == T \ {x}
  <1>6. U \in SUBSET S /\ U \subseteq T /\ U # T /\ IsFiniteSet(U)
    BY <1>3, <1>5, FS_Subset
  <1>7. SumFunctionOnSet(g, U) = c * SumFunctionOnSet(f, U)
    BY <1>2, <1>6
  <1>8. \A y \in T : f[y] \in Int /\ g[y] \in Int
    BY <1>3
  <1>9. /\ SumFunctionOnSet(f, T) = f[x] + SumFunctionOnSet(f, U)
        /\ SumFunctionOnSet(g, T) = g[x] + SumFunctionOnSet(g, U)
    BY <1>3, <1>8, SumRemove
  <1>10. SumFunctionOnSet(f, U) \in Int
    <2>1. \A y \in U : f[y] \in Int
      BY <1>8
    <2> QED
      BY <1>6, <2>1, SumInt
  <1>11. g[x] = c * f[x] /\ f[x] \in Int
    BY <1>3, <1>5
  <1> DEFINE a == SumFunctionOnSet(f, U)
  <1>12. c * (f[x] + a) = c * f[x] + c * a
    <2> HIDE DEF a
    <2> QED
      BY <1>10, <1>11 DEF a
  <1>13. SumFunctionOnSet(g, T) = c * SumFunctionOnSet(f, T)
    BY <1>7, <1>9, <1>11, <1>12
  <1> QED
    BY <1>2, <1>13

-----------------------------------------------------------------------------
(* Decimals *)

\* Rounding a decimal does not make it negative, ...
LEMMA ChopNat ==
    ASSUME NEW d \in Nat
    PROVE  chopPrecisionAndRound(d) \in Nat
  <1>1. d \div Precision \in Nat /\ d \div Precision + 1 \in Nat
    BY PrecisionAssumption
  <1> QED
    BY <1>1, Zenon DEF chopPrecisionAndRound

\* ... nor does a product ...
LEMMA MulNat ==
    ASSUME NEW d \in Nat, NEW e \in Nat
    PROVE  Mul(d, e) \in Nat
  <1>1. d * e \in Nat
    OBVIOUS
  <1> QED
    BY <1>1, ChopNat DEF Mul

\* ... or a quotient.
LEMMA QuoNat ==
    ASSUME NEW d \in Nat, NEW e \in Nat \ {0}
    PROVE  Quo(d, e) \in Nat
  <1>1. d * Precision * Precision \in Nat
    BY PrecisionAssumption
  <1>2. ASSUME NEW n \in Nat PROVE n \div e \in Nat
    OBVIOUS
  <1>3. (d * Precision * Precision) \div e \in Nat
    BY <1>1, <1>2
  <1> QED
    BY <1>3, ChopNat DEF Quo

\* The whole part of a decimal is a natural number.
LEMMA TruncateNat ==
    ASSUME NEW d \in Nat
    PROVE  TruncateInt(d) \in Nat
    BY PrecisionAssumption DEF TruncateInt

\* An integer as a decimal is zero only if it is.
LEMMA NewDecNat ==
    ASSUME NEW n \in Nat
    PROVE  NewDecFromInt(n) \in Nat /\ (n # 0 => NewDecFromInt(n) # 0)
    BY PrecisionAssumption DEF NewDecFromInt

-----------------------------------------------------------------------------
(* Quotients *)

\* A positive factor cancels.
LEMMA TimesLeq ==
    ASSUME NEW w \in Nat \ {0}, NEW s \in Int, NEW t \in Int, w * s <= w * t
    PROVE  s <= t
  <1> SUFFICES ASSUME s >= t + 1 PROVE FALSE
    OBVIOUS
  <1>1. w * (s - t) >= w
    <2> DEFINE d == s - t
    <2>1. d \in Int /\ d >= 1
      OBVIOUS
    <2> HIDE DEF d
    <2>2. w * d >= w
      BY <2>1
    <2> QED
      BY <2>2 DEF d
  <1>2. w * (s - t) = w * s - w * t
    OBVIOUS
  <1>3. w * s \in Int /\ w * t \in Int
    OBVIOUS
  <1> QED
    BY <1>1, <1>2, <1>3

\* A quotient is rounded down.
LEMMA FloorLeq ==
    ASSUME NEW x \in Nat, NEW w \in Nat \ {0}
    PROVE  x \div w \in Nat /\ w * (x \div w) <= x
  OBVIOUS

\* A multiple is divided without a remainder.
LEMMA ExactDivision ==
    ASSUME NEW x \in Int, NEW p \in Nat \ {0}
    PROVE  (x * p) \div p = x /\ (x * p) % p = 0
  <1>1. x * p \in Int
    OBVIOUS
  <1>2. (x * p) \div p = x
    OBVIOUS
  <1>3. (x * p) % p = 0
    BY <1>1, <1>2
  <1> QED
    BY <1>2, <1>3

\* The quotient is the only number that is close enough from below.
LEMMA QuotientIs ==
    ASSUME NEW x \in Nat, NEW w \in Nat \ {0}, NEW q \in Int, q * w <= x, x < q * w + w
    PROVE  x \div w = q
  <1> DEFINE p == x \div w
  <1>1. p \in Int /\ w * p <= x /\ x < w * p + w
    OBVIOUS
  <1> HIDE DEF p
  <1>2. w * q = q * w /\ w * (p + 1) = w * p + w /\ w * (q + 1) = w * q + w
    BY <1>1
  <1>3. w * p \in Int /\ w * q \in Int /\ q * w \in Int
    BY <1>1
  <1>4. ~(p + 1 <= q)
    <2> SUFFICES ASSUME p + 1 <= q PROVE FALSE
      OBVIOUS
    <2>1. w * (p + 1) <= w * q
      BY <1>1
    <2> QED
      BY <1>1, <1>2, <1>3, <2>1
  <1>5. ~(q + 1 <= p)
    <2> SUFFICES ASSUME q + 1 <= p PROVE FALSE
      OBVIOUS
    <2>1. w * (q + 1) <= w * p
      BY <1>1
    <2> QED
      BY <1>1, <1>2, <1>3, <2>1
  <1>6. p = q
    BY <1>1, <1>4, <1>5
  <1> QED
    BY <1>6 DEF p

\* A smaller fraction has no greater quotient.
LEMMA QuotientLeq ==
    ASSUME NEW a \in Nat, NEW b \in Nat \ {0}, NEW c \in Nat, NEW d \in Nat \ {0}, a * d <= c * b
    PROVE  a \div b <= c \div d
  <1> DEFINE p == a \div b
             q == c \div d
  <1>1. p \in Nat /\ b * p <= a /\ q \in Nat /\ d * q <= c /\ c < d * q + d
    OBVIOUS
  <1> HIDE DEF p, q
  <1>2. SUFFICES ASSUME q + 1 <= p PROVE FALSE
    BY <1>1 DEF p, q
  <1>3. (b * p) * d <= a * d
    BY <1>1
  <1>4. b * (c + 1) <= b * (d * (q + 1))
    <2>1. d * (q + 1) = d * q + d
      BY <1>1
    <2>2. d * q \in Int
      BY <1>1
    <2>3. c + 1 <= d * (q + 1)
      BY <1>1, <2>1, <2>2
    <2> DEFINE y == d * (q + 1)
    <2>4. y \in Int
      BY <1>1
    <2> HIDE DEF y
    <2>5. b * (c + 1) <= b * y
      BY <2>3, <2>4 DEF y
    <2> QED
      BY <2>5 DEF y
  <1>5. (b * d) * (q + 1) <= (b * d) * p
    <2> DEFINE z == b * d
    <2>1. z \in Nat
      OBVIOUS
    <2> HIDE DEF z
    <2>2. z * (q + 1) <= z * p
      BY <1>1, <1>2, <2>1
    <2> QED
      BY <2>2 DEF z
  <1>6. /\ b * (d * (q + 1)) = (b * d) * (q + 1) /\ (b * p) * d = (b * d) * p
        /\ b * (c + 1) = c * b + b
    BY <1>1
  <1>7. /\ (b * d) * (q + 1) \in Int /\ (b * d) * p \in Int /\ c * b \in Int /\ a * d \in Int
    BY <1>1
  <1> QED
    BY <1>3, <1>4, <1>5, <1>6, <1>7

-----------------------------------------------------------------------------
(* Exact decimals *)

\* Rounding a decimal that needs none is exact, ...
LEMMA ChopExact ==
    ASSUME NEW x \in Int
    PROVE  chopPrecisionAndRound(x * Precision) = x
  <1> DEFINE d == x * Precision
             half == Precision \div 2
  <1>1. d \div Precision = x /\ d % Precision = 0
    BY ExactDivision, PrecisionAssumption
  <1>2. 0 < half
    BY PrecisionAssumption
  <1>3. chopPrecisionAndRound(d) =
          IF d % Precision < half \/ (d % Precision = half /\ (d \div Precision) % 2 = 0)
          THEN d \div Precision ELSE d \div Precision + 1
    BY DEF chopPrecisionAndRound
  <1> HIDE DEF d, half
  <1> QED
    BY <1>1, <1>2, <1>3 DEF d

\* ... and so is multiplying with one, ...
LEMMA MulExact ==
    ASSUME NEW n \in Int
    PROVE  Mul(NewDecFromInt(n), NewDecFromInt(1)) = NewDecFromInt(n)
  <1> DEFINE x == NewDecFromInt(n)
  <1>1. x \in Int /\ NewDecFromInt(1) = Precision
    BY PrecisionAssumption DEF NewDecFromInt
  <1>2. Mul(x, Precision) = chopPrecisionAndRound(x * Precision)
    BY DEF Mul
  <1> HIDE DEF x
  <1> QED
    BY <1>1, <1>2, ChopExact DEF x

\* ... dividing by one, ...
LEMMA QuoExact ==
    ASSUME NEW n \in Int
    PROVE  Quo(NewDecFromInt(n), NewDecFromInt(1)) = NewDecFromInt(n)
  <1> DEFINE x == NewDecFromInt(n)
             y == x * Precision
  <1>1. x \in Int /\ y \in Int /\ NewDecFromInt(1) = Precision
    BY PrecisionAssumption DEF NewDecFromInt
  <1>2. Quo(x, Precision) = chopPrecisionAndRound((y * Precision) \div Precision)
    BY DEF Quo
  <1> HIDE DEF y
  <1>3. (y * Precision) \div Precision = y
    BY <1>1, ExactDivision, PrecisionAssumption
  <1> HIDE DEF x
  <1>4. chopPrecisionAndRound(y) = x
    BY <1>1, ChopExact DEF y
  <1> QED
    BY <1>1, <1>2, <1>3, <1>4 DEF x

\* ... and cutting off a fraction that is none.
LEMMA TruncateExact ==
    ASSUME NEW n \in Int
    PROVE  TruncateInt(NewDecFromInt(n)) = n
    BY ExactDivision, PrecisionAssumption DEF TruncateInt, NewDecFromInt

\* Rounding keeps the order.
LEMMA ChopLeq ==
    ASSUME NEW x \in Nat, NEW y \in Nat, x <= y
    PROVE  chopPrecisionAndRound(x) <= chopPrecisionAndRound(y)
  <1> DEFINE P == Precision
             half == P \div 2
             up(d) == ~(d % P < half \/ (d % P = half /\ (d \div P) % 2 = 0))
  <1>1. P \in Nat \ {0} /\ half \in Nat
    BY PrecisionAssumption
  <1>2. \A d \in Nat : /\ d \div P \in Nat /\ d % P \in Nat /\ d = P * (d \div P) + (d % P)
    BY <1>1
  <1>3. \A d : chopPrecisionAndRound(d) = IF up(d) THEN d \div P + 1 ELSE d \div P
    BY DEF chopPrecisionAndRound
  <1>4. x \div P <= y \div P
    BY <1>1, QuotientLeq
  <1>5. CASE x \div P < y \div P
    BY <1>2, <1>3, <1>5
  <1>6. CASE x \div P = y \div P
    <2> DEFINE q == x \div P
               r == x % P
               s == y % P
    <2>1. P * q \in Int
      BY <1>1, <1>2
    <2>2. r <= s
      <3> DEFINE m == P * q
      <3>1. x = m + r /\ y = m + s /\ r \in Nat /\ s \in Nat /\ m \in Int
        BY <1>2, <1>6, <2>1
      <3> HIDE DEF m, r, s
      <3> QED
        BY <3>1
    <2>3. up(x) => up(y)
      <3> DEFINE even == q % 2 = 0
      <3>1. up(x) <=> ~(r < half \/ (r = half /\ even))
        OBVIOUS
      <3>2. up(y) <=> ~(s < half \/ (s = half /\ even))
        BY <1>6
      <3>3. r \in Nat /\ s \in Nat
        BY <1>2
      <3> HIDE DEF even, r, s, up, half
      <3>4. half \in Nat
        BY <1>1 DEF half
      <3> QED
        BY <2>2, <3>1, <3>2, <3>3, <3>4
    <2> HIDE DEF up
    <2> QED
      BY <1>2, <1>3, <1>6, <2>3
  <1> QED
    BY <1>2, <1>4, <1>5, <1>6


\* The least number that is rounded to r.
LeastRoundedTo(r) == r * Precision - Precision \div 2 + (r % 2)

\* A decimal is rounded to r or more exactly if it is at least that.
LEMMA ChopAtLeast ==
    ASSUME NEW d \in Nat
    PROVE  /\ LeastRoundedTo(chopPrecisionAndRound(d)) <= d
           /\ \A r \in Nat : LeastRoundedTo(r) <= d => r <= chopPrecisionAndRound(d)
  <1> DEFINE P == Precision
             half == P \div 2
             q == d \div P
             m == d % P
             t == P * q
             c == chopPrecisionAndRound(d)
  <1>1. /\ P \in Nat \ {0} /\ half \in Nat \ {0} /\ half + half = P
        /\ q \in Nat /\ m \in Nat /\ m < P /\ t \in Nat /\ d = t + m
    <2>1. P \in Nat \ {0} /\ half \in Nat \ {0} /\ half + half = P
      BY PrecisionAssumption
    <2>2. q \in Nat /\ m \in Nat /\ m < P /\ d = P * q + m
      BY <2>1
    <2> HIDE DEF q, m
    <2>3. P * q \in Nat
      BY <2>1, <2>2
    <2> QED
      BY <2>1, <2>2, <2>3
  <1>2. c = IF m < half \/ (m = half /\ q % 2 = 0) THEN q ELSE q + 1
    BY DEF chopPrecisionAndRound
  <1>3. /\ q * P = t /\ (q + 1) * P = t + P
        /\ \A r \in Nat : r >= q + 2 => r * P >= t + P + P
    <2> HIDE DEF q
    <2>1. q * P = t /\ (q + 1) * P = t + P /\ (q + 2) * P = t + P + P
      BY <1>1
    <2>2. ASSUME NEW r \in Nat, r >= q + 2 PROVE r * P >= (q + 2) * P
      BY <1>1, <2>2
    <2> QED
      BY <2>1, <2>2
  <1>4. /\ q % 2 \in {0, 1} /\ (q + 1) % 2 \in {0, 1}
        /\ (q % 2 = 0) <=> ((q + 1) % 2 = 1)
    <2> HIDE DEF q
    <2> QED
      BY <1>1
  <1>5. \A r \in Nat : LeastRoundedTo(r) = r * P - half + (r % 2) /\ r % 2 \in {0, 1} /\ r * P \in Int
    BY <1>1 DEF LeastRoundedTo
  <1>6. LeastRoundedTo(q) = t - half + (q % 2) /\ LeastRoundedTo(q + 1) = t + P - half + ((q + 1) % 2)
    <2> HIDE DEF q, t, half
    <2>1. q \in Nat /\ q + 1 \in Nat
      BY <1>1
    <2>2. /\ LeastRoundedTo(q) = q * P - half + (q % 2)
          /\ LeastRoundedTo(q + 1) = (q + 1) * P - half + ((q + 1) % 2)
      BY <1>5, <2>1, Zenon
    <2>3. q * P = t /\ (q + 1) * P = t + P
      BY <1>3
    <2>4. LeastRoundedTo(q) = t - half + (q % 2)
      BY <2>2, <2>3, Zenon
    <2>5. LeastRoundedTo(q + 1) = t + P - half + ((q + 1) % 2)
      <3> DEFINE w == (q + 1) * P
                 e == (q + 1) % 2
      <3>1. LeastRoundedTo(q + 1) = w - half + e /\ w = t + P
        BY <2>2, <2>3, Zenon
      <3>2. e \in Int
        BY <1>4
      <3> HIDE DEF w, e, P
      <3>3. w \in Int /\ P \in Int /\ half \in Int /\ t \in Int
        BY <1>1, <3>1
      <3>4. LeastRoundedTo(q + 1) = t + P - half + e
        BY <3>1, <3>2, <3>3
      <3> QED
        BY <3>4 DEF e
    <2> QED
      BY <2>4, <2>5
  <1> HIDE DEF P, half, q, m, t, c
  <1>7. LeastRoundedTo(c) <= d
    <2>1. CASE m < half \/ (m = half /\ q % 2 = 0)
      <3>1. LeastRoundedTo(c) = t - half + (q % 2)
        BY <1>2, <1>6, <2>1
      <3> DEFINE e == q % 2
      <3>2. e \in Int /\ e <= 1
        BY <1>4
      <3> HIDE DEF e
      <3> QED
        BY <1>1, <3>1, <3>2 DEF e
    <2>2. CASE ~(m < half \/ (m = half /\ q % 2 = 0))
      <3>1. LeastRoundedTo(c) = t + P - half + ((q + 1) % 2)
        BY <1>2, <1>6, <2>2
      <3>2. (m > half /\ (q + 1) % 2 \in {0, 1}) \/ (m = half /\ (q + 1) % 2 = 0)
        BY <1>1, <1>4, <2>2
      <3> DEFINE e == (q + 1) % 2
      <3>3. (m > half /\ e \in {0, 1}) \/ (m = half /\ e = 0)
        BY <3>2
      <3> HIDE DEF e
      <3> QED
        BY <1>1, <3>1, <3>3 DEF e
    <2> QED
      BY <2>1, <2>2
  <1>8. ASSUME NEW r \in Nat, LeastRoundedTo(r) <= d, ~(r <= c) PROVE FALSE
    <2>1. c \in Nat /\ r >= q + 1
      BY <1>1, <1>2, <1>8
    <2>2. CASE r >= q + 2
      <3>1. r * P >= t + P + P
        BY <1>3, <2>2
      <3> DEFINE e == r % 2
                 u == r * P
      <3>2. LeastRoundedTo(r) = u - half + e /\ e \in {0, 1} /\ u \in Int /\ u >= t + P + P
        BY <1>5, <3>1
      <3> HIDE DEF e, u
      <3> QED
        BY <1>1, <1>8, <3>2
    <2>3. CASE r = q + 1
      <3>1. c = q /\ (m < half \/ (m = half /\ q % 2 = 0))
        BY <1>1, <1>2, <1>8, <2>3
      <3>2. t + P - half + ((q + 1) % 2) <= t + m
        BY <1>1, <1>6, <1>8, <2>3
      <3> DEFINE e == (q + 1) % 2
      <3>3. (m < half /\ e \in {0, 1}) \/ (m = half /\ e = 1)
        BY <1>4, <3>1
      <3>4. t + P - half + e <= t + m
        BY <3>2
      <3> HIDE DEF e
      <3> QED
        BY <1>1, <3>3, <3>4
    <2> QED
      BY <1>1, <2>1, <2>2, <2>3
  <1> QED
    BY <1>7, <1>8 DEF c

\* A common factor of a fraction cancels.
LEMMA QuotientCancels ==
    ASSUME NEW x \in Nat, NEW s \in Nat \ {0}, NEW p \in Nat \ {0}
    PROVE  (x * p) \div (s * p) = x \div s
  <1> DEFINE q == x \div s
  <1>1. q \in Nat /\ s * q <= x /\ x < s * q + s
    OBVIOUS
  <1> HIDE DEF q
  <1>2. x * p \in Nat /\ s * p \in Nat \ {0}
    <2>1. s * p >= s /\ s * p \in Nat
      OBVIOUS
    <2> QED
      BY <2>1
  <1>3. q * (s * p) <= x * p /\ x * p < q * (s * p) + s * p
    <2> DEFINE y == s * q
    <2>1. y \in Nat /\ y <= x /\ x + 1 <= y + s
      BY <1>1
    <2>2. q * (s * p) = y * p
      BY <1>1
    <2> HIDE DEF y
    <2>3. y * p <= x * p
      BY <2>1
    <2>4. (x + 1) * p <= (y + s) * p
      BY <2>1
    <2>5. (x + 1) * p = x * p + p /\ (y + s) * p = y * p + s * p
      BY <2>1
    <2>6. x * p \in Int /\ y * p \in Int /\ s * p \in Int
      BY <2>1
    <2> QED
      BY <2>2, <2>3, <2>4, <2>5, <2>6
  <1> DEFINE a == x * p
             b == s * p
  <1>4. a \in Nat /\ b \in Nat \ {0} /\ q * b <= a /\ a < q * b + b
    BY <1>2, <1>3
  <1> HIDE DEF a, b
  <1>5. a \div b = q
    BY <1>1, <1>4, QuotientIs
  <1> QED
    BY <1>5 DEF a, b, q

\* The quotient of two integers.
LEMMA QuoOfIntegers ==
    ASSUME NEW v \in Nat, NEW s \in Nat \ {0}
    PROVE  Quo(NewDecFromInt(v), NewDecFromInt(s))
             = chopPrecisionAndRound((v * Precision * Precision) \div s)
  <1> DEFINE x == v * Precision * Precision
  <1>1. Precision \in Nat \ {0} /\ x \in Nat
    BY PrecisionAssumption
  <1>2. ((v * Precision) * Precision) * Precision = x * Precision
    OBVIOUS
  <1> HIDE DEF x
  <1>3. (x * Precision) \div (s * Precision) = x \div s
    BY <1>1, QuotientCancels
  <1> QED
    BY <1>2, <1>3 DEF Quo, NewDecFromInt, x

\* The rate v / s is r or more exactly if v is large enough for s.
LEMMA RateAtLeast ==
    ASSUME NEW v \in Nat, NEW s \in Nat \ {0}
    PROVE  LET rate == Quo(NewDecFromInt(v), NewDecFromInt(s)) IN
           /\ LeastRoundedTo(rate) * s <= v * Precision * Precision
           /\ \A r \in Nat : LeastRoundedTo(r) * s <= v * Precision * Precision => r <= rate
  <1> DEFINE x == v * Precision * Precision
             d == x \div s
             rate == chopPrecisionAndRound(d)
  <1>1. Precision \in Nat \ {0} /\ x \in Nat
    BY PrecisionAssumption
  <1>2. Quo(NewDecFromInt(v), NewDecFromInt(s)) = rate
    BY QuoOfIntegers
  <1> HIDE DEF x
  <1>3. d \in Nat /\ s * d <= x /\ x < s * d + s
    BY <1>1
  <1> HIDE DEF d
  <1>4. /\ rate \in Nat /\ LeastRoundedTo(rate) <= d
        /\ \A r \in Nat : LeastRoundedTo(r) <= d => r <= rate
    BY <1>3, ChopNat, ChopAtLeast
  <1>5. \A r \in Nat : LeastRoundedTo(r) \in Int
    BY PrecisionAssumption DEF LeastRoundedTo
  <1>6. ASSUME NEW l \in Int PROVE l <= d <=> l * s <= x
    <2>1. CASE l <= d
      <3>1. l * s <= d * s /\ d * s = s * d /\ l * s \in Int /\ d * s \in Int
        BY <1>3, <2>1
      <3> QED
        BY <1>1, <1>3, <2>1, <3>1
    <2>2. CASE l >= d + 1
      <3>1. l * s >= (d + 1) * s /\ (d + 1) * s = s * d + s /\ l * s \in Int /\ s * d \in Int
        BY <1>3, <2>2
      <3> QED
        BY <1>1, <1>3, <2>2, <3>1
    <2> QED
      BY <1>3, <2>1, <2>2
  <1> HIDE DEF rate
  <1>7. LeastRoundedTo(rate) * s <= x
    BY <1>4, <1>5, <1>6
  <1>8. ASSUME NEW r \in Nat, LeastRoundedTo(r) * s <= x PROVE r <= rate
    BY <1>4, <1>5, <1>6, <1>8
  <1> QED
    BY <1>2, <1>7, <1>8 DEF x

\* Below a rate of two, rounding the quotient up does not make up for rounding
\* it down to whole tokens: no more tokens are minted than the rate allows.
LEMMA MintedAtMost ==
    ASSUME NEW a \in Nat, NEW r \in Nat \ {0}, r < NewDecFromInt(2)
    PROVE  TruncateInt(Quo(NewDecFromInt(a), r)) * r <= a * Precision
  <1> DEFINE P == Precision
             half == P \div 2
             pp == P * P
             ap == a * P
             x == (ap * P) * P
             y == x \div r
             c == chopPrecisionAndRound(y)
             m == c \div P
  <1>1. /\ P \in Nat \ {0} /\ half \in Nat \ {0} /\ half + half = P
        /\ pp \in Nat /\ ap \in Nat /\ x \in Nat
    BY PrecisionAssumption
  <1>2. x = ap * pp
    <2> HIDE DEF ap
    <2>1. (ap * P) * P = ap * (P * P)
      BY <1>1
    <2> QED
      BY <2>1
  <1>3. TruncateInt(Quo(NewDecFromInt(a), r)) = m
    BY DEF TruncateInt, Quo, NewDecFromInt
  <1> HIDE DEF x
  <1>4. y \in Nat /\ r * y <= x
    BY <1>1
  <1> HIDE DEF y
  <1>5. c \in Nat /\ LeastRoundedTo(c) <= y
    BY <1>4, ChopNat, ChopAtLeast
  <1> HIDE DEF c
  <1>6. m \in Nat /\ P * m <= c
    BY <1>1, <1>5
  <1>7. m * pp - half <= y
    <2> DEFINE cp == c * P
               e == c % 2
    <2>1. LeastRoundedTo(c) = cp - half + e /\ e \in {0, 1} /\ cp \in Int
      BY <1>1, <1>5 DEF LeastRoundedTo
    <2>2. (P * m) * P <= cp
      BY <1>1, <1>5, <1>6
    <2>3. (P * m) * P = m * pp /\ m * pp \in Int
      BY <1>1, <1>6
    <2> HIDE DEF cp, e, pp, m, half, P
    <2> QED
      BY <1>1, <1>4, <1>5, <2>1, <2>2, <2>3
  <1> HIDE DEF m
  <1>8. SUFFICES ASSUME m * r >= ap + 1 PROVE FALSE
    <2>1. m * r \in Int
      BY <1>6
    <2> QED
      BY <1>1, <1>3, <2>1
  <1> DEFINE mpp == m * pp
             rh == r * half
  <1>9. r * (mpp - half) <= x
    <2>1. mpp \in Int
      BY <1>1, <1>6
    <2> HIDE DEF mpp, pp
    <2>2. mpp - half \in Int /\ mpp - half <= y
      BY <1>1, <1>7, <2>1 DEF mpp
    <2> DEFINE u == mpp - half
    <2>3. u \in Int /\ u <= y
      BY <2>2
    <2> HIDE DEF u
    <2>4. r * u <= r * y /\ r * u \in Int /\ r * y \in Int
      BY <1>4, <2>3
    <2>5. r * u <= x
      BY <1>1, <1>4, <2>4
    <2> QED
      BY <2>5 DEF u
  <1>10. r * (mpp - half) = r * mpp - rh /\ r * mpp \in Int /\ rh \in Int
    BY <1>1, <1>6
  <1>11. r * mpp = (m * r) * pp
    BY <1>1, <1>6
  <1>12. (m * r) * pp >= ap * pp + pp
    <2> DEFINE mr == m * r
    <2>1. mr \in Int /\ mr >= ap + 1
      BY <1>6, <1>8
    <2> HIDE DEF mr, ap, pp
    <2>2. mr * pp >= (ap + 1) * pp
      BY <1>1, <2>1
    <2>3. (ap + 1) * pp = ap * pp + pp
      BY <1>1
    <2> QED
      BY <2>2, <2>3 DEF mr
  <1>13. pp <= rh
    <2> DEFINE t == r * mpp
    <2>1. t \in Int /\ t - rh <= x /\ t >= x + pp /\ rh \in Int
      BY <1>2, <1>9, <1>10, <1>11, <1>12
    <2> HIDE DEF t, pp, rh
    <2> QED
      BY <1>1, <2>1
  <1>14. pp = half * (P + P) /\ rh = half * r
    <2>1. P = half + half
      BY <1>1
    <2> HIDE DEF half
    <2>2. (half + half) * P = half * (P + P)
      BY <1>1
    <2> QED
      BY <1>1, <2>1, <2>2
  <1>15. P + P <= r
    <2> HIDE DEF half
    <2> DEFINE t == P + P
    <2>1. t \in Int /\ half * t <= half * r
      BY <1>1, <1>13, <1>14
    <2> HIDE DEF t
    <2>2. t <= r
      BY <1>1, <2>1, TimesLeq
    <2> QED
      BY <2>2 DEF t
  <1> QED
    BY <1>1, <1>15 DEF NewDecFromInt

\* What is staked covers the stTokens that are minted for it.
LEMMA RateCoversMint ==
    ASSUME NEW v \in Nat, NEW s \in Nat, NEW r \in Nat, NEW a \in Nat, NEW m \in Nat,
           LeastRoundedTo(r) * s <= v * Precision * Precision, m * r <= a * Precision
    PROVE  LeastRoundedTo(r) * (s + m) <= (v + a) * Precision * Precision
  <1> DEFINE P == Precision
             l == LeastRoundedTo(r)
             mr == m * r
             ap == a * P
  <1>1. P \in Nat \ {0} /\ ap \in Nat /\ mr \in Nat
    BY PrecisionAssumption
  <1>2. l \in Int /\ l <= r * P
    <2> DEFINE half == P \div 2
               e == r % 2
               rp == r * P
    <2>1. l = rp - half + e /\ e \in {0, 1} /\ rp \in Int /\ half \in Nat /\ half >= 1
      BY PrecisionAssumption DEF LeastRoundedTo
    <2> HIDE DEF half, e, rp
    <2>2. l \in Int /\ l <= rp
      BY <2>1
    <2> QED
      BY <2>2 DEF rp
  <1> HIDE DEF l
  <1>3. l * m <= (r * P) * m /\ l * m \in Int
    BY <1>1, <1>2
  <1>4. (r * P) * m = mr * P
    BY <1>1
  <1>5. mr * P <= ap * P /\ mr * P \in Int /\ ap * P \in Int
    <2>1. mr <= ap
      OBVIOUS
    <2> HIDE DEF mr, ap
    <2> QED
      BY <1>1, <2>1
  <1>6. l * (s + m) = l * s + l * m /\ l * s \in Int
    BY <1>1, <1>2
  <1>7. (v + a) * P * P = v * P * P + ap * P /\ v * P * P \in Int
    BY <1>1
  <1>8. l * s <= v * P * P
    BY DEF l
  <1> DEFINE lm == l * m
             ls == l * s
             vpp == v * P * P
             app == ap * P
             mrp == mr * P
  <1>9. /\ lm <= mrp /\ mrp <= app /\ ls <= vpp /\ {lm, ls, vpp, app, mrp} \subseteq Int
        /\ l * (s + m) = ls + lm /\ (v + a) * P * P = vpp + app
    BY <1>3, <1>4, <1>5, <1>6, <1>7, <1>8
  <1> HIDE DEF lm, ls, vpp, app, mrp
  <1>10. l * (s + m) <= (v + a) * P * P
    BY <1>9
  <1> QED
    BY <1>10 DEF l

-----------------------------------------------------------------------------
(* Packets of an ordered channel, numbered without gaps *)

Seqs(S) == {p.seq : p \in S}
Numbered(S, n) == Seqs(S) = 1..n /\ \A p, q \in S : p.seq = q.seq => p = q

\* No two packets have one number: there are as many numbers as packets.
LEMMA NumbersUnique ==
    ASSUME NEW S, IsFiniteSet(S), Seqs(S) = 1..Cardinality(S)
    PROVE  Numbered(S, Cardinality(S))
  <1> DEFINE n == Cardinality(S)
             f == [p \in S |-> p.seq]
  <1>1. n \in Nat
    BY FS_CardinalityType
  <1>2. IsFiniteSet(1..n) /\ Cardinality(1..n) = n
    <2>1. Cardinality(1..n) = IF 1 > n THEN 0 ELSE n - 1 + 1 
      BY <1>1, FS_Interval, 1 \in Int, n \in Int
    <2> HIDE DEF n
    <2> QED
      BY <1>1, <2>1, FS_Interval
  <1>3. f \in Surjection(S, 1..n)
    <2>1. f \in [S -> 1..n]
      BY DEF Seqs
    <2>2. \A i \in 1..n : \E p \in S : f[p] = i
      BY DEF Seqs
    <2> QED
      BY <2>1, <2>2 DEF Surjection
  <1>4. f \in Injection(S, 1..n)
    <2> HIDE DEF f
    <2>1. Cardinality(S) = Cardinality(1..n)
      BY <1>2
    <2> QED
      BY <1>3, <2>1, FS_SurjSameCardinalityImpliesInj
  <1>5. \A p, q \in S : f[p] = f[q] => p = q
    BY <1>4 DEF Injection, IsInjective
  <1> QED
    BY <1>5 DEF Numbered

\* Packets numbered up to n are n packets.
LEMMA NumberedCount ==
    ASSUME NEW S, IsFiniteSet(S), NEW n \in Nat, Numbered(S, n)
    PROVE  Cardinality(S) = n
  <1> DEFINE f == [p \in S |-> p.seq]
  <1>1. IsFiniteSet(1..n) /\ Cardinality(1..n) = n
    <2>1. Cardinality(1..n) = IF 1 > n THEN 0 ELSE n - 1 + 1 
      BY FS_Interval, 1 \in Int, n \in Int
    <2> QED
      BY <2>1, FS_Interval
  <1>2. f \in Surjection(S, 1..n)
    <2>1. f \in [S -> 1..n]
      BY DEF Seqs, Numbered
    <2>2. \A i \in 1..n : \E p \in S : f[p] = i
      BY DEF Seqs, Numbered
    <2> QED
      BY <2>1, <2>2 DEF Surjection
  <1>3. \A p, q \in S : f[p] = f[q] => p = q
    BY DEF Numbered
  <1>4. f \in Bijection(S, 1..n)
    <2> HIDE DEF f
    <2> QED
      BY <1>2, <1>3 DEF Bijection, Injection, Surjection, IsInjective
  <1>5. ExistsBijection(S, 1..n)
    BY <1>4 DEF ExistsBijection
  <1> QED
    BY <1>1, <1>5, FS_Bijection

LEMMA NumberedIs ==
    ASSUME NEW S, IsFiniteSet(S), NEW n \in Nat, Numbered(S, n)
    PROVE  Numbered(S, Cardinality(S))
    BY NumberedCount

LEMMA NoneNumbered == Numbered({}, 0)
    BY DEF Numbered, Seqs

\* A packet is sent after those that are under way, ...
LEMMA NextNumbered ==
    ASSUME NEW S, NEW n \in Nat, Numbered(S, n), NEW p, p.seq = n + 1
    PROVE  Numbered(S \cup {p}, n + 1)
  <1>1. \A q \in S : q.seq \in 1..n
    BY DEF Numbered, Seqs
  <1>2. \A i : i \in Seqs(S \cup {p}) <=> i \in Seqs(S) \/ i = n + 1
    BY DEF Seqs
  <1>3. \A i : i \in Seqs(S \cup {p}) <=> i \in 1..n + 1
    <2>1. Seqs(S) = 1..n
      BY DEF Numbered
    <2>2. \A i : i \in 1..n + 1 <=> i \in 1..n \/ i = n + 1
      OBVIOUS
    <2> QED
      BY <1>2, <2>1, <2>2
  <1>4. \A q1, q2 \in S \cup {p} : q1.seq = q2.seq => q1 = q2
    BY <1>1 DEF Numbered
  <1> QED
    BY <1>3, <1>4 DEF Numbered

\* ... keeps its number when something happens to it, ...
LEMMA ReplacedNumbered ==
    ASSUME NEW S, NEW n, Numbered(S, n), NEW p \in S, NEW q, q.seq = p.seq
    PROVE  Numbered((S \ {p}) \cup {q}, n)
  <1>1. \A i : i \in Seqs((S \ {p}) \cup {q}) <=> i \in Seqs(S)
    BY DEF Seqs
  <1>2. \A q1, q2 \in (S \ {p}) \cup {q} : q1.seq = q2.seq => q1 = q2
    BY DEF Numbered
  <1> QED
    BY <1>1, <1>2 DEF Numbered

\* ... and moves up when the first one is removed: T are the others, moved up.
MovesUp(T, S, p, f) ==
    /\ \A x : x \in T <=> \E q \in S \ {p} : x = f[q]
    /\ \A q \in S : f[q].seq = q.seq - 1

LEMMA MovedUpNumbered ==
    ASSUME NEW S, NEW n \in Nat, Numbered(S, n), NEW p \in S, p.seq = 1,
           NEW T, NEW f, MovesUp(T, S, p, f)
    PROVE  n - 1 \in Nat /\ Numbered(T, n - 1)
  <1>1. \A q \in S : q.seq \in 1..n
    BY DEF Numbered, Seqs
  <1>2. \A q \in S \ {p} : q.seq # 1
    BY DEF Numbered
  <1>3. ASSUME NEW i PROVE i \in Seqs(T) <=> i \in 1..n - 1
    <2>1. ASSUME i \in Seqs(T) PROVE i \in 1..n - 1
      <3>1. PICK x \in T : i = x.seq
        BY <2>1 DEF Seqs
      <3>2. PICK q \in S \ {p} : x = f[q]
        BY <3>1 DEF MovesUp
      <3>3. i = q.seq - 1 /\ q.seq \in 1..n /\ q.seq # 1
        BY <1>1, <1>2, <3>1, <3>2 DEF MovesUp
      <3> QED
        BY <3>3
    <2>2. ASSUME i \in 1..n - 1 PROVE i \in Seqs(T)
      <3>1. i + 1 \in 1..n /\ (i + 1) - 1 = i
        BY <2>2
      <3>2. PICK q \in S : q.seq = i + 1
        BY <3>1 DEF Numbered, Seqs
      <3>3. q # p
        BY <2>2, <3>2
      <3>4. f[q].seq = i /\ f[q] \in T
        BY <3>1, <3>2, <3>3 DEF MovesUp
      <3> QED
        BY <3>4 DEF Seqs
    <2> QED
      BY <2>1, <2>2
  <1>4. ASSUME NEW x \in T, NEW y \in T, x.seq = y.seq PROVE x = y
    <2>1. PICK q \in S \ {p} : x = f[q] /\ x.seq = q.seq - 1
      BY DEF MovesUp
    <2>2. PICK r \in S \ {p} : y = f[r] /\ y.seq = r.seq - 1
      BY DEF MovesUp
    <2>3. q.seq = r.seq
      <3>1. q.seq \in Int /\ r.seq \in Int
        BY <1>1
      <3> QED
        BY <1>4, <2>1, <2>2, <3>1
    <2>4. q = r
      BY <2>3 DEF Numbered
    <2> QED
      BY <2>1, <2>2, <2>4
  <1>5. Seqs(T) = 1..n - 1
    BY <1>3
  <1>6. n - 1 \in Nat
    <2>1. 1 \in 1..n
      BY <1>1
    <2> QED
      BY <2>1
  <1> QED
    BY <1>4, <1>5, <1>6 DEF Numbered
=============================================================================
