---------------------------- MODULE SumTheorems ----------------------------
(***************************************************************************)
(* What the proofs need to know about sums over finite sets                *)
(* (SumFunctionOnSet of the module Functions): the totals of the bills, of *)
(* a buyer's releases and of the votes of a case. Sums are defined by      *)
(* recursion over sets; the facts about them rest on the principle that a  *)
(* non-empty set of natural numbers has a least member.                    *)
(***************************************************************************)
EXTENDS Integers, FiniteSets, Functions, FiniteSetTheorems, WellFoundedInduction, TLAPS

LOCAL pick(s) == CHOOSE x \in s : TRUE

\* g holds the partial sums of f over the subsets of S.
PartialSums(g, f, S) ==
    g = [s \in SUBSET S |-> IF s = {} THEN 0 ELSE f[pick(s)] + g[s \ {pick(s)}]]

\* Every set of natural numbers has a least one.
LEMMA LeastNatural ==
    ASSUME NEW T \in SUBSET Nat, T # {}
    PROVE  \E n \in T : \A m \in T : n <= m
  <1> DEFINE R == {p \in Nat \X Nat : p[1] < p[2]}
  <1>1. IsWellFoundedOn(R, Nat)
    BY Zenon, NatLessThanWellFounded DEF OpToRel
  <1>2. PICK x \in T : \A y \in T : <<y, x>> \notin R
    <2> HIDE DEF R
    <2> QED BY Zenon, <1>1, WFMin
  <1>3. \A y \in T : ~ (y < x)
    BY <1>2
  <1> QED BY <1>3

\* A family of subsets of a finite set has a member none of whose elements can
\* be taken away.
LEMMA LeastSubset ==
    ASSUME NEW S, IsFiniteSet(S), NEW F \in SUBSET SUBSET S, F # {}
    PROVE  \E r \in F : \A x \in r : r \ {x} \notin F
  <1> DEFINE T == {Cardinality(r) : r \in F}
  <1>1. \A r \in F : IsFiniteSet(r) /\ Cardinality(r) \in Nat
    BY FS_Subset, FS_CardinalityType
  <1>2. T \in SUBSET Nat /\ T # {}
    BY <1>1
  <1>3. PICK n \in T : \A m \in T : n <= m
    <2> HIDE DEF T
    <2> QED BY <1>2, LeastNatural
  <1>4. PICK r \in F : \A q \in F : Cardinality(r) <= Cardinality(q)
    BY <1>3
  <1>5. \A x \in r : Cardinality(r \ {x}) = Cardinality(r) - 1
    BY <1>1, FS_RemoveElement
  <1> QED BY <1>1, <1>4, <1>5

\* Induction over a finite set, one element at a time.
LEMMA FiniteSetInduction ==
    ASSUME NEW S, IsFiniteSet(S), NEW P \in SUBSET SUBSET S, {} \in P,
           \A s \in P : \A x \in S \ s : s \cup {x} \in P
    PROVE  S \in P
  <1> DEFINE F == {S \ s : s \in P}
  <1>1. PICK s \in P : \A x \in S \ s : (S \ s) \ {x} \notin F
    <2>1. F \in SUBSET SUBSET S /\ S \ {} \in F
      OBVIOUS
    <2>2. PICK r \in F : \A x \in r : r \ {x} \notin F
      <3> HIDE DEF F
      <3> QED BY <2>1, LeastSubset
    <2> QED BY <2>2
  <1>2. \A x \in S \ s : (S \ s) \ {x} = S \ (s \cup {x})
    OBVIOUS
  <1>3. S \ s = {}
    BY <1>1, <1>2
  <1>4. s = S
    BY <1>3
  <1> QED BY <1>4

\* What pick returns.
LEMMA Pick == ASSUME NEW s, s # {} PROVE pick(s) \in s
  BY DEF pick

\* The sums up to a given size of subset determine those of the next size, so
\* the recursive definition has a solution.
LEMMA PartialSumsExist ==
    ASSUME NEW f, NEW S, IsFiniteSet(S)
    PROVE  \E g : PartialSums(g, f, S)
  <1> DEFINE Level(n) == {s \in SUBSET S : Cardinality(s) <= n}
             Solves(g, n) == g = [s \in Level(n) |-> IF s = {} THEN 0
                                               ELSE f[pick(s)] + g[s \ {pick(s)}]]
             T == {n \in Nat : ~ \E g : Solves(g, n)}
  <1>1. \A s \in SUBSET S : IsFiniteSet(s) /\ Cardinality(s) \in Nat /\ Cardinality(s) <= Cardinality(S)
    BY FS_Subset, FS_CardinalityType
  <1>2. \A s \in SUBSET S : s # {} => /\ pick(s) \in s
                                      /\ Cardinality(s \ {pick(s)}) = Cardinality(s) - 1
    BY <1>1, Pick, FS_RemoveElement
  <1>3. \E g : Solves(g, 0)
    <2>1. \A s \in Level(0) : s = {}
      BY <1>1, FS_EmptySet
    <2>2. Solves([s \in Level(0) |-> 0], 0)
      BY <2>1
    <2> QED BY <2>2
  <1>4. ASSUME NEW n \in Nat, \E g : Solves(g, n) PROVE \E g : Solves(g, n + 1)
    <2>1. PICK g : Solves(g, n)
      BY <1>4
    <2> DEFINE h == [s \in Level(n + 1) |-> IF s = {} THEN 0 ELSE f[pick(s)] + g[s \ {pick(s)}]]
    <2>2. \A s \in Level(n) : s \in Level(n + 1) /\ h[s] = g[s]
      <3> TAKE s \in Level(n)
      <3>1. s \in Level(n + 1)
        BY <1>1
      <3>2. g[s] = IF s = {} THEN 0 ELSE f[pick(s)] + g[s \ {pick(s)}]
        BY <2>1
      <3> QED BY <3>1, <3>2
    <2>3. \A s \in Level(n + 1) : s # {} => s \ {pick(s)} \in Level(n)
      BY <1>1, <1>2
    <2>4. Solves(h, n + 1)
      BY <2>2, <2>3
    <2> QED BY <2>4
  <1>5. T = {}
    <2> SUFFICES ASSUME T # {} PROVE FALSE
      OBVIOUS
    <2>1. PICK n \in T : \A m \in T : n <= m
      <3>1. T \in SUBSET Nat
        OBVIOUS
      <3> HIDE DEF T
      <3> QED BY <3>1, LeastNatural
    <2> HIDE DEF Solves
    <2>2. n \in Nat /\ n # 0
      BY <1>3
    <2>3. n - 1 \in Nat /\ (n - 1) + 1 = n /\ ~ (n <= n - 1)
      BY <2>2
    <2>4. n - 1 \notin T
      BY <2>1, <2>3
    <2> QED BY <1>4, <2>3, <2>4
  <1>6. Level(Cardinality(S)) = SUBSET S
    BY <1>1
  <1>7. Cardinality(S) \in Nat
    BY FS_CardinalityType
  <1>8. PICK g : Solves(g, Cardinality(S))
    BY <1>5, <1>7
  <1> QED BY <1>6, <1>8 DEF PartialSums

\* The sum of the library is one of these solutions.
LEMMA SumUnfolds ==
    ASSUME NEW f, NEW S, IsFiniteSet(S)
    PROVE  \E g : PartialSums(g, f, S) /\ SumFunctionOnSet(f, S) = g[S]
  <1> DEFINE iter == CHOOSE h : h = [s \in SUBSET S |-> IF s = {} THEN 0
                                             ELSE f[pick(s)] + h[s \ {pick(s)}]]
  <1>1. PICK g : PartialSums(g, f, S)
    BY PartialSumsExist
  <1>3. iter = [s \in SUBSET S |-> IF s = {} THEN 0 ELSE f[pick(s)] + iter[s \ {pick(s)}]]
    BY <1>1 DEF PartialSums
  <1>2. SumFunctionOnSet(f, S) = iter[S]
    BY DEF SumFunctionOnSet, FoldFunctionOnSet, MapThenFoldSet, pick
  <1> QED BY <1>3, <1>2 DEF PartialSums

\* Functions that agree on a set have the same sums over it and its subsets.
LEMMA PartialSumsUnique ==
    ASSUME NEW S, IsFiniteSet(S), NEW f, NEW g, NEW k, NEW h,
           NEW R \in SUBSET S, \A x \in R : f[x] = k[x],
           PartialSums(g, f, S), PartialSums(h, k, R)
    PROVE  g[R] = h[R]
  <1>1. IsFiniteSet(R)
    BY FS_Subset
  <1>2. \A r \in SUBSET R : /\ g[r] = IF r = {} THEN 0 ELSE f[pick(r)] + g[r \ {pick(r)}]
                            /\ h[r] = IF r = {} THEN 0 ELSE k[pick(r)] + h[r \ {pick(r)}]
    BY DEF PartialSums
  <1> DEFINE F == {r \in SUBSET R : g[r] # h[r]}
  <1> SUFFICES ASSUME F # {} PROVE FALSE
    OBVIOUS
  <1>3. PICK r \in F : \A x \in r : r \ {x} \notin F
    <2>1. F \in SUBSET SUBSET R
      OBVIOUS
    <2> HIDE DEF F
    <2> QED BY <1>1, <2>1, LeastSubset
  <1>4. r # {}
    BY <1>2
  <1>5. pick(r) \in r /\ g[r \ {pick(r)}] = h[r \ {pick(r)}]
    BY <1>3, <1>4, Pick
  <1> QED BY <1>2, <1>4, <1>5

\* Summands that agree have one sum.
LEMMA SumCongruent ==
    ASSUME NEW S, IsFiniteSet(S), NEW f, NEW k, \A x \in S : f[x] = k[x]
    PROVE  SumFunctionOnSet(f, S) = SumFunctionOnSet(k, S)
  <1>1. PICK g : PartialSums(g, f, S) /\ SumFunctionOnSet(f, S) = g[S]
    BY SumUnfolds
  <1>2. PICK h : PartialSums(h, k, S) /\ SumFunctionOnSet(k, S) = h[S]
    BY SumUnfolds
  <1> QED BY <1>1, <1>2, PartialSumsUnique

\* The empty sum is zero.
LEMMA SumEmpty == ASSUME NEW f PROVE SumFunctionOnSet(f, {}) = 0
  <1>1. PICK g : PartialSums(g, f, {}) /\ SumFunctionOnSet(f, {}) = g[{}]
    BY SumUnfolds, FS_EmptySet
  <1> QED BY <1>1 DEF PartialSums

\* The sum over a subset is the partial sum of any larger set.
LEMMA SumOfPart ==
    ASSUME NEW S, IsFiniteSet(S), NEW f, NEW g, PartialSums(g, f, S), NEW R \in SUBSET S
    PROVE  SumFunctionOnSet(f, R) = g[R]
  <1>1. IsFiniteSet(R)
    BY FS_Subset
  <1>2. PICK h : PartialSums(h, f, R) /\ SumFunctionOnSet(f, R) = h[R]
    BY <1>1, SumUnfolds
  <1> QED BY <1>2, PartialSumsUnique

\* A sum of integers is an integer.
LEMMA SumType ==
    ASSUME NEW S, IsFiniteSet(S), NEW f, \A x \in S : f[x] \in Int
    PROVE  SumFunctionOnSet(f, S) \in Int
  <1>1. PICK g : PartialSums(g, f, S)
    BY PartialSumsExist
  <1> DEFINE F == {r \in SUBSET S : g[r] \notin Int}
  <1>2. F = {}
    <2> SUFFICES ASSUME F # {} PROVE FALSE
      OBVIOUS
    <2>1. PICK r \in F : \A x \in r : r \ {x} \notin F
      <3>1. F \in SUBSET SUBSET S
        OBVIOUS
      <3> HIDE DEF F
      <3> QED BY <3>1, LeastSubset
    <2>2. g[r] = IF r = {} THEN 0 ELSE f[pick(r)] + g[r \ {pick(r)}]
      BY <1>1 DEF PartialSums
    <2>3. r # {} => f[pick(r)] \in Int /\ g[r \ {pick(r)}] \in Int
      BY <2>1, Pick
    <2> QED BY <2>2, <2>3
  <1> QED BY <1>1, <1>2, SumOfPart

\* The order in which the library takes the elements does not matter: a sum is
\* any of its summands and the sum of the others.
LEMMA SumRemove ==
    ASSUME NEW S, IsFiniteSet(S), NEW f, \A x \in S : f[x] \in Int, NEW x \in S
    PROVE  SumFunctionOnSet(f, S) = f[x] + SumFunctionOnSet(f, S \ {x})
  <1>1. PICK g : PartialSums(g, f, S)
    BY PartialSumsExist
  <1> DEFINE F == {r \in SUBSET S : \E y \in r : g[r] # f[y] + g[r \ {y}]}
  <1>2. \A r \in SUBSET S : g[r] \in Int
    <2> TAKE r \in SUBSET S
    <2>1. g[r] = SumFunctionOnSet(f, r) /\ IsFiniteSet(r)
      BY <1>1, SumOfPart, FS_Subset
    <2> QED BY <2>1, SumType
  <1>3. F = {}
    <2> SUFFICES ASSUME F # {} PROVE FALSE
      OBVIOUS
    <2>1. PICK r \in F : \A y \in r : r \ {y} \notin F
      <3>1. F \in SUBSET SUBSET S
        OBVIOUS
      <3> HIDE DEF F
      <3> QED BY <3>1, LeastSubset
    <2>2. PICK y \in r : g[r] # f[y] + g[r \ {y}]
      OBVIOUS
    <2> DEFINE p == pick(r)
    <2>3. p \in r /\ g[r] = f[p] + g[r \ {p}]
      BY <1>1, Pick DEF PartialSums
    <2>4. p # y
      BY <2>2, <2>3
    <2> HIDE DEF p
    <2> DEFINE rest == (r \ {p}) \ {y}
    <2>5. rest = (r \ {y}) \ {p} /\ rest \in SUBSET S
      OBVIOUS
    <2>6. g[r \ {p}] = f[y] + g[rest] /\ g[r \ {y}] = f[p] + g[(r \ {y}) \ {p}]
      BY <2>1, <2>3, <2>4
    <2> HIDE DEF rest, F
    <2>7. g[r \ {y}] = f[p] + g[rest]
      BY Zenon, <2>5, <2>6
    <2>8. f[p] \in Int /\ f[y] \in Int /\ g[rest] \in Int
      BY <1>2, <2>3, <2>5 DEF F
    <2> QED BY <2>2, <2>3, <2>6, <2>7, <2>8
  <1>4. g[S] = f[x] + g[S \ {x}]
    BY <1>3
  <1> QED BY <1>1, <1>4, SumOfPart

\* Adding a summand.
LEMMA SumAdd ==
    ASSUME NEW S, IsFiniteSet(S), NEW y, y \notin S, NEW f, \A x \in S \cup {y} : f[x] \in Int
    PROVE  SumFunctionOnSet(f, S \cup {y}) = SumFunctionOnSet(f, S) + f[y]
  <1>1. (S \cup {y}) \ {y} = S /\ IsFiniteSet(S \cup {y})
    BY FS_AddElement
  <1>2. SumFunctionOnSet(f, S \cup {y}) = f[y] + SumFunctionOnSet(f, (S \cup {y}) \ {y})
    BY <1>1, SumRemove
  <1>3. SumFunctionOnSet(f, S \cup {y}) = f[y] + SumFunctionOnSet(f, S)
    BY Zenon, <1>1, <1>2
  <1>4. SumFunctionOnSet(f, S) \in Int /\ f[y] \in Int
    BY SumType
  <1> QED BY <1>3, <1>4

\* The sum over a set that stays, gains an element or loses one, when the other
\* summands stay.
LEMMA SumKept ==
    ASSUME NEW S, IsFiniteSet(S), NEW R, R = S, NEW f, NEW k, \A x \in S : k[x] = f[x]
    PROVE  SumFunctionOnSet(k, R) = SumFunctionOnSet(f, S)
  BY Zenon, SumCongruent

\* A new summand is added to the sum of the others.
LEMMA SumPlus ==
    ASSUME NEW S, IsFiniteSet(S), NEW y, y \notin S, NEW R, R = S \cup {y}, NEW f, NEW k,
           \A x \in S : f[x] \in Int /\ k[x] = f[x], k[y] \in Int
    PROVE  SumFunctionOnSet(k, R) = SumFunctionOnSet(f, S) + k[y]
  <1>1. \A x \in S \cup {y} : k[x] \in Int
    OBVIOUS
  <1>2. SumFunctionOnSet(k, S \cup {y}) = SumFunctionOnSet(k, S) + k[y]
    BY <1>1, SumAdd
  <1>3. SumFunctionOnSet(k, S) = SumFunctionOnSet(f, S)
    BY SumCongruent
  <1> QED BY Zenon, <1>2, <1>3

\* A summand left out is subtracted from the sum.
LEMMA SumMinus ==
    ASSUME NEW S, IsFiniteSet(S), NEW y \in S, NEW R, R = S \ {y}, NEW f, NEW k,
           \A x \in S : f[x] \in Int, \A x \in S \ {y} : k[x] = f[x]
    PROVE  SumFunctionOnSet(k, R) = SumFunctionOnSet(f, S) - f[y]
  <1>1. SumFunctionOnSet(f, S) = f[y] + SumFunctionOnSet(f, S \ {y})
    BY SumRemove
  <1>2. IsFiniteSet(S \ {y})
    BY FS_RemoveElement
  <1>3. SumFunctionOnSet(k, R) = SumFunctionOnSet(f, S \ {y})
    BY Zenon, <1>2, SumCongruent
  <1>4. SumFunctionOnSet(f, S \ {y}) \in Int /\ f[y] \in Int
    BY <1>2, SumType
  <1> QED BY <1>1, <1>3, <1>4

\* Changing one summand.
LEMMA SumChange ==
    ASSUME NEW S, IsFiniteSet(S), NEW f, NEW k, NEW y \in S,
           \A x \in S : f[x] \in Int /\ k[x] \in Int, \A x \in S \ {y} : f[x] = k[x]
    PROVE  SumFunctionOnSet(k, S) = (SumFunctionOnSet(f, S) - f[y]) + k[y]
  <1>1. IsFiniteSet(S \ {y})
    BY FS_RemoveElement
  <1>2. SumFunctionOnSet(k, S \ {y}) = SumFunctionOnSet(f, S \ {y})
    BY <1>1, SumCongruent
  <1>3. SumFunctionOnSet(f, S \ {y}) \in Int
    BY <1>1, SumType
  <1>4. /\ SumFunctionOnSet(f, S) = f[y] + SumFunctionOnSet(f, S \ {y})
        /\ SumFunctionOnSet(k, S) = k[y] + SumFunctionOnSet(k, S \ {y})
    BY SumRemove
  <1> QED BY <1>2, <1>3, <1>4

\* A sum of natural numbers is one, and no smaller than the sum over a part.
LEMMA SumOfNaturals ==
    ASSUME NEW S, IsFiniteSet(S), NEW f, \A x \in S : f[x] \in Nat
    PROVE  /\ SumFunctionOnSet(f, S) \in Nat
           /\ \A R \in SUBSET S : SumFunctionOnSet(f, R) <= SumFunctionOnSet(f, S)
  <1>1. \A s \in SUBSET S : IsFiniteSet(s) /\ SumFunctionOnSet(f, s) \in Int
    BY FS_Subset, SumType
  <1>2. ASSUME NEW R \in SUBSET S
        PROVE  SumFunctionOnSet(f, R) <= SumFunctionOnSet(f, S)
    <2> DEFINE P == {s \in SUBSET (S \ R) : SumFunctionOnSet(f, R) <= SumFunctionOnSet(f, R \cup s)}
    <2>1. {} \in P
      <3>1. R \cup {} = R
        OBVIOUS
      <3> QED BY <1>1, <3>1
    <2>2. ASSUME NEW s \in P, NEW x \in (S \ R) \ s PROVE s \cup {x} \in P
      <3>1. (R \cup s) \cup {x} = R \cup (s \cup {x}) /\ x \notin R \cup s /\ IsFiniteSet(R \cup s)
        BY <1>1
      <3>4. \A y \in (R \cup s) \cup {x} : f[y] \in Int
        OBVIOUS
      <3>2. SumFunctionOnSet(f, (R \cup s) \cup {x}) = SumFunctionOnSet(f, R \cup s) + f[x]
        BY <3>1, <3>4, SumAdd
      <3>3. f[x] \in Nat /\ R \cup s \in SUBSET S /\ s \cup {x} \in SUBSET (S \ R)
        OBVIOUS
      <3>5. SumFunctionOnSet(f, R) <= SumFunctionOnSet(f, R \cup s)
        OBVIOUS
      <3>6. SumFunctionOnSet(f, R) <= SumFunctionOnSet(f, R \cup (s \cup {x}))
        <4>1. SumFunctionOnSet(f, R \cup (s \cup {x})) = SumFunctionOnSet(f, R \cup s) + f[x]
          BY Zenon, <3>1, <3>2
        <4>2. SumFunctionOnSet(f, R) \in Int /\ SumFunctionOnSet(f, R \cup s) \in Int
          BY <1>1, <3>3
        <4> HIDE DEF P
        <4> QED BY <3>3, <3>5, <4>1, <4>2
      <3> QED BY <3>3, <3>6
    <2>3. S \ R \in P
      <3>1. P \in SUBSET SUBSET (S \ R) /\ IsFiniteSet(S \ R)
        BY <1>1
      <3> HIDE DEF P
      <3> QED BY <2>1, <2>2, <3>1, FiniteSetInduction
    <2>4. R \cup (S \ R) = S
      OBVIOUS
    <2> QED BY <2>3, <2>4
  <1>3. SumFunctionOnSet(f, {}) = 0
    BY SumEmpty
  <1> QED BY <1>1, <1>2, <1>3

\* A sum is at most the number of its summands times their bound.
LEMMA SumBound ==
    ASSUME NEW S, IsFiniteSet(S), NEW c \in Nat, NEW f, \A x \in S : f[x] \in 0..c
    PROVE  SumFunctionOnSet(f, S) <= c * Cardinality(S)
  <1> DEFINE P == {s \in SUBSET S : SumFunctionOnSet(f, s) <= c * Cardinality(s)}
  <1>1. \A s \in SUBSET S : /\ IsFiniteSet(s) /\ SumFunctionOnSet(f, s) \in Int
                            /\ Cardinality(s) \in Nat
    BY FS_Subset, SumType, FS_CardinalityType
  <1>2. {} \in P
    BY SumEmpty, FS_EmptySet
  <1>3. ASSUME NEW s \in P, NEW x \in S \ s PROVE s \cup {x} \in P
    <2>0. s \in SUBSET S /\ x \notin s /\ \A y \in s \cup {x} : f[y] \in Int
      OBVIOUS
    <2>1. SumFunctionOnSet(f, s \cup {x}) = SumFunctionOnSet(f, s) + f[x]
      BY <1>1, <2>0, SumAdd
    <2>2. Cardinality(s \cup {x}) = Cardinality(s) + 1
      BY <1>1, FS_AddElement
    <2>3. c * (Cardinality(s) + 1) = c * Cardinality(s) + c /\ c * Cardinality(s) \in Nat
      BY <1>1
    <2>4. f[x] \in Nat /\ f[x] <= c
      OBVIOUS
    <2> HIDE DEF P
    <2>5. SumFunctionOnSet(f, s \cup {x}) <= c * Cardinality(s \cup {x})
      BY <1>1, <2>1, <2>2, <2>3, <2>4 DEF P
    <2> QED BY <2>5 DEF P
  <1>4. P \in SUBSET SUBSET S
    OBVIOUS
  <1>5. S \in P
    <2> HIDE DEF P
    <2> QED BY <1>2, <1>3, <1>4, FiniteSetInduction
  <1> QED BY <1>5

\* A sum of smaller summands is smaller.
LEMMA SumMonotone ==
    ASSUME NEW S, IsFiniteSet(S), NEW f, NEW k,
           \A x \in S : f[x] \in Int /\ k[x] \in Int /\ f[x] <= k[x]
    PROVE  SumFunctionOnSet(f, S) <= SumFunctionOnSet(k, S)
  <1> DEFINE P == {s \in SUBSET S : SumFunctionOnSet(f, s) <= SumFunctionOnSet(k, s)}
  <1>1. \A s \in SUBSET S : /\ IsFiniteSet(s) /\ SumFunctionOnSet(f, s) \in Int
                            /\ SumFunctionOnSet(k, s) \in Int
    BY FS_Subset, SumType
  <1>2. {} \in P
    BY SumEmpty
  <1>3. ASSUME NEW s \in P, NEW x \in S \ s PROVE s \cup {x} \in P
    <2>1. /\ s \in SUBSET S /\ x \notin s /\ SumFunctionOnSet(f, s) <= SumFunctionOnSet(k, s)
          /\ \A y \in s \cup {x} : f[y] \in Int /\ k[y] \in Int
      OBVIOUS
    <2>2. SumFunctionOnSet(f, s \cup {x}) = SumFunctionOnSet(f, s) + f[x]
      BY <1>1, <2>1, SumAdd
    <2>3. SumFunctionOnSet(k, s \cup {x}) = SumFunctionOnSet(k, s) + k[x]
      BY <1>1, <2>1, SumAdd
    <2>4. f[x] \in Int /\ k[x] \in Int /\ f[x] <= k[x]
      OBVIOUS
    <2> HIDE DEF P
    <2>5. SumFunctionOnSet(f, s \cup {x}) <= SumFunctionOnSet(k, s \cup {x})
      BY <1>1, <2>1, <2>2, <2>3, <2>4
    <2> QED BY <2>5 DEF P
  <1>4. P \in SUBSET SUBSET S
    OBVIOUS
  <1>5. S \in P
    <2> HIDE DEF P
    <2> QED BY <1>2, <1>3, <1>4, FiniteSetInduction
  <1> QED BY <1>5

=============================================================================
