----------------------------- MODULE ReviewLemmas -----------------------------
(***************************************************************************)
(* Lemmas that the proofs about PsbtReview and Confirmation share:         *)
(* induction over finite sets and over intervals, sums, the order of       *)
(* selected elements, and which outputs the vault protocol counts as own.  *)
(*                                                                         *)
(* Induction is by a smallest counterexample (WFMin), stated for a set of  *)
(* subsets or of numbers instead of a predicate.                           *)
(***************************************************************************)
EXTENDS VaultReturn, FiniteSetTheorems, SequenceTheorems, TLAPS

\* A set of subsets of a finite set has one that contains no other.
LEMMA SmallestSubset ==
    ASSUME NEW S, IsFiniteSet(S), NEW F \in SUBSET SUBSET S, F # {}
    PROVE  \E m \in F : \A u \in F : u \subseteq m => u = m
<1>1. IsWellFoundedOn(StrictSubsetOrdering(S), SUBSET S)
  BY FS_StrictSubsetOrderingWellFounded, FS_FiniteSubsetsOfFinite
<1>2. PICK m \in F : \A u \in F : ~(<<u, m>> \in StrictSubsetOrdering(S))
  BY <1>1, WFMin
<1>3. \A u \in F : u \subseteq m => u = m
  <2> SUFFICES ASSUME NEW u \in F, u \subseteq m, u # m
               PROVE  FALSE
    OBVIOUS
  <2>1. <<u, m>> \in (SUBSET S) \X (SUBSET S)
    OBVIOUS
  <2> QED
    BY <1>2, <2>1 DEF StrictSubsetOrdering
<1> QED
  BY <1>3

\* Induction over a finite set: a set of its subsets that has the empty one,
\* and each with one element more, has the set itself.
LEMMA SubsetInduction ==
    ASSUME NEW S, IsFiniteSet(S), NEW F \in SUBSET SUBSET S, {} \in F,
           \A t \in F : \A x \in S \ t : t \cup {x} \in F
    PROVE  S \in F
<1> SUFFICES ASSUME S \notin F
             PROVE  FALSE
  OBVIOUS
<1> DEFINE G == {t \in SUBSET S : t \notin F}
<1>1. PICK m \in G : \A u \in G : u \subseteq m => u = m
  <2>1. G \in SUBSET SUBSET S /\ S \in G
    OBVIOUS
  <2> HIDE DEF G
  <2> QED
    BY <2>1, SmallestSubset
<1>2. PICK x \in m : TRUE
  BY <1>1
<1>3. m \ {x} \notin G /\ m \ {x} \subseteq S
  BY <1>1, <1>2
<1>4. m \ {x} \in F /\ x \in S \ (m \ {x})
  BY <1>1, <1>2, <1>3
<1>5. m = (m \ {x}) \cup {x}
  BY <1>2
<1> QED
  BY <1>1, <1>4, <1>5

-----------------------------------------------------------------------------
One(s) == CHOOSE x \in s : TRUE

\* The function by which the fold of Functions adds up f over S.
IsIter(g, f, S) ==
    g = [s \in SUBSET S |-> IF s = {} THEN 0 ELSE f[One(s)] + g[s \ {One(s)}]]

\* A sum is a value of that function.
LEMMA SumIsIter ==
    ASSUME NEW f, NEW S
    PROVE  SumFunctionOnSet(f, S) = (CHOOSE g : IsIter(g, f, S))[S]
BY Zenon DEF SumFunctionOnSet, FoldFunctionOnSet, MapThenFoldSet, IsIter, One

\* Its value at a set.
LEMMA IterValue ==
    ASSUME NEW f, NEW S, NEW g, IsIter(g, f, S), NEW s \in SUBSET S
    PROVE  g[s] = IF s = {} THEN 0 ELSE f[One(s)] + g[s \ {One(s)}]
BY DEF IsIter

\* The element taken out is one of the set.
LEMMA OneOf == ASSUME NEW s, s # {} PROVE One(s) \in s
BY DEF One

\* Two such functions agree where both are defined.
LEMMA IterUnique ==
    ASSUME NEW f, NEW S, IsFiniteSet(S), NEW A, NEW B, S \subseteq A, S \subseteq B,
           NEW g, NEW h, IsIter(g, f, A), IsIter(h, f, B)
    PROVE  g[S] = h[S]
<1> SUFFICES ASSUME g[S] # h[S]
             PROVE  FALSE
  OBVIOUS
<1> DEFINE F == {t \in SUBSET S : g[t] # h[t]}
<1>1. PICK m \in F : \A u \in F : u \subseteq m => u = m
  <2>1. F \in SUBSET SUBSET S /\ S \in F
    OBVIOUS
  <2> HIDE DEF F
  <2> QED
    BY <2>1, SmallestSubset
<1>2. /\ g[m] = IF m = {} THEN 0 ELSE f[One(m)] + g[m \ {One(m)}]
      /\ h[m] = IF m = {} THEN 0 ELSE f[One(m)] + h[m \ {One(m)}]
  <2>1. m \in SUBSET A /\ m \in SUBSET B
    BY <1>1
  <2> QED
    BY <2>1, IterValue
<1>3. m # {}
  BY <1>1, <1>2
<1>4. m \ {One(m)} \notin F
  BY <1>1, <1>3, OneOf
<1>5. g[m \ {One(m)}] = h[m \ {One(m)}]
  BY <1>1, <1>4
<1> QED
  BY <1>1, <1>2, <1>3, <1>5

\* There is such a function on every finite set.
LEMMA IterExists ==
    ASSUME NEW f, NEW S, IsFiniteSet(S)
    PROVE  \E g : IsIter(g, f, S)
<1> SUFFICES ASSUME ~ \E g : IsIter(g, f, S)
             PROVE  FALSE
  OBVIOUS
<1> DEFINE F == {t \in SUBSET S : ~ \E g : IsIter(g, f, t)}
<1>1. PICK m \in F : \A u \in F : u \subseteq m => u = m
  <2>1. F \in SUBSET SUBSET S /\ S \in F
    OBVIOUS
  <2> HIDE DEF F
  <2> QED
    BY <2>1, SmallestSubset
<1> DEFINE It(u) == CHOOSE h : IsIter(h, f, u)
           V == [u \in SUBSET m |-> It(u)[u]]
           g == [u \in SUBSET m |-> IF u = {} THEN 0 ELSE f[One(u)] + V[u \ {One(u)}]]
<1>2. \A u \in SUBSET m : u # m => IsFiniteSet(u) /\ IsIter(It(u), f, u)
  <2> SUFFICES ASSUME NEW u \in SUBSET m, u # m
               PROVE  IsFiniteSet(u) /\ IsIter(It(u), f, u)
    OBVIOUS
  <2>1. u \in SUBSET S /\ u \notin F
    BY <1>1
  <2>2. \E h : IsIter(h, f, u)
    BY <2>1
  <2>3. IsFiniteSet(u)
    BY <2>1, FS_Subset
  <2> QED
    BY <2>2, <2>3
<1>3. ASSUME NEW w \in SUBSET m, w # m
      PROVE  V[w] = g[w]
  <2>1. IsIter(It(w), f, w)
    BY <1>2, <1>3
  <2>2. V[w] = IF w = {} THEN 0 ELSE f[One(w)] + It(w)[w \ {One(w)}]
    <3>1. It(w)[w] = IF w = {} THEN 0 ELSE f[One(w)] + It(w)[w \ {One(w)}]
      BY <2>1, IterValue
    <3> QED
      BY <3>1
  <2>3. CASE w = {}
    BY <2>2, <2>3
  <2>4. CASE w # {}
    <3> DEFINE v == w \ {One(w)}
    <3>1. v \in SUBSET m /\ v # m /\ v \subseteq w
      BY <1>3
    <3>2. IsFiniteSet(v) /\ IsIter(It(v), f, v)
      BY <1>2, <3>1
    <3>3. It(w)[v] = It(v)[v]
      <4> HIDE DEF It, v
      <4> QED
        BY <2>1, <3>1, <3>2, IterUnique
    <3>4. V[v] = It(v)[v]
      BY <3>1
    <3>5. g[w] = f[One(w)] + V[v]
      BY <2>4
    <3> HIDE DEF v
    <3> QED
      BY <2>2, <2>4, <3>3, <3>4, <3>5 DEF v
  <2> QED
    BY <2>3, <2>4
<1>4. g = [u \in SUBSET m |-> IF u = {} THEN 0 ELSE f[One(u)] + g[u \ {One(u)}]]
  <2>1. ASSUME NEW u \in SUBSET m, u # {}
        PROVE  V[u \ {One(u)}] = g[u \ {One(u)}]
    <3>1. u \ {One(u)} \in SUBSET m /\ u \ {One(u)} # m
      BY <2>1, OneOf
    <3> HIDE DEF V, g
    <3> QED
      BY <1>3, <3>1
  <2> HIDE DEF V
  <2> QED
    BY <2>1
<1>5. IsIter(g, f, m)
  <2> HIDE DEF V
  <2> QED
    BY <1>4 DEF IsIter
<1> QED
  BY <1>1, <1>5

\* What the fold takes first does not matter: see SumRemove.
LEMMA SumUnfold ==
    ASSUME NEW f, NEW S, IsFiniteSet(S)
    PROVE  SumFunctionOnSet(f, S) =
              IF S = {} THEN 0 ELSE f[One(S)] + SumFunctionOnSet(f, S \ {One(S)})
<1> DEFINE g == CHOOSE m : IsIter(m, f, S)
           R == S \ {One(S)}
           h == CHOOSE m : IsIter(m, f, R)
<1>1. IsFiniteSet(R) /\ R \subseteq S
  BY FS_Subset
<1>2. IsIter(g, f, S) /\ IsIter(h, f, R)
  <2> HIDE DEF R
  <2> QED
    BY <1>1, IterExists
<1>3. g[R] = h[R]
  <2> HIDE DEF g, h, R
  <2> QED
    BY <1>1, <1>2, IterUnique
<1>4. SumFunctionOnSet(f, S) = g[S] /\ SumFunctionOnSet(f, R) = h[R]
  <2> HIDE DEF R
  <2> QED
    BY SumIsIter
<1>5. g[S] = IF S = {} THEN 0 ELSE f[One(S)] + g[R]
  <2> HIDE DEF g
  <2> QED
    BY <1>2, IterValue
<1> QED
  BY <1>3, <1>4, <1>5

-----------------------------------------------------------------------------
\* Complete induction over a finite set.
LEMMA StrongSubsetInduction ==
    ASSUME NEW S, IsFiniteSet(S), NEW F \in SUBSET SUBSET S,
           \A t \in SUBSET S : (\A u \in SUBSET t : u # t => u \in F) => t \in F
    PROVE  S \in F
<1> SUFFICES ASSUME S \notin F
             PROVE  FALSE
  OBVIOUS
<1> DEFINE G == {t \in SUBSET S : t \notin F}
<1>1. PICK m \in G : \A u \in G : u \subseteq m => u = m
  <2>1. G \in SUBSET SUBSET S /\ S \in G
    OBVIOUS
  <2> HIDE DEF G
  <2> QED
    BY <2>1, SmallestSubset
<1>2. m \in SUBSET S /\ m \notin F
  BY <1>1
<1>3. \A u \in SUBSET m : u # m => u \in F
  BY <1>1, <1>2
<1> QED
  BY <1>2, <1>3

\* The sum over nothing.
LEMMA SumEmpty == \A f : SumFunctionOnSet(f, {}) = 0
BY SumUnfold, FS_EmptySet

\* Sums of integers are integers.
LEMMA SumType ==
    ASSUME NEW S, IsFiniteSet(S), NEW f, \A x \in S : f[x] \in Int
    PROVE  SumFunctionOnSet(f, S) \in Int
<1> DEFINE F == {t \in SUBSET S : SumFunctionOnSet(f, t) \in Int}
<1>1. ASSUME NEW t \in SUBSET S, \A u \in SUBSET t : u # t => u \in F
      PROVE  t \in F
  <2>1. IsFiniteSet(t)
    BY FS_Subset
  <2>2. CASE t = {}
    BY <2>2, SumEmpty
  <2>3. CASE t # {}
    <3>1. One(t) \in t /\ t \ {One(t)} \in F
      BY <1>1, <2>3, OneOf
    <3>2. SumFunctionOnSet(f, t) = f[One(t)] + SumFunctionOnSet(f, t \ {One(t)})
      BY <2>1, <2>3, SumUnfold
    <3> QED
      BY <3>1, <3>2
  <2> QED
    BY <2>2, <2>3
<1>2. F \in SUBSET SUBSET S
  OBVIOUS
<1>3. S \in F
  <2> HIDE DEF F
  <2> QED
    BY <1>1, <1>2, StrongSubsetInduction
<1> QED
  BY <1>3

\* A sum is any of its terms and the sum of the others.
LEMMA SumRemove ==
    ASSUME NEW S, IsFiniteSet(S), NEW f, \A x \in S : f[x] \in Int, NEW x \in S
    PROVE  SumFunctionOnSet(f, S) = f[x] + SumFunctionOnSet(f, S \ {x})
<1> DEFINE Splits(t) == \A y \in t : SumFunctionOnSet(f, t) = f[y] + SumFunctionOnSet(f, t \ {y})
           F == {t \in SUBSET S : Splits(t)}
<1>1. ASSUME NEW t \in SUBSET S, \A u \in SUBSET t : u # t => u \in F
      PROVE  Splits(t)
  <2> SUFFICES ASSUME NEW y \in t
               PROVE  SumFunctionOnSet(f, t) = f[y] + SumFunctionOnSet(f, t \ {y})
    OBVIOUS
  <2> DEFINE c == One(t)
  <2>1. c \in t /\ IsFiniteSet(t)
    BY FS_Subset, OneOf
  <2>2. SumFunctionOnSet(f, t) = f[c] + SumFunctionOnSet(f, t \ {c})
    BY <2>1, SumUnfold
  <2>3. CASE y # c
    <3>1. Splits(t \ {c}) /\ Splits(t \ {y})
      BY <1>1, <2>1
    <3>2. SumFunctionOnSet(f, t \ {c}) = f[y] + SumFunctionOnSet(f, (t \ {c}) \ {y})
      BY <2>3, <3>1
    <3>3. SumFunctionOnSet(f, t \ {y}) = f[c] + SumFunctionOnSet(f, (t \ {y}) \ {c})
      BY <2>1, <2>3, <3>1
    <3>4. (t \ {c}) \ {y} = (t \ {y}) \ {c}
      OBVIOUS
    <3>5. SumFunctionOnSet(f, (t \ {c}) \ {y}) \in Int /\ f[c] \in Int /\ f[y] \in Int
      <4>1. IsFiniteSet((t \ {c}) \ {y}) /\ \A z \in (t \ {c}) \ {y} : f[z] \in Int
        BY <2>1, FS_Subset
      <4> QED
        BY <2>1, <4>1, SumType
    <3> DEFINE r == SumFunctionOnSet(f, (t \ {c}) \ {y})
    <3>6. SumFunctionOnSet(f, t \ {c}) = f[y] + r /\ SumFunctionOnSet(f, t \ {y}) = f[c] + r
      <4> HIDE DEF c
      <4> QED
        BY <3>2, <3>3, <3>4
    <3>7. r \in Int /\ f[c] \in Int /\ f[y] \in Int
      BY <3>5
    <3> HIDE DEF c, r
    <3> QED
      BY <2>2, <3>6, <3>7
  <2> QED
    BY <2>2, <2>3
<1>2. F \in SUBSET SUBSET S /\ \A t \in SUBSET S : Splits(t) => t \in F
  OBVIOUS
<1>3. S \in F
  <2> HIDE DEF F, Splits
  <2> QED
    BY <1>1, <1>2, StrongSubsetInduction
<1> QED
  BY <1>3

\* One more summand.
LEMMA SumAdd ==
    ASSUME NEW S, IsFiniteSet(S), NEW x, x \notin S, NEW f, \A y \in S \cup {x} : f[y] \in Int
    PROVE  SumFunctionOnSet(f, S \cup {x}) = f[x] + SumFunctionOnSet(f, S)
<1>1. IsFiniteSet(S \cup {x}) /\ (S \cup {x}) \ {x} = S
  BY FS_AddElement
<1> QED
  BY <1>1, SumRemove

-----------------------------------------------------------------------------
\* Sums of equal terms are equal.
LEMMA SumEqual ==
    ASSUME NEW S, IsFiniteSet(S), NEW f, NEW g, \A x \in S : f[x] \in Int /\ g[x] = f[x]
    PROVE  SumFunctionOnSet(g, S) = SumFunctionOnSet(f, S)
<1> DEFINE F == {t \in SUBSET S : SumFunctionOnSet(g, t) = SumFunctionOnSet(f, t)}
<1>1. {} \in F
  BY SumEmpty
<1>2. ASSUME NEW t \in F, NEW x \in S \ t
      PROVE  t \cup {x} \in F
  <2>1. IsFiniteSet(t)
    BY FS_Subset
  <2>2. /\ SumFunctionOnSet(f, t \cup {x}) = f[x] + SumFunctionOnSet(f, t)
        /\ SumFunctionOnSet(g, t \cup {x}) = g[x] + SumFunctionOnSet(g, t)
    BY <2>1, SumAdd
  <2> QED
    BY <2>2
<1>3. F \in SUBSET SUBSET S
  OBVIOUS
<1>4. S \in F
  <2> HIDE DEF F
  <2> QED
    BY <1>1, <1>2, <1>3, SubsetInduction
<1> QED
  BY <1>4

\* The sum of sums, term by term.
LEMMA SumPlus ==
    ASSUME NEW S, IsFiniteSet(S), NEW f, NEW g, NEW h,
           \A x \in S : f[x] \in Int /\ g[x] \in Int /\ h[x] = f[x] + g[x]
    PROVE  SumFunctionOnSet(h, S) = SumFunctionOnSet(f, S) + SumFunctionOnSet(g, S)
<1> DEFINE F == {t \in SUBSET S : SumFunctionOnSet(h, t) = SumFunctionOnSet(f, t) + SumFunctionOnSet(g, t)}
<1>1. {} \in F
  BY SumEmpty
<1>2. ASSUME NEW t \in F, NEW x \in S \ t
      PROVE  t \cup {x} \in F
  <2>1. IsFiniteSet(t) /\ \A y \in t \cup {x} : h[y] \in Int
    BY FS_Subset
  <2>2. SumFunctionOnSet(f, t \cup {x}) = f[x] + SumFunctionOnSet(f, t)
    BY <2>1, SumAdd
  <2>3. SumFunctionOnSet(g, t \cup {x}) = g[x] + SumFunctionOnSet(g, t)
    BY <2>1, SumAdd
  <2>4. SumFunctionOnSet(h, t \cup {x}) = h[x] + SumFunctionOnSet(h, t)
    BY <2>1, SumAdd
  <2>5. SumFunctionOnSet(f, t) \in Int /\ SumFunctionOnSet(g, t) \in Int
    BY <2>1, SumType
  <2> QED
    BY <2>2, <2>3, <2>4, <2>5
<1>3. F \in SUBSET SUBSET S
  OBVIOUS
<1>4. S \in F
  <2> HIDE DEF F
  <2> QED
    BY <1>1, <1>2, <1>3, SubsetInduction
<1> QED
  BY <1>4

\* Summands that do not decrease make a sum that does not.
LEMMA SumAtMost ==
    ASSUME NEW S, IsFiniteSet(S), NEW f, NEW g,
           \A x \in S : f[x] \in Int /\ g[x] \in Int /\ f[x] <= g[x]
    PROVE  SumFunctionOnSet(f, S) <= SumFunctionOnSet(g, S)
<1> DEFINE F == {t \in SUBSET S : SumFunctionOnSet(f, t) <= SumFunctionOnSet(g, t)}
<1>1. {} \in F
  BY SumEmpty
<1>2. ASSUME NEW t \in F, NEW x \in S \ t
      PROVE  t \cup {x} \in F
  <2>1. IsFiniteSet(t)
    BY FS_Subset
  <2>2. SumFunctionOnSet(f, t \cup {x}) = f[x] + SumFunctionOnSet(f, t)
    BY <2>1, SumAdd
  <2>3. SumFunctionOnSet(g, t \cup {x}) = g[x] + SumFunctionOnSet(g, t)
    BY <2>1, SumAdd
  <2>4. SumFunctionOnSet(f, t) \in Int /\ SumFunctionOnSet(g, t) \in Int
    BY <2>1, SumType
  <2> QED
    BY <2>2, <2>3, <2>4
<1>3. F \in SUBSET SUBSET S
  OBVIOUS
<1>4. S \in F
  <2> HIDE DEF F
  <2> QED
    BY <1>1, <1>2, <1>3, SubsetInduction
<1> QED
  BY <1>4

\* The sum over two sets without a common element.
LEMMA SumUnion ==
    ASSUME NEW S, IsFiniteSet(S), NEW R, IsFiniteSet(R), S \cap R = {},
           NEW f, \A x \in S \cup R : f[x] \in Int
    PROVE  SumFunctionOnSet(f, S \cup R) = SumFunctionOnSet(f, S) + SumFunctionOnSet(f, R)
<1> DEFINE F == {t \in SUBSET S :
                   SumFunctionOnSet(f, t \cup R) = SumFunctionOnSet(f, t) + SumFunctionOnSet(f, R)}
<1>0. SumFunctionOnSet(f, R) \in Int
  BY SumType
<1>1. {} \in F
  <2>1. {} \cup R = R
    OBVIOUS
  <2> QED
    BY <1>0, <2>1, SumEmpty
<1>2. ASSUME NEW t \in F, NEW x \in S \ t
      PROVE  t \cup {x} \in F
  <2>1. IsFiniteSet(t) /\ IsFiniteSet(t \cup R)
    BY FS_Subset, FS_Union
  <2>2. SumFunctionOnSet(f, t \cup {x}) = f[x] + SumFunctionOnSet(f, t)
    BY <2>1, SumAdd
  <2>3. x \notin t \cup R /\ (t \cup R) \cup {x} = (t \cup {x}) \cup R
    OBVIOUS
  <2>4. SumFunctionOnSet(f, (t \cup R) \cup {x}) = f[x] + SumFunctionOnSet(f, t \cup R)
    BY <2>1, <2>3, SumAdd
  <2>5. SumFunctionOnSet(f, t) \in Int
    BY <2>1, SumType
  <2>6. SumFunctionOnSet(f, (t \cup {x}) \cup R)
          = SumFunctionOnSet(f, t \cup {x}) + SumFunctionOnSet(f, R)
    <3>1. SumFunctionOnSet(f, t \cup R) = SumFunctionOnSet(f, t) + SumFunctionOnSet(f, R)
      OBVIOUS
    <3>2. f[x] \in Int
      OBVIOUS
    <3>3. SumFunctionOnSet(f, (t \cup {x}) \cup R) = f[x] + SumFunctionOnSet(f, t \cup R)
      <4> HIDE DEF F
      <4> QED
        BY <2>3, <2>4
    <3> HIDE DEF F
    <3> QED
      BY <1>0, <2>2, <2>5, <3>1, <3>2, <3>3
  <2> QED
    BY <2>6
<1>3. F \in SUBSET SUBSET S
  OBVIOUS
<1>4. S \in F
  <2> HIDE DEF F
  <2> QED
    BY <1>1, <1>2, <1>3, SubsetInduction
<1> QED
  BY <1>4

\* Sums of naturals are naturals.
LEMMA SumNatural ==
    ASSUME NEW S, IsFiniteSet(S), NEW f, \A x \in S : f[x] \in Nat
    PROVE  SumFunctionOnSet(f, S) \in Nat
<1> DEFINE F == {t \in SUBSET S : SumFunctionOnSet(f, t) \in Nat}
<1>1. {} \in F
  BY SumEmpty
<1>2. ASSUME NEW t \in F, NEW x \in S \ t
      PROVE  t \cup {x} \in F
  <2>1. IsFiniteSet(t) /\ \A y \in t \cup {x} : f[y] \in Int
    BY FS_Subset
  <2>2. SumFunctionOnSet(f, t \cup {x}) = f[x] + SumFunctionOnSet(f, t)
    BY <2>1, SumAdd
  <2> QED
    BY <2>2
<1>3. F \in SUBSET SUBSET S
  OBVIOUS
<1>4. S \in F
  <2> HIDE DEF F
  <2> QED
    BY <1>1, <1>2, <1>3, SubsetInduction
<1> QED
  BY <1>4

\* Terms that are not negative only add to a sum.
LEMMA SumSubset ==
    ASSUME NEW S, IsFiniteSet(S), NEW R \in SUBSET S, NEW f, \A x \in S : f[x] \in Int,
           \A x \in S \ R : f[x] >= 0
    PROVE  SumFunctionOnSet(f, R) <= SumFunctionOnSet(f, S)
<1>1. IsFiniteSet(R) /\ IsFiniteSet(S \ R) /\ R \cup (S \ R) = S /\ R \cap (S \ R) = {}
  BY FS_Subset
<1>2. SumFunctionOnSet(f, S) = SumFunctionOnSet(f, R) + SumFunctionOnSet(f, S \ R)
  BY <1>1, SumUnion
<1>3. SumFunctionOnSet(f, S \ R) \in Nat /\ SumFunctionOnSet(f, R) \in Int
  BY <1>1, SumNatural, SumType
<1> QED
  BY <1>2, <1>3

\* Terms that are zero can be left out.
LEMMA SumNonZero ==
    ASSUME NEW S, IsFiniteSet(S), NEW R \in SUBSET S, NEW f, \A x \in S : f[x] \in Int,
           \A x \in S \ R : f[x] = 0
    PROVE  SumFunctionOnSet(f, S) = SumFunctionOnSet(f, R)
<1> DEFINE F == {t \in SUBSET (S \ R) : SumFunctionOnSet(f, t) = 0}
<1>1. IsFiniteSet(R) /\ IsFiniteSet(S \ R) /\ R \cup (S \ R) = S /\ R \cap (S \ R) = {}
  BY FS_Subset
<1>2. S \ R \in F
  <2>1. {} \in F
    BY SumEmpty
  <2>2. ASSUME NEW t \in F, NEW x \in (S \ R) \ t
        PROVE  t \cup {x} \in F
    <3>1. IsFiniteSet(t)
      BY <1>1, FS_Subset
    <3>2. SumFunctionOnSet(f, t \cup {x}) = f[x] + SumFunctionOnSet(f, t)
      BY <3>1, SumAdd
    <3> QED
      BY <3>2
  <2>3. F \in SUBSET SUBSET (S \ R)
    OBVIOUS
  <2> HIDE DEF F
  <2> QED
    BY <1>1, <2>1, <2>2, <2>3, SubsetInduction
<1>3. SumFunctionOnSet(f, S) = SumFunctionOnSet(f, R) + SumFunctionOnSet(f, S \ R)
  BY <1>1, SumUnion
<1>4. SumFunctionOnSet(f, R) \in Int
  BY <1>1, SumType
<1> QED
  BY <1>2, <1>3, <1>4

\* The pairs of k and an element of X, and those of each k of K and one of X[k].
PairsOf(k, X) == {k} \X X
PairsIn(K, X) == UNION {PairsOf(k, X[k]) : k \in K}

\* A sum over pairs whose first element is k.
LEMMA SumOfOne ==
    ASSUME NEW X, IsFiniteSet(X), NEW k, NEW f, NEW g,
           \A i \in X : f[<<k, i>>] \in Int /\ g[i] = f[<<k, i>>]
    PROVE  IsFiniteSet(PairsOf(k, X)) /\ SumFunctionOnSet(f, PairsOf(k, X)) = SumFunctionOnSet(g, X)
<1> DEFINE Same(t) == /\ IsFiniteSet({k} \X t)
                      /\ SumFunctionOnSet(f, {k} \X t) = SumFunctionOnSet(g, t)
           F == {t \in SUBSET X : Same(t)}
<1>1. {} \in F
  <2>1. {k} \X {} = {}
    OBVIOUS
  <2> QED
    BY <2>1, SumEmpty, FS_EmptySet
<1>2. ASSUME NEW t \in F, NEW i \in X \ t
      PROVE  t \cup {i} \in F
  <2>1. IsFiniteSet(t) /\ \A j \in t \cup {i} : g[j] \in Int
    BY FS_Subset
  <2>2. SumFunctionOnSet(g, t \cup {i}) = g[i] + SumFunctionOnSet(g, t)
    BY <2>1, SumAdd
  <2>3. {k} \X (t \cup {i}) = ({k} \X t) \cup {<<k, i>>}
    OBVIOUS
  <2>4. /\ IsFiniteSet({k} \X t) /\ <<k, i>> \notin {k} \X t
        /\ \A y \in ({k} \X t) \cup {<<k, i>>} : f[y] \in Int
    OBVIOUS
  <2>5. /\ IsFiniteSet(({k} \X t) \cup {<<k, i>>})
        /\ SumFunctionOnSet(f, ({k} \X t) \cup {<<k, i>>}) = f[<<k, i>>] + SumFunctionOnSet(f, {k} \X t)
    <3> HIDE DEF F
    <3> QED
      BY <2>4, SumAdd, FS_AddElement
  <2>6. SumFunctionOnSet(f, {k} \X t) = SumFunctionOnSet(g, t) /\ g[i] = f[<<k, i>>]
    OBVIOUS
  <2>7. Same(t \cup {i})
    BY <2>2, <2>3, <2>5, <2>6
  <2> QED
    BY <2>7
<1>3. F \in SUBSET SUBSET X /\ \A t \in F : Same(t)
  OBVIOUS
<1>4. X \in F
  <2> HIDE DEF F, Same
  <2> QED
    BY <1>1, <1>2, <1>3, SubsetInduction
<1> QED
  BY <1>4 DEF PairsOf

\* A sum over pairs is the sum of the sums over their second elements.
LEMMA SumNested ==
    ASSUME NEW K, IsFiniteSet(K), NEW X, NEW f, NEW h,
           \A k \in K : IsFiniteSet(X[k]),
           \A k \in K : \A i \in X[k] : f[<<k, i>>] \in Int,
           \A k \in K : h[k] = SumFunctionOnSet(f, PairsOf(k, X[k]))
    PROVE  /\ IsFiniteSet(PairsIn(K, X))
           /\ SumFunctionOnSet(f, PairsIn(K, X)) = SumFunctionOnSet(h, K)
<1> USE DEF PairsOf
<1> DEFINE Pairs(t) == UNION {{k} \X X[k] : k \in t}
           Same(t) == /\ IsFiniteSet(Pairs(t))
                      /\ SumFunctionOnSet(f, Pairs(t)) = SumFunctionOnSet(h, t)
           F == {t \in SUBSET K : Same(t)}
<1>1. {} \in F
  <2>1. Pairs({}) = {}
    OBVIOUS
  <2> QED
    BY <2>1, SumEmpty, FS_EmptySet
<1>2. \A k \in K : IsFiniteSet({k} \X X[k]) /\ h[k] \in Int
  <2> SUFFICES ASSUME NEW k \in K
               PROVE  IsFiniteSet({k} \X X[k]) /\ h[k] \in Int
    OBVIOUS
  <2>1. IsFiniteSet({k} \X X[k])
    BY FS_EmptySet, FS_Singleton, FS_Product
  <2>2. \A y \in {k} \X X[k] : f[y] \in Int
    OBVIOUS
  <2>3. SumFunctionOnSet(f, {k} \X X[k]) \in Int
    BY <2>1, <2>2, SumType
  <2> QED
    BY <2>1, <2>3
<1>3. ASSUME NEW t \in F, NEW k \in K \ t
      PROVE  t \cup {k} \in F
  <2> DEFINE P == Pairs(t)
             N == {k} \X X[k]
  <2>1. IsFiniteSet(t) /\ \A j \in t \cup {k} : h[j] \in Int
    BY <1>2, FS_Subset
  <2>2. SumFunctionOnSet(h, t \cup {k}) = h[k] + SumFunctionOnSet(h, t)
    <3> HIDE DEF F
    <3> QED
      BY <2>1, SumAdd
  <2>3. Pairs(t \cup {k}) = P \cup N /\ P \cap N = {}
    OBVIOUS
  <2>4. \A y \in P \cup N : f[y] \in Int
    OBVIOUS
  <2>5. /\ IsFiniteSet(P) /\ SumFunctionOnSet(f, P) = SumFunctionOnSet(h, t)
        /\ IsFiniteSet(N) /\ h[k] = SumFunctionOnSet(f, N)
    BY <1>2
  <2>6. SumFunctionOnSet(h, t) \in Int /\ h[k] \in Int
    BY <2>1, SumType
  <2>7. IsFiniteSet(P \cup N) /\ SumFunctionOnSet(f, P \cup N) = SumFunctionOnSet(h, t \cup {k})
    <3> HIDE DEF F, Pairs, P, N
    <3>1. IsFiniteSet(P \cup N)
      BY <2>5, FS_Union
    <3>2. SumFunctionOnSet(f, P \cup N) = SumFunctionOnSet(f, P) + SumFunctionOnSet(f, N)
      BY <2>3, <2>4, <2>5, SumUnion
    <3> QED
      BY <2>2, <2>5, <2>6, <3>1, <3>2
  <2>8. Same(t \cup {k})
    <3> HIDE DEF P, N, Pairs, F
    <3> QED
      BY <2>3, <2>7
  <2> QED
    BY <2>8
<1>4. F \in SUBSET SUBSET K /\ \A t \in F : Same(t)
  OBVIOUS
<1>5. K \in F
  <2> HIDE DEF F, Same
  <2> QED
    BY <1>1, <1>3, <1>4, SubsetInduction
<1> QED
  BY <1>5 DEF PairsIn

\* The same, with the inner sums over the second elements themselves.
LEMMA SumPairs ==
    ASSUME NEW K, IsFiniteSet(K), NEW X, NEW f, NEW g, NEW h,
           \A k \in K : IsFiniteSet(X[k]),
           \A k \in K : \A i \in X[k] : f[<<k, i>>] \in Int,
           \A k \in K : \A i \in X[k] : g[k][i] = f[<<k, i>>],
           \A k \in K : h[k] = SumFunctionOnSet(g[k], X[k])
    PROVE  /\ IsFiniteSet(PairsIn(K, X))
           /\ SumFunctionOnSet(f, PairsIn(K, X)) = SumFunctionOnSet(h, K)
<1>1. \A k \in K : h[k] = SumFunctionOnSet(f, PairsOf(k, X[k]))
  <2> SUFFICES ASSUME NEW k \in K
               PROVE  h[k] = SumFunctionOnSet(f, PairsOf(k, X[k]))
    OBVIOUS
  <2>1. /\ IsFiniteSet(X[k])
        /\ \A i \in X[k] : f[<<k, i>>] \in Int /\ g[k][i] = f[<<k, i>>]
    OBVIOUS
  <2>2. SumFunctionOnSet(f, PairsOf(k, X[k])) = SumFunctionOnSet(g[k], X[k])
    BY <2>1, SumOfOne
  <2> QED
    BY <2>2
<1> QED
  BY <1>1, SumNested

\* The sum over one element.
LEMMA SumSingle ==
    ASSUME NEW x, NEW f, f[x] \in Int
    PROVE  SumFunctionOnSet(f, {x}) = f[x]
<1>1. SumFunctionOnSet(f, {} \cup {x}) = f[x] + SumFunctionOnSet(f, {})
  BY SumAdd, FS_EmptySet
<1> QED
  BY <1>1, SumEmpty

-----------------------------------------------------------------------------
\* A set of numbers has a least element.
LEMMA Least ==
    ASSUME NEW I \in SUBSET Nat, I # {}
    PROVE  \E x \in I : \A y \in I : x <= y
<1> DEFINE T == {0 .. x : x \in I}
<1>0. \A x \in I : IsFiniteSet(0 .. x) /\ 0 .. x \in SUBSET Nat
  <2> SUFFICES ASSUME NEW x \in I
               PROVE  IsFiniteSet(0 .. x) /\ 0 .. x \in SUBSET Nat
    OBVIOUS
  <2>1. 0 \in Int /\ x \in Int
    OBVIOUS
  <2>2. IsFiniteSet(0 .. x)
    BY <2>1, FS_Interval
  <2> QED
    BY <2>2
<1>1. T \subseteq FiniteSubsetsOf(Nat) /\ T # {}
  BY <1>0 DEF FiniteSubsetsOf
<1>2. PICK t \in T : \A u \in T : ~(<<u, t>> \in StrictSubsetOrdering(Nat))
  BY <1>1, FS_StrictSubsetOrderingWellFounded, WFMin
<1>3. PICK x \in I : t = 0 .. x
  BY <1>2
<1>4. ASSUME NEW y \in I, y < x
      PROVE  FALSE
  <2>1. 0 .. y \in T /\ <<0 .. y, t>> \in (SUBSET Nat) \X (SUBSET Nat)
    BY <1>3
  <2>2. 0 .. y \subseteq t /\ x \in t /\ x \notin 0 .. y
    BY <1>3, <1>4
  <2> QED
    BY <1>2, <2>1, <2>2 DEF StrictSubsetOrdering
<1>5. \A y \in I : x <= y
  BY <1>4
<1> QED
  BY <1>5

\* Induction over an interval.
LEMMA IntervalInduction ==
    ASSUME NEW n \in Nat, NEW F, 0 \in F, \A j \in 1 .. n : j - 1 \in F => j \in F
    PROVE  \A j \in 0 .. n : j \in F
<1> SUFFICES ASSUME NEW i \in 0 .. n, i \notin F
             PROVE  FALSE
  OBVIOUS
<1> DEFINE I == {j \in 0 .. n : j \notin F}
<1>1. PICK x \in I : \A y \in I : x <= y
  <2>1. I \in SUBSET Nat /\ I # {}
    OBVIOUS
  <2> HIDE DEF I
  <2> QED
    BY <2>1, Least
<1>2. x # 0 /\ x \in 1 .. n /\ x - 1 \in 0 .. n
  BY <1>1
<1>3. x - 1 \notin I
  BY <1>1, <1>2
<1> QED
  BY <1>1, <1>2, <1>3

\* A finite set of numbers has a greatest element.
LEMMA Greatest ==
    ASSUME NEW S \in SUBSET Int, IsFiniteSet(S), S # {}
    PROVE  \E x \in S : \A y \in S : y <= x
<1> DEFINE Has(t) == t # {} => \E x \in t : \A y \in t : y <= x
           F == {t \in SUBSET S : Has(t)}
<1>1. {} \in F
  OBVIOUS
<1>2. ASSUME NEW t \in F, NEW z \in S \ t
      PROVE  t \cup {z} \in F
  <2>1. CASE t = {}
    BY <2>1
  <2>2. CASE t # {}
    <3>1. PICK x \in t : \A y \in t : y <= x
      BY <2>2
    <3>2. CASE x <= z
      <4>1. \A y \in t \cup {z} : y <= z
        BY <3>1, <3>2
      <4> QED
        BY <4>1
    <3>3. CASE ~(x <= z)
      <4>1. \A y \in t \cup {z} : y <= x
        BY <3>1, <3>3
      <4> QED
        BY <4>1
    <3> QED
      BY <3>2, <3>3
  <2> QED
    BY <2>1, <2>2
<1>3. F \in SUBSET SUBSET S /\ \A t \in F : Has(t)
  OBVIOUS
<1>4. S \in F
  <2> HIDE DEF F, Has
  <2> QED
    BY <1>1, <1>2, <1>3, SubsetInduction
<1> QED
  BY <1>4

\* The k-th of a finite set of numbers, counted from the least.
LEMMA Ranked ==
    ASSUME NEW S \in SUBSET Int, IsFiniteSet(S), NEW k \in 1 .. Cardinality(S)
    PROVE  \E n \in S : Cardinality({m \in S : m <= n}) = k
<1> DEFINE Has(t) == \A i \in 1 .. Cardinality(t) : \E n \in t : Cardinality({m \in t : m <= n}) = i
           F == {t \in SUBSET S : Has(t)}
<1>1. ASSUME NEW t \in SUBSET S, \A u \in SUBSET t : u # t => u \in F
      PROVE  t \in F
  <2> SUFFICES ASSUME NEW i \in 1 .. Cardinality(t)
               PROVE  \E n \in t : Cardinality({m \in t : m <= n}) = i
    OBVIOUS
  <2>1. IsFiniteSet(t) /\ Cardinality(t) \in Nat /\ t \in SUBSET Int
    BY FS_Subset, FS_CardinalityType
  <2>2. t # {}
    BY FS_EmptySet
  <2>3. PICK x \in t : \A y \in t : y <= x
    BY <2>1, <2>2, Greatest
  <2>4. CASE i = Cardinality(t)
    <3>1. {m \in t : m <= x} = t
      BY <2>3
    <3> QED
      BY <2>3, <2>4, <3>1
  <2>5. CASE i # Cardinality(t)
    <3> DEFINE u == t \ {x}
    <3>1. IsFiniteSet(u) /\ Cardinality(u) = Cardinality(t) - 1
      BY <2>1, FS_RemoveElement
    <3>2. u \in F /\ i \in 1 .. Cardinality(u)
      BY <1>1, <2>1, <2>5, <3>1
    <3>3. PICK n \in u : Cardinality({m \in u : m <= n}) = i
      BY <3>2
    <3>4. {m \in t : m <= n} = {m \in u : m <= n}
      BY <2>1, <2>3, <3>3
    <3> QED
      BY <3>3, <3>4
  <2> QED
    BY <2>4, <2>5
<1>2. F \in SUBSET SUBSET S
  OBVIOUS
<1>3. S \in F
  <2> HIDE DEF F
  <2> QED
    BY <1>1, <1>2, StrongSubsetInduction
<1> QED
  BY <1>3

-----------------------------------------------------------------------------
(* What the vault protocol counts as own.                                  *)

PaysVault(data, outputs, acct) ==
    /\ data.vaultOutputIndex \in 0 .. Len(outputs) - 1
    /\ OutputRole(acct, OutputAt(outputs, data.vaultOutputIndex).script) = "vault"

\* A vault state as it is decoded, before it is bound to the protocol.
DecodedState(data, outputs, acct) ==
    /\ {"flag", "balance", "price", "vaultOutputIndex", "bound"} \subseteq DOMAIN data
    /\ data.bound = FALSE
    /\ data.balance \in Nat
    /\ data.vaultOutputIndex # None => PaysVault(data, outputs, acct)
    /\ data.guardians # None => DOMAIN data.guardians # {}

\* The collateral inferred is an output that pays the vault address.
LEMMA CollateralPaysVault ==
    ASSUME NEW outputs, Parsed(outputs), NEW acct, NEW action, action.index \in Int,
           inferVaultCollateral(action, outputs, acct) # None
    PROVE  LET index == inferVaultCollateral(action, outputs, acct) IN
           /\ index \in 0 .. Len(outputs) - 1
           /\ OutputRole(acct, OutputAt(outputs, index).script) = "vault"
<1>1. /\ inferVaultCollateral(action, outputs, acct) = action.index
      /\ HasOutput(outputs, action.index)
      /\ OutputRole(acct, OutputAt(outputs, action.index).script) = "vault"
  BY DEF inferVaultCollateral
<1>2. action.index + 1 \in 1 .. Len(outputs) /\ Len(outputs) \in Nat
  BY <1>1 DEF HasOutput, Parsed
<1> QED
  BY <1>1, <1>2

\* A state decoded from the legacy format.
LEMMA LegacyState ==
    ASSUME NEW outputs, Parsed(outputs), NEW acct, NEW action, action.index \in Int,
           NEW n, NEW p \in ReturnPayload,
           decodeLegacy(p, action, n, outputs, acct) # None
    PROVE  DecodedState(decodeLegacy(p, action, n, outputs, acct), outputs, acct)
<1> DEFINE index == inferVaultCollateral(action, outputs, acct)
           legacy == decodeLegacy(p, action, n, outputs, acct)
<1>1. legacy = [Return(action, n, p, outputs, acct) EXCEPT !.price = p.price]
  BY DEF decodeLegacy
<1>2. /\ {"flag", "balance", "price", "vaultOutputIndex", "bound"} \subseteq DOMAIN legacy
      /\ legacy.vaultOutputIndex = index /\ legacy.guardians = None /\ legacy.bound = FALSE
      /\ legacy.flag = action.flag /\ legacy.balance \in Nat
  BY <1>1 DEF Return, ReturnPayload
<1> HIDE DEF index, legacy
<1>3. legacy.vaultOutputIndex # None => PaysVault(legacy, outputs, acct)
  BY <1>2, CollateralPaysVault DEF PaysVault, index
<1>4. DecodedState(legacy, outputs, acct)
  BY <1>2, <1>3 DEF DecodedState
<1> QED
  BY <1>4 DEF legacy

\* A state decoded from the core format.
LEMMA CoreState ==
    ASSUME NEW outputs, Parsed(outputs), NEW acct, NEW action, action.index \in Int,
           NEW n, NEW p \in ReturnPayload,
           p.second \in 1 .. 3 => DOMAIN p.guardians # {},
           decodeCore(p, action, n, outputs, acct) # None
    PROVE  DecodedState(decodeCore(p, action, n, outputs, acct), outputs, acct)
<1> DEFINE index == inferVaultCollateral(action, outputs, acct)
           bare == [Return(action, n, [p EXCEPT !.balance = 0], outputs, acct)
                        EXCEPT !.hashes = <<>>, !.guardians = p.guardians]
           core == decodeCore(p, action, n, outputs, acct)
<1>1. /\ DOMAIN p.guardians # {}
      /\ \/ core = bare
         \/ \E lowest, hashes :
              core = [bare EXCEPT !.balance = p.balance, !.locked = p.balance > 0,
                                  !.price = lowest, !.hashes = hashes]
  BY DEF decodeCore
<1>2. /\ {"flag", "balance", "price", "vaultOutputIndex", "bound", "guardians"} \subseteq DOMAIN bare
      /\ bare.vaultOutputIndex = index /\ bare.guardians = p.guardians /\ bare.bound = FALSE
      /\ bare.flag = action.flag /\ bare.balance = 0 /\ p.balance \in Nat
  BY DEF Return, ReturnPayload
<1> HIDE DEF index, bare, core
<1>3. /\ {"flag", "balance", "price", "vaultOutputIndex", "bound"} \subseteq DOMAIN core
      /\ core.vaultOutputIndex = index /\ core.guardians = p.guardians /\ core.bound = FALSE
      /\ core.balance \in Nat
  <2>1. CASE core = bare
    BY <1>2, <2>1
  <2>2. CASE core # bare
    <3>1. PICK lowest, hashes :
            core = [bare EXCEPT !.balance = p.balance, !.locked = p.balance > 0,
                                !.price = lowest, !.hashes = hashes]
      BY <1>1, <2>2
    <3>2. DOMAIN core = DOMAIN bare
      BY <3>1
    <3>3. core.balance = p.balance
      BY <1>2, <3>1
    <3>4. /\ core.vaultOutputIndex = bare.vaultOutputIndex /\ core.guardians = bare.guardians
          /\ core.bound = bare.bound
      BY <1>2, <3>1
    <3> QED
      BY <1>2, <3>2, <3>3, <3>4
  <2> QED
    BY <2>1, <2>2
<1>4. core.vaultOutputIndex # None => PaysVault(core, outputs, acct)
  BY <1>3, CollateralPaysVault DEF PaysVault, index
<1>5. DecodedState(core, outputs, acct)
  BY <1>1, <1>3, <1>4 DEF DecodedState
<1> QED
  BY <1>5 DEF core

\* A state decoded from a return output, in either format.
LEMMA DecodeState ==
    ASSUME NEW tx, Parsed(tx.outputs), NEW acct, NEW n \in ReturnIndexes(tx, acct)
    PROVE  DecodedState(decodeReturn(tx, n, acct), tx.outputs, acct)
<1> DEFINE p == OutputAt(tx.outputs, n).script.payload
           action == SequenceAction(tx.sequences)
           core == decodeCore(p, action, n, tx.outputs, acct)
           legacy == legacyVaultAction(CHOOSE flag \in DOMAIN FlagByte : FlagByte[flag] = p.second)
           data == decodeReturn(tx, n, acct)
<1>1. /\ p # None /\ data # None
      /\ \/ action # None /\ core # None /\ data = core
         \/ action # None /\ data = decodeLegacy(p, action, n, tx.outputs, acct)
         \/ data = decodeLegacy(p, legacy, n, tx.outputs, acct)
  BY DEF decodeReturn, ReturnIndexes
<1>2. legacy.index \in Int
  BY DEF legacyVaultAction, LegacyVaultOutputIndex
<1>3. action # None => action.index \in Int
  BY DEF SequenceAction, VaultOutputIndex
<1>4. /\ p \in ReturnPayload
      /\ p.second \in 1 .. 3 => DOMAIN p.guardians # {}
  <2>1. n + 1 \in DOMAIN tx.outputs /\ IsReturn(OutputAt(tx.outputs, n).script)
    BY DEF ReturnIndexes, Parsed
  <2> QED
    BY <1>1, <2>1 DEF Parsed, OutputAt
<1> HIDE DEF p, action, core, legacy, data
<1>5. CASE action # None /\ core # None /\ data = core
  BY <1>3, <1>4, <1>5, CoreState DEF core, data
<1>6. CASE action # None /\ data = decodeLegacy(p, action, n, tx.outputs, acct)
  BY <1>1, <1>3, <1>4, <1>6, LegacyState DEF data
<1>7. CASE data = decodeLegacy(p, legacy, n, tx.outputs, acct)
  BY <1>1, <1>2, <1>4, <1>7, LegacyState DEF data
<1> QED
  BY <1>1, <1>5, <1>6, <1>7

\* The action that sequences name is one of the protocol's.
LEMMA NamedAction ==
    ASSUME NEW sequences, DOMAIN sequences \subseteq Nat, SequenceAction(sequences) # None
    PROVE  SequenceAction(sequences).flag \in DOMAIN FlagByte
<1> DEFINE carriers == {i \in DOMAIN sequences : CarriesAction(sequences[i])}
           i == CHOOSE i \in carriers : \A j \in carriers : i <= j
           code == MetadataCode(sequences[i])
<1>1. carriers # {} /\ SequenceAction(sequences).flag = ActionCodes[code]
  BY DEF SequenceAction
<1>2. code \in {161} \cup 163 .. 169
  <2>1. carriers \in SUBSET Nat
    OBVIOUS
  <2> HIDE DEF carriers
  <2>2. i \in carriers
    BY <1>1, <2>1, Least
  <2> QED
    BY <2>2 DEF carriers, CarriesAction, ActionCodes
<1> HIDE DEF code
<1>3. code \in {161, 163, 164, 165, 166, 167, 168, 169}
  BY <1>2
<1>4. ActionCodes[code] \in DOMAIN FlagByte
  BY <1>3 DEF ActionCodes, FlagByte
<1> QED
  BY <1>1, <1>4

\* Its action is one of the protocol's.
LEMMA DecodedFlag ==
    ASSUME NEW tx, DOMAIN tx.sequences \subseteq Nat, NEW acct, NEW n, decodeReturn(tx, n, acct) # None
    PROVE  decodeReturn(tx, n, acct).flag \in DOMAIN FlagByte
<1> DEFINE p == OutputAt(tx.outputs, n).script.payload
           action == SequenceAction(tx.sequences)
           core == decodeCore(p, action, n, tx.outputs, acct)
           legacy == legacyVaultAction(CHOOSE flag \in DOMAIN FlagByte : FlagByte[flag] = p.second)
           data == decodeReturn(tx, n, acct)
<1>1. \/ action # None /\ core # None /\ data = core
      \/ action # None /\ data # None /\ data = decodeLegacy(p, action, n, tx.outputs, acct)
      \/ /\ legacy.flag \in DOMAIN FlagByte
         /\ data # None /\ data = decodeLegacy(p, legacy, n, tx.outputs, acct)
  BY DEF decodeReturn, legacyVaultAction
<1>2. action # None => action.flag \in DOMAIN FlagByte
  BY NamedAction
<1>3. \A a : decodeLegacy(p, a, n, tx.outputs, acct) # None =>
                 decodeLegacy(p, a, n, tx.outputs, acct).flag = a.flag
  BY DEF decodeLegacy, Return
<1>4. core # None => core.flag = action.flag
  <2> DEFINE bare == [Return(action, n, [p EXCEPT !.balance = 0], tx.outputs, acct)
                          EXCEPT !.hashes = <<>>, !.guardians = p.guardians]
  <2>1. "flag" \in DOMAIN bare /\ bare.flag = action.flag
    BY DEF Return
  <2>2. core # None =>
            \/ core = bare
            \/ \E lowest, hashes :
                 core = [bare EXCEPT !.balance = p.balance, !.locked = p.balance > 0,
                                     !.price = lowest, !.hashes = hashes]
    BY DEF decodeCore
  <2> HIDE DEF bare, core, action, p
  <2> QED
    BY <2>1, <2>2
<1> HIDE DEF action, core, legacy, data, p
<1> QED
  BY <1>1, <1>2, <1>3, <1>4 DEF data

OwnScriptOf(acct, script) ==
    \/ script \in {OutputScriptForRole(acct, role) : role \in Roles}
    \/ IsTaproot(script) /\ \E g \in Keys : BagIn(CosignHead(acct.vault, g), script.leaves)

\* An output that pays an address of the account is its own.
LEMMA RoleIsOwn ==
    ASSUME NEW acct, NEW script, OutputRole(acct, script) \in Roles
    PROVE  OwnScriptOf(acct, script)
  BY DEF OutputRole, OwnScriptOf, Roles

\* The tree a vault output is bound to has a leaf of the account's key and each
\* of its guardians.
LEMMA TreeHasCosign ==
    ASSUME NEW client, NEW guardians, NEW hashes, NEW g \in guardians
    PROVE  LET script == vaultOutputScript(client, guardians, hashes) IN
           IsTaproot(script) /\ BagIn(CosignHead(client, g), script.leaves)
<1> DEFINE heads == {CosignHead(client, k) : k \in guardians}
           unlocked == Taproot(NUMS, heads)
           byHash == [leaf \in {HashLeaf(hashes[i], k) : i \in DOMAIN hashes, k \in guardians} |->
                         Cardinality({i \in DOMAIN hashes : hashes[i] = leaf[3]})]
<1>1. vaultOutputScript(client, guardians, hashes)
        = [unlocked EXCEPT !.leaves = unlocked.leaves (+) byHash]
  BY DEF vaultOutputScript
<1>2. unlocked = [type |-> "p2tr", internal |-> NUMS, leaves |-> SetToBag(heads)]
  BY DEF Taproot
<1>3. DOMAIN SetToBag(heads) = heads
  BY DEF SetToBag
<1>4. CosignHead(client, g) \in heads
  OBVIOUS
<1> HIDE DEF heads, byHash, unlocked
<1>5. heads \subseteq DOMAIN (SetToBag(heads) (+) byHash)
  BY <1>3 DEF (+)
<1>6. vaultOutputScript(client, guardians, hashes)
        = [type |-> "p2tr", internal |-> NUMS, leaves |-> SetToBag(heads) (+) byHash]
  BY <1>1, <1>2
<1> QED
  BY <1>4, <1>5, <1>6 DEF IsTaproot, BagIn, BagToSet

\* Binding a state changes nothing but its output.
LEMMA BindKeeps ==
    ASSUME NEW outputs, NEW acct, NEW protocol, NEW data, DecodedState(data, outputs, acct)
    PROVE  LET state == bindVaultOutput(data, outputs, acct, protocol)
           IN  state.flag = data.flag /\ state.balance = data.balance
<1>1. /\ "flag" \in DOMAIN data /\ "balance" \in DOMAIN data
      /\ "vaultOutputIndex" \in DOMAIN data /\ "bound" \in DOMAIN data
  BY DEF DecodedState
<1> QED
  BY <1>1 DEF bindVaultOutput

\* Binding a decoded state to the protocol leaves it naming an own output.
LEMMA BoundIsOwn ==
    ASSUME NEW outputs, Parsed(outputs), NEW acct, NEW protocol, NEW data,
           DecodedState(data, outputs, acct),
           protocol # None =>
                \A g \in DOMAIN protocol.guardians : protocol.guardians[g] \in Keys
    PROVE  LET state == bindVaultOutput(data, outputs, acct, protocol)
               index == state.vaultOutputIndex
           IN  /\ state.bound \in BOOLEAN
               /\ (state.bound \/ index # None) =>
                    /\ index \in 0 .. Len(outputs) - 1
                    /\ OwnScriptOf(acct, OutputAt(outputs, index).script)
               /\ (~state.bound /\ index # None) =>
                    OutputRole(acct, OutputAt(outputs, index).script) = "vault"
<1> DEFINE state == bindVaultOutput(data, outputs, acct, protocol)
           at == BindIndex(data.flag)
<1>1. CASE Binds(data, outputs, acct, protocol)
  <2>1. state.vaultOutputIndex = at /\ state.bound = TRUE
    BY <1>1 DEF bindVaultOutput, DecodedState
  <2>2. /\ protocol # None /\ data.guardians # None /\ HasOutput(outputs, at)
        /\ \A i \in DOMAIN data.guardians : data.guardians[i] \in DOMAIN protocol.guardians
        /\ OutputAt(outputs, at).script = ExpectedVault(data, acct, protocol)
    BY <1>1 DEF Binds, Bindable
  <2>3. at \in 0 .. Len(outputs) - 1
    <3>1. at \in {0, 1} /\ at + 1 \in 1 .. Len(outputs) /\ Len(outputs) \in Nat
      BY <2>2 DEF BindIndex, HasOutput, Parsed
    <3> QED
      BY <3>1
  <2>4. PICK i : i \in DOMAIN data.guardians
    BY <2>2 DEF DecodedState
  <2>5. /\ protocol.guardians[data.guardians[i]] \in Keys
        /\ protocol.guardians[data.guardians[i]] \in GuardianKeys(data, protocol)
    BY <2>2, <2>4 DEF GuardianKeys
  <2>6. OwnScriptOf(acct, OutputAt(outputs, at).script)
    BY <2>2, <2>5, TreeHasCosign DEF ExpectedVault, OwnScriptOf
  <2> HIDE DEF state, at
  <2>7. (~state.bound /\ state.vaultOutputIndex # None) =>
            OutputRole(acct, OutputAt(outputs, state.vaultOutputIndex).script) = "vault"
    BY <2>1
  <2> QED
    BY <2>1, <2>3, <2>6, <2>7 DEF state
<1>2. CASE ~Binds(data, outputs, acct, protocol)
  <2>1. state = data
    BY <1>2 DEF bindVaultOutput
  <2>2. data.vaultOutputIndex # None =>
            /\ data.vaultOutputIndex \in 0 .. Len(outputs) - 1
            /\ OutputRole(acct, OutputAt(outputs, data.vaultOutputIndex).script) = "vault"
    BY DEF DecodedState, PaysVault
  <2>3. data.vaultOutputIndex # None =>
            OwnScriptOf(acct, OutputAt(outputs, data.vaultOutputIndex).script)
    BY <2>2, RoleIsOwn DEF Roles
  <2>4. data.bound = FALSE
    BY DEF DecodedState
  <2> HIDE DEF state
  <2> QED
    BY <2>1, <2>2, <2>3, <2>4 DEF state
<1> QED
  BY <1>1, <1>2
=============================================================================
