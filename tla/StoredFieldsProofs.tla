------------------------- MODULE StoredFieldsProofs -------------------------
(***************************************************************************)
(* What the filters and sorts of StoredFields return, for arrays of any    *)
(* length: every position of the result is filled, with an element of the  *)
(* array that was kept.                                                    *)
(***************************************************************************)
EXTENDS StoredFields, FiniteSetTheorems, SequenceTheorems, TLAPS

\* LE orders I totally.
TotalOrder(LE, I) ==
    /\ \A i \in I : <<i, i>> \in LE
    /\ \A i, j \in I : <<i, j>> \in LE \/ <<j, i>> \in LE
    /\ \A i, j \in I : <<i, j>> \in LE /\ <<j, i>> \in LE => i = j
    /\ \A i, j, k \in I : <<i, j>> \in LE /\ <<j, k>> \in LE => <<i, k>> \in LE

UpTo(I, LE, i) == {j \in I : <<j, i>> \in LE}

\* In a total order every element of a finite set has a rank of its own.
LEMMA RanksDiffer ==
    ASSUME NEW I, IsFiniteSet(I), NEW LE, TotalOrder(LE, I)
    PROVE  /\ \A i \in I : Cardinality(UpTo(I, LE, i)) \in 1 .. Cardinality(I)
           /\ \A i, j \in I :
                Cardinality(UpTo(I, LE, i)) = Cardinality(UpTo(I, LE, j)) => i = j
<1> DEFINE n == Cardinality(I)
           rank == [i \in I |-> Cardinality(UpTo(I, LE, i))]
<1>1. n \in Nat
  BY FS_CardinalityType
<1>2. \A i \in I : IsFiniteSet(UpTo(I, LE, i)) /\ rank[i] \in 1 .. n
  <2> SUFFICES ASSUME NEW i \in I
               PROVE  IsFiniteSet(UpTo(I, LE, i)) /\ rank[i] \in 1 .. n
    OBVIOUS
  <2>1. UpTo(I, LE, i) \in SUBSET I /\ i \in UpTo(I, LE, i)
    BY DEF UpTo, TotalOrder
  <2>2. /\ IsFiniteSet(UpTo(I, LE, i))
        /\ Cardinality(UpTo(I, LE, i)) <= n
    BY <2>1, FS_Subset
  <2>3. Cardinality(UpTo(I, LE, i)) \in Nat \ {0}
    BY <2>1, <2>2, FS_CardinalityType, FS_EmptySet
  <2> QED
    BY <1>1, <2>2, <2>3
<1>3. ASSUME NEW i \in I, NEW j \in I, i # j, <<i, j>> \in LE
      PROVE  rank[i] < rank[j]
  <2>1. UpTo(I, LE, i) \subseteq UpTo(I, LE, j)
    BY <1>3 DEF UpTo, TotalOrder
  <2>2. j \in UpTo(I, LE, j) /\ j \notin UpTo(I, LE, i)
    BY <1>3 DEF UpTo, TotalOrder
  <2>3. /\ Cardinality(UpTo(I, LE, i)) <= Cardinality(UpTo(I, LE, j))
        /\ Cardinality(UpTo(I, LE, i)) # Cardinality(UpTo(I, LE, j))
    BY <1>2, <2>1, <2>2, FS_Subset
  <2> QED
    BY <1>1, <1>2, <2>3
<1>4. \A i, j \in I : rank[i] = rank[j] => i = j
  <2> SUFFICES ASSUME NEW i \in I, NEW j \in I, i # j
               PROVE  rank[i] # rank[j]
    OBVIOUS
  <2>1. <<i, j>> \in LE \/ <<j, i>> \in LE
    BY DEF TotalOrder
  <2>2. rank[i] \in 1 .. n /\ rank[j] \in 1 .. n
    BY <1>2
  <2>3. rank[i] < rank[j] \/ rank[j] < rank[i]
    BY <1>3, <2>1
  <2> HIDE DEF rank
  <2> QED
    BY <1>1, <2>2, <2>3
<1> QED
  BY <1>2, <1>4

\* Of a finite set in a total order, every rank from 1 to the size of the set
\* is taken: no position of a sorted or filtered array is left undefined.
LEMMA EveryRankTaken ==
    ASSUME NEW I, IsFiniteSet(I), NEW LE, TotalOrder(LE, I),
           NEW k \in 1 .. Cardinality(I)
    PROVE  \E i \in I : Cardinality(UpTo(I, LE, i)) = k
<1> DEFINE n == Cardinality(I)
           rank == [i \in I |-> Cardinality(UpTo(I, LE, i))]
<1>1. n \in Nat /\ k \in 1 .. n
  BY FS_CardinalityType
<1>2. \A i \in I : rank[i] \in 1 .. n
  BY RanksDiffer
<1>4. \A i, j \in I : rank[i] = rank[j] => i = j
  BY RanksDiffer
<1>5. SUFFICES ASSUME \A i \in I : rank[i] # k
               PROVE  FALSE
  OBVIOUS
<1>6. rank \in [I -> (1 .. n) \ {k}]
  <2>1. \A i \in I : Cardinality(UpTo(I, LE, i)) \in (1 .. n) \ {k}
    BY <1>2, <1>5
  <2> QED
    BY <2>1
<1> HIDE DEF rank, n
<1>7. /\ IsFiniteSet((1 .. n) \ {k})
      /\ Cardinality((1 .. n) \ {k}) < n
  <2>1. IsFiniteSet(1 .. n) /\ Cardinality(1 .. n) = n
    BY <1>1, FS_Interval
  <2>2. /\ IsFiniteSet((1 .. n) \ {k})
        /\ Cardinality((1 .. n) \ {k}) = Cardinality(1 .. n) - 1
    BY <1>1, <2>1, FS_RemoveElement
  <2> QED
    BY <1>1, <2>1, <2>2
<1>8. \E i, j \in I : i # j /\ rank[i] = rank[j]
  BY <1>6, <1>7, FS_PigeonHole DEF n
<1> QED
  BY <1>4, <1>8

\* Arranged returns a sequence, as long as the set of indexes it was given.
LEMMA ArrangedType ==
    ASSUME NEW S, NEW s \in Seq(S), NEW I \in SUBSET (DOMAIN s),
           NEW LE, TotalOrder(LE, I)
    PROVE  /\ IsFiniteSet(I)
           /\ Cardinality(I) \in Nat
           /\ Arranged(s, I, LE) \in Seq(S)
           /\ Len(Arranged(s, I, LE)) = Cardinality(I)
           /\ \A k \in 1 .. Cardinality(I) :
                \E i \in I : Arranged(s, I, LE)[k] = s[i]
<1>1. IsFiniteSet(I) /\ Cardinality(I) \in Nat
  <2>1. Len(s) \in Nat /\ I \in SUBSET (1 .. Len(s))
    BY LenProperties
  <2>2. IsFiniteSet(1 .. Len(s))
    BY <2>1, FS_Interval
  <2> QED
    BY <2>1, <2>2, FS_Subset, FS_CardinalityType
<1> DEFINE n == Cardinality(I)
           at(k) == CHOOSE i \in I : Cardinality({j \in I : <<j, i>> \in LE}) = k
<1>2. \A k \in 1 .. n : at(k) \in I
  <2> SUFFICES ASSUME NEW k \in 1 .. n
               PROVE  \E i \in I : Cardinality({j \in I : <<j, i>> \in LE}) = k
    OBVIOUS
  <2>1. PICK i \in I : Cardinality(UpTo(I, LE, i)) = k
    BY <1>1, EveryRankTaken
  <2> QED
    BY <2>1 DEF UpTo
<1>3. Arranged(s, I, LE) = [k \in 1 .. n |-> s[at(k)]]
  BY DEF Arranged
<1> HIDE DEF at, n
<1>4. \A k \in 1 .. n : s[at(k)] \in S
  BY <1>2, LenProperties
<1>5. [k \in 1 .. n |-> s[at(k)]] \in [1 .. n -> S]
  BY <1>4
<1>6. n \in Nat
  BY <1>1 DEF n
<1>7. Arranged(s, I, LE) \in Seq(S) /\ Len(Arranged(s, I, LE)) = n
  BY <1>3, <1>5, <1>6
<1> QED
  BY <1>1, <1>2, <1>3, <1>7 DEF n

\* It holds every element that was kept.
LEMMA ArrangedComplete ==
    \A S : \A s \in Seq(S) : \A I \in SUBSET (DOMAIN s) : \A LE :
        TotalOrder(LE, I) =>
            \A i \in I : \E k \in 1 .. Cardinality(I) : Arranged(s, I, LE)[k] = s[i]
<1> SUFFICES ASSUME NEW S, NEW s \in Seq(S), NEW I \in SUBSET (DOMAIN s),
                    NEW LE, TotalOrder(LE, I), NEW i \in I
             PROVE  \E k \in 1 .. Cardinality(I) : Arranged(s, I, LE)[k] = s[i]
  OBVIOUS
<1> DEFINE Rank(j) == Cardinality({l \in I : <<l, j>> \in LE})
           k == Rank(i)
           a == CHOOSE j \in I : Rank(j) = k
<1>1. IsFiniteSet(I)
  BY ArrangedType
<1>2. k \in 1 .. Cardinality(I) /\ \A j \in I : Rank(j) = k => j = i
  BY <1>1, RanksDiffer DEF UpTo
<1>3. Arranged(s, I, LE)[k] = s[a]
  BY <1>2 DEF Arranged
<1> HIDE DEF Rank, k
<1>4. a \in I /\ Rank(a) = k
  BY DEF k
<1>5. a = i
  BY <1>2, <1>4
<1> HIDE DEF a
<1> QED
  BY <1>2, <1>3, <1>5

\* The two orders used are total on any set of indexes.
LEMMA OrdersTotal ==
    ASSUME NEW S, NEW s \in Seq(S), NEW I \in SUBSET (DOMAIN s)
    PROVE  /\ TotalOrder(InOrder(s), I)
           /\ (\A e \in S : e.at \in Int) => TotalOrder(NewestFirst(s), I)
<1>1. \A i \in I : i \in Int /\ i \in DOMAIN s /\ s[i] \in S
  BY LenProperties
<1>2. TotalOrder(InOrder(s), I)
  BY <1>1 DEF TotalOrder, InOrder
<1>3. ASSUME \A e \in S : e.at \in Int
      PROVE  TotalOrder(NewestFirst(s), I)
  <2>1. \A i \in I : s[i].at \in Int
    BY <1>1, <1>3
  <2>2. \A i, j \in I : <<i, j>> \in NewestFirst(s) <=>
            s[i].at > s[j].at \/ (s[i].at = s[j].at /\ i <= j)
    BY <1>1 DEF NewestFirst
  <2> HIDE DEF NewestFirst
  <2> QED
    BY <1>1, <2>1, <2>2 DEF TotalOrder
<1> QED
  BY <1>2, <1>3

\* slice(0, MAX_RECENT_ACTIONS) of an array.
LEMMA BoundedType ==
    ASSUME NEW S, NEW s \in Seq(S)
    PROVE  Bounded(s) \in Seq(S) /\ Len(Bounded(s)) <= MaxRecentActions
<1> DEFINE m == MinOf(Len(s), MaxRecentActions)
<1>1. m \in Nat /\ m <= Len(s) /\ m <= MaxRecentActions
  BY LenProperties, MaxRecentAssumption DEF MinOf
<1>2. \A i \in 1 .. m : s[i] \in S
  BY <1>1, LenProperties
<1> HIDE DEF m
<1>3. SubSeq(s, 1, m) \in Seq(S) /\ Len(SubSeq(s, 1, m)) <= m
  BY <1>1, <1>2, SubSeqProperties
<1>4. Len(SubSeq(s, 1, m)) \in Nat
  BY <1>3, LenProperties
<1> QED
  BY <1>1, <1>3, <1>4, MaxRecentAssumption DEF Bounded, m

\* The history getState returns holds entries of the stored one, within the
\* limit.
LEMMA SanitizedActionsType ==
    ASSUME NEW S, \A e \in S : e.at \in Int, NEW s \in Seq(S)
    PROVE  /\ SanitizedActions(s) \in Seq(S)
           /\ Len(SanitizedActions(s)) <= MaxRecentActions
<1>1. ValidIndexes(s) \in SUBSET (DOMAIN s)
  BY DEF ValidIndexes
<1>2. Arranged(s, ValidIndexes(s), NewestFirst(s)) \in Seq(S)
  BY <1>1, ArrangedType, OrdersTotal
<1> QED
  BY <1>2, BoundedType DEF SanitizedActions

\* A valid history within the limit keeps its entries and the new one, unless
\* it was full: then it stays full.
LEMMA HistoryGrows ==
    \A S : \A s \in Seq(S) : \A e \in S : \A t :
        /\ \A x \in S : x.at \in Int /\ x.valid = TRUE
        /\ Len(s) <= MaxRecentActions
        /\ t = SanitizedActions(WithAction(s, e))
        => \/ Len(t) = MaxRecentActions
           \/ /\ Len(s) # MaxRecentActions
              /\ \A i \in DOMAIN s : \E k \in DOMAIN t : t[k] = s[i]
              /\ \E k \in DOMAIN t : t[k] = e
<1> TAKE S
<1> TAKE s \in Seq(S)
<1> TAKE e \in S
<1> TAKE t
<1> HAVE /\ \A x \in S : x.at \in Int /\ x.valid = TRUE
         /\ Len(s) <= MaxRecentActions
         /\ t = SanitizedActions(WithAction(s, e))
<1> DEFINE m == MinOf(Len(s) + 1, MaxRecentActions)
           w == WithAction(s, e)
           u == Arranged(w, DOMAIN w, NewestFirst(w))
<1>1. /\ Len(s) \in Nat /\ m \in Nat /\ m <= Len(s) + 1 /\ m <= MaxRecentActions
      /\ MaxRecentActions \in Nat
  BY LenProperties, MaxRecentAssumption DEF MinOf
<1>2. <<e>> \o s \in Seq(S) /\ Len(<<e>> \o s) = Len(s) + 1
  BY LenProperties
<1>3. /\ w \in Seq(S) /\ Len(w) = m /\ DOMAIN w = 1 .. m
      /\ \A k \in 1 .. m : w[k] = (<<e>> \o s)[k]
  <2>1. w = SubSeq(<<e>> \o s, 1, m)
    BY <1>2 DEF WithAction, Bounded
  <2> HIDE DEF w, m
  <2>2. \A k \in 1 .. m : (<<e>> \o s)[k] \in S
    BY <1>1, <1>2, LenProperties
  <2>3. w \in Seq(S) /\ Len(w) = m /\ \A k \in 1 .. m : w[k] = (<<e>> \o s)[k]
    BY <1>1, <2>1, <2>2, SubSeqProperties
  <2> QED
    BY <2>3, LenProperties
<1> HIDE DEF w, m
<1>4. /\ ValidIndexes(w) = DOMAIN w
      /\ IsFiniteSet(DOMAIN w) /\ Cardinality(DOMAIN w) = m
  <2>1. \A i \in DOMAIN w : w[i] \in S
    BY <1>3, LenProperties
  <2>2. ValidIndexes(w) = DOMAIN w
    BY <2>1 DEF ValidIndexes
  <2>3. IsFiniteSet(1 .. m) /\ Cardinality(1 .. m) = m
    BY <1>1, FS_Interval
  <2> QED
    BY <1>3, <2>2, <2>3
<1>5. /\ u \in Seq(S) /\ Len(u) = m
      /\ \A i \in 1 .. m : \E k \in 1 .. m : u[k] = w[i]
  <2>1. DOMAIN w \in SUBSET (DOMAIN w)
    OBVIOUS
  <2>2. TotalOrder(NewestFirst(w), DOMAIN w)
    BY <1>3, <2>1, OrdersTotal
  <2>3. /\ u \in Seq(S) /\ Len(u) = Cardinality(DOMAIN w)
        /\ \A i \in DOMAIN w : \E k \in 1 .. Cardinality(DOMAIN w) : u[k] = w[i]
    <3> DEFINE I == DOMAIN w
               LE == NewestFirst(w)
    <3>1. I \in SUBSET (DOMAIN w) /\ TotalOrder(LE, I) /\ w \in Seq(S)
      BY <1>3, <2>2
    <3> HIDE DEF I, LE
    <3>2. Arranged(w, I, LE) \in Seq(S) /\ Len(Arranged(w, I, LE)) = Cardinality(I)
      BY <3>1, ArrangedType
    <3>3. \A i \in I : \E k \in 1 .. Cardinality(I) : Arranged(w, I, LE)[k] = w[i]
      BY ONLY <3>1, ArrangedComplete, SMT
    <3> QED
      BY <3>2, <3>3 DEF I, LE
  <2> HIDE DEF u
  <2> QED
    BY <1>3, <1>4, <2>3
<1> HIDE DEF u
<1>6. /\ Len(t) = m /\ DOMAIN t = 1 .. m
      /\ \A k \in 1 .. m : t[k] = u[k]
  <2>1. t = SubSeq(u, 1, m)
    <3>1. MinOf(m, MaxRecentActions) = m
      BY <1>1 DEF MinOf
    <3> QED
      BY <1>4, <1>5, <3>1 DEF SanitizedActions, Bounded, u, w
  <2>2. \A k \in 1 .. m : u[k] \in S
    BY <1>1, <1>5, LenProperties
  <2>3. t \in Seq(S) /\ Len(t) = m /\ \A k \in 1 .. m : t[k] = u[k]
    BY <1>1, <1>5, <2>1, <2>2, SubSeqProperties
  <2> QED
    BY <2>3, LenProperties
<1>7. ASSUME Len(t) # MaxRecentActions
      PROVE  /\ Len(s) # MaxRecentActions
             /\ \A i \in DOMAIN s : \E k \in DOMAIN t : t[k] = s[i]
             /\ \E k \in DOMAIN t : t[k] = e
  <2>1. m = Len(s) + 1
    BY <1>1, <1>6, <1>7 DEF m, MinOf
  <2>2. w[1] = e /\ \A i \in DOMAIN s : i + 1 \in 1 .. m /\ w[i + 1] = s[i]
    <3>1. (<<e>> \o s)[1] = e /\ \A i \in 1 .. Len(s) : (<<e>> \o s)[i + 1] = s[i]
      BY LenProperties
    <3>2. DOMAIN s = 1 .. Len(s)
      BY LenProperties
    <3> QED
      BY <1>1, <1>3, <2>1, <3>1, <3>2
  <2>3. 1 \in 1 .. m
    BY <1>1, <2>1
  <2>4. \A i \in 1 .. m : \E k \in DOMAIN t : t[k] = w[i]
    BY <1>5, <1>6
  <2>5. \A i \in DOMAIN s : \E k \in DOMAIN t : t[k] = s[i]
    <3> SUFFICES ASSUME NEW i \in DOMAIN s
                 PROVE  \E k \in DOMAIN t : t[k] = s[i]
      OBVIOUS
    <3>1. PICK k \in DOMAIN t : t[k] = w[i + 1]
      BY <2>2, <2>4
    <3> QED
      BY <2>2, <3>1
  <2>6. \E k \in DOMAIN t : t[k] = e
    BY <2>2, <2>3, <2>4
  <2>7. Len(s) # MaxRecentActions
    BY <1>1, <2>1
  <2> QED
    BY <2>5, <2>6, <2>7
<1> QED
  BY <1>7

LEMMA WithActionType ==
    ASSUME NEW S, NEW s \in Seq(S), NEW e \in S
    PROVE  /\ WithAction(s, e) \in Seq(S)
           /\ Len(WithAction(s, e)) <= MaxRecentActions
<1>1. <<e>> \o s \in Seq(S)
  OBVIOUS
<1> QED
  BY <1>1, BoundedType DEF WithAction

\* The override list after a filter and after an import.
LEMMA KeysFilterType ==
    ASSUME NEW S, NEW s \in Seq(S), NEW n
    PROVE  /\ SanitizedKeys(s) \in Seq(S)
           /\ KeyOverridesWithoutNetwork(s, n) \in Seq(S)
<1>1. /\ ValidIndexes(s) \in SUBSET (DOMAIN s)
      /\ (DOMAIN s) \ KeysOf(s, n) \in SUBSET (DOMAIN s)
  BY DEF ValidIndexes
<1> QED
  BY <1>1, ArrangedType, OrdersTotal DEF SanitizedKeys, KeyOverridesWithoutNetwork

LEMMA ReplaceKeyType ==
    ASSUME NEW S, NEW s \in Seq(S), NEW key \in S
    PROVE  ReplaceKeyOverride(s, key) \in Seq(S)
  BY KeysFilterType, AppendProperties DEF ReplaceKeyOverride

-----------------------------------------------------------------------------
\* A filter that keeps everything leaves an array as it is.
LEMMA AllKept ==
    ASSUME NEW S, NEW s \in Seq(S)
    PROVE  Arranged(s, DOMAIN s, InOrder(s)) = s
<1> DEFINE D == DOMAIN s
           n == Cardinality(D)
           A == Arranged(s, D, InOrder(s))
<1>1. Len(s) \in Nat /\ D = 1 .. Len(s)
  BY LenProperties
<1>2. n = Len(s) /\ IsFiniteSet(D)
  BY <1>1, FS_Interval
<1>3. \A i \in D : Cardinality({j \in D : <<j, i>> \in InOrder(s)}) = i
  <2> SUFFICES ASSUME NEW i \in D
               PROVE  Cardinality({j \in D : <<j, i>> \in InOrder(s)}) = i
    OBVIOUS
  <2>1. i \in Nat /\ 1 <= i /\ i <= Len(s)
    BY <1>1
  <2>2. {j \in D : <<j, i>> \in InOrder(s)} = 1 .. i
    BY <1>1, <2>1 DEF InOrder
  <2>3. Cardinality(1 .. i) = i
    BY <2>1, FS_Interval
  <2> QED
    BY <2>2, <2>3
<1>4. A = [k \in 1 .. n |->
            s[CHOOSE i \in D : Cardinality({j \in D : <<j, i>> \in InOrder(s)}) = k]]
  BY DEF Arranged
<1>5. \A k \in 1 .. n :
        (CHOOSE i \in D : Cardinality({j \in D : <<j, i>> \in InOrder(s)}) = k) = k
  BY <1>1, <1>2, <1>3
<1>6. A = [k \in 1 .. n |-> s[k]]
  BY <1>4, <1>5
<1>7. s = [k \in 1 .. Len(s) |-> s[k]]
  BY <1>1
<1> QED
  BY <1>2, <1>6, <1>7

\* Reading valid keys returns them, and what a read returns is valid.
LEMMA ValidKeysStay ==
    ASSUME NEW S, NEW s \in Seq(S), \A i \in DOMAIN s : s[i].valid
    PROVE  SanitizedKeys(s) = s
<1>1. ValidIndexes(s) = DOMAIN s
  BY DEF ValidIndexes
<1> QED
  BY <1>1, AllKept DEF SanitizedKeys

LEMMA SanitizedKeysValid ==
    ASSUME NEW S, NEW s \in Seq(S), NEW i \in DOMAIN SanitizedKeys(s)
    PROVE  SanitizedKeys(s)[i].valid
<1>1. ValidIndexes(s) \in SUBSET (DOMAIN s)
  BY DEF ValidIndexes
<1>2. /\ SanitizedKeys(s) \in Seq(S) /\ Len(SanitizedKeys(s)) = Cardinality(ValidIndexes(s))
      /\ \A k \in 1 .. Cardinality(ValidIndexes(s)) :
            \E j \in ValidIndexes(s) : SanitizedKeys(s)[k] = s[j]
  BY <1>1, ArrangedType, OrdersTotal DEF SanitizedKeys
<1>3. i \in 1 .. Cardinality(ValidIndexes(s))
  BY <1>2, LenProperties
<1> QED
  BY <1>2, <1>3 DEF ValidIndexes

\* Leaving out the keys of a network leaves the others as they are.
LEMMA OthersStayValid ==
    ASSUME NEW S, NEW s \in Seq(S), \A i \in DOMAIN s : s[i].valid, NEW n,
           NEW i \in DOMAIN KeyOverridesWithoutNetwork(s, n)
    PROVE  KeyOverridesWithoutNetwork(s, n)[i].valid
<1> DEFINE I == (DOMAIN s) \ KeysOf(s, n)
<1>1. I \in SUBSET (DOMAIN s) /\ \A j \in I : j \in DOMAIN s
  OBVIOUS
<1>2. KeyOverridesWithoutNetwork(s, n) = Arranged(s, I, InOrder(s)) /\ TotalOrder(InOrder(s), I)
  BY <1>1, OrdersTotal DEF KeyOverridesWithoutNetwork
<1> HIDE DEF I
<1>3. /\ KeyOverridesWithoutNetwork(s, n) \in Seq(S)
      /\ Len(KeyOverridesWithoutNetwork(s, n)) = Cardinality(I)
      /\ \A k \in 1 .. Cardinality(I) :
            \E j \in I : KeyOverridesWithoutNetwork(s, n)[k] = s[j]
  BY <1>1, <1>2, ArrangedType
<1>4. i \in 1 .. Cardinality(I)
  BY <1>3, LenProperties
<1>5. PICK j \in I : KeyOverridesWithoutNetwork(s, n)[i] = s[j]
  BY <1>3, <1>4
<1> QED
  BY <1>1, <1>5

\* The entry just added is in the history that is read back, also when others
\* are newer: the bound has already made room for it.
LEMMA AddedIsRead ==
    ASSUME NEW S, \A x \in S : x.at \in Int, NEW s \in Seq(S), NEW e \in S, e.valid
    PROVE  LET t == SanitizedActions(WithAction(s, e))
           IN  \E k \in DOMAIN t : t[k] = e
<1> DEFINE w == WithAction(s, e)
           V == ValidIndexes(w)
           a == Arranged(w, V, NewestFirst(w))
<1>1. w \in Seq(S) /\ Len(w) <= MaxRecentActions /\ Len(w) \in Nat
  BY WithActionType, LenProperties
<1>2. 1 \in DOMAIN w /\ w[1] = e
  <2>1. /\ <<e>> \o s \in Seq(S) /\ (<<e>> \o s)[1] = e
        /\ Len(<<e>> \o s) = 1 + Len(s) /\ Len(s) \in Nat
    BY LenProperties
  <2> DEFINE m == MinOf(Len(<<e>> \o s), MaxRecentActions)
             u == <<e>> \o s
  <2>2. m \in Nat /\ m >= 1 /\ m <= Len(u)
    BY <2>1, MaxRecentAssumption DEF MinOf
  <2>3. w = SubSeq(u, 1, m)
    BY DEF WithAction, Bounded
  <2> HIDE DEF m, u, w
  <2>4. \A i \in 1 .. m : u[i] \in S
    BY <2>1, <2>2, LenProperties DEF u
  <2>5. Len(w) = m /\ w[1] = u[1]
    BY <2>1, <2>2, <2>3, <2>4, SubSeqProperties DEF u
  <2>6. w \in Seq(S)
    BY <1>1 DEF w
  <2> QED
    BY <2>1, <2>2, <2>5, <2>6, LenProperties DEF u
<1> HIDE DEF w
<1>3. V \in SUBSET (DOMAIN w) /\ 1 \in V
  BY <1>2 DEF ValidIndexes
<1>4. TotalOrder(NewestFirst(w), V)
  BY <1>1, <1>3, OrdersTotal
<1> HIDE DEF V
<1>5. /\ IsFiniteSet(V) /\ Cardinality(V) \in Nat
      /\ a \in Seq(S) /\ Len(a) = Cardinality(V)
  BY <1>1, <1>3, <1>4, ArrangedType
<1>6. Cardinality(V) <= MaxRecentActions
  <2>1. DOMAIN w = 1 .. Len(w)
    BY <1>1, LenProperties
  <2>2. IsFiniteSet(1 .. Len(w)) /\ Cardinality(1 .. Len(w)) = Len(w)
    <3>1. \A m \in Nat : IsFiniteSet(1 .. m) /\ Cardinality(1 .. m) = m
      BY FS_Interval
    <3> QED
      BY <1>1, <3>1
  <2>3. Cardinality(V) <= Len(w)
    BY <1>3, <2>1, <2>2, FS_Subset
  <2> QED
    BY <1>1, <1>5, <2>3, MaxRecentAssumption
<1>7. PICK k \in 1 .. Cardinality(V) : a[k] = e
  <2>1. \A i \in V : \E k \in 1 .. Cardinality(V) : a[k] = w[i]
    BY <1>1, <1>3, <1>4, ArrangedComplete
  <2> QED
    BY <1>2, <1>3, <2>1
<1> HIDE DEF a
<1>8. Bounded(a) = a
  <2>1. MinOf(Len(a), MaxRecentActions) = Len(a)
    BY <1>5, <1>6, MaxRecentAssumption DEF MinOf
  <2> QED
    BY <1>5, <2>1, SubSeqFull DEF Bounded
<1>9. SanitizedActions(w) = a
  BY <1>8 DEF SanitizedActions, a, V
<1>10. k \in DOMAIN SanitizedActions(w) /\ SanitizedActions(w)[k] = e
  BY <1>5, <1>7, <1>9, LenProperties
<1> QED
  BY <1>10 DEF w

\* Setting or deleting one URL keeps an override usable, or leaves none.
LEMMA FieldKeepsUsable ==
    ASSUME NEW V, NEW o \in [validator : V, esplora : V, verified : BOOLEAN],
           o = NoOverride \/ OverrideUsable(o),
           NEW kind \in Kinds, NEW url \in Urls \cup {None}
    PROVE  LET w == EndpointOverrideWithField(o, kind, url)
           IN  w = NoOverride \/ OverrideUsable(w)
<1> DEFINE w == [o EXCEPT !.validator = IF kind = "validator" THEN url ELSE @,
                          !.esplora = IF kind = "esplora" THEN url ELSE @,
                          !.verified = @ \/ url # None]
<1>1. EndpointOverrideWithField(o, kind, url) =
        IF w.validator = None /\ w.esplora = None THEN NoOverride ELSE w
  BY DEF EndpointOverrideWithField
<1>2. /\ w.validator = (IF kind = "validator" THEN url ELSE o.validator)
      /\ w.esplora = (IF kind = "esplora" THEN url ELSE o.esplora)
      /\ w.verified <=> (o.verified \/ url # None)
  OBVIOUS
<1> HIDE DEF w
<1>3. /\ o.validator # BadUrl /\ o.esplora # BadUrl
      /\ o.verified \/ (o.validator = None /\ o.esplora = None)
  BY UrlsAssumption DEF NoOverride, OverrideUsable
<1>4. w.validator # BadUrl /\ w.esplora # BadUrl
  BY <1>2, <1>3, UrlsAssumption
<1>5. w.validator # None \/ w.esplora # None => w.verified
  BY <1>2, <1>3
<1> QED
  BY <1>1, <1>4, <1>5 DEF OverrideUsable

=============================================================================
