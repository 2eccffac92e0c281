---------------------------- MODULE PagingProofs ----------------------------
(***************************************************************************)
(* Facts about pages, for any set of keys.                                 *)
(***************************************************************************)
EXTENDS Paging, TLAPS, WellFoundedInduction, FiniteSetTheorems

\* A non-empty set of numbers has a least element: what next_key and ORDER BY
\* key ASC rest on.
LEMMA LeastElement ==
  ASSUME NEW S \in SUBSET Nat, S # {}
  PROVE  \E a \in S : \A b \in S : a <= b
<1> DEFINE R == OpToRel(<, Nat)
<1>1. IsWellFoundedOn(R, Nat)
  BY NatLessThanWellFounded
<1>2. PICK a \in S : \A b \in S : ~(<<b, a>> \in R)
  <2> HIDE DEF R
  <2> QED  BY <1>1, WFMin
<1>3. \A b \in S : b < a => <<b, a>> \in R
  BY DEF OpToRel
<1>4. \A b \in S : a <= b
  <2>1. \A b \in S : ~(b < a)
    <3> HIDE DEF R
    <3> QED  BY <1>2, <1>3, Zenon
  <2> QED  BY <2>1
<1> QED
  BY <1>4

\* The page is made of keys of the set that are not below the cursor.
LEMMA FirstNType ==
  ASSUME NEW S, NEW k, NEW n
  PROVE  /\ FirstN(S, k, n) \subseteq S
         /\ \A a \in FirstN(S, k, n) : a >= k
BY DEF FirstN

\* The next key is 0, or the least key of the set beyond the page, and so
\* past the cursor it came from or equal to it.
LEMMA NextKeyType ==
  ASSUME NEW S \in SUBSET (Nat \ {0}), NEW k \in Nat, NEW n
  PROVE  /\ NextKey(S, k, n) \in Nat
         /\ NextKey(S, k, n) # 0 =>
              /\ NextKey(S, k, n) \in S \ FirstN(S, k, n)
              /\ NextKey(S, k, n) >= k
         /\ \A a \in S : a >= k =>
              a \in FirstN(S, k, n) \/ (NextKey(S, k, n) # 0 /\ NextKey(S, k, n) <= a)
<1> DEFINE rest == {a \in S : a >= k} \ FirstN(S, k, n)
<1>1. CASE rest = {}
  BY <1>1 DEF NextKey
<1>2. CASE rest # {}
  <2>1. \E a \in rest : \A b \in rest : a <= b
    BY <1>2, LeastElement
  <2>2. NextKey(S, k, n) \in rest /\ \A b \in rest : NextKey(S, k, n) <= b
    BY <1>2, <2>1 DEF NextKey
  <2> QED  BY <2>2
<1> QED  BY <1>1, <1>2

\* A set has at least as many elements as a subset of it, and more than a
\* subset that lacks one of them.
LEMMA FewerElements ==
  ASSUME NEW S, IsFiniteSet(S), NEW T \in SUBSET S
  PROVE  /\ IsFiniteSet(T)
         /\ Cardinality(T) \in Nat
         /\ Cardinality(S) \in Nat
         /\ Cardinality(T) <= Cardinality(S)
         /\ T # S => Cardinality(T) < Cardinality(S)
<1>1. /\ IsFiniteSet(T)
      /\ Cardinality(T) <= Cardinality(S)
      /\ Cardinality(S) = Cardinality(T) => S = T
  BY FS_Subset
<1>2. Cardinality(T) \in Nat /\ Cardinality(S) \in Nat
  BY <1>1, FS_CardinalityType
<1> QED  BY <1>1, <1>2

\* The first n rows of an order in which before[a] are the rows ahead of a: the
\* page holds what is ahead of any of its own, and it is the whole set when it
\* is short of n rows.
LEMMA OrderedPage ==
  ASSUME NEW S, IsFiniteSet(S), NEW n \in Nat, NEW before \in [S -> SUBSET S],
         \A i \in S : i \notin before[i],
         \A i \in S : \A j \in before[i] : before[j] \subseteq before[i]
  PROVE  LET page == {a \in S : Cardinality(before[a]) < n}
         IN  /\ \A i \in page : before[i] \subseteq page
             /\ Cardinality(page) < n => page = S
<1> DEFINE page == {a \in S : Cardinality(before[a]) < n}
           size(a) == Cardinality(before[a])
<1>1. \A a \in S : IsFiniteSet(before[a]) /\ size(a) \in Nat
  BY FewerElements
<1>2. ASSUME NEW i \in S, NEW j \in before[i]  PROVE j \in S /\ size(j) < size(i)
  <2>1. j \in S /\ before[j] \in SUBSET before[i] /\ before[j] # before[i]
    OBVIOUS
  <2>2. IsFiniteSet(before[i])
    BY <1>1
  <2> QED  BY <2>1, <2>2, FewerElements
<1>3. ASSUME NEW i \in page, NEW j \in before[i]  PROVE j \in page
  <2>1. j \in S /\ size(j) < size(i) /\ size(i) < n
    BY <1>2, <1>3
  <2>2. size(j) \in Nat /\ size(i) \in Nat
    BY <1>1, <2>1
  <2> QED  BY <2>1, <2>2
<1>4. ASSUME Cardinality(page) < n, page # S  PROVE FALSE
  <2> DEFINE left == S \ page
             sizes == {size(a) : a \in left}
  <2>1. sizes \in SUBSET Nat /\ sizes # {}
    BY <1>1, <1>4
  <2>2. \E x \in sizes : \A y \in sizes : x <= y
    <3> HIDE DEF sizes
    <3> QED  BY <2>1, LeastElement
  <2>3. PICK a \in left : \A b \in left : size(a) <= size(b)
    BY <2>2
  <2>4. ASSUME NEW b \in before[a], b \notin page  PROVE FALSE
    <3>1. b \in left /\ size(b) < size(a)
      BY <1>2, <2>4
    <3>2. size(a) <= size(b) /\ size(a) \in Nat /\ size(b) \in Nat
      BY <1>1, <2>3, <3>1
    <3> QED  BY <3>1, <3>2
  <2>5. size(a) <= Cardinality(page) /\ Cardinality(page) \in Nat
    <3>1. page \in SUBSET S /\ before[a] \in SUBSET page
      BY <2>4
    <3> HIDE DEF page
    <3>2. IsFiniteSet(page)
      BY <3>1, FewerElements
    <3> QED  BY <3>1, <3>2, FewerElements
  <2>6. size(a) < n
    BY <1>1, <1>4, <2>5
  <2> QED  BY <2>6
<1> QED  BY <1>3, <1>4

\* ORDER BY key DESC LIMIT n: the page holds every row above any of its own,
\* and it is the whole set when it is short of n rows.
LEMMA LastNPage ==
  ASSUME NEW S \in SUBSET Nat, IsFiniteSet(S), NEW n \in Nat
  PROVE  /\ LastN(S, n) \subseteq S
         /\ \A i \in LastN(S, n), j \in S : j > i => j \in LastN(S, n)
         /\ Cardinality(LastN(S, n)) < n => LastN(S, n) = S
<1> DEFINE above == [a \in S |-> {b \in S : b > a}]
           page == {a \in S : Cardinality(above[a]) < n}
<1>1. /\ above \in [S -> SUBSET S] /\ \A i \in S : i \notin above[i]
      /\ \A i \in S : \A j \in above[i] : above[j] \subseteq above[i]
  <2>1. above \in [S -> SUBSET S]
    OBVIOUS
  <2>2. \A i \in S : above[i] = {b \in S : b > i}
    OBVIOUS
  <2>3. \A i \in S : i \notin above[i]
    BY <2>2
  <2>4. ASSUME NEW i \in S, NEW j \in above[i], NEW b \in above[j]  PROVE b \in above[i]
    <3> HIDE DEF above
    <3>1. i \in Nat /\ j \in S /\ j \in Nat /\ b \in S /\ b \in Nat
      BY <2>2, <2>4
    <3> QED  BY <2>2, <2>4, <3>1
  <2> QED  BY <2>1, <2>3, <2>4
<1>2. page = LastN(S, n)
  BY DEF LastN
<1>3. /\ \A i \in page : above[i] \subseteq page
      /\ Cardinality(page) < n => page = S
  <2> HIDE DEF above
  <2> QED  BY <1>1, OrderedPage
<1>4. \A i \in page, j \in S : j > i => j \in above[i]
  OBVIOUS
<1> QED  BY <1>2, <1>3, <1>4

\* A non-empty finite set of numbers has a greatest element: it is what ORDER BY
\* key DESC LIMIT 1 returns.
LEMMA GreatestElement ==
  ASSUME NEW S \in SUBSET Nat, IsFiniteSet(S), S # {}
  PROVE  \E a \in S : \A b \in S : b <= a
<1>1. /\ LastN(S, 1) \subseteq S
      /\ Cardinality(LastN(S, 1)) < 1 => LastN(S, 1) = S
  BY LastNPage
<1>2. LastN(S, 1) # {}
  <2>1. Cardinality({}) = 0
    BY FS_EmptySet
  <2> QED  BY <1>1, <2>1
<1>3. PICK a \in LastN(S, 1) : TRUE
  BY <1>2
<1> DEFINE above == {b \in S : b > a}
<1>4. Cardinality(above) < 1
  BY DEF LastN
<1>5. above \in SUBSET S
  OBVIOUS
<1>6. above = {}
  <2> HIDE DEF above
  <2>1. IsFiniteSet(above) /\ Cardinality(above) \in Nat
    BY <1>5, FewerElements
  <2> QED  BY <1>4, <2>1, FS_EmptySet
<1>7. a \in S /\ \A b \in S : b \in Nat /\ ~(b > a)
  BY <1>1, <1>6
<1> QED  BY <1>7

\* ORDER BY key ASC LIMIT n: the page holds every row below any of its own.
LEMMA FirstNPage ==
  ASSUME NEW S \in SUBSET (Nat \ {0}), IsFiniteSet(S), NEW n \in Nat
  PROVE  /\ FirstN(S, 1, n) \subseteq S
         /\ \A i \in FirstN(S, 1, n), j \in S : j < i => j \in FirstN(S, 1, n)
         /\ Cardinality(FirstN(S, 1, n)) < n => FirstN(S, 1, n) = S
<1> DEFINE below == [a \in S |-> {b \in S : 1 <= b /\ b < a}]
           page == {a \in S : Cardinality(below[a]) < n}
<1>1. /\ below \in [S -> SUBSET S] /\ \A i \in S : i \notin below[i]
      /\ \A i \in S : \A j \in below[i] : below[j] \subseteq below[i]
  <2>1. below \in [S -> SUBSET S]
    OBVIOUS
  <2>2. \A i \in S : below[i] = {b \in S : 1 <= b /\ b < i}
    OBVIOUS
  <2>3. \A i \in S : i \notin below[i]
    BY <2>2
  <2>4. ASSUME NEW i \in S, NEW j \in below[i], NEW b \in below[j]  PROVE b \in below[i]
    <3> HIDE DEF below
    <3>1. i \in Nat /\ j \in S /\ j \in Nat /\ b \in S /\ b \in Nat
      BY <2>2, <2>4
    <3> QED  BY <2>2, <2>4, <3>1
  <2> QED  BY <2>1, <2>3, <2>4
<1>2. page = FirstN(S, 1, n)
  <2>1. \A a \in S : a >= 1
    OBVIOUS
  <2> QED  BY <2>1 DEF FirstN
<1>3. /\ \A i \in page : below[i] \subseteq page
      /\ Cardinality(page) < n => page = S
  <2> HIDE DEF below
  <2> QED  BY <1>1, OrderedPage
<1>4. \A i \in page, j \in S : j < i => j \in below[i]
  OBVIOUS
<1> QED  BY <1>2, <1>3, <1>4

\* The LIMIT n + 1 of the listings: n rows are kept of n + 1, and a page of
\* fewer rows is everything that WHERE kept.
LEMMA LastNLimit ==
  ASSUME NEW S \in SUBSET Nat, IsFiniteSet(S), NEW n \in Nat \ {0}
  PROVE  LET fetched == LastN(S, n + 1)
             kept    == LastN(fetched, n)
         IN  /\ kept \subseteq S
             /\ Cardinality(fetched) > n =>
                  /\ kept # {}
                  /\ \A i \in kept, j \in S : j > i => j \in kept
             /\ ~(Cardinality(fetched) > n) => fetched = S
<1> DEFINE fetched == LastN(S, n + 1)
<1> DEFINE kept == LastN(fetched, n)
<1>1. /\ fetched \subseteq S
      /\ \A i \in fetched, j \in S : j > i => j \in fetched
      /\ Cardinality(fetched) < n + 1 => fetched = S
  BY LastNPage
<1>2. IsFiniteSet(fetched) /\ Cardinality(fetched) \in Nat
  BY <1>1, FewerElements
<1>3. /\ kept \subseteq fetched
      /\ \A i \in kept, j \in fetched : j > i => j \in kept
      /\ Cardinality(kept) < n => kept = fetched
  <2> HIDE DEF fetched
  <2>1. fetched \in SUBSET Nat
    BY <1>1
  <2> QED  BY <1>2, <2>1, LastNPage
<1>4. ASSUME Cardinality(fetched) > n
      PROVE  /\ kept # {}
             /\ \A i \in kept, j \in S : j > i => j \in kept
  <2> HIDE DEF fetched, kept
  <2>1. kept # {}
    <3> SUFFICES ASSUME kept = {} PROVE FALSE
      OBVIOUS
    <3>1. Cardinality(kept) = 0
      BY FS_EmptySet
    <3>2. kept = fetched
      BY <1>3, <3>1
    <3> QED  BY <1>4, <3>1, <3>2
  <2>2. ASSUME NEW i \in kept, NEW j \in S, j > i
        PROVE  j \in kept
    <3>1. i \in fetched
      BY <1>3
    <3>2. j \in fetched
      BY <1>1, <2>2, <3>1
    <3> QED  BY <1>3, <2>2, <3>2
  <2> QED  BY <2>1, <2>2
<1>5. ~(Cardinality(fetched) > n) => fetched = S
  <2> HIDE DEF fetched
  <2> QED  BY <1>1, <1>2
<1>6. kept \subseteq S
  <2> HIDE DEF fetched, kept
  <2> QED  BY <1>1, <1>3
<1> QED
  <2> HIDE DEF fetched, kept
  <2>1. /\ kept \subseteq S
        /\ Cardinality(fetched) > n =>
             /\ kept # {}
             /\ \A i \in kept, j \in S : j > i => j \in kept
        /\ ~(Cardinality(fetched) > n) => fetched = S
    BY <1>4, <1>5, <1>6
  <2> QED  BY <2>1 DEF fetched, kept

\* The same in ascending order.
LEMMA FirstNLimit ==
  ASSUME NEW S \in SUBSET (Nat \ {0}), IsFiniteSet(S), NEW n \in Nat \ {0}
  PROVE  LET fetched == FirstN(S, 1, n + 1)
             kept    == FirstN(fetched, 1, n)
         IN  /\ kept \subseteq S
             /\ Cardinality(fetched) > n =>
                  /\ kept # {}
                  /\ \A i \in kept, j \in S : j < i => j \in kept
             /\ ~(Cardinality(fetched) > n) => fetched = S
<1> DEFINE fetched == FirstN(S, 1, n + 1)
           kept == FirstN(fetched, 1, n)
<1>1. /\ fetched \subseteq S
      /\ \A i \in fetched, j \in S : j < i => j \in fetched
      /\ Cardinality(fetched) < n + 1 => fetched = S
  BY FirstNPage
<1> HIDE DEF fetched
<1>2. IsFiniteSet(fetched) /\ Cardinality(fetched) \in Nat
  BY <1>1, FewerElements
<1>3. /\ kept \subseteq fetched
      /\ \A i \in kept, j \in fetched : j < i => j \in kept
      /\ Cardinality(kept) < n => kept = fetched
  <2>1. fetched \in SUBSET (Nat \ {0})
    BY <1>1
  <2> QED  BY <1>2, <2>1, FirstNPage
<1> HIDE DEF kept
<1>4. Cardinality(fetched) > n => kept # {}
  <2> SUFFICES ASSUME Cardinality(fetched) > n, kept = {}  PROVE FALSE
    OBVIOUS
  <2>1. Cardinality(kept) = 0
    BY FS_EmptySet
  <2> QED  BY <1>2, <1>3, <2>1
<1>5. \A i \in kept, j \in S : j < i => j \in kept
  BY <1>1, <1>3
<1>6. ~(Cardinality(fetched) > n) => fetched = S
  BY <1>1, <1>2
<1> QED
  <2>1. /\ kept \subseteq S
        /\ Cardinality(fetched) > n =>
             /\ kept # {}
             /\ \A i \in kept, j \in S : j < i => j \in kept
        /\ ~(Cardinality(fetched) > n) => fetched = S
    BY <1>1, <1>3, <1>4, <1>5, <1>6
  <2> QED  BY <2>1 DEF fetched, kept
=============================================================================
