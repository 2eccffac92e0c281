-------------------------- MODULE LatestEntryProofs --------------------------
(***************************************************************************)
(* latestState and latestIPAddress are right for every history.            *)
(***************************************************************************)
EXTENDS LatestEntry, TLAPS

\* Before the first turn nothing has been looked at, and the first entry is chosen.
LEMMA LoopInvInit == Init => LoopInv
<1> SUFFICES ASSUME Init  PROVE LoopInv
  OBVIOUS
<1>1. PICK n \in 1..MaxLen : hist \in [1..n -> Entry]
  BY DEF Init
<1>2. n \in Nat /\ n > 0
  BY ConstantsAssumption
<1>3. hist \in Seq(Entry) /\ Len(hist) = n
  BY <1>1, <1>2
<1>4. TypeOK
  BY <1>2, <1>3 DEF Init, TypeOK
<1>5. \A k \in 1..(i - 1) : ~Counts(k)
  BY DEF Init
<1> QED  BY <1>4, <1>5 DEF Init, LoopInv

\* One turn keeps the invariant: the new entry is chosen, or it changes nothing.
LEMMA LoopInvStep == LoopInv /\ [Next]_vars => LoopInv'
<1> SUFFICES ASSUME LoopInv, [Next]_vars  PROVE LoopInv'
  OBVIOUS
<1>0. /\ hist \in Seq(Entry) /\ Len(hist) \in Nat /\ Len(hist) > 0
      /\ i \in 1..(Len(hist) + 1) /\ maxIdx \in 1..Len(hist) /\ maxHeight \in Int
  BY DEF LoopInv, TypeOK
<1>1. \A k \in 1..Len(hist) : hist[k].ok \in BOOLEAN /\ hist[k].height \in Int
  <2>1. \A k \in 1..Len(hist) : hist[k] \in Entry
    BY <1>0
  <2>2. \A e \in Entry : e.ok \in BOOLEAN /\ e.height \in Int
    BY ConstantsAssumption DEF Entry
  <2> QED  BY <2>1, <2>2, Zenon
<1>2. CASE UNCHANGED vars
  BY <1>2 DEF vars, LoopInv, TypeOK, Counts
<1>3. CASE Turn
  <2>0. hist' = hist /\ i' = i + 1 /\ i \in 1..Len(hist)
    BY <1>0, <1>3 DEF Turn
  <2>1. CASE Higher(hist[i], maxHeight)
    <3>1. maxHeight' = hist[i].height /\ maxIdx' = i
      BY <1>3, <2>1 DEF Turn
    <3>2. hist[i].ok /\ hist[i].height > maxHeight
      BY <2>1 DEF Higher
    <3>3. maxHeight >= 0
      BY <1>0, <1>1 DEF LoopInv, Counts
    <3>4. TypeOK'
      BY <1>0, <1>1, <2>0, <3>1 DEF TypeOK
    <3>5. Counts(i)
      BY <1>0, <1>1, <2>0, <3>2, <3>3 DEF Counts
    <3>6. ASSUME NEW k \in 1..i, Counts(k)
          PROVE  hist[k].height <= hist[i].height /\ (hist[k].height = hist[i].height => i <= k)
      <4>1. CASE k = i
        BY <1>1, <2>0, <4>1
      <4>2. CASE k # i
        <5>1. k \in 1..(i - 1) /\ k \in 1..Len(hist)
          BY <2>0, <4>2
        <5>2. hist[k].height <= maxHeight
          BY <3>6, <5>1 DEF LoopInv
        <5> QED  BY <1>0, <1>1, <2>0, <3>2, <5>1, <5>2
      <4> QED  BY <4>1, <4>2
    <3> QED
      BY <1>0, <2>0, <3>1, <3>4, <3>5, <3>6 DEF LoopInv, Counts
  <2>2. CASE ~Higher(hist[i], maxHeight)
    <3>1. maxHeight' = maxHeight /\ maxIdx' = maxIdx
      BY <1>3, <2>2 DEF Turn
    <3>2. TypeOK'
      BY <1>0, <2>0, <3>1 DEF TypeOK
    <3>3. Counts(i) => hist[i].height <= maxHeight
      BY <1>0, <1>1, <2>0, <2>2 DEF Higher, Counts
    <3>4. \A k \in 1..i : k = i \/ k \in 1..(i - 1)
      BY <2>0
    <3>5. CASE /\ maxIdx < i /\ Counts(maxIdx) /\ maxHeight = hist[maxIdx].height
               /\ \A k \in 1..(i - 1) : Counts(k) =>
                    /\ hist[k].height <= maxHeight
                    /\ hist[k].height = maxHeight => maxIdx <= k
      BY <1>0, <2>0, <3>1, <3>2, <3>3, <3>4, <3>5 DEF LoopInv, Counts
    <3>6. CASE /\ maxIdx = 1 /\ maxHeight = 0
               /\ \A k \in 1..(i - 1) : ~Counts(k)
      <4>1. ~Counts(i)
        BY <1>1, <2>0, <2>2, <3>6 DEF Higher, Counts
      <4> QED
        BY <1>0, <2>0, <3>1, <3>2, <3>4, <3>6, <4>1 DEF LoopInv, Counts
    <3> QED  BY <3>5, <3>6 DEF LoopInv
  <2> QED  BY <2>1, <2>2
<1> QED  BY <1>2, <1>3 DEF Next

\* Every variable keeps its type: the index chosen is one of the history.
THEOREM TypeCorrect == Spec => []TypeOK
<1>1. LoopInv => TypeOK
  BY DEF LoopInv
<1> QED  BY LoopInvInit, LoopInvStep, <1>1, PTL DEF Spec

\* Whatever the history, the entry returned is the latest one.
THEOREM LatestCorrect == Spec => []ChosenIsLatest
<1>1. LoopInv => ChosenIsLatest
  <2> SUFFICES ASSUME LoopInv, i = Len(hist) + 1  PROVE ChosenIsLatest
    BY DEF ChosenIsLatest
  <2>1. Len(hist) \in Nat /\ i - 1 = Len(hist)
    BY DEF LoopInv, TypeOK
  <2> QED  BY <2>1 DEF LoopInv, ChosenIsLatest
<1> QED
  BY LoopInvInit, LoopInvStep, <1>1, PTL DEF Spec
=============================================================================
