---------------------------- MODULE LatestEntry ----------------------------
(***************************************************************************)
(* latestState and latestIPAddress: one loop over the history of a         *)
(* supernode, which picks the entry of the greatest height. Heights arrive *)
(* as strings; a string that is no number is passed over. Each step is one *)
(* turn of the loop.                                                       *)
(***************************************************************************)
EXTENDS Integers, Sequences

CONSTANTS
  Heights,  \* heights that may be parsed
  MaxLen    \* bound: length of a history

ASSUME ConstantsAssumption == Heights \subseteq Int /\ MaxLen \in Nat

\* ParseInt of an entry's height: whether it succeeds, and the number.
Entry == [ok : BOOLEAN, height : Heights]

VARIABLES
  hist,       \* the entries, as the chain sent them
  i,          \* index of the loop, from 1
  maxIdx,     \* the entry chosen so far
  maxHeight   \* its height, 0 at first

vars == <<hist, i, maxIdx, maxHeight>>

\* An empty history returns early ("SUPERNODE_STATE_UNKNOWN", "").
Init ==
  /\ hist \in UNION {[1..n -> Entry] : n \in 1..MaxLen}
  /\ i = 1
  /\ maxIdx = 1
  /\ maxHeight = 0

\* Mutant: a later entry of the same height wins.
Higher_OrEqual(e, h) == e.ok /\ e.height >= h

\* The test inside the loop.
Higher(e, h) == e.ok /\ e.height > h

\* Mutant: the index is taken after it moved on.
Turn_NextIndex ==
  /\ i <= Len(hist)
  /\ i' = i + 1
  /\ IF Higher(hist[i], maxHeight)
       THEN maxHeight' = hist[i].height /\ maxIdx' = i'
       ELSE UNCHANGED <<maxIdx, maxHeight>>
  /\ UNCHANGED hist

\* One turn of the loop.
Turn ==
  /\ i <= Len(hist)
  /\ i' = i + 1
  /\ IF Higher(hist[i], maxHeight)
       THEN maxHeight' = hist[i].height /\ maxIdx' = i
       ELSE UNCHANGED <<maxIdx, maxHeight>>
  /\ UNCHANGED hist

Next == Turn

Spec == Init /\ [][Next]_vars

-----------------------------------------------------------------------------
\* The entries whose height counts: parsed, and positive.
Counts(k) == hist[k].ok /\ hist[k].height > 0

\* Every variable has its type.
TypeOK ==
  /\ hist \in Seq(Entry) /\ Len(hist) > 0
  /\ i \in 1..(Len(hist) + 1)
  /\ maxIdx \in 1..Len(hist)
  /\ maxHeight \in Int

\* "latestState finds the state entry with the highest height value": when the
\* loop ends, the chosen entry has a height that counts and that no other
\* entry exceeds, and is the first such entry; if no height counts, it is the
\* first entry of the history.
ChosenIsLatest ==
  i = Len(hist) + 1 =>
    \/ /\ Counts(maxIdx)
       /\ \A k \in 1..Len(hist) : Counts(k) =>
            /\ hist[k].height <= hist[maxIdx].height
            /\ hist[k].height = hist[maxIdx].height => maxIdx <= k
    \/ /\ maxIdx = 1
       /\ \A k \in 1..Len(hist) : ~Counts(k)

\* The invariant of the loop: the same about the entries looked at so far.
LoopInv ==
  /\ TypeOK
  /\ \/ /\ maxIdx < i /\ Counts(maxIdx) /\ maxHeight = hist[maxIdx].height
        /\ \A k \in 1..(i - 1) : Counts(k) =>
             /\ hist[k].height <= maxHeight
             /\ hist[k].height = maxHeight => maxIdx <= k
     \/ /\ maxIdx = 1 /\ maxHeight = 0
        /\ \A k \in 1..(i - 1) : ~Counts(k)
=============================================================================
