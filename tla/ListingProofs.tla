--------------------------- MODULE ListingProofs ---------------------------
(***************************************************************************)
(* GET /v1/actions and GET /v1/supernodes/metrics, read page by page,      *)
(* implement the listing of module Listing for every table, every limit    *)
(* and every interleaving with the writers. The inductive invariant ties   *)
(* the cursor to what the client has: nothing the client has lies beyond   *)
(* the cursor, and every row that has matched all along and does not lie   *)
(* there, the client has. While a page is on its way, the same holds of    *)
(* the page and the stretch of keys it covers.                             *)
(***************************************************************************)
EXTENDS ActionListing, SupernodeListing, PagingProofs

USE ActionListingAssumption, SupernodeListingAssumption

-----------------------------------------------------------------------------
(* GET /v1/actions.                                                        *)

\* The ids of the rows of the page.
Page == {r.id : r \in rows}

\* The ids the cursor has not passed.
Ahead == {i \in Ids : cursor = 0 \/ i < cursor}

TableShape ==
  /\ actions \in [Ids -> States \cup {"absent"}]
  /\ cursor \in Ids \cup {0} /\ hasMore \in BOOLEAN
  /\ pc \in {"off", "idle", "listed"}
  /\ Page \in SUBSET Ids /\ Got \in SUBSET Ids /\ held \in SUBSET Ids

\* Nothing ahead of the cursor has been received, and nothing held is missing
\* behind it.
CursorExact ==
  pc # "off" =>
    /\ Got \cap Ahead = {}
    /\ \A i \in held \ Ahead : i \in Got

\* The page lies ahead of the cursor and leaves out nothing held above its
\* last row, or nothing at all when it is the last page.
PageExact ==
  /\ pc = "listed" =>
       /\ Page \subseteq Ahead
       /\ hasMore => /\ Page # {}
                     /\ \A i \in Page, j \in held \cap Ahead : j > i => j \in Page
       /\ ~hasMore => held \cap Ahead \subseteq Page
  /\ pc # "listed" => Page = {}

HeldMatch == held \subseteq Matching(actions, filter)

Inv == TableShape /\ CursorExact /\ PageExact /\ HeldMatch

\* The last id of a page is its least.
LEMMA LastOfPage ==
  ASSUME NEW P \in SUBSET Ids, P # {}
  PROVE  LastOf(P) \in P /\ \A j \in P : LastOf(P) <= j
<1>1. \E i \in P : \A j \in P : i <= j
  BY LeastElement
<1> QED  BY <1>1 DEF LastOf

\* What the first query returns, whatever the cursor.
LEMMA QueryResult ==
  ASSUME TableShape, HeldMatch, ListActionsFiltered
  PROVE  /\ Page' \in SUBSET (Matching(actions, filter) \cap Ahead)
         /\ hasMore' \in BOOLEAN
         /\ hasMore' => /\ Page' # {}
                        /\ \A i \in Page', j \in held \cap Ahead : j > i => j \in Page'
         /\ ~hasMore' => held \cap Ahead \subseteq Page'
<1> DEFINE S == Below(cursor)
<1> DEFINE fetched == LastN(S, Limit + 1)
<1> DEFINE kept == LastN(fetched, Limit)
<1>1. /\ S = Matching(actions, filter) \cap Ahead
      /\ S \in SUBSET Ids
  BY DEF Below, Ahead, Matching
<1>2. held \cap Ahead \subseteq S
  BY <1>1 DEF HeldMatch
<1>3. IsFiniteSet(S) /\ S \in SUBSET Nat
  <2> HIDE DEF S
  <2> QED  BY <1>1, FewerElements
<1>4. /\ kept \subseteq S
      /\ Cardinality(fetched) > Limit =>
           /\ kept # {}
           /\ \A i \in kept, j \in S : j > i => j \in kept
      /\ ~(Cardinality(fetched) > Limit) => fetched = S
  <2> HIDE DEF S
  <2>1. Limit \in Nat \ {0}
    OBVIOUS
  <2> QED  BY <1>3, <2>1, LastNLimit
<1>5. /\ hasMore' = (Cardinality(fetched) > Limit)
      /\ Page' = IF hasMore' THEN kept ELSE fetched
  <2> DEFINE read == IF hasMore' THEN kept ELSE fetched
  <2>1. /\ hasMore' = (Cardinality(fetched) > Limit)
        /\ rows' = {[id |-> i, state |-> actions[i]] : i \in read}
    BY DEF ListActionsFiltered
  <2> HIDE DEF read
  <2>2. Page' = {r.id : r \in {[id |-> i, state |-> actions[i]] : i \in read}}
    BY <2>1 DEF Page
  <2>3. \A i \in read : [id |-> i, state |-> actions[i]].id = i
    OBVIOUS
  <2>4. Page' = read
    BY ONLY <2>2, <2>3
  <2> QED  BY <2>1, <2>4 DEF read
<1> HIDE DEF S, fetched, kept
<1>6. CASE Cardinality(fetched) > Limit
  <2>1. hasMore' = TRUE /\ Page' = kept
    BY <1>5, <1>6
  <2> QED  BY <1>1, <1>2, <1>4, <1>6, <2>1
<1>7. CASE ~(Cardinality(fetched) > Limit)
  <2>1. ~hasMore'
    BY <1>5, <1>7
  <2>2. Page' = fetched
    BY <1>5, <2>1, Zenon
  <2>3. Page' = S
    BY <1>4, <1>7, <2>2, Zenon
  <2>4. hasMore' \in BOOLEAN
    BY <1>5
  <2>5. Page' \in SUBSET (Matching(actions, filter) \cap Ahead)
    BY <1>1, <2>3
  <2>6. held \cap Ahead \subseteq Page'
    BY <1>2, <2>3
  <2> QED  BY <2>1, <2>4, <2>5, <2>6, Zenon
<1> QED  BY <1>6, <1>7

\* What the answer adds, and where the cursor moves.
LEMMA AnswerResult ==
  ASSUME TableShape, GetActionTransactionsByActionIDs
  PROVE  /\ Got' = Got \cup Page
         /\ Page' = {}
         /\ hasMore /\ Page # {} => pc' = "idle" /\ cursor' = LastOf(Page)
         /\ ~(hasMore /\ Page # {}) => pc' = "off" /\ cursor' = 0
<1> DEFINE new == {[id |-> r.id, state |-> r.state,
                    registerTx |-> FlattenedTx(r.id)] : r \in rows}
<1>1. Got' = Got \cup Page /\ Page' = {}
  <2>1. items' = items \cup new /\ rows' = {}
    BY DEF GetActionTransactionsByActionIDs
  <2>2. {x.id : x \in new} = Page
    <3>1. \A r \in rows : [id |-> r.id, state |-> r.state,
                           registerTx |-> FlattenedTx(r.id)].id = r.id
      OBVIOUS
    <3>2. ASSUME NEW y \in {x.id : x \in new}
          PROVE  y \in Page
      <4>1. PICK x \in new : y = x.id
        BY <3>2
      <4>2. PICK r \in rows : x = [id |-> r.id, state |-> r.state,
                                 registerTx |-> FlattenedTx(r.id)]
        BY <4>1
      <4> QED  BY <3>1, <4>1, <4>2 DEF Page
    <3>3. ASSUME NEW y \in Page
          PROVE  y \in {x.id : x \in new}
      <4>1. PICK r \in rows : y = r.id
        BY <3>3 DEF Page
      <4> QED  BY <3>1, <4>1
    <3> QED  BY <3>2, <3>3
  <2>3. Got' = {x.id : x \in items} \cup {x.id : x \in new}
    <3> HIDE DEF new
    <3> QED  BY <2>1 DEF Got
  <2> HIDE DEF new
  <2> QED  BY <2>1, <2>2, <2>3 DEF Got, Page
<1>2. rows # {} <=> Page # {}
  BY DEF Page
<1>3. IF hasMore /\ rows # {}
        THEN pc' = "idle" /\ cursor' = LastOf(Page)
        ELSE pc' = "off" /\ cursor' = 0
  BY DEF GetActionTransactionsByActionIDs, Page
<1> QED  BY <1>1, <1>2, <1>3

\* The invariant holds at the start.
LEMMA InvInit == Init => Inv
BY DEF Init, Inv, TableShape, CursorExact, PageExact, HeldMatch, Page, Got, Matching

\* Every step of a client, of a writer or of the server keeps the invariant.
LEMMA InvStep == Inv /\ [Next]_vars => Inv'
<1> SUFFICES ASSUME Inv, [Next]_vars
             PROVE  Inv'
  OBVIOUS
<1> USE DEF Inv
<1>1. ASSUME NEW i \in Ids, NEW s \in States, UpsertAction(i, s)
      PROVE  Inv'
  <2>1. /\ actions' \in [Ids -> States \cup {"absent"}]
        /\ held' = held \cap Matching(actions', filter')
        /\ UNCHANGED <<filter, pc, cursor, rows, hasMore, items>>
    BY <1>1 DEF UpsertAction, TableShape
  <2>2. Page' = Page /\ Got' = Got /\ Ahead' = Ahead
    BY <2>1 DEF Page, Got, Ahead
  <2>3. HeldMatch'
    BY <2>1 DEF HeldMatch, Matching
  <2>4. held' \subseteq held
    BY <2>1
  <2>5. TableShape'
    BY <2>1, <2>2, <2>4 DEF TableShape
  <2>6. CursorExact' /\ PageExact'
    BY <2>1, <2>2, <2>4 DEF CursorExact, PageExact
  <2> QED  BY <2>3, <2>5, <2>6
<1>2. ASSUME NEW i \in Ids, NEW tx \in {"placeholder", "tx"}, UpsertActionTransaction(i, tx)
      PROVE  Inv'
  BY <1>2 DEF UpsertActionTransaction, TableShape, CursorExact, PageExact, HeldMatch,
              Page, Got, Ahead, Matching
<1>3. ASSUME NEW f \in Filters, Begin(f)
      PROVE  Inv'
  <2>1. /\ pc' = "idle" /\ cursor' = 0 /\ hasMore' = FALSE
        /\ Page' = {} /\ Got' = {} /\ Ahead' = Ids
        /\ actions' = actions /\ held' = Matching(actions', filter')
    BY <1>3 DEF Begin, Page, Got, Ahead
  <2>2. held' \in SUBSET Ids
    BY <2>1 DEF Matching
  <2>3. TableShape' /\ HeldMatch'
    BY <2>1, <2>2 DEF TableShape, HeldMatch
  <2>4. CursorExact' /\ PageExact'
    BY <2>1, <2>2 DEF CursorExact, PageExact
  <2> QED  BY <2>3, <2>4
<1>4. ASSUME ListActionsFiltered
      PROVE  Inv'
  <2>1. /\ pc = "idle" /\ pc' = "listed"
        /\ UNCHANGED <<actions, filter, cursor, items, held>>
    BY <1>4 DEF ListActionsFiltered
  <2>2. Got' = Got /\ Ahead' = Ahead
    BY <2>1 DEF Got, Ahead
  <2>3. /\ Page' \in SUBSET (Matching(actions, filter) \cap Ahead)
        /\ hasMore' \in BOOLEAN
        /\ hasMore' => /\ Page' # {}
                       /\ \A i \in Page', j \in held \cap Ahead : j > i => j \in Page'
        /\ ~hasMore' => held \cap Ahead \subseteq Page'
    BY <1>4, QueryResult
  <2>4. TableShape'
    BY <2>1, <2>2, <2>3 DEF TableShape, Matching
  <2>5. CursorExact'
    BY <2>1, <2>2 DEF CursorExact
  <2>6. PageExact'
    BY <2>1, <2>2, <2>3 DEF PageExact
  <2>7. HeldMatch'
    BY <2>1 DEF HeldMatch, Matching
  <2> QED  BY <2>4, <2>5, <2>6, <2>7
<1>5. ASSUME GetActionTransactionsByActionIDs
      PROVE  Inv'
  <2>1. /\ pc = "listed" /\ hasMore' = FALSE
        /\ UNCHANGED <<actions, filter, held>>
    BY <1>5 DEF GetActionTransactionsByActionIDs
  <2>2. /\ Got' = Got \cup Page
        /\ Page' = {}
        /\ hasMore /\ Page # {} => pc' = "idle" /\ cursor' = LastOf(Page)
        /\ ~(hasMore /\ Page # {}) => pc' = "off" /\ cursor' = 0
    BY <1>5, AnswerResult
  <2>3. HeldMatch'
    BY <2>1 DEF HeldMatch, Matching
  <2>4. CASE hasMore /\ Page # {}
    <3> DEFINE last == LastOf(Page)
    <3>1. last \in Page /\ \A j \in Page : last <= j
      BY <2>4, LastOfPage DEF TableShape
    <3>2. pc' = "idle" /\ cursor' = last
      BY <2>2, <2>4
    <3> HIDE DEF last
    <3>3. last \in Ids /\ last \in Ahead
      BY <2>1, <3>1 DEF TableShape, PageExact
    <3>4. Ahead' = {i \in Ids : i < last}
      BY <3>2, <3>3 DEF Ahead
    <3>5. TableShape'
      BY <2>1, <2>2, <3>2, <3>3 DEF TableShape
    <3>6. Ahead' \subseteq Ahead
      <4>1. ASSUME NEW i \in Ids, i < last, cursor # 0
            PROVE  i < cursor
        <5>1. last < cursor /\ cursor \in Nat /\ last \in Nat /\ i \in Nat
          BY <3>3, <4>1 DEF Ahead, TableShape
        <5> QED  BY <4>1, <5>1
      <4> QED  BY <3>4, <4>1 DEF Ahead
    <3>7. Got' \cap Ahead' = {}
      <4>1. Got \cap Ahead' = {}
        BY <2>1, <3>6 DEF CursorExact
      <4>2. Page \cap Ahead' = {}
        <5>1. \A j \in Page : j \in Nat /\ last \in Nat /\ last <= j
          BY <3>1, <3>3 DEF TableShape
        <5>2. \A j \in Page : ~(j < last)
          BY <5>1
        <5> QED  BY <3>4, <5>2
      <4> QED  BY <2>2, <4>1, <4>2
    <3>8. ASSUME NEW i \in held' \ Ahead'
          PROVE  i \in Got'
      <4>1. i \in held /\ i \in Ids /\ ~(i < last)
        BY <2>1, <3>4, <3>8 DEF TableShape
      <4>2. CASE i \notin Ahead
        BY <2>1, <2>2, <4>1, <4>2 DEF CursorExact
      <4>3. CASE i \in Ahead
        <5>1. i = last \/ i > last
          BY <3>3, <4>1
        <5>2. i \in Page
          BY <2>1, <2>4, <3>1, <4>1, <4>3, <5>1 DEF PageExact
        <5> QED  BY <2>2, <5>2
      <4> QED  BY <4>2, <4>3
    <3>9. CursorExact' /\ PageExact'
      BY <2>2, <3>2, <3>7, <3>8 DEF CursorExact, PageExact
    <3> QED  BY <2>3, <3>5, <3>9
  <2>5. CASE ~(hasMore /\ Page # {})
    <3>1. pc' = "off" /\ cursor' = 0
      BY <2>2, <2>5
    <3>2. TableShape'
      BY <2>1, <2>2, <3>1 DEF TableShape
    <3>3. CursorExact' /\ PageExact'
      BY <2>2, <3>1 DEF CursorExact, PageExact
    <3> QED  BY <2>3, <3>2, <3>3
  <2> QED  BY <2>4, <2>5
<1>6. ASSUME RequestFails
      PROVE  Inv'
  <2>1. /\ pc \in {"idle", "listed"} /\ pc' = "idle" /\ hasMore' = FALSE
        /\ UNCHANGED <<actions, filter, cursor, items, held>>
        /\ Page' = {}
    BY <1>6 DEF RequestFails, Page
  <2>2. Got' = Got /\ Ahead' = Ahead
    BY <2>1 DEF Got, Ahead
  <2>3. TableShape' /\ HeldMatch'
    BY <2>1, <2>2 DEF TableShape, HeldMatch, Matching
  <2>4. CursorExact' /\ PageExact'
    BY <2>1, <2>2 DEF CursorExact, PageExact
  <2> QED  BY <2>3, <2>4
<1>7. CASE UNCHANGED vars
  BY <1>7 DEF vars, TableShape, CursorExact, PageExact, HeldMatch, Page, Got,
              Ahead, Matching
<1> QED
  BY <1>1, <1>2, <1>3, <1>4, <1>5, <1>6, <1>7 DEF Next, Request

\* The initial states are initial states of the listing.
LEMMA ListingInit == Init => L!Init
BY DEF Init, L!Init, Matching, Got

\* Every step is a step of the listing, or changes nothing of it.
LEMMA ListingStep == Inv /\ [Next]_vars => [L!Next]_(L!vars)
<1> SUFFICES ASSUME Inv, [Next]_vars
             PROVE  [L!Next]_(L!vars)
  OBVIOUS
<1> USE DEF Inv
<1> DEFINE shown == Matching(actions, filter)
<1>0. shown' \in SUBSET Ids
  BY DEF Matching
<1>1. ASSUME NEW i \in Ids, NEW s \in States, UpsertAction(i, s)
      PROVE  L!Change
  <2>1. held' = held \cap shown' /\ Page' = Page /\ Got' = Got /\ pc' = pc
    BY <1>1 DEF UpsertAction, Matching, Page, Got
  <2> QED  BY <1>0, <2>1 DEF L!Change, Page
<1>2. ASSUME NEW i \in Ids, NEW tx \in {"placeholder", "tx"}, UpsertActionTransaction(i, tx)
      PROVE  UNCHANGED L!vars
  BY <1>2 DEF UpsertActionTransaction, L!vars, Matching, Got
<1>3. ASSUME NEW f \in Filters, Begin(f)
      PROVE  L!Begin
  BY <1>0, <1>3 DEF Begin, L!Begin, Matching, Got
<1>4. ASSUME ListActionsFiltered
      PROVE  L!Read
  <2>1. Page' \in SUBSET (shown \cap Ahead)
    BY <1>4, QueryResult
  <2>2. /\ pc = "idle" /\ pc' = "listed"
        /\ UNCHANGED <<actions, filter, items, held>>
    BY <1>4 DEF ListActionsFiltered
  <2>3. Page' \in SUBSET (shown \ Got)
    BY <2>1, <2>2 DEF CursorExact
  <2>4. Got' = Got /\ shown' = shown
    BY <2>2 DEF Got, Matching
  <2> QED  BY <2>2, <2>3, <2>4 DEF L!Read, Page
<1>5. ASSUME GetActionTransactionsByActionIDs
      PROVE  L!Answer
  <2>1. /\ Got' = Got \cup Page
        /\ Page' = {}
        /\ ~(hasMore /\ Page # {}) => pc' = "off"
        /\ hasMore /\ Page # {} => pc' = "idle"
    BY <1>5, AnswerResult
  <2>2. pc = "listed" /\ UNCHANGED <<actions, filter, held>>
    BY <1>5 DEF GetActionTransactionsByActionIDs
  <2>3. shown' = shown
    BY <2>2 DEF Matching
  <2>4. ASSUME pc' = "off" PROVE held \subseteq Got'
    <3>1. ~hasMore
      BY <2>1, <2>2, <2>4 DEF PageExact
    <3> QED  BY <2>1, <2>2, <3>1 DEF PageExact, CursorExact
  <2> QED  BY <2>1, <2>2, <2>3, <2>4 DEF L!Answer, Page
<1>6. ASSUME RequestFails
      PROVE  L!Fail
  BY <1>6 DEF RequestFails, L!Fail, Matching, Got
<1>7. CASE UNCHANGED vars
  BY <1>7 DEF vars, L!vars, Matching, Got
<1> QED
  BY <1>1, <1>2, <1>3, <1>4, <1>5, <1>6, <1>7 DEF Next, Request, L!Next

\* A client that follows next_cursor over GET /v1/actions misses no action
\* that matched its filter all along and receives none twice, whatever is
\* inserted or changed between its requests.
THEOREM ListingCorrect == Spec => ImplementsListing
<1>1. Spec => []Inv
  BY InvInit, InvStep, PTL DEF Spec
<1>2. Init => L!Init
  BY ListingInit
<1>3. Inv /\ [Next]_vars => [L!Next]_(L!vars)
  BY ListingStep
<1> QED
  BY <1>1, <1>2, <1>3, PTL DEF Spec, ImplementsListing, L!Spec

\* The items of an answer, built from the two queries.
LEMMA ItemsType ==
  ASSUME TypeOK, NEW r \in rows
  PROVE  [id |-> r.id, state |-> r.state, registerTx |-> FlattenedTx(r.id)] \in Item
<1>1. r.id \in Ids /\ r.state \in States
  BY DEF TypeOK, Row
<1>2. FlattenedTx(r.id) \in {"none", "tx"}
  BY <1>1 DEF FlattenedTx, TypeOK
<1> QED  BY <1>1, <1>2 DEF Item

\* Every step keeps the types.
LEMMA TypeStep == TypeOK /\ [Next]_vars => TypeOK'
<1> SUFFICES ASSUME TypeOK, [Next]_vars
             PROVE  TypeOK'
  OBVIOUS
<1>1. ASSUME NEW i \in Ids, NEW s \in States, UpsertAction(i, s)
      PROVE  TypeOK'
  BY <1>1 DEF UpsertAction, TypeOK
<1>2. ASSUME NEW i \in Ids, NEW tx \in {"placeholder", "tx"}, UpsertActionTransaction(i, tx)
      PROVE  TypeOK'
  BY <1>2 DEF UpsertActionTransaction, TypeOK
<1>3. ASSUME NEW f \in Filters, Begin(f)
      PROVE  TypeOK'
  BY <1>3 DEF Begin, TypeOK, Matching
<1>4. CASE ListActionsFiltered
  <2> DEFINE fetched == LastN(Below(cursor), Limit + 1)
             read == IF hasMore' THEN LastN(fetched, Limit) ELSE fetched
  <2>1. \A i \in read : i \in Ids /\ actions[i] \in States
    BY DEF LastN, Below, Matching, TypeOK
  <2>2. /\ rows' = {[id |-> i, state |-> actions[i]] : i \in read}
        /\ hasMore' \in BOOLEAN /\ pc' = "listed"
        /\ UNCHANGED <<actions, txs, filter, cursor, items, held, errs>>
    BY <1>4 DEF ListActionsFiltered
  <2> HIDE DEF read
  <2>3. rows' \in SUBSET Row
    BY <2>1, <2>2 DEF Row
  <2> QED  BY <2>2, <2>3 DEF TypeOK
<1>5. CASE GetActionTransactionsByActionIDs
  <2>1. /\ items' = items \cup {[id |-> r.id, state |-> r.state,
                               registerTx |-> FlattenedTx(r.id)] : r \in rows}
        /\ rows' = {} /\ hasMore' = FALSE
        /\ UNCHANGED <<actions, txs, filter, held, errs>>
    BY <1>5 DEF GetActionTransactionsByActionIDs
  <2>2. items' \in SUBSET Item
    BY <2>1, ItemsType DEF TypeOK
  <2>3. pc' \in {"off", "idle"} /\ cursor' \in Ids \cup {0}
    <3>1. CASE hasMore /\ rows # {}
      <4>1. pc' = "idle" /\ cursor' = LastOf({r.id : r \in rows})
        BY <1>5, <3>1 DEF GetActionTransactionsByActionIDs
      <4>2. {r.id : r \in rows} \in SUBSET Ids /\ {r.id : r \in rows} # {}
        BY <3>1 DEF TypeOK, Row
      <4>3. LastOf({r.id : r \in rows}) \in Ids
        BY <4>2, LastOfPage
      <4> QED  BY <4>1, <4>3
    <3>2. CASE ~(hasMore /\ rows # {})
      BY <1>5, <3>2 DEF GetActionTransactionsByActionIDs
    <3> QED  BY <3>1, <3>2
  <2> QED  BY <2>1, <2>2, <2>3 DEF TypeOK
<1>6. CASE RequestFails
  <2>1. errs' \in 0..MaxErrs
    BY <1>6 DEF RequestFails, TypeOK
  <2> QED  BY <1>6, <2>1 DEF RequestFails, TypeOK
<1>7. CASE UNCHANGED vars
  BY <1>7 DEF vars, TypeOK
<1> QED  BY <1>1, <1>2, <1>3, <1>4, <1>5, <1>6, <1>7 DEF Next, Request

\* Every variable keeps its type, for any ids, states, filters and limit; so no
\* item carries a placeholder.
THEOREM TypeCorrect == Spec => []TypeOK
<1>1. Init => TypeOK
  <2> SUFFICES ASSUME Init  PROVE TypeOK
    OBVIOUS
  <2>1. errs \in 0..MaxErrs
    BY DEF Init
  <2>2. /\ actions \in [Ids -> States \cup {"absent"}]
        /\ txs \in [Ids -> {"none", "placeholder", "tx"}]
    BY DEF Init
  <2> QED  BY <2>1, <2>2 DEF Init, TypeOK
<1> QED  BY <1>1, TypeStep, PTL DEF Spec

-----------------------------------------------------------------------------
(* GET /v1/supernodes/metrics.                                             *)

\* The accounts beyond the cursor.
SnAhead == {a \in Accounts : a > snCursor}

\* Nothing ahead of the cursor has been received, and nothing held is missing
\* behind it.
SnCursorExact ==
  snPc # "off" =>
    /\ snGot \cap SnAhead = {}
    /\ \A a \in snHeld \ SnAhead : a \in snGot

\* The page lies ahead of the cursor and leaves out nothing held before its last
\* row, or nothing at all when it is the last page.
SnPageExact ==
  /\ snPc = "listed" =>
       /\ snRows \subseteq SnAhead
       /\ snHasMore => /\ snRows # {}
                       /\ \A a \in snRows, b \in snHeld \cap SnAhead :
                            b < a => b \in snRows
       /\ ~snHasMore => snHeld \cap SnAhead \subseteq snRows
  /\ snPc # "listed" => snRows = {}

SnHeldMatch == snHeld \subseteq SnMatching(known, row, snFilter)

SnInv == SnTypeOK /\ SnCursorExact /\ SnPageExact /\ SnHeldMatch

\* The last account of a page is its greatest.
LEMMA LastAccount ==
  ASSUME NEW P \in SUBSET Accounts, IsFiniteSet(P), P # {}
  PROVE  SnLastOf(P) \in P /\ \A b \in P : b <= SnLastOf(P)
<1>1. \E a \in P : \A b \in P : b <= a
  BY GreatestElement
<1> QED  BY <1>1 DEF SnLastOf

\* What the query returns, whatever the cursor.
LEMMA SnQueryResult ==
  ASSUME SnTypeOK, SnHeldMatch, ListSupernodeMetricsFiltered
  PROVE  /\ snRows' \in SUBSET (SnMatching(known, row, snFilter) \cap SnAhead)
         /\ snHasMore' \in BOOLEAN
         /\ snHasMore' => /\ snRows' # {}
                          /\ \A a \in snRows', b \in snHeld \cap SnAhead :
                               b < a => b \in snRows'
         /\ ~snHasMore' => snHeld \cap SnAhead \subseteq snRows'
<1> DEFINE S == Beyond(snCursor)
           fetched == FirstN(S, 1, SnLimit + 1)
           kept == FirstN(fetched, 1, SnLimit)
<1>1. /\ S = SnMatching(known, row, snFilter) \cap SnAhead
      /\ S \in SUBSET (Nat \ {0}) /\ S \in SUBSET Accounts
  BY DEF Beyond, SnAhead, SnMatching, SnTypeOK
<1>2. snHeld \cap SnAhead \subseteq S
  BY <1>1 DEF SnHeldMatch
<1>3. snHasMore' = (Cardinality(fetched) > SnLimit)
      /\ snRows' = IF snHasMore' THEN kept ELSE fetched
  BY DEF ListSupernodeMetricsFiltered
<1> HIDE DEF S
<1>4. IsFiniteSet(S)
  BY <1>1, FewerElements
<1>5. /\ kept \subseteq S
      /\ Cardinality(fetched) > SnLimit =>
           /\ kept # {}
           /\ \A a \in kept, b \in S : b < a => b \in kept
      /\ ~(Cardinality(fetched) > SnLimit) => fetched = S
  <2>1. SnLimit \in Nat \ {0}
    OBVIOUS
  <2> QED  BY <1>1, <1>4, <2>1, FirstNLimit
<1> HIDE DEF fetched, kept
<1>6. CASE Cardinality(fetched) > SnLimit
  <2>1. snHasMore' = TRUE /\ snRows' = kept
    BY <1>3, <1>6
  <2> QED  BY <1>1, <1>2, <1>5, <1>6, <2>1
<1>7. CASE ~(Cardinality(fetched) > SnLimit)
  <2>0. snHasMore' \in BOOLEAN
    BY <1>3
  <2>1. ~snHasMore'
    BY <1>3, <1>7
  <2>2. snRows' = fetched
    BY <1>3, <2>1, Zenon
  <2>3. snRows' = S
    BY <1>5, <1>7, <2>2, Zenon
  <2> QED  BY <1>1, <1>2, <2>0, <2>1, <2>3
<1> QED  BY <1>6, <1>7

\* The invariant holds at the start.
LEMMA SnInvInit == SnInit => SnInv
<1> SUFFICES ASSUME SnInit  PROVE SnInv
  OBVIOUS
<1>1. row \in [Accounts -> Columns] /\ snErrs \in 0..SnMaxErrs
  <2>1. NewRow \in Columns
    BY DEF NewRow, Columns
  <2> QED  BY <2>1 DEF SnInit
<1> QED
  BY <1>1 DEF SnInit, SnInv, SnTypeOK, SnCursorExact, SnPageExact, SnHeldMatch, SnMatching

\* A write of a row keeps the invariant: the client's request is not touched,
\* and a row that stops matching is no longer held.
LEMMA SnWriteKeepsInv ==
  ASSUME SnInv, NEW a \in Accounts, NEW c \in Columns, Write(a, c), known' \in SUBSET Accounts
  PROVE  SnInv'
<1>1. /\ row' \in [Accounts -> Columns]
      /\ snHeld' = snHeld \cap SnMatching(known', row', snFilter')
      /\ snHeld' \subseteq snHeld
      /\ UNCHANGED <<snFilter, snPc, snCursor, snRows, snHasMore, snGot, snErrs>>
  BY DEF Write, SnInv, SnTypeOK
<1>2. SnAhead' = SnAhead
  BY <1>1 DEF SnAhead
<1>3. SnTypeOK' /\ SnHeldMatch'
  BY <1>1 DEF SnInv, SnTypeOK, SnHeldMatch
<1>4. SnCursorExact' /\ SnPageExact'
  BY <1>1, <1>2 DEF SnInv, SnCursorExact, SnPageExact
<1> QED  BY <1>3, <1>4 DEF SnInv

\* A probe's result, written to a row.
LEMMA ColumnsWritten ==
  ASSUME NEW r \in Columns, NEW available \in BOOLEAN, NEW open \in {"true", "false"},
         NEW v \in Versions \cup {"none"}, NEW n \in 0..MaxFailed
  PROVE  [r EXCEPT !.isStatusApiAvailable = available, !.open = open, !.version = v,
                   !.failedProbeCounter = n] \in Columns
  BY DEF Columns

\* What syncs and probes write are columns.
LEMMA SnWriters ==
  ASSUME SnTypeOK, NEW a \in Accounts,
         \/ \E state \in {"active", "stopped"} : UpsertSupernode(a, state)
         \/ \E available \in BOOLEAN, open \in {"true", "false"} :
              \E version \in Versions \cup {"none"} :
                UpdateSupernodeProbeData(a, available, open, version)
  PROVE  known' \in SUBSET Accounts /\ \E c \in Columns : Write(a, c)
<1>1. /\ row[a] \in Columns /\ row[a].failedProbeCounter \in 0..MaxFailed
      /\ row[a].version \in Versions \cup {"none"}
  BY DEF SnTypeOK, Columns
<1>2. ASSUME NEW state \in {"active", "stopped"}, UpsertSupernode(a, state)
      PROVE  known' \in SUBSET Accounts /\ \E c \in Columns : Write(a, c)
  <2>1. [row[a] EXCEPT !.currentState = state, !.open = "null"] \in Columns
    BY <1>1 DEF Columns
  <2> QED  BY <1>2, <2>1 DEF UpsertSupernode, SnTypeOK
<1>3. ASSUME NEW available \in BOOLEAN, NEW open \in {"true", "false"},
             NEW version \in Versions \cup {"none"},
             UpdateSupernodeProbeData(a, available, open, version)
      PROVE  known' \in SUBSET Accounts /\ \E c \in Columns : Write(a, c)
  <2> DEFINE n == IF available THEN 0 ELSE row[a].failedProbeCounter + 1
             v == IF version = "none" THEN row[a].version ELSE version
             c == [row[a] EXCEPT !.isStatusApiAvailable = available, !.open = open,
                     !.version = IF version = "none" THEN @ ELSE version,
                     !.failedProbeCounter = IF available THEN 0 ELSE @ + 1]
  <2>1. n \in 0..MaxFailed
    <3>1. CASE available
      BY <3>1
    <3>2. CASE ~available
      <4>1. row[a].failedProbeCounter < MaxFailed
        BY <1>3, <3>2 DEF UpdateSupernodeProbeData
      <4>2. row[a].failedProbeCounter + 1 \in 0..MaxFailed
        BY <1>1, <4>1
      <4> QED  BY <3>2, <4>2
    <3> QED  BY <3>1, <3>2
  <2>2. c = [row[a] EXCEPT !.isStatusApiAvailable = available, !.open = open,
                           !.version = v, !.failedProbeCounter = n]
    OBVIOUS
  <2>3. v \in Versions \cup {"none"}
    BY <1>1
  <2>4. known' = known /\ Write(a, c)
    BY <1>3 DEF UpdateSupernodeProbeData
  <2> HIDE DEF n, v, c
  <2>5. c \in Columns
    BY <1>1, <2>1, <2>2, <2>3, ColumnsWritten
  <2> QED  BY <2>4, <2>5 DEF SnTypeOK
<1> QED  BY <1>2, <1>3

\* The answer keeps the invariant: the cursor moves to the last row of the page.
LEMMA SnRespondKeepsInv == ASSUME SnInv, Respond  PROVE SnInv'
<1>1. /\ snPc = "listed" /\ snGot' = snGot \cup snRows
      /\ snRows' = {} /\ snHasMore' = FALSE
      /\ UNCHANGED <<known, row, snFilter, snHeld, snErrs>>
      /\ snCursor \in Nat
  BY DEF Respond, SnInv, SnTypeOK
<1>2. SnHeldMatch'
  BY <1>1 DEF SnInv, SnHeldMatch, SnMatching
<1>3. snGot' \in SUBSET Accounts /\ snRows' \in SUBSET Accounts
  BY <1>1 DEF SnInv, SnTypeOK
<1>4. CASE snHasMore /\ snRows # {}
  <2> DEFINE last == SnLastOf(snRows)
  <2>1. last \in snRows /\ \A b \in snRows : b <= last
    <3>1. snRows \in SUBSET Accounts /\ IsFiniteSet(snRows)
      BY FewerElements DEF SnInv, SnTypeOK
    <3> QED  BY <1>4, <3>1, LastAccount
  <2>2. snPc' = "idle" /\ snCursor' = last
    BY <1>4 DEF Respond
  <2> HIDE DEF last
  <2>3. last \in Accounts /\ last > snCursor
    BY <1>1, <2>1 DEF SnInv, SnTypeOK, SnPageExact, SnAhead
  <2>4. SnTypeOK'
    BY <1>1, <1>3, <2>2, <2>3 DEF SnInv, SnTypeOK
  <2>5. SnAhead' = {a \in Accounts : a > last}
    BY <2>2 DEF SnAhead
  <2>6. SnAhead' \subseteq SnAhead
    <3> SUFFICES ASSUME NEW a \in Accounts, a > last  PROVE a > snCursor
      BY <2>5 DEF SnAhead
    <3>1. a \in Nat /\ last \in Nat
      BY <2>3
    <3> QED  BY <1>1, <2>3, <3>1
  <2>7. snGot' \cap SnAhead' = {}
    <3>1. snGot \cap SnAhead' = {}
      BY <1>1, <2>6 DEF SnInv, SnCursorExact
    <3>2. \A b \in snRows : b \in Nat /\ ~(b > last)
      BY <2>1, <2>3 DEF SnInv, SnTypeOK
    <3> QED  BY <1>1, <2>5, <3>1, <3>2
  <2>8. ASSUME NEW a \in snHeld \ SnAhead'  PROVE a \in snGot'
    <3>1. a \in Accounts /\ a \in Nat /\ ~(a > last)
      BY <2>5, <2>8 DEF SnInv, SnTypeOK
    <3>2. CASE a \notin SnAhead
      BY <1>1, <2>8, <3>2 DEF SnInv, SnCursorExact
    <3>3. CASE a \in SnAhead
      <4>1. a = last \/ a < last
        BY <2>3, <3>1
      <4>2. a \in snRows
        BY <1>1, <1>4, <2>1, <2>8, <3>3, <4>1 DEF SnInv, SnPageExact
      <4> QED  BY <1>1, <4>2
    <3> QED  BY <3>2, <3>3
  <2>9. SnCursorExact' /\ SnPageExact'
    BY <1>1, <2>2, <2>7, <2>8 DEF SnCursorExact, SnPageExact
  <2> QED  BY <1>2, <2>4, <2>9 DEF SnInv
<1>5. CASE ~(snHasMore /\ snRows # {})
  <2>1. snPc' = "off" /\ snCursor' = 0
    BY <1>5 DEF Respond
  <2>2. SnTypeOK'
    BY <1>1, <1>3, <2>1 DEF SnInv, SnTypeOK
  <2>3. SnCursorExact' /\ SnPageExact'
    BY <1>1, <2>1 DEF SnCursorExact, SnPageExact
  <2> QED  BY <1>2, <2>2, <2>3 DEF SnInv
<1> QED  BY <1>4, <1>5

\* Every step of a client, of a writer or of the server keeps the invariant.
LEMMA SnInvStep == SnInv /\ [SnNext]_snVars => SnInv'
<1> SUFFICES ASSUME SnInv, [SnNext]_snVars  PROVE SnInv'
  OBVIOUS
<1>1. ASSUME NEW a \in Accounts,
             \/ \E state \in {"active", "stopped"} : UpsertSupernode(a, state)
             \/ \E available \in BOOLEAN, open \in {"true", "false"} :
                  \E version \in Versions \cup {"none"} :
                    UpdateSupernodeProbeData(a, available, open, version)
      PROVE  SnInv'
  BY <1>1, SnWriters, SnWriteKeepsInv DEF SnInv
<1>2. ASSUME NEW f \in SnFilters, SnBegin(f)  PROVE SnInv'
  <2>1. /\ snPc' = "idle" /\ snFilter' = f /\ snCursor' = 0 /\ snGot' = {}
        /\ snRows' = {} /\ snHasMore' = FALSE
        /\ snHeld' = SnMatching(known', row', snFilter')
        /\ UNCHANGED <<known, row, snErrs>>
    BY <1>2 DEF SnBegin
  <2>2. snHeld' \in SUBSET Accounts
    BY <2>1 DEF SnMatching, SnInv, SnTypeOK
  <2>3. SnTypeOK' /\ SnHeldMatch'
    BY <2>1, <2>2 DEF SnInv, SnTypeOK, SnHeldMatch
  <2>4. SnAhead' = Accounts
    <3>1. \A a \in Accounts : a > 0
      OBVIOUS
    <3> QED  BY <2>1, <3>1 DEF SnAhead
  <2>5. SnCursorExact' /\ SnPageExact'
    BY <2>1, <2>2, <2>4 DEF SnCursorExact, SnPageExact
  <2> QED  BY <2>3, <2>5 DEF SnInv
<1>3. CASE ListSupernodeMetricsFiltered
  <2>1. /\ snPc = "idle" /\ snPc' = "listed"
        /\ UNCHANGED <<known, row, snFilter, snCursor, snGot, snHeld, snErrs>>
    BY <1>3 DEF ListSupernodeMetricsFiltered
  <2>2. /\ snRows' \in SUBSET (SnMatching(known, row, snFilter) \cap SnAhead)
        /\ snHasMore' \in BOOLEAN
        /\ snHasMore' => /\ snRows' # {}
                         /\ \A a \in snRows', b \in snHeld \cap SnAhead :
                              b < a => b \in snRows'
        /\ ~snHasMore' => snHeld \cap SnAhead \subseteq snRows'
    BY <1>3, SnQueryResult DEF SnInv
  <2>3. SnAhead' = SnAhead /\ SnAhead \subseteq Accounts
    BY <2>1 DEF SnAhead
  <2>4. SnTypeOK'
    BY <2>1, <2>2, <2>3 DEF SnInv, SnTypeOK
  <2>5. SnCursorExact' /\ SnHeldMatch'
    BY <2>1, <2>3 DEF SnInv, SnCursorExact, SnHeldMatch, SnMatching
  <2>6. SnPageExact'
    BY <2>1, <2>2, <2>3 DEF SnPageExact
  <2> QED  BY <2>4, <2>5, <2>6 DEF SnInv
<1>4. CASE Respond
  BY <1>4, SnRespondKeepsInv
<1>5. CASE SnRequestFails
  <2>1. /\ snPc \in {"idle", "listed"} /\ snPc' = "idle" /\ snRows' = {} /\ snHasMore' = FALSE
        /\ UNCHANGED <<known, row, snFilter, snCursor, snGot, snHeld>>
    BY <1>5 DEF SnRequestFails
  <2>2. snErrs' \in 0..SnMaxErrs
    BY <1>5 DEF SnRequestFails, SnInv, SnTypeOK
  <2>3. SnTypeOK'
    BY <2>1, <2>2 DEF SnInv, SnTypeOK
  <2>4. SnCursorExact' /\ SnPageExact' /\ SnHeldMatch'
    BY <2>1 DEF SnInv, SnCursorExact, SnPageExact, SnHeldMatch, SnMatching, SnAhead
  <2> QED  BY <2>3, <2>4 DEF SnInv
<1>6. CASE UNCHANGED snVars
  BY <1>6 DEF snVars, SnInv, SnTypeOK, SnCursorExact, SnPageExact, SnHeldMatch,
              SnMatching, SnAhead
<1> QED  BY <1>1, <1>2, <1>3, <1>4, <1>5, <1>6 DEF SnNext, SnRequest

\* Every step is a step of the listing, or changes nothing of it.
LEMMA SnListingStep == SnInv /\ [SnNext]_snVars => [SnL!Next]_(SnL!vars)
<1> SUFFICES ASSUME SnInv, [SnNext]_snVars  PROVE [SnL!Next]_(SnL!vars)
  OBVIOUS
<1> DEFINE shown == SnMatching(known, row, snFilter)
<1>0. shown' \in SUBSET Accounts
  BY SnInvStep DEF SnMatching, SnInv, SnTypeOK
<1>1. ASSUME NEW a \in Accounts,
             \/ \E state \in {"active", "stopped"} : UpsertSupernode(a, state)
             \/ \E available \in BOOLEAN, open \in {"true", "false"} :
                  \E version \in Versions \cup {"none"} :
                    UpdateSupernodeProbeData(a, available, open, version)
      PROVE  SnL!Change
  <2>1. PICK c \in Columns : Write(a, c)
    BY <1>1, SnWriters DEF SnInv
  <2>2. snHeld' = snHeld \cap shown' /\ UNCHANGED <<snPc, snRows, snGot>>
    BY <2>1 DEF Write
  <2> QED  BY <1>0, <2>2 DEF SnL!Change
<1>2. ASSUME NEW f \in SnFilters, SnBegin(f)  PROVE SnL!Begin
  <2>1. /\ snPc = "off" /\ snPc' = "idle" /\ snHeld' = shown' /\ snGot' = {} /\ snRows' = {}
    BY <1>2 DEF SnBegin
  <2> QED  BY <1>0, <2>1 DEF SnL!Begin
<1>3. ASSUME ListSupernodeMetricsFiltered  PROVE SnL!Read
  <2>1. /\ snPc = "idle" /\ snPc' = "listed"
        /\ UNCHANGED <<known, row, snFilter, snCursor, snGot, snHeld, snErrs>>
    BY <1>3 DEF ListSupernodeMetricsFiltered
  <2>2. snRows' \in SUBSET (shown \cap SnAhead)
    BY <1>3, SnQueryResult DEF SnInv
  <2>3. snRows' \in SUBSET (shown \ snGot) /\ shown' = shown
    BY <2>1, <2>2 DEF SnInv, SnCursorExact, SnMatching
  <2>4. snPc # "off" /\ (snPc' = "off") = (snPc = "off")
    BY <2>1
  <2> QED  BY <2>1, <2>3, <2>4 DEF SnL!Read
<1>4. ASSUME Respond  PROVE SnL!Answer
  <2>1. /\ snPc = "listed" /\ snPc' \in {"idle", "off"} /\ snGot' = snGot \cup snRows
        /\ snRows' = {} /\ UNCHANGED <<known, row, snFilter, snHeld>>
        /\ ~(snHasMore /\ snRows # {}) \/ snPc' = "idle"
    BY <1>4 DEF Respond
  <2>2. shown' = shown
    BY <2>1 DEF SnMatching
  <2>3. ASSUME snPc' = "off"  PROVE snHeld \subseteq snGot'
    <3>1. ~snHasMore
      BY <2>1, <2>3 DEF SnInv, SnPageExact
    <3> QED  BY <2>1, <3>1 DEF SnInv, SnPageExact, SnCursorExact
  <2>4. (snPc' = "off") \in BOOLEAN
    OBVIOUS
  <2> QED  BY <2>1, <2>2, <2>3, <2>4 DEF SnL!Answer
<1>5. ASSUME SnRequestFails  PROVE SnL!Fail
  <2>1. /\ snRows' = {} /\ snHeld' = snHeld /\ snGot' = snGot
        /\ (snPc' = "off") = (snPc = "off")
    BY <1>5 DEF SnRequestFails
  <2>2. shown' = shown
    BY <1>5 DEF SnRequestFails, SnMatching
  <2> QED  BY <2>1, <2>2 DEF SnL!Fail
<1>6. CASE UNCHANGED snVars
  BY <1>6 DEF snVars, SnL!vars, SnMatching
<1> QED  BY <1>1, <1>2, <1>3, <1>4, <1>5, <1>6 DEF SnNext, SnRequest, SnL!Next

LEMMA SnInvariant == SnSpec => []SnInv
  BY SnInvInit, SnInvStep, PTL DEF SnSpec

\* Every variable keeps its type, for any accounts, filters and limit.
THEOREM SnTypeCorrect == SnSpec => []SnTypeOK
<1>1. SnInv => SnTypeOK
  BY DEF SnInv
<1> QED  BY <1>1, SnInvariant, PTL

\* A client that follows next_cursor over GET /v1/supernodes/metrics misses no
\* supernode that matched its filter all along and receives none twice, though
\* rows are inserted before its cursor and nodes go down and up.
THEOREM SnListingCorrect == SnSpec => SnImplementsListing
<1>1. SnInit => SnL!Init
  BY DEF SnInit, SnL!Init, SnMatching
<1> QED
  BY <1>1, SnInvariant, SnListingStep, PTL DEF SnSpec, SnImplementsListing, SnL!Spec
=============================================================================
