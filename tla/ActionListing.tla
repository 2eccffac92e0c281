--------------------------- MODULE ActionListing ---------------------------
(***************************************************************************)
(* GET /v1/actions: a client reads the actions table page by page, from    *)
(* the largest id down, while syncActions inserts and changes rows and the *)
(* enricher stores transactions. A request makes two queries, one for the  *)
(* rows and one for their transactions; either may fail, and the client    *)
(* then repeats the request. next_cursor carries the last id of the page   *)
(* (its timestamp is parsed and not used). GET /v1/actions/{id} is the     *)
(* listing whose filter keeps one id: it makes the same two queries, and   *)
(* answers 404 when the first finds no row.                                *)
(***************************************************************************)
EXTENDS Integers, FiniteSets, Paging

CONSTANTS
  Ids,      \* action ids
  States,   \* action states
  Filters,  \* what clients ask for
  Limit,    \* the limit of the client's requests
  MaxErrs   \* bound: failed queries

ASSUME ActionListingAssumption ==
  /\ Ids \subseteq Nat \ {0} /\ IsFiniteSet(Ids)
  /\ "absent" \notin States /\ "any" \notin States
  /\ Filters \subseteq [state : States \cup {"any"}, among : SUBSET Ids]
  /\ Limit \in Nat \ {0} /\ MaxErrs \in Nat

VARIABLES
  actions,  \* state of each row of actions ("absent": no row)
  txs,      \* its register row: "none", "placeholder" or "tx"
  filter,   \* the parameters of the client's requests
  pc,       \* the request: "off", "idle", "listed"
  cursor,   \* id in the cursor parameter (0: none given)
  rows,     \* the rows the first query returned
  hasMore,
  items,    \* the items the client has received
  held,     \* history: rows that have matched since the first request
  errs

vars == <<actions, txs, filter, pc, cursor, rows, hasMore, items, held, errs>>

Row == [id : Ids, state : States]

Item == [id : Ids, state : States, registerTx : {"none", "tx"}]

\* The rows the WHERE clauses keep. "state" stands for the conditions on the
\* columns that change with an action (state, superNodes), "any" for none;
\* among are the actions that satisfy those on columns that never change (id,
\* type, creator, height).
Matching(table, f) ==
  {i \in f.among \cap Ids : table[i] # "absent" /\ f.state \in {"any", table[i]}}

-----------------------------------------------------------------------------
Init ==
  /\ actions \in [Ids -> {"absent"}] /\ txs \in [Ids -> {"none"}]
  /\ filter \in Filters /\ pc = "off" /\ cursor = 0
  /\ rows = {} /\ hasMore = FALSE /\ items = {} /\ held = {} /\ errs = 0

\* syncActions: any action of the chain, in the state fetched for it.
UpsertAction(i, s) ==
  /\ actions' = [actions EXCEPT ![i] = s]
  /\ held' = held \cap Matching(actions', filter)
  /\ UNCHANGED <<txs, filter, pc, cursor, rows, hasMore, items, errs>>

\* The enricher: a transaction, or the placeholder where nothing was found.
\* Another replica's placeholder may replace a transaction.
UpsertActionTransaction(i, tx) ==
  /\ actions[i] # "absent"
  /\ txs' = [txs EXCEPT ![i] = tx]
  /\ UNCHANGED <<actions, filter, pc, cursor, rows, hasMore, items, held, errs>>

\* A client starts to list, without a cursor.
Begin(f) ==
  /\ pc = "off"
  /\ pc' = "idle" /\ filter' = f /\ cursor' = 0 /\ items' = {}
  /\ rows' = {} /\ hasMore' = FALSE
  /\ held' = Matching(actions, f)
  /\ UNCHANGED <<actions, txs, errs>>

\* Mutant: the cursor's own row is read again.
Below_Inclusive(c) == {i \in Matching(actions, filter) : c = 0 \/ i <= c}

\* Mutant: the cursor is parsed and not used.
Below_NoCursor(c) == Matching(actions, filter)

\* The rows WHERE ... AND "actionID" < cursor keeps.
Below(c) == {i \in Matching(actions, filter) : c = 0 \/ i < c}

\* One query for Limit + 1 rows; the extra one only says that there are more.
ListActionsFiltered ==
  /\ pc = "idle"
  /\ LET fetched == LastN(Below(cursor), Limit + 1)
     IN  /\ hasMore' = (Cardinality(fetched) > Limit)
         /\ rows' = {[id |-> i, state |-> actions[i]] :
                       i \in IF hasMore' THEN LastN(fetched, Limit) ELSE fetched}
  /\ pc' = "listed"
  /\ UNCHANGED <<actions, txs, filter, cursor, items, held, errs>>

\* Placeholders do not appear in answers.
FlattenedTx(i) == IF txs[i] = "placeholder" THEN "none" ELSE txs[i]

\* Mutant: the cursor is one off.
LastOf_PlusOne(page) == 1 + CHOOSE i \in page : \A j \in page : i <= j

\* The id that next_cursor carries: the last of the page.
LastOf(page) == CHOOSE i \in page : \A j \in page : i <= j

\* The second query, the items built from both, and the answer. A client
\* without next_cursor stops.
GetActionTransactionsByActionIDs ==
  /\ pc = "listed"
  /\ items' = items \cup {[id |-> r.id, state |-> r.state,
                           registerTx |-> FlattenedTx(r.id)] : r \in rows}
  /\ IF hasMore /\ rows # {}
       THEN pc' = "idle" /\ cursor' = LastOf({r.id : r \in rows})
       ELSE pc' = "off" /\ cursor' = 0
  /\ rows' = {} /\ hasMore' = FALSE
  /\ UNCHANGED <<actions, txs, filter, held, errs>>

\* Either query fails or times out: 500, and the same request again.
RequestFails ==
  /\ pc \in {"idle", "listed"} /\ errs < MaxErrs
  /\ errs' = errs + 1 /\ pc' = "idle" /\ rows' = {} /\ hasMore' = FALSE
  /\ UNCHANGED <<actions, txs, filter, cursor, items, held>>

Request == ListActionsFiltered \/ GetActionTransactionsByActionIDs \/ RequestFails

Next ==
  \/ \E i \in Ids, s \in States : UpsertAction(i, s)
  \/ \E i \in Ids, tx \in {"placeholder", "tx"} : UpsertActionTransaction(i, tx)
  \/ \E f \in Filters : Begin(f)
  \/ Request

Spec == Init /\ [][Next]_vars

\* A client keeps asking, and the server answers.
FairSpec == Spec /\ WF_vars(Request)

-----------------------------------------------------------------------------
\* Every variable has its type; no item carries a placeholder.
TypeOK ==
  /\ actions \in [Ids -> States \cup {"absent"}]
  /\ txs \in [Ids -> {"none", "placeholder", "tx"}]
  /\ filter \in Filters /\ pc \in {"off", "idle", "listed"}
  /\ cursor \in Ids \cup {0}
  /\ rows \in SUBSET Row /\ hasMore \in BOOLEAN
  /\ items \in SUBSET Item /\ held \in SUBSET Ids /\ errs \in 0..MaxErrs

Got == {x.id : x \in items}

\* The listing promised: rows inserted, or moved from one state to another,
\* between two pages make the client neither miss nor repeat an action that
\* matched all along.
L == INSTANCE Listing WITH
       Rows <- Ids, shown <- Matching(actions, filter), held <- held,
       pending <- {r.id : r \in rows}, got <- Got, over <- (pc = "off")

\* Every run of the service and its client is a run of the listing promised.
ImplementsListing == L!Spec

\* However many actions arrive while a client lists, it reaches the last page:
\* ids below its cursor run out.
ListingEnds == pc = "idle" ~> pc = "off"
=============================================================================
