-------------------------- MODULE SupernodeListing --------------------------
(***************************************************************************)
(* GET /v1/supernodes/metrics: a client reads the supernodes table page by *)
(* page, in the order of the accounts, while syncs insert rows at any      *)
(* place of that order and syncs and probes move rows in and out of the    *)
(* filters. next_cursor carries the last account of the page. The request  *)
(* has its names prefixed, so that one module can extend both listings.    *)
(***************************************************************************)
EXTENDS Integers, FiniteSets, Paging

CONSTANTS
  Accounts,   \* supernode accounts, numbered in the order of their names
  SnLimit,    \* the limit of the client's requests
  SnFilters,  \* what clients ask for
  Versions,   \* versions that supernodes report
  MaxFailed,  \* bound: failedProbeCounter
  SnMaxErrs   \* bound: failed queries

VARIABLES
  known,      \* the accounts that have a row
  row,        \* the filtered columns of each row
  snFilter,   \* the parameters of the client's requests
  snPc,       \* the request: "off", "idle", "listed"
  snCursor,   \* account in the cursor parameter (0: none given)
  snRows,     \* the accounts the query returned
  snHasMore,
  snGot,      \* the accounts the client has received
  snHeld,     \* history: rows that have matched since the first request
  snErrs

snVars == <<known, row, snFilter, snPc, snCursor, snRows, snHasMore, snGot,
            snHeld, snErrs>>

\* currentState: one of two states of the chain. open: what the "ports" of
\* metricsReport say; "null" where it has none. version: the first of
\* lastKnownActualVersion and actualVersion that is not empty, "none" without.
Columns == [currentState : {"active", "stopped"}, isStatusApiAvailable : BOOLEAN,
            open : {"null", "true", "false"}, version : Versions \cup {"none"},
            failedProbeCounter : 0..MaxFailed]

Filter == [currentState : {"any", "active", "stopped"},
           status : {"any", "available", "unavailable"},
           version : Versions \cup {"any"}, minFailed : 0..MaxFailed]

ASSUME SupernodeListingAssumption ==
  /\ Accounts \subseteq Nat \ {0} /\ IsFiniteSet(Accounts)
  /\ SnFilters \subseteq Filter /\ "none" \notin Versions /\ "any" \notin Versions
  /\ SnLimit \in Nat \ {0} /\ MaxFailed \in Nat /\ SnMaxErrs \in Nat

NewRow == [currentState |-> "active", isStatusApiAvailable |-> FALSE,
           open |-> "null", version |-> "none", failedProbeCounter |-> 0]

\* The WHERE clauses of the status parameter. A comparison with NULL is not
\* true.
StatusMatches(r, status) ==
  CASE status = "available"   -> r.isStatusApiAvailable /\ r.open = "true"
    [] status = "unavailable" -> ~r.isStatusApiAvailable \/ r.open = "false"
    [] OTHER                  -> TRUE

SnMatching(table, columns, f) ==
  {a \in table : /\ f.currentState \in {"any", columns[a].currentState}
                 /\ StatusMatches(columns[a], f.status)
                 /\ f.version \in {"any", columns[a].version}
                 /\ columns[a].failedProbeCounter >= f.minFailed}

-----------------------------------------------------------------------------
SnInit ==
  /\ known = {} /\ row \in [Accounts -> {NewRow}]
  /\ snFilter \in SnFilters /\ snPc = "off" /\ snCursor = 0
  /\ snRows = {} /\ snHasMore = FALSE /\ snGot = {} /\ snHeld = {} /\ snErrs = 0

\* A write to the table, seen from the listing.
Write(a, columns) ==
  /\ row' = [row EXCEPT ![a] = columns]
  /\ snHeld' = snHeld \cap SnMatching(known', row', snFilter)
  /\ UNCHANGED <<snFilter, snPc, snCursor, snRows, snHasMore, snGot, snErrs>>

\* A sync writes the state, and metricsReport without "ports".
UpsertSupernode(a, state) ==
  /\ known' = known \cup {a}
  /\ Write(a, [row[a] EXCEPT !.currentState = state, !.open = "null"])

\* Mutant: a success does not reset the counter.
UpdateSupernodeProbeData_NoReset(a, available, open, version) ==
  /\ a \in known
  /\ available \/ (version = "none" /\ row[a].failedProbeCounter < MaxFailed)
  /\ known' = known
  /\ Write(a, [row[a] EXCEPT !.isStatusApiAvailable = available, !.open = open,
                             !.version = IF version = "none" THEN @ ELSE version,
                             !.failedProbeCounter = @ + 1])

\* A probe writes its result, if the row is there: the version where the node
\* answered with one.
UpdateSupernodeProbeData(a, available, open, version) ==
  /\ a \in known
  /\ available \/ (version = "none" /\ row[a].failedProbeCounter < MaxFailed)
  /\ known' = known
  /\ Write(a, [row[a] EXCEPT !.isStatusApiAvailable = available, !.open = open,
                             !.version = IF version = "none" THEN @ ELSE version,
                             !.failedProbeCounter = IF available THEN 0 ELSE @ + 1])

\* A client starts to list, without a cursor.
SnBegin(f) ==
  /\ snPc = "off"
  /\ snPc' = "idle" /\ snFilter' = f /\ snCursor' = 0 /\ snGot' = {}
  /\ snRows' = {} /\ snHasMore' = FALSE
  /\ snHeld' = SnMatching(known, row, f)
  /\ UNCHANGED <<known, row, snErrs>>

\* Mutant: the cursor's own row is read again.
Beyond_Inclusive(c) == {a \in SnMatching(known, row, snFilter) : a >= c}

\* Mutant: the cursor is parsed and not used.
Beyond_NoCursor(c) == SnMatching(known, row, snFilter)

\* The rows WHERE ... AND "supernodeAccount" > cursor keeps.
Beyond(c) == {a \in SnMatching(known, row, snFilter) : a > c}

\* One query for Limit + 1 rows; the extra one only says that there are more.
ListSupernodeMetricsFiltered ==
  /\ snPc = "idle"
  /\ LET fetched == FirstN(Beyond(snCursor), 1, SnLimit + 1)
     IN  /\ snHasMore' = (Cardinality(fetched) > SnLimit)
         /\ snRows' = IF snHasMore' THEN FirstN(fetched, 1, SnLimit) ELSE fetched
  /\ snPc' = "listed"
  /\ UNCHANGED <<known, row, snFilter, snCursor, snGot, snHeld, snErrs>>

\* The account that next_cursor carries: the last of the page.
SnLastOf(page) == CHOOSE a \in page : \A b \in page : b <= a

\* The answer reaches the client; without next_cursor it stops.
Respond ==
  /\ snPc = "listed"
  /\ snGot' = snGot \cup snRows
  /\ IF snHasMore /\ snRows # {}
       THEN snPc' = "idle" /\ snCursor' = SnLastOf(snRows)
       ELSE snPc' = "off" /\ snCursor' = 0
  /\ snRows' = {} /\ snHasMore' = FALSE
  /\ UNCHANGED <<known, row, snFilter, snHeld, snErrs>>

\* The query fails, or the answer comes too late: the same request again.
SnRequestFails ==
  /\ snPc \in {"idle", "listed"} /\ snErrs < SnMaxErrs
  /\ snErrs' = snErrs + 1 /\ snPc' = "idle" /\ snRows' = {} /\ snHasMore' = FALSE
  /\ UNCHANGED <<known, row, snFilter, snCursor, snGot, snHeld>>

SnRequest == ListSupernodeMetricsFiltered \/ Respond \/ SnRequestFails

SnNext ==
  \/ \E a \in Accounts, state \in {"active", "stopped"} : UpsertSupernode(a, state)
  \/ \E a \in Accounts, available \in BOOLEAN, open \in {"true", "false"} :
       \E version \in Versions \cup {"none"} :
         UpdateSupernodeProbeData(a, available, open, version)
  \/ \E f \in SnFilters : SnBegin(f)
  \/ SnRequest

SnSpec == SnInit /\ [][SnNext]_snVars

\* A client keeps asking, and the server answers.
SnFairSpec == SnSpec /\ WF_snVars(SnRequest)

-----------------------------------------------------------------------------
\* Every variable has its type.
SnTypeOK ==
  /\ known \in SUBSET Accounts /\ row \in [Accounts -> Columns]
  /\ snFilter \in SnFilters /\ snPc \in {"off", "idle", "listed"}
  /\ snCursor \in Accounts \cup {0}
  /\ snRows \in SUBSET Accounts /\ snHasMore \in BOOLEAN
  /\ snGot \in SUBSET Accounts /\ snHeld \in SUBSET Accounts /\ snErrs \in 0..SnMaxErrs

\* The listing promised: a row inserted before the cursor, or a node that goes
\* down and up between two pages, makes the client neither miss nor repeat a
\* row that matched all along.
SnL == INSTANCE Listing WITH
         Rows <- Accounts, shown <- SnMatching(known, row, snFilter),
         held <- snHeld, pending <- snRows, got <- snGot, over <- (snPc = "off")

\* Every run of the service and its client is a run of the listing promised.
SnImplementsListing == SnL!Spec

\* However syncs and probes write while a client lists, it reaches the last page,
\* as the accounts beyond its cursor, finitely many, run out. (Of accounts that
\* never stop registering ahead of the cursor nothing is said.)
SnListingEnds == snPc = "idle" ~> snPc = "off"
=============================================================================
