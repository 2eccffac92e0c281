------------------------------ MODULE Listing ------------------------------
(***************************************************************************)
(* What a client that follows next_cursor is promised, whatever the order, *)
(* the filter and the writers: no row twice, only rows that matched when   *)
(* they were read, and, at the end, every row that has matched the filter  *)
(* from the first request on. Nothing is promised of rows that came, went  *)
(* or changed meanwhile. ActionListing and SupernodeListing implement it.  *)
(***************************************************************************)
CONSTANT Rows

VARIABLES
  shown,    \* the rows that match the filter now
  held,     \* those that have matched it since the client began
  pending,  \* the rows of an answer on its way
  got,      \* the rows the client has
  over      \* the client has no further page to ask for

vars == <<shown, held, pending, got, over>>

\* Every variable has its type.
TypeOK ==
  /\ shown \in SUBSET Rows /\ held \in SUBSET Rows
  /\ pending \in SUBSET Rows /\ got \in SUBSET Rows /\ over \in BOOLEAN

Init ==
  /\ shown \in SUBSET Rows /\ held = {}
  /\ pending = {} /\ got = {} /\ over = TRUE

\* The client asks for the first page of another filter.
Begin ==
  /\ over
  /\ shown' \in SUBSET Rows /\ held' = shown'
  /\ pending' = {} /\ got' = {} /\ over' = FALSE

\* Writers insert rows and change them.
Change ==
  /\ shown' \in SUBSET Rows /\ held' = held \cap shown'
  /\ UNCHANGED <<pending, got, over>>

\* The server reads a page.
Read ==
  /\ ~over
  /\ pending' \in SUBSET (shown \ got)
  /\ UNCHANGED <<shown, held, got, over>>

\* The answer reaches the client; the last one leaves no held row out.
Answer ==
  /\ got' = got \cup pending /\ pending' = {}
  /\ over' \in BOOLEAN /\ (over' => held \subseteq got')
  /\ UNCHANGED <<shown, held>>

\* The request fails.
Fail ==
  /\ pending' = {} /\ UNCHANGED <<shown, held, got, over>>

Next == Begin \/ Change \/ Read \/ Answer \/ Fail

Spec == Init /\ [][Next]_vars
=============================================================================
