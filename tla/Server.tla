------------------------------- MODULE Server -------------------------------
(***************************************************************************)
(* The process: main, the HTTP server, the background loops, and the pool  *)
(* of database connections that handlers and loops share. A handler makes  *)
(* one or two calls of the database and answers; TimeoutHandler answers    *)
(* for it when it is late, while its goroutine goes on under a cancelled   *)
(* context. Nothing but a cancelled context ends a query the database      *)
(* does not answer. A signal cancels the loops' context, lets the server   *)
(* drain for ten seconds, and closes the pool, which waits for the         *)
(* connections in use. An error of the listener ends the process at once.  *)
(* What the calls read and write is in the other modules.                  *)
(***************************************************************************)
EXTENDS Integers, FiniteSets, SequencesExt

CONSTANTS
  Reads,     \* GET requests
  Triggers,  \* POST requests to /v1/supernodes/sync
  Loops,     \* background loops
  MaxConns,  \* DB_MAX_CONNS
  MaxCalls   \* bound: calls of the database by a manual run

ASSUME ServerAssumption ==
  /\ Reads \cap Triggers = {} /\ (Reads \cup Triggers) \cap Loops = {}
  /\ IsFiniteSet(Reads) /\ IsFiniteSet(Triggers) /\ IsFiniteSet(Loops)
  /\ MaxConns \in Nat \ {0} /\ MaxCalls \in Nat \ {0}

Requests == Reads \cup Triggers

Procs == Requests \cup Loops

VARIABLES
  main,     \* "starting", "running", "draining", "closing", "exited", "fatal"
  expired,  \* the deadline of the graceful shutdown has passed
  answer,   \* what each client got
  pc,       \* each goroutine: "off", "work", "wait", "query"
  left,     \* calls of the database a request's goroutine has yet to make
  queue,    \* goroutines waiting for a connection, first come first served
  held      \* goroutines that hold a connection

vars == <<main, expired, answer, pc, left, queue, held>>

-----------------------------------------------------------------------------
(* The endpoints: the numbers of calls of the database their handlers make *)
(* when none fails. Parameters that are rejected (400) lead to no call, a  *)
(* row that is not found (404) to one; an empty page has no transactions   *)
(* to ask for.                                                             *)

ListActions == {0, 1, 2}
GetAction == {0, 1, 2}
GetActionStats == {0, 2}
ListSupernodesMetrics == {0, 1}
ListUnavailableSupernodes == {0, 1}
GetSupernodeMetrics == {0, 1}
GetSupernodeStats == {1}
GetSupernodeActionStats == {0, 1}
GetPaymentInfo == {0, 1}
VersionMatrix == {1}
Healthz == {0}

Endpoints ==
  {ListActions, GetAction, GetActionStats, ListSupernodesMetrics,
   ListUnavailableSupernodes, GetSupernodeMetrics, GetSupernodeStats,
   GetSupernodeActionStats, GetPaymentInfo, VersionMatrix, Healthz}

-----------------------------------------------------------------------------
\* runner.Start comes before the server listens.
Init ==
  /\ main = "starting" /\ expired = FALSE
  /\ answer = [q \in Requests |-> "none"]
  /\ pc = [p \in Procs |-> IF p \in Loops THEN "work" ELSE "off"]
  /\ left = [q \in Requests |-> 0]
  /\ queue = <<>> /\ held = {}

Signalled == main \in {"draining", "closing", "exited"}

Closed == main \in {"closing", "exited"}

\* Mutant: the loops' context is never cancelled.
Done_LoopsGoOn(p) == p \in Requests /\ answer[p] \notin {"none", "pending"}

\* Mutant: a handler's context has no deadline of its own.
Done_NoDeadline(p) ==
  IF p \in Loops THEN Signalled
                 ELSE answer[p] \notin {"none", "pending", "timeout"}

\* The context of p is done: bgCtx is cancelled by main, a request's context
\* by its deadline, by a client that goes away, and when it is answered.
Done(p) ==
  IF p \in Loops THEN Signalled ELSE answer[p] \notin {"none", "pending"}

\* ListenAndServe listens.
Listen ==
  /\ main = "starting" /\ main' = "running"
  /\ UNCHANGED <<expired, answer, pc, left, queue, held>>

\* What the end of the process leaves: no goroutine, no connection.
Exits(status) ==
  /\ main' = status
  /\ answer' = [q \in Requests |->
                  IF answer[q] = "pending" THEN "cut" ELSE answer[q]]
  /\ pc' = [p \in Procs |-> "off"]
  /\ left' = [q \in Requests |-> 0] /\ queue' = <<>> /\ held' = {}
  /\ UNCHANGED expired

\* ListenAndServe fails, as the port is taken or a connection cannot be accepted:
\* log.Fatalf, beside loops and handlers at work.
ListenAndServeFails == main \in {"starting", "running"} /\ Exits("fatal")

\* A connection is accepted and its request routed to a handler.
Accept(q, n) ==
  /\ main = "running" /\ answer[q] = "none" /\ q \in Reads
  /\ answer' = [answer EXCEPT ![q] = "pending"]
  /\ left' = [left EXCEPT ![q] = n]
  /\ pc' = [pc EXCEPT ![q] = "work"]
  /\ UNCHANGED <<main, expired, queue, held>>

\* TriggerSupernodeSync starts a goroutine of its own for the manual run.
AcceptTrigger(q, n) ==
  /\ main = "running" /\ answer[q] = "none" /\ q \in Triggers
  /\ answer' = [answer EXCEPT ![q] = "pending"]
  /\ left' = [left EXCEPT ![q] = n]
  /\ pc' = [pc EXCEPT ![q] = "work"]
  /\ UNCHANGED <<main, expired, queue, held>>

-----------------------------------------------------------------------------
(* A call of the database: pool.Query, QueryRow or Exec.                   *)

\* A call fails. A read handler makes no other and answers 500; a manual run
\* goes on with its next call; a loop logs the error and goes on.
Fails(p) ==
  /\ pc' = [pc EXCEPT ![p] = "work"]
  /\ left' = CASE p \in Reads    -> [left EXCEPT ![p] = 0]
               [] p \in Triggers -> [left EXCEPT ![p] = @ - 1]
               [] OTHER          -> left
  /\ UNCHANGED <<main, expired, answer>>

\* Mutant: a request makes one call more than its handler.
Ask_OneMore(p) ==
  /\ pc[p] = "work" /\ ~Done(p) /\ (p \in Requests => left[p] >= 0)
  /\ pc' = [pc EXCEPT ![p] = "wait"]
  /\ queue' = Append(queue, p)
  /\ UNCHANGED <<main, expired, answer, left, held>>

\* The goroutine asks for a connection.
Ask(p) ==
  /\ pc[p] = "work" /\ ~Done(p) /\ (p \in Requests => left[p] > 0)
  /\ pc' = [pc EXCEPT ![p] = "wait"]
  /\ queue' = Append(queue, p)
  /\ UNCHANGED <<main, expired, answer, left, held>>

\* The context is done before it asks.
AskFails(p) ==
  /\ p \in Requests /\ pc[p] = "work" /\ Done(p) /\ left[p] > 0
  /\ Fails(p) /\ UNCHANGED <<queue, held>>

\* The first in the queue gets a free connection; a closed pool has none.
Grant ==
  /\ queue # <<>> /\ Cardinality(held) < MaxConns
  /\ queue' = Tail(queue)
  /\ IF Closed
       THEN Fails(Head(queue)) /\ UNCHANGED held
       ELSE /\ pc' = [pc EXCEPT ![Head(queue)] = "query"]
            /\ held' = held \cup {Head(queue)}
            /\ UNCHANGED <<main, expired, answer, left>>

\* A waiting goroutine whose context is done leaves the queue.
WaitFails(p) ==
  /\ pc[p] = "wait" /\ Done(p)
  /\ \E n \in DOMAIN queue : queue[n] = p /\ queue' = RemoveAt(queue, n)
  /\ Fails(p) /\ UNCHANGED held

\* Mutant: the rows of the first call stay open during the second.
QueryEnds_RowsOpen(p) ==
  /\ pc[p] = "query"
  /\ pc' = [pc EXCEPT ![p] = "work"]
  /\ left' = IF p \in Requests THEN [left EXCEPT ![p] = @ - 1] ELSE left
  /\ held' = IF p \in Requests /\ left[p] > 1 THEN held ELSE held \ {p}
  /\ UNCHANGED <<main, expired, answer, queue>>

\* The database answers: its rows are read to the end, which gives the
\* connection back before the next call.
QueryEnds(p) ==
  /\ pc[p] = "query"
  /\ pc' = [pc EXCEPT ![p] = "work"]
  /\ left' = IF p \in Requests THEN [left EXCEPT ![p] = @ - 1] ELSE left
  /\ held' = held \ {p}
  /\ UNCHANGED <<main, expired, answer, queue>>

\* Mutant: rows.Close is not deferred.
QueryFails_RowsOpen(p) ==
  /\ pc[p] = "query" /\ Fails(p) /\ UNCHANGED <<queue, held>>

\* The database reports an error, or the context is done.
QueryFails(p) ==
  /\ pc[p] = "query" /\ Fails(p)
  /\ held' = held \ {p} /\ UNCHANGED queue

-----------------------------------------------------------------------------
(* Answers.                                                                *)

\* The handler answers. What comes after TimeoutHandler's answer is dropped.
Respond(q) ==
  /\ pc[q] = "work" /\ left[q] = 0
  /\ answer' = [answer EXCEPT ![q] = IF @ = "pending" THEN "answered" ELSE @]
  /\ pc' = [pc EXCEPT ![q] = "off"]
  /\ UNCHANGED <<main, expired, left, queue, held>>

\* 202 or 204; the run, if there is one, goes on without its context.
TriggerAnswers(q) ==
  /\ answer[q] = "pending" /\ answer' = [answer EXCEPT ![q] = "answered"]
  /\ UNCHANGED <<main, expired, pc, left, queue, held>>

RunEnds(q) ==
  /\ pc[q] = "work" /\ left[q] = 0 /\ pc' = [pc EXCEPT ![q] = "off"]
  /\ UNCHANGED <<main, expired, answer, left, queue, held>>

\* RequestTimeout has passed and TimeoutHandler answers 503, or the client
\* has gone.
Timeout(q) ==
  /\ answer[q] = "pending" /\ answer' = [answer EXCEPT ![q] = "timeout"]
  /\ UNCHANGED <<main, expired, pc, left, queue, held>>

\* A loop returns at its select, between two passes.
LoopReturns(l) ==
  /\ pc[l] = "work" /\ Done(l) /\ pc' = [pc EXCEPT ![l] = "off"]
  /\ UNCHANGED <<main, expired, answer, left, queue, held>>

-----------------------------------------------------------------------------
(* Shutdown.                                                               *)

\* Mutant: the pool is closed before the server has drained.
Signal_ClosesFirst ==
  /\ main \in {"starting", "running"} /\ main' = "closing"
  /\ UNCHANGED <<expired, answer, pc, left, queue, held>>

\* SIGINT or SIGTERM: the deadline starts, bgCancel, srv.Shutdown.
Signal ==
  /\ main \in {"starting", "running"} /\ main' = "draining"
  /\ UNCHANGED <<expired, answer, pc, left, queue, held>>

\* Ten seconds after the signal.
Expire ==
  /\ main = "draining" /\ ~expired /\ expired' = TRUE
  /\ UNCHANGED <<main, answer, pc, left, queue, held>>

\* Shutdown returns when no connection is active, or at the deadline. It
\* knows of connections, not of goroutines that go on behind an answer.
\* db.Close begins.
Drained ==
  /\ main = "draining"
  /\ expired \/ \A q \in Requests : answer[q] # "pending"
  /\ main' = "closing"
  /\ UNCHANGED <<expired, answer, pc, left, queue, held>>

\* pool.Close returns when every connection is back; main returns.
PoolClosed == main = "closing" /\ held = {} /\ Exits("exited")

-----------------------------------------------------------------------------
(* The steps of a goroutine, but for a query that goes on.                 *)

Cancelled(p) == WaitFails(p) \/ (Done(p) /\ QueryFails(p))

ReadStep(q) ==
  Ask(q) \/ AskFails(q) \/ Cancelled(q) \/ Respond(q)

RunStep(q) == Ask(q) \/ AskFails(q) \/ Cancelled(q) \/ RunEnds(q)

MainStep == Expire \/ Drained \/ PoolClosed

Next ==
  \/ Listen \/ ListenAndServeFails \/ Signal \/ MainStep
  \/ \E q \in Reads : (\E n \in UNION Endpoints : Accept(q, n)) \/ ReadStep(q)
  \/ \E q \in Triggers :
       \/ \E n \in 0..MaxCalls : AcceptTrigger(q, n)
       \/ TriggerAnswers(q) \/ RunStep(q)
  \/ \E q \in Requests : Timeout(q)
  \/ \E l \in Loops : Ask(l) \/ Cancelled(l) \/ LoopReturns(l)
  \/ Grant
  \/ \E p \in Procs : QueryEnds(p) \/ QueryFails(p)

Spec == Init /\ [][Next]_vars

\* Goroutines run, timers fire, the pool and main go on, and a cancelled
\* query ends. The database need not answer, and loops may sleep.
Fairness ==
  /\ \A q \in Reads : WF_vars(ReadStep(q))
  /\ \A q \in Triggers : WF_vars(RunStep(q))
  /\ \A l \in Loops : WF_vars(Cancelled(l))
  /\ \A q \in Requests : WF_vars(Timeout(q))
  /\ WF_vars(Grant) /\ WF_vars(MainStep)

FairSpec == Spec /\ Fairness

-----------------------------------------------------------------------------
(* Properties.                                                             *)

Waiting == {queue[k] : k \in DOMAIN queue}

Answers == {"none", "pending", "answered", "timeout", "cut"}

\* Every variable has its type; the goroutines that wait are in the queue,
\* each once, those that query hold a connection, and DB_MAX_CONNS holds.
TypeOK ==
  /\ main \in {"starting", "running", "draining", "closing", "exited", "fatal"}
  /\ expired \in BOOLEAN
  /\ answer \in [Requests -> Answers]
  /\ pc \in [Procs -> {"off", "work", "wait", "query"}]
  /\ left \in [Requests -> Nat]
  /\ queue \in Seq(Procs) /\ Cardinality(Waiting) = Len(queue)
  /\ Waiting = {p \in Procs : pc[p] = "wait"}
  /\ held \subseteq Procs /\ Cardinality(held) <= MaxConns
  /\ \A p \in Procs : pc[p] = "query" => p \in held

\* Every goroutine that waits, waits for a query that runs: no handler or loop
\* keeps a connection while it asks for another, or after it has failed. With
\* all connections kept that way the pool would be dead until the deadlines.
WaitsForQueries ==
  queue # <<>> /\ Cardinality(held) = MaxConns => \E p \in held : pc[p] = "query"

\* The server drains before the pool is closed: a request that was accepted is
\* neither cut off by the end of the process nor refused a connection of a
\* closed pool, unless the ten seconds are over or the listener has failed.
DrainedFirst ==
  main # "fatal" =>
    \A q \in Requests :
      answer[q] = "cut" \/ (answer[q] = "pending" /\ Closed) => expired

\* Every request is answered and its goroutine ends, whatever the timeouts
\* leave behind and even if the database never answers again.
RequestsEnd ==
  \A q \in Requests :
    answer[q] # "none" ~> answer[q] # "pending" /\ pc[q] = "off"

\* After a signal the process exits, although db.Close waits for connections
\* that loops and abandoned handlers hold, and the database may not answer.
ShutdownEnds == main = "draining" ~> main = "exited"

\* While queries end, so that again and again none runs, every goroutine that
\* waits for a connection gets one, or learns that its context is done, however
\* many keep coming: no connection is lost.
WaitersServed ==
  []<>(\A p \in Procs : pc[p] # "query") =>
    \A p \in Procs : pc[p] = "wait" ~> pc[p] # "wait"
=============================================================================
