# Lumescope: specifications and proofs

Lumescope copies the supernodes and actions of the Lumera chain into Postgres,
measures the supernodes over the network, enriches the actions with their
transactions, and serves the result over HTTP. This directory holds TLA+ models
of the parts of it whose correctness depends on order, failure and timing, TLC
configurations that check small instances, and proofs, checked by TLAPS, that
hold for instances of any size.

Source paths below are relative to `src/`. `scheduler.go` is
`internal/background/scheduler.go`, `client.go` is `internal/lumera/client.go`,
`db.go` is `internal/db/db.go`, `main.go` is `cmd/lumescope/main.go`, `router.go`
is `internal/server/router.go`, `httpjson.go` is `internal/util/httpjson.go`, and
`actions.go` and `supernodes.go` are in `internal/handlers/`.

## 1. The system

| Part | Source | State | Operations |
|---|---|---|---|
| Supernode sync and probes | scheduler.go, db.go, client.go, supernodes.go | table `supernodes`; `Runner.validatorMonikers`, `Runner.syncRunning`; per goroutine a page, a list of targets, a measurement | `loopValidators`, `loopSupernodes`, `loopProbes`, `TriggerSyncAndProbe` |
| Action sync and transaction enricher | scheduler.go, db.go, client.go | tables `actions`, `action_transactions`; per process a page, a batch, a cursor, the cached address of the module account | `loopActions`, `loopActionTxEnricher` |
| Latest state and address | scheduler.go 520-561 | local variables of a loop | `latestState`, `latestIPAddress` |
| Pages | client.go, db.go | none | `next_key` of the chain, `ORDER BY ... LIMIT` of the database |
| Listing of actions | actions.go, db.go | the client's cursor, the rows of a request between its two queries | `GET /v1/actions`, `GET /v1/actions/{id}` |
| Listing of supernodes | supernodes.go, db.go | the client's cursor | `GET /v1/supernodes/metrics` |
| Transfer flow parsing | client.go 512-692 | local variables | `extractTransferFlow`, `parseTransferEvent`, `extractTxSigner` |
| Conditional requests | httpjson.go | the client's last answer with its headers | `WriteJSON` |
| Process lifecycle | main.go, router.go, db.go | listener, pool of connections, contexts and deadlines | start, `TimeoutHandler`, signal, `srv.Shutdown`, `db.Close` |
| Single-row and statistics endpoints | handlers, db.go | none | one read query each (two in `GetActionStatsExtended`) |
| Middleware, configuration, metadata decoding, health | router.go, config.go, actionmeta.go, health.go | none | |

How they interact. `main` connects, creates the tables, runs `Runner.Start`
(one synchronous `syncValidators`, then five goroutines) and serves HTTP. The
goroutines share one table per kind of row and no lock: every statement commits
by itself. `loopSupernodes` and `loopProbes` write different columns of the
same rows, except `metricsReport`, which both write. `POST /v1/supernodes/sync`
starts a goroutine that runs the same two passes *beside* the loops, guarded by
`syncRunning`, under the context of the request. `validatorMonikers` is
replaced by one goroutine and read by others without a lock. README.md allows
several processes on one database, so the enricher of one replica meets the
writes of another. Clients read the tables page by page while all this goes on.
Handlers, manual runs and loops share one pool of `DB_MAX_CONNS` connections. A
handler's context ends with `TimeoutHandler`'s answer, the loops' with a signal;
a statement of a loop has no deadline at all. `main` closes the pool after
`srv.Shutdown`, which knows connections of clients and not goroutines.

What is hard here:

* **Held data.** A page of supernodes, a list of targets, a batch of actions or
  the answers of three searches are held in memory while others write the rows.
* **Swallowed errors.** A failed upsert is logged and passed over. A failed
  transaction search looks like "no transactions".
* **Contexts.** After a signal, or after the answer to a request, each call
  fails at once; a failed dial must not be stored as a node that is down.
* **Restarts.** The moniker map and the cursors are lost, the tables stay.
* **Pages.** Cursors and limits against rows that come and change meanwhile.
* **Fallbacks.** The payment of a transaction is told by ten rules, each used when
  the ones before fit nothing, under addresses that may be unknown, attributes that
  may be missing or empty, and logs that repeat the events.
* **Caches.** Clients revalidate by hash and by whole seconds, of a clock or of
  the latest probe.
* **The pool.** Goroutines that outlive their answer, a database that does not
  answer, and a shutdown that waits for connections in use.

What makes each part correct:

* *Supernodes*: the columns of a row agree whoever wrote last; a row is never
  ahead of the chain and, in the end, equal to it; nothing measured under a
  cancelled context is stored; manual runs exclude each other and end.
* *Actions*: what is recorded is on the chain and, with one process, stays; a
  placeholder stands only for an action without transactions; each action is
  looked at, and each pass ends.
* *Latest entry*: the first entry of the greatest positive height that parses.
* *Transfer flow*: the first transfer that fits the first rule to fit any; where
  the logs repeat the events, never one they have put together from two transfers.
* *Conditional requests*: a client that revalidates by hash has what the handler
  read; one that does by time may lag, but shows no probe from before the latest read
  and misses none that is later than its last answer.
* *Server*: every request ends; whoever waits for a connection waits for a query
  that runs; the process drains before it closes the pool, and exits.
* *Listings*: a client that follows `next_cursor` sees every row that matched
  all along, none twice, and comes to an end.

The file `PROJECT.json` lists each hazard at its line, with the properties that
would show it going wrong.

## 2. Modules

```
Paging  <-- SupernodeSync   <-- MCSupernodeSync
   ^            ^-------------- SupernodeSyncProofs  --> PagingProofs
   +------- ActionEnricher  <-- MCActionEnricher
   |            ^-------------- ActionEnricherProofs --> PagingProofs
   +------- ActionListing, SupernodeListing  <-- MCListings
   |            ^-------------- ListingProofs        --> PagingProofs
   +------- PagingProofs
Listing <== ActionListing, SupernodeListing          (refinement)
LatestEntry, TransferFlow, ConditionalGet <-- MCAlgorithms
LatestEntry    <-- LatestEntryProofs
TransferFlow   <-- TransferFlowProofs
ConditionalGet <-- ConditionalGetProofs              --> PagingProofs
Server <-- MCServer
   ^------ ServerProofs
```

`MCListings` and `MCAlgorithms` extend modules that share no state and run them
side by side: a behaviour is one of one part while the others rest. Hence the
prefixes `sn` (SupernodeListing), `Flow` (TransferFlow) and `Get`
(ConditionalGet) in names that would clash.

### Paging

`FirstN`, `NextKey` and `LastN` are pages as functions of a set of keys. Keys
are numbers; only their order matters, so accounts and actions are numbered in
the order in which the chain and the database sort them.

### SupernodeSync

The `supernodes` table and everything that writes it, and the process around it.

| Variable | Code |
|---|---|
| `chain` | external: height and address of every account; height 0 is "not registered" |
| `up`, `cancelled` | the process; the goroutines whose context is cancelled |
| `validatorMonikers`, `syncRunning` | fields of `Runner` |
| `pc` | where each goroutine is: `fetch` and `upsert` in `syncSupernodes`, `list`, `measure` and `write` in `probeSupernodes`, `wait` in a loop's `select`, `release` in a manual run's deferred function |
| `next`, `page` | pagination key and rows of a sync still to upsert |
| `targets`, `meas` | rows of a probe pass still to measure; the measurement about to be stored |
| `known`, `cols`, `probe`, `report` | the table: which rows exist, the columns a sync writes, the columns a probe writes, and `metricsReport`, which both write |
| `clock` | counts measurements and gives them their times |

Each request to the chain, each SQL statement and each measurement is an action
of its own, so anything may happen between two of them. `UpsertSupernode` and
`UpdateSupernodeProbeData` are the two statements as functions of the row,
`COALESCE` and `NULLIF` included. A measurement carries `tainted`, a history
flag: its context was already cancelled. `Crash` ends the process at any point
and keeps the table. The unsynchronized replacement of the moniker map is
one assignment of a reference; a sync reads the old map or the new one, which is
what `SyncValidators` between two `Upsert`s gives.

Left out: rows have no columns that are only copied (`ports`, `tokens`,
`currentState`, `p2pPort`, hardware metrics), the time columns of a sync, and
the parsing of the status answer, which is the nondeterministic `Outcome`.
Rows of a page and targets are taken in any order, a superset of the code's.
`UpdateSupernodeProbeData` repeats a failed UPDATE without the newer columns where
the database reports them missing (SQLSTATE 42703, db.go 311-361), and the listing of
supernodes repeats its query without `minFailedProbeCounter` (db.go 489-495). As
`Bootstrap` has added these columns before anything else runs, neither can happen.

### ActionEnricher

The tables `actions` and `action_transactions`. An action has up to three
transactions on the chain, register, finalize and approve (`stage`, 1 to 3);
the transaction index follows later (`indexed`). `apc`, `anext`, `apage` are
`loopActions` of each replica; `epc`, `minID`, `batch`, `full`, `cur`, `query`,
`got` are `runActionTxEnricher`; `had` is a history variable, what was indexed
when the three searches began. `SearchTxs` is one of the three searches, whose
error is an empty answer as in `GetActionTransactions`; a placeholder or each
transaction is stored by a statement of its own.

`cached` are the replicas whose client has the address of the module account.
`GetActionModuleAccount` fetches it when an action is begun; if the call fails,
the action is looked up all the same (`guessing`) and its transactions are stored
as a `guess`: payer and payee were told without the address, and nothing looks at
the action again. What such a guess picks is in TransferFlow.

Left out: the other columns of a transaction; several transactions of one type,
which overwrite each other in the one row they have.

### LatestEntry

The loop of `latestState` and `latestIPAddress`, one action per turn.

### TransferFlow

`extractTransferFlow` for one transaction, a loop turn per action: `Collect` over
the events and then the logs (`Source`), `Try` and `NextRule` over the rules.
An event is the sequence of its attributes; `Parsed` is `parseTransferEvent`, in
which later attributes overwrite earlier ones and a coin has two parts that are
kept separately. `Signer` is `extractTxSigner`. Addresses are strings, `""` an
unknown one, `Nil` a missing attribute.

### ConditionalGet

`WriteJSON` and a client that sends back `If-None-Match`, `If-Modified-Since` or
both. `now` counts instants, `PerSecond` of them to a second: headers have whole
seconds, the handler's times have not. `content` is what a sync writes, `check`
the time of each row's last probe. A request reads the database (`Read`) and
answers later (`WriteJSON`); syncs, probes and time go on between. `Probe` stores any
time up to now, a later or an earlier one than the row has: the UPDATE does not
look, and a loop, a manual run and another replica may store in any order. The body
is its own hash: that the ETag keeps 64 of 256 bits is left out.

### Server

The process as its users of the database see it. A goroutine is a request (`Reads`,
`Triggers`) or one of the `Loops`; `left` counts the calls its handler has yet to
make, out of the set its endpoint has (`Endpoints`). `Ask`, `Grant`, `QueryEnds`,
`QueryFails`, `WaitFails` are a call of the pool: a queue, `MaxConns` connections,
contexts that end. `Timeout` is `TimeoutHandler`'s answer (or a client that goes
away), after which the goroutine goes on under a cancelled context. `main` goes
from `starting` over `running`, `draining` (`srv.Shutdown`) and `closing`
(`db.Close`) to `exited`; loops work from the start, before the server listens. Up to
the signal an error of `ListenAndServe` may end the process at once (`log.Fatalf`,
`fatal`).

Left out: what calls read and write; a second signal; the HTTP connections (a
request is one); panics, which `withRecover` turns into answers.

### Listing, ActionListing, SupernodeListing

`Listing` is what a client is promised, without cursors, limits or tables: rows
it has, rows on their way, rows that have matched since it began (`held`); when
it is told there is no more, it has every held row, and no row comes twice.

`ActionListing` is `GET /v1/actions`: descending ids, `Limit + 1` rows per
query, the second query for transactions with writers in between, the
placeholder hidden, and the cursor. `SupernodeListing` is
`GET /v1/supernodes/metrics`: ascending accounts, where a sync may insert at
any place, filtered by `currentState`, `status`, `version` and
`minFailedProbeCounter`, columns that probes and syncs change, with SQL's NULL in the
comparisons. Both
implement `Listing` under the refinement mappings `L` and `SnL`. In `ActionListing` a filter
has a state, for the conditions on columns that change, and a set of ids
`among`, for those on columns that never do (`type`, `creator`, `fromHeight`,
`toHeight`); with a single id it is `GET /v1/actions/{id}`.

## 3. What is checked

Definitions named `X_Something` are plausible mistakes in `X`. For each property
of each passing run there is one; with it in place of `X`, TLC refutes the
property. They show that the properties are about the code.

| Run | Shows |
|---|---|
| `sync_manual` | two manual runs, both loops, crashes, signals and a failing call on one row. `ProbeColumnsAgree` and `VersionsAgree`: the columns of two kinds of UPDATE tell one story. `ManualExclusive`: the flag is set exactly while one run exists. `CutShortNeverStored`: a cancelled context never becomes a failed probe. `MonikerKept`: an empty map after a restart erases no moniker |
| `sync_loops` | the loops alone, two supernodes on a page each, restarts, errors. `HeightNeverDecreases`, `CheckTimesInOrder`: rows never go back. (With a manual run they may: two pages of different ages.) |
| `sync_live` | `Converges`: all the same, rows end up equal to the chain while the process stays up. `ManualEnds`: the flag is always freed. `RowsBehindChain` |
| `enricher_replicas` | two processes on one action. `RecordedIsOnChain`; `PlaceholderMeansNone` when the chain API does not fail, signals and crashes at any point included |
| `enricher_live` | one process, two actions in batches of one, an error. `TxNeverLost`: a recorded transaction is not replaced. `PassEnds`, although actions arrive (finitely many). `EveryActionChecked`: no action from `StartID` on falls between batches for good. `GuessedOnlyAfterError`: a payment is told without the address of the module only if a call failed |
| `algorithms` | `ChosenIsLatest` for all histories of up to four entries with unparsable, negative, zero and equal heights. `ChosenIsBest`: the rules for a payment are fallbacks of each other, for up to two events and one in the logs. `OneTransfer`: logs that repeat the events, merged, change nothing. `Fresh`: a client that revalidates by ETag, or asks an endpoint whose Last-Modified is the current time, has what the handler read. Whatever it sends, and in whatever order probes are stored, `ProbeNeverOlder`: if it shows a probe, none from before the latest one read; `LaterProbeShown`: no 304 hides a probe later than its last answer. (Its copy may still be older than the table in what a sync writes, show a probe that an older one has replaced, or lack a first probe from before its last answer that was stored after it.) |
| `listings` | `ImplementsListing`, `ListingEnds` for both listings, under writers between any two steps and a failing query. Ids descend, so newer actions do not keep a client from the end; accounts ascend, and `SnListingEnds` holds because they are finitely many |
| `server` | `WaitsForQueries`: nobody keeps a connection without querying. `DrainedFirst`: no request is cut off or refused a connection before the deadline of the shutdown, unless the listener failed. `RequestsEnd`, `ShutdownEnds`: even if the database never answers again. `WaitersServed`: no connection is lost |

Four runs end in a counterexample. Each is a finding, something a document or
comment of the repository says and the code does not do:

| Run | Finding |
|---|---|
| `sync_report` | `docs/DATABASE_UPDATE_ARCHITECTURE.md` says of the two loops "Neither overwrites the other's data". A sync always replaces `metricsReport`, the probe's `ports` with it, because its new value is never NULL (scheduler.go:309, db.go:199). Until the next probe such a row also matches neither value of the status filter, whose comparisons are then NULL |
| `sync_request` | `POST /v1/supernodes/sync` "triggers sync+probe of all supernodes" (`docs/context.json`). Its goroutine works under `r.Context()`, which is cancelled once the 202 is sent: it may end without probing |
| `enricher_placeholder` | a placeholder marks actions that "have no transactions on chain" (actions.go:31). Three failed searches plant one for an action that has transactions, and it is never looked at again |
| `enricher_audit` | "a complete audit trail" of the transitions (`lumescope-tutorial.md`). An action enriched before it is finalized has a register row and is never selected again |

### Bounds

* `MaxErrs`: failed calls of the chain API, the database or a query. One
  failure at the worst moment is what most histories need, three make all
  searches of one action fail. `enricher_replicas` has none, because a failed
  search refutes `PlaceholderMeansNone` (that is `enricher_placeholder`).
  Failures by a cancelled context are not bounded.
* `MaxHeight`: changes of one supernode on the chain. One is enough for columns;
  two let a page be older than another.
* `MaxTime`: no pass of probes, manual run or process starts after this many
  measurements (passes under way go on). Two allow a failure after a success and
  the other way round.
* `MaxStage`: transactions of an action. Two tell "register only" from more.
* `MaxEvents` 2, `MaxLogs` 1 (TransferFlow): two transfers tell first from best; one
  entry of the logs may be two transfers merged. Nine events and twelve sets of
  known addresses (four of parties, three of messages) make each rule fit and fail.
* `PerSecond` 2, `MaxNow` 4 (ConditionalGet): the last instant of a second, both of the
  next, and the first of a third: changes in the same second and in the next, and
  up to three answers.
* `MaxConns` 1, `MaxCalls` 1 (Server): one connection is the pool at its limit;
  two reads of up to two calls each, a manual run and a loop compete for it.
* `MaxFailed`: the failure counter. One, the least that a filter can tell from 0.
* Sizes: one row where the property is about the columns of one row; two
  supernodes with `PageSize` 1, two actions with `BatchSize` 1, three rows
  with `Limit` 1 where it is about pages, so that there are a first, a middle and
  a last page and an empty and a full one. Two manual goroutines and two
  replicas compete; a third would do what one of the two does.
* Symmetry is used for manual goroutines, for replicas and for the supernodes of
  ConditionalGet, in runs without liveness properties; they are only compared for
  equality.
* `CHECK_DEADLOCK FALSE` stands where the system may stop: a chain that reached
  its bound with the process stopped (SupernodeSync), the end of a loop
  (the algorithms of `algorithms`) and of the process (Server).

### Fairness

Weak fairness for the steps of a pass: every call of the chain API and every dial
has a timeout or ends with its context, so a goroutine always goes on. SQL
statements of the loops have no timeout: SupernodeSync and ActionEnricher assume
that the database answers. Tickers fire. A handler returns after it starts a
manual run (`RequestDone`), and the deferred function runs. The transaction index
catches up. A client keeps asking and the server answers. None is assumed of the
chain's changes, of users, signals, crashes, starts, or of which way a call ends.
Liveness properties of the loops are conditional: *if the process stays up and is
not told to stop*.

Server assumes nothing of the database: a query may run for ever. What is fair are
the goroutines (a cancelled query ends, a handler answers), the timers (`Timeout`,
`Expire`), the pool's queue (`Grant`) and `main`. `WaitersServed` says under which
condition on queries the waiting end.

## 4. What is proved

All theorems hold for arbitrary constants that satisfy the assumptions named in
the modules: sets of accounts, addresses and versions, numbers of manual
goroutines, page sizes and bounds. The bounds are upper limits in guards, so a
proof for every bound is one for every finite run of the unbounded system.

**SupernodeSyncProofs.** `Invariant` proves `IndInv`. The properties are not
inductive alone:

* `ProbeColumnsAgree` and `VersionsAgree` depend on the measurement a goroutine
  holds: `MeasurementsHeld` says that it is held only between measuring and storing,
  has a positive time, and brings a version only if the status API answered.
* `RowsBehindChain` depends on the pages in memory: `PagesBehindChain`, with
  heights on the chain only growing.
* `CutShortNeverStored` needs the last part of `MeasurementsHeld`: a tainted
  measurement is held only under a context that is *still* cancelled, so that its
  UPDATE fails. This is where it matters that a context ends only with its
  goroutine.
* `DownIsIdle` (no goroutine without a process) carries these over `Crash` and
  `Start`.

From it follow `TypeCorrect`, `ProbeColumnsCorrect`, `VersionsCorrect`,
`RowsCorrect`, `ManualCorrect` and `CutShortCorrect`. `MonikersCorrect` needs no
invariant but the types: `ColsWriters` shows that one statement alone writes the
column. `HeightsCorrect` and `CheckTimesCorrect` assume `Manuals = {}`, as the
run `sync_loops` does, and rest on a second invariant, `LoopsAlone`: only
`loopSupernodes` holds a page and it is no older than any row, only `loopProbes`
holds a measurement and it is later than any row's last check. With a manual run
both properties fail, as two pages or measurements of different ages are about.

**ActionEnricherProofs.** `IndInv` speaks of what a replica holds while it looks an
action up:

* `RecordedIsOnChain` needs `GotIndexed` (what the searches returned for the action
  at hand is indexed) for the transactions, and `PagesBehindChain` for the states.
  Nothing in it names another replica: a row may be overwritten by any of them, and
  each writes what the index has. `TypeCorrect` and `RecordedCorrect` follow.
* `GuessedOnlyAfterError` needs `GuessesAfterError`. While the address is unknown, a
  call has failed, or the process is told to stop and has found nothing so far; that
  it then finds nothing afterwards is why no guess is stored (`GuessedCorrect`).
* `PlaceholderMeansNone` needs `NothingMissed`: the first query asks for the register
  transaction, which is the first to be indexed, so a lookup that began with anything
  indexed has found something from then on, unless the process is told to stop, and
  then the placeholder's own UPSERT fails. `PlaceholderCorrect` assumes `MaxErrs = 0`, that the chain API answers. The
  run `enricher_placeholder` has the counterexample with errors.
* `TxNeverLost` is about one replica, and `TransactionKept` assumes that there is one.
  Its invariant `StillUnenriched` says that the actions of a batch, and the one being
  looked up until it is stored, still have no register row. It depends on the action
  at hand not being in the batch any more, since its own row is about to be written.
  With two replicas it is false: the other one may have stored it meanwhile.

`LookupShape` (an action is looked up exactly in the places of the code that have
one, and a placeholder is stored only if nothing was found) holds the others together.

**LatestEntryProofs.** `LatestCorrect` and `TypeCorrect`, from the loop invariant
`LoopInv`.

**ListingProofs.** `ListingCorrect` and `SnListingCorrect`: both listings implement
`Listing`. The invariants have the same parts. `CursorExact` says that nothing the
client has lies ahead of the cursor and that every held row behind it has been
received; `PageExact` says the same of a page on its way; an answer turns the
second into the first. `HeldMatch` (what is held matches the filter now) is why a
query that asks for the rows that match cannot pass over a held one. For actions
the second query adds nothing to it: it decides what an item shows, not which
items there are.
Supernodes are inserted on either side of the cursor, which `CursorExact` allows:
a row inserted behind it has never been held. `TypeCorrect` and `SnTypeCorrect`
rest on the last row of a page being one of the table.

**PagingProofs.** Lemmas about pages: a page lies within the set and beyond the
cursor; `NextKey` is 0 only when the rest is empty. `OrderedPage` is about the first rows of
a set in any strict order, and gives `LastNPage` and `FirstNPage`: a page is a
segment of the set, and the whole of it if the set is short. With `Limit + 1` rows
fetched, the page kept is everything or is followed by a further row.

**ServerProofs.** `IndInv` says of the pool what the code of pgxpool keeps implicit:
the connections in use are those of the goroutines that query (`HeldByQueries`), and
the queue holds exactly the goroutines that wait, each once (`QueueOfWaiting`). The
second is needed where a goroutine whose context is done leaves the middle of the
queue, and for the first `Head` of `Grant` to be one that waits. From these follow
`PoolCorrect` and `TypeCorrect`. `DrainCorrect` is inductive with the types: a request is
accepted only while the server runs, and `Drained` looks at all of them. That nothing
runs for a request before it is accepted (`NoneUnasked`) lets `Accept` start a
goroutine without disturbing the pool.

**TransferFlowProofs.** `BestCorrect` rests on `LoopInv` (the rules before the one
tried fit nothing, the transfers before the index do not fit it) and on the last rule
fitting anything. `OneTransferCorrect` needs that a rule looks at the parties alone
(`FitsByParties`) and that a transfer gathered from the logs comes after one of an
event between the same parties (`EventFirst`): the first that fits is that of an event.
`FlowTypeCorrect` comes with `LoopInv`.

**ConditionalGetProofs.** `GetTypeCorrect` has `TypeInv`, with the body of a request
under way: that the Last-Modified of a copy is no later than its answer needs that the
latest of the probes shown, rounded down, is no later than the present. `IndInv` adds
what relates the copy, the request and the table:

* `FreshCorrect`: under `RequestLater` a Last-Modified that is the current time is later
  than any the client has, so only the ETag can match (`NotLater`).
* `NeverOlderCorrect`: nothing orders the times of two probes of a row, so the proof
  cannot compare what was read with what was read before. It rests on `ProbedStays` (a
  row once probed stays so, through body, ETag, request and table) and on
  `BodyNeverOlder`: where a probe is shown, the Last-Modified sent is at most the
  latest probe of the ETag, and this at most that of the body. A 304 by time puts the
  latest probe read below the first of these; one by ETag makes it the second.
* `LaterProbeCorrect`: the Last-Modified of a copy is at most the time of its answer,
  and so are the probes its ETag is of (`EtagOfRead`).

Each invariant and action property that a passing run checks is stated by a theorem.
What stays with TLC is liveness (`Converges`, `ManualEnds`, `PassEnds`,
`EveryActionChecked`, `RequestsEnd`, `ShutdownEnds`, `WaitersServed`, `ListingEnds`,
`SnListingEnds`): the prover does neither that nor `ENABLED`. No module declares a
RECURSIVE operator, which would put its theorems out of reach, and nothing here
needs induction over data.

## 5. What is not modelled

* What the statistics and the single-row endpoints compute: one statement of the
  database each; `Server` has their calls. `GetActionStatsExtended` takes two
  reads without a transaction; no document says that they agree.
  `GET /v1/supernodes/unavailable` is one query with a condition of its own.
* Middleware and routes, apart from `TimeoutHandler`: no state. Health endpoints
  answer constants. Configuration is read once. Decoding of protobuf metadata is a
  library call on a payload.
* `drainTicker`: it only decides when the next pass of the enricher begins.
* A client that sends `If-Modified-Since` to the endpoints of the supernodes may
  keep columns of a former sync, a row less, or a probe that an older one has
  replaced, because Last-Modified is the latest probe and counts although the ETag
  differs. No document of the repository denies it, so it is not a finding; `Fresh`
  names the clients it does not concern, `ProbeNeverOlder` and `LaterProbeShown` how
  far it goes for the others.
* That the two probers store in order (`CheckTimesInOrder` is about the loop alone), and
  that an item of a page shows a row and transactions of one moment: neither holds,
  and no document says so.

## 6. Plan

Done, in this order: Paging, SupernodeSync with its proofs, ActionEnricher,
LatestEntry with its proof, Listing, ActionListing with its refinement proof,
SupernodeListing, Server, TransferFlow and ConditionalGet with their proofs, in
ActionEnricher the cached module address, the proofs of ActionEnricher and of the
refinement of SupernodeListing, and the type invariants.

Next, in this order:

1. What lies under the liveness properties as theorems about safety: the steps that
   `Converges` and `EveryActionChecked` consist of (a whole pass of syncs without an
   error leaves each row as new as the chain was when the pass began; a full pass of
   batches visits each action that stayed unenriched).
2. `TxNeverLost` for several replicas, weakened to what holds: a placeholder replaces
   only what was recorded after its own lookup began.
3. The address a measurement was taken from, as a history variable of
   SupernodeSync: how long a row may show the result of a former address.
