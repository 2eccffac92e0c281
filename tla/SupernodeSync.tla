--------------------------- MODULE SupernodeSync ---------------------------
(***************************************************************************)
(* The supernodes table of Lumescope and everything that writes it:        *)
(*   - loopSupernodes, which copies the chain's supernode list, page by    *)
(*     page and row by row (syncSupernodes);                               *)
(*   - loopProbes, which reads the known rows, measures each node over the *)
(*     network and stores the result (probeSupernodes);                    *)
(*   - loopValidators, which replaces the in-memory moniker map that       *)
(*     syncSupernodes reads;                                               *)
(*   - the goroutines of POST /v1/supernodes/sync, which run a sync and a  *)
(*     probe pass beside the loops, under the context of the request.      *)
(* A page or a list of targets is held in memory while other goroutines    *)
(* write the same rows: each read and each write is an action of its own.  *)
(* The table outlives the process (Crash and Start).                       *)
(***************************************************************************)
EXTENDS Integers, FiniteSets, Paging

CONSTANTS
  Accounts,   \* supernode accounts, numbered in the order of their keys
  Addrs,      \* values of ipAddress, "" among them
  Probeable,  \* the addresses that are a valid host:port
  Monikers,   \* non-empty validator monikers
  Versions,   \* non-empty versions a status API may report
  Manuals,    \* goroutines TriggerSyncAndProbe may start
  PageSize,   \* limit of GetSupernodes (200 in the code)
  MaxHeight,  \* bound: state changes of one supernode on the chain
  MaxTime,    \* bound: no pass of probes starts after this many measurements
  MaxErrs     \* bound: errors of the chain API and of the database

\* The two goroutines started by Runner.Start that touch the table.
Loops == {"syncLoop", "probeLoop"}

Threads == Loops \cup Manuals

ASSUME ConstantsAssumption ==
  /\ Accounts \subseteq Nat \ {0} /\ IsFiniteSet(Accounts)
  /\ "" \in Addrs \ Probeable /\ Probeable \subseteq Addrs
  /\ "" \notin Monikers /\ "" \notin Versions
  /\ Manuals \cap Loops = {}
  /\ PageSize \in Nat \ {0}
  /\ MaxHeight \in Nat /\ MaxTime \in Nat /\ MaxErrs \in Nat

VARIABLES
  chain,        \* external: current height and address of every account
  up,           \* the process is running
  validatorMonikers,  \* Runner.validatorMonikers ("" where the map has no entry)
  syncRunning,  \* Runner.syncRunning
  cancelled,    \* the threads whose context is cancelled
  pc,           \* where each goroutine is
  next,         \* pagination key of a sync (0: no further page)
  page,         \* supernodes fetched and not yet upserted
  targets,      \* rows listed and not yet probed
  meas,         \* the measurement a prober is about to store
  known,        \* the accounts that have a row
  cols,         \* columns a sync writes
  probe,        \* columns a probe writes
  report,       \* metricsReport, which both write
  clock,        \* time, counted in measurements
  errs          \* errors so far

threadVars == <<pc, next, page, targets, meas>>
table == <<known, cols, probe, report>>
vars == <<chain, up, validatorMonikers, syncRunning, cancelled, pc, next, page,
          targets, meas, known, cols, probe, report, clock, errs>>

-----------------------------------------------------------------------------
(* Values.                                                                 *)

Supernode == [acct : Accounts, height : Nat, addr : Addrs]

ProbeTarget == [acct : Accounts, addr : Addrs]

\* What one probe found. open: port1 and the p2p port are both open, which is
\* all that the queries on metricsReport tell apart. tainted: the context was already cancelled, so that
\* the failed dials say nothing about the node.
Measurement == [acct : Accounts, available : BOOLEAN,
                version : Versions \cup {""}, open : BOOLEAN,
                now : Nat, tainted : BOOLEAN]

ChainCols == [height : Nat, addr : Addrs, moniker : Monikers \cup {""}]

\* SQL NULL is 0 in the time columns and "" in lastKnownActualVersion.
ProbeCols == [actualVersion : Versions \cup {""},
              lastKnownActualVersion : Versions \cup {""},
              isStatusApiAvailable : BOOLEAN, lastStatusCheck : Nat,
              lastSuccessfulProbe : Nat, failedProbeCounter : Nat]

\* metricsReport: the chain's metrics, which have no "ports", or a probe's.
Report == {"chain", "open", "closed"}

\* toJSONB(sn.Metrics): a string even when the chain sent no metrics.
ChainReport == "chain"

ProbeReport(m) == IF m.open THEN "open" ELSE "closed"

\* The columns of a row that INSERT has just created.
NewCols == [height |-> 0, addr |-> "", moniker |-> ""]

NewProbe == [actualVersion |-> "", lastKnownActualVersion |-> "",
             isStatusApiAvailable |-> FALSE, lastStatusCheck |-> 0,
             lastSuccessfulProbe |-> 0, failedProbeCounter |-> 0]

\* COALESCE(NULLIF(new,''),old)
Coalesce(new, old) == IF new = "" THEN old ELSE new

-----------------------------------------------------------------------------
(* SQL statements, as functions of the row.                                *)

\* Mutant: a validator missing from the map erases the moniker.
UpsertSupernode_ErasesMoniker(old, sn, moniker) ==
  [height |-> sn.height, addr |-> sn.addr, moniker |-> moniker]

\* Mutant: a supernode without address is stored as one without history.
UpsertSupernode_NoHistory(old, sn, moniker) ==
  [height |-> IF sn.addr = "" THEN 0 ELSE sn.height, addr |-> sn.addr,
   moniker |-> Coalesce(moniker, old.moniker)]

\* Mutant: the height counts the upserts.
UpsertSupernode_Counts(old, sn, moniker) ==
  [height |-> old.height + 1, addr |-> sn.addr,
   moniker |-> Coalesce(moniker, old.moniker)]

\* Mutant: COALESCE keeps an address the chain no longer has.
UpsertSupernode_KeepsAddr(old, sn, moniker) ==
  [height |-> sn.height, addr |-> Coalesce(sn.addr, old.addr),
   moniker |-> Coalesce(moniker, old.moniker)]

\* UpsertSupernode: the columns it overwrites. It names no probe column.
UpsertSupernode(old, sn, moniker) ==
  [height |-> sn.height, addr |-> sn.addr,
   moniker |-> Coalesce(moniker, old.moniker)]

\* COALESCE(EXCLUDED."metricsReport",supernodes."metricsReport"), where the
\* new value is never NULL.
UpsertReport(old) == ChainReport

\* Mutant: a failure is counted down.
UpdateSupernodeProbeData_Down(old, m) ==
  [actualVersion |-> Coalesce(m.version, old.actualVersion),
   lastKnownActualVersion |->
     IF m.available THEN Coalesce(m.version, old.lastKnownActualVersion)
                    ELSE old.lastKnownActualVersion,
   isStatusApiAvailable |-> m.available,
   lastStatusCheck |-> m.now,
   lastSuccessfulProbe |-> IF m.available THEN m.now ELSE old.lastSuccessfulProbe,
   failedProbeCounter |-> IF m.available THEN 0 ELSE old.failedProbeCounter - 1]

\* Mutant: a success leaves the counter of failures.
UpdateSupernodeProbeData_NoReset(old, m) ==
  [actualVersion |-> Coalesce(m.version, old.actualVersion),
   lastKnownActualVersion |->
     IF m.available THEN Coalesce(m.version, old.lastKnownActualVersion)
                    ELSE old.lastKnownActualVersion,
   isStatusApiAvailable |-> m.available,
   lastStatusCheck |-> m.now,
   lastSuccessfulProbe |-> IF m.available THEN m.now ELSE old.lastSuccessfulProbe,
   failedProbeCounter |-> 
     IF m.available THEN old.failedProbeCounter ELSE old.failedProbeCounter + 1]

\* Mutant: a failure clears lastSuccessfulProbe.
UpdateSupernodeProbeData_Clears(old, m) ==
  [actualVersion |-> Coalesce(m.version, old.actualVersion),
   lastKnownActualVersion |->
     IF m.available THEN Coalesce(m.version, old.lastKnownActualVersion)
                    ELSE old.lastKnownActualVersion,
   isStatusApiAvailable |-> m.available,
   lastStatusCheck |-> m.now,
   lastSuccessfulProbe |-> IF m.available THEN m.now ELSE 0,
   failedProbeCounter |-> 
     IF m.available THEN 0 ELSE old.failedProbeCounter + 1]

\* UpdateSupernodeProbeData, its successful and its failed form.
UpdateSupernodeProbeData(old, m) ==
  [actualVersion |-> Coalesce(m.version, old.actualVersion),
   lastKnownActualVersion |->
     IF m.available THEN Coalesce(m.version, old.lastKnownActualVersion)
                    ELSE old.lastKnownActualVersion,
   isStatusApiAvailable |-> m.available,
   lastStatusCheck |-> m.now,
   lastSuccessfulProbe |->
     IF m.available THEN m.now ELSE old.lastSuccessfulProbe,
   failedProbeCounter |->
     IF m.available THEN 0 ELSE old.failedProbeCounter + 1]

-----------------------------------------------------------------------------
Init ==
  /\ chain = [a \in Accounts |-> [height |-> 0, addr |-> ""]]
  /\ up = FALSE
  /\ validatorMonikers = [a \in Accounts |-> ""]
  /\ syncRunning = FALSE
  /\ cancelled = {}
  /\ pc = [t \in Threads |-> "off"]
  /\ next = [t \in Threads |-> 0]
  /\ page = [t \in Threads |-> {}]
  /\ targets = [t \in Threads |-> {}]
  /\ meas = [t \in Threads |-> {}]
  /\ known = {}
  /\ cols = [a \in Accounts |-> NewCols]
  /\ probe = [a \in Accounts |-> NewProbe]
  /\ report = [a \in Accounts |-> ChainReport]
  /\ clock = 0
  /\ errs = 0

-----------------------------------------------------------------------------
(* The chain, which the code only reads.                                   *)

\* An account registers, changes state or moves to another address.
ChainUpdate(a) ==
  /\ chain[a].height < MaxHeight
  /\ \E addr \in Addrs :
       chain' = [chain EXCEPT ![a] = [height |-> @.height + 1, addr |-> addr]]
  /\ UNCHANGED <<up, validatorMonikers, syncRunning, cancelled, threadVars,
                 table, clock, errs>>

-----------------------------------------------------------------------------
(* Failures of a call that takes the thread's context: the context is      *)
(* cancelled, or the other side fails, which may happen MaxErrs times.     *)

CallFails(t) ==
  \/ t \in cancelled /\ errs' = errs
  \/ errs < MaxErrs /\ errs' = errs + 1

\* Mutant: the context is not passed on.
CallSucceeds_NoContext(t) == errs' = errs

CallSucceeds(t) == t \notin cancelled /\ errs' = errs

(* Where a thread goes when a pass of it ends.                             *)
AfterSync(t) == IF t \in Manuals THEN "list" ELSE "wait"

AfterProbe(t) == IF t \in Manuals THEN "release" ELSE "wait"

-----------------------------------------------------------------------------
(* Process: main, Runner.Start, the loops' select, TriggerSyncAndProbe.    *)

\* main connects, bootstraps and calls Start: one attempt to sync the
\* validators, then the loops, each of which begins with a pass.
Start ==
  /\ ~up /\ clock < MaxTime
  /\ up' = TRUE
  /\ \/ validatorMonikers' \in [Accounts -> Monikers \cup {""}] /\ errs' = errs
     \/ errs < MaxErrs /\ errs' = errs + 1 /\ UNCHANGED validatorMonikers
  /\ pc' = [pc EXCEPT !["syncLoop"] = "fetch", !["probeLoop"] = "list"]
  /\ UNCHANGED <<chain, syncRunning, cancelled, next, page, targets, meas,
                 table, clock>>

\* The process ends, after a signal or in the middle of anything.
Crash ==
  /\ up
  /\ up' = FALSE
  /\ validatorMonikers' = [a \in Accounts |-> ""]
  /\ syncRunning' = FALSE
  /\ cancelled' = {}
  /\ pc' = [t \in Threads |-> "off"]
  /\ next' = [t \in Threads |-> 0]
  /\ page' = [t \in Threads |-> {}]
  /\ targets' = [t \in Threads |-> {}]
  /\ meas' = [t \in Threads |-> {}]
  /\ UNCHANGED <<chain, table, clock, errs>>

\* main received a signal: bgCancel.
Shutdown ==
  /\ up /\ ~(Loops \subseteq cancelled)
  /\ cancelled' = cancelled \cup Loops
  /\ UNCHANGED <<chain, up, validatorMonikers, syncRunning, threadVars, table,
                 clock, errs>>

\* loopValidators: every page arrived, the map is replaced as a whole. After
\* an error the old map stays, which is no step.
SyncValidators ==
  /\ up /\ "syncLoop" \notin cancelled
  /\ validatorMonikers' \in [Accounts -> Monikers \cup {""}]
  /\ UNCHANGED <<chain, up, syncRunning, cancelled, threadVars, table, clock,
                 errs>>

\* The ticker of loopSupernodes fires. A select with a cancelled context may
\* still take the tick.
SyncTick ==
  /\ pc["syncLoop"] = "wait"
  /\ pc' = [pc EXCEPT !["syncLoop"] = "fetch"]
  /\ UNCHANGED <<chain, up, validatorMonikers, syncRunning, cancelled, next,
                 page, targets, meas, table, clock, errs>>

\* The ticker of loopProbes fires.
ProbeTick ==
  /\ pc["probeLoop"] = "wait"
  /\ clock < MaxTime
  /\ pc' = [pc EXCEPT !["probeLoop"] = "list"]
  /\ UNCHANGED <<chain, up, validatorMonikers, syncRunning, cancelled, next,
                 page, targets, meas, table, clock, errs>>

\* case <-ctx.Done(): return
LoopReturns(t) ==
  /\ pc[t] = "wait" /\ t \in cancelled
  /\ pc' = [pc EXCEPT ![t] = "off"]
  /\ UNCHANGED <<chain, up, validatorMonikers, syncRunning, cancelled, next,
                 page, targets, meas, table, clock, errs>>

\* Mutant: the flag is set and not looked at.
TriggerSyncAndProbe_Unguarded(g) ==
  /\ up /\ pc[g] = "off" /\ clock < MaxTime
  /\ syncRunning' = TRUE
  /\ pc' = [pc EXCEPT ![g] = "fetch"]
  /\ UNCHANGED <<chain, up, validatorMonikers, cancelled, next, page, targets,
                 meas, table, clock, errs>>

\* TriggerSyncAndProbe under syncMu; the caller's 204 changes nothing.
TriggerSyncAndProbe(g) ==
  /\ up /\ pc[g] = "off" /\ clock < MaxTime
  /\ ~syncRunning
  /\ syncRunning' = TRUE
  /\ pc' = [pc EXCEPT ![g] = "fetch"]
  /\ UNCHANGED <<chain, up, validatorMonikers, cancelled, next, page, targets,
                 meas, table, clock, errs>>

\* TriggerSupernodeSync answered 202 and returned: net/http cancels
\* r.Context(), the context the goroutine works under.
RequestDone(g) ==
  /\ pc[g] # "off" /\ g \notin cancelled
  /\ cancelled' = cancelled \cup {g}
  /\ UNCHANGED <<chain, up, validatorMonikers, syncRunning, threadVars, table,
                 clock, errs>>

\* Mutant: the flag is not reset.
Release_FlagStays(g) ==
  /\ pc[g] = "release"
  /\ pc' = [pc EXCEPT ![g] = "off"]
  /\ cancelled' = cancelled \ {g}
  /\ UNCHANGED <<chain, up, validatorMonikers, syncRunning, next, page, targets,
                 meas, table, clock, errs>>

\* The deferred function of the goroutine. Its context is gone with it.
Release(g) ==
  /\ pc[g] = "release"
  /\ pc' = [pc EXCEPT ![g] = "off"]
  /\ syncRunning' = FALSE
  /\ cancelled' = cancelled \ {g}
  /\ UNCHANGED <<chain, up, validatorMonikers, next, page, targets,
                 meas, table, clock, errs>>

-----------------------------------------------------------------------------
(* syncSupernodes.                                                         *)

\* The accounts the chain lists.
Registered == {a \in Accounts : chain[a].height > 0}

\* GetSupernodes returned a page.
Fetch(t) ==
  /\ pc[t] = "fetch" /\ CallSucceeds(t)
  /\ page' = [page EXCEPT ![t] =
       {[acct |-> a, height |-> chain[a].height, addr |-> chain[a].addr] :
          a \in FirstN(Registered, next[t], PageSize)}]
  /\ next' = [next EXCEPT ![t] =
                              NextKey(Registered, next[t], PageSize)]
  /\ pc' = [pc EXCEPT ![t] = "upsert"]
  /\ UNCHANGED <<chain, up, validatorMonikers, syncRunning, cancelled, targets,
                 meas, table, clock>>

\* GetSupernodes failed: the pass ends, with the pages so far in the table.
FetchError(t) ==
  /\ pc[t] = "fetch" /\ CallFails(t)
  /\ next' = [next EXCEPT ![t] = 0]
  /\ pc' = [pc EXCEPT ![t] = AfterSync(t)]
  /\ UNCHANGED <<chain, up, validatorMonikers, syncRunning, cancelled, page,
                 targets, meas, table, clock>>

\* One supernode of the page is upserted, with the moniker known now.
Upsert(t, sn) ==
  /\ pc[t] = "upsert" /\ sn \in page[t] /\ CallSucceeds(t)
  /\ known' = known \cup {sn.acct}
  /\ cols' = [cols EXCEPT ![sn.acct] =
                UpsertSupernode(@, sn, validatorMonikers[sn.acct])]
  /\ report' = [report EXCEPT ![sn.acct] = UpsertReport(@)]
  /\ page' = [page EXCEPT ![t] = @ \ {sn}]
  /\ UNCHANGED <<chain, up, validatorMonikers, syncRunning, cancelled, pc, next,
                 targets, meas, probe, clock>>

\* The upsert failed: logged, and the loop goes on.
UpsertError(t, sn) ==
  /\ pc[t] = "upsert" /\ sn \in page[t] /\ CallFails(t)
  /\ page' = [page EXCEPT ![t] = @ \ {sn}]
  /\ UNCHANGED <<chain, up, validatorMonikers, syncRunning, cancelled, pc, next,
                 targets, meas, table, clock>>

\* The page is done: the next one, or the end of the pass.
PageDone(t) ==
  /\ pc[t] = "upsert" /\ page[t] = {}
  /\ pc' = [pc EXCEPT ![t] = IF next[t] = 0 THEN AfterSync(t) ELSE "fetch"]
  /\ UNCHANGED <<chain, up, validatorMonikers, syncRunning, cancelled, next,
                 page, targets, meas, table, clock, errs>>

-----------------------------------------------------------------------------
(* probeSupernodes.                                                        *)

\* ListKnownSupernodes
ListKnown(t) ==
  /\ pc[t] = "list" /\ CallSucceeds(t)
  /\ targets' = [targets EXCEPT ![t] =
       {[acct |-> a, addr |-> cols[a].addr] : a \in known}]
  /\ pc' = [pc EXCEPT ![t] = "measure"]
  /\ UNCHANGED <<chain, up, validatorMonikers, syncRunning, cancelled, next,
                 page, meas, table, clock>>

ListError(t) ==
  /\ pc[t] = "list" /\ CallFails(t)
  /\ pc' = [pc EXCEPT ![t] = AfterProbe(t)]
  /\ UNCHANGED <<chain, up, validatorMonikers, syncRunning, cancelled, next,
                 page, targets, meas, table, clock>>

\* A target whose address is no valid host:port is skipped: its row keeps the
\* probe columns it has.
SkipTarget(t, tg) ==
  /\ pc[t] = "measure" /\ tg \in targets[t]
  /\ tg.addr \notin Probeable
  /\ targets' = [targets EXCEPT ![t] = @ \ {tg}]
  /\ UNCHANGED <<chain, up, validatorMonikers, syncRunning, cancelled, pc, next,
                 page, meas, table, clock, errs>>

\* Mutant: a version is taken from an answer that failed.
Outcome_VersionAnyway(t, a) ==
  {m \in [acct : {a}, available : BOOLEAN, version : Versions \cup {""},
          open : BOOLEAN, now : {clock + 1}, tainted : {t \in cancelled}] :
     t \in cancelled => ~m.available}

\* tcpOpen twice and fetchStatus. The network decides, unless the context is
\* cancelled: then the status call fails. Without an answer of the status API
\* the version is "".
Outcome(t, a) ==
  {m \in [acct : {a}, available : BOOLEAN, version : Versions \cup {""},
          open : BOOLEAN, now : {clock + 1}, tainted : {t \in cancelled}] :
     /\ ~m.available => m.version = ""
     /\ t \in cancelled => ~m.available}

Measure(t, tg) ==
  /\ pc[t] = "measure" /\ tg \in targets[t]
  /\ tg.addr \in Probeable
  /\ \E m \in Outcome(t, tg.acct) : meas' = [meas EXCEPT ![t] = {m}]
  /\ targets' = [targets EXCEPT ![t] = @ \ {tg}]
  /\ clock' = clock + 1
  /\ pc' = [pc EXCEPT ![t] = "write"]
  /\ UNCHANGED <<chain, up, validatorMonikers, syncRunning, cancelled, next,
                 page, table, errs>>

\* UPDATE ... WHERE "supernodeAccount"=$1: rows are never created here.
StoreProbe(t, m) ==
  /\ pc[t] = "write" /\ m \in meas[t] /\ CallSucceeds(t)
  /\ IF m.acct \in known
       THEN /\ probe' = [probe EXCEPT ![m.acct] =
                           UpdateSupernodeProbeData(@, m)]
            /\ report' = [report EXCEPT ![m.acct] = ProbeReport(m)]
       ELSE UNCHANGED <<probe, report>>
  /\ meas' = [meas EXCEPT ![t] = {}]
  /\ pc' = [pc EXCEPT ![t] = "measure"]
  /\ UNCHANGED <<chain, up, validatorMonikers, syncRunning, cancelled, next,
                 page, targets, known, cols, clock>>

\* The update failed: logged, and the loop goes on.
StoreError(t) ==
  /\ pc[t] = "write" /\ CallFails(t)
  /\ meas' = [meas EXCEPT ![t] = {}]
  /\ pc' = [pc EXCEPT ![t] = "measure"]
  /\ UNCHANGED <<chain, up, validatorMonikers, syncRunning, cancelled, next,
                 page, targets, table, clock>>

ProbeDone(t) ==
  /\ pc[t] = "measure" /\ targets[t] = {}
  /\ pc' = [pc EXCEPT ![t] = AfterProbe(t)]
  /\ UNCHANGED <<chain, up, validatorMonikers, syncRunning, cancelled, next,
                 page, targets, meas, table, clock, errs>>

-----------------------------------------------------------------------------
\* A step of a sync pass or of a probe pass.
SyncStep(t) ==
  \/ Fetch(t) \/ FetchError(t) \/ PageDone(t)
  \/ \E sn \in page[t] : Upsert(t, sn) \/ UpsertError(t, sn)

ProbeStep(t) ==
  \/ ListKnown(t) \/ ListError(t) \/ StoreError(t) \/ ProbeDone(t)
  \/ \E tg \in targets[t] : SkipTarget(t, tg) \/ Measure(t, tg)
  \/ \E m \in meas[t] : StoreProbe(t, m)

Next ==
  \/ \E a \in Accounts : ChainUpdate(a)
  \/ Start \/ Crash \/ Shutdown \/ SyncValidators \/ SyncTick \/ ProbeTick
  \/ \E t \in Loops : LoopReturns(t)
  \/ \E g \in Manuals : TriggerSyncAndProbe(g) \/ RequestDone(g) \/ Release(g)
  \/ \E t \in Threads : SyncStep(t) \/ ProbeStep(t)

Spec == Init /\ [][Next]_vars

\* Every call of the chain and every dial has a timeout, and the database is
\* assumed to answer (its statements have none), so a goroutine always goes on;
\* tickers fire; a handler returns. Nothing makes the chain change, a user press
\* the button, or the process start or end.
Fairness ==
  /\ \A t \in Threads : WF_vars(SyncStep(t)) /\ WF_vars(ProbeStep(t))
  /\ \A g \in Manuals : WF_vars(RequestDone(g)) /\ WF_vars(Release(g))
  /\ WF_vars(SyncTick) /\ WF_vars(ProbeTick)

FairSpec == Spec /\ Fairness

-----------------------------------------------------------------------------
(* Properties.                                                             *)

\* Every variable has its type.
TypeOK ==
  /\ chain \in [Accounts -> [height : Nat, addr : Addrs]]
  /\ up \in BOOLEAN
  /\ validatorMonikers \in [Accounts -> Monikers \cup {""}]
  /\ syncRunning \in BOOLEAN
  /\ cancelled \subseteq Threads
  /\ pc \in [Threads -> {"off", "wait", "fetch", "upsert", "list", "measure",
                          "write", "release"}]
  /\ next \in [Threads -> Nat]
  /\ page \in [Threads -> SUBSET Supernode]
  /\ targets \in [Threads -> SUBSET ProbeTarget]
  /\ meas \in [Threads -> SUBSET Measurement]
  /\ known \subseteq Accounts
  /\ cols \in [Accounts -> ChainCols]
  /\ probe \in [Accounts -> ProbeCols]
  /\ report \in [Accounts -> Report]
  /\ clock \in Nat
  /\ errs \in Nat

\* The probe columns of a row tell one story whoever wrote last: the row is
\* available exactly when it was checked and no check failed since, and then
\* the last check is the last success. UpdateSupernodeProbeData writes the
\* columns in two forms, UpsertSupernode runs in between.
ProbeColumnsAgree ==
  \A a \in Accounts : LET p == probe[a] IN
    /\ p.isStatusApiAvailable <=>
         (p.lastStatusCheck > 0 /\ p.failedProbeCounter = 0)
    /\ p.isStatusApiAvailable => p.lastSuccessfulProbe = p.lastStatusCheck
    /\ p.lastStatusCheck = 0 => p.lastSuccessfulProbe = 0

\* lastKnownActualVersion, which only a successful probe writes, is always the
\* actualVersion every probe writes: a failed probe brings no version along.
VersionsAgree ==
  \A a \in Accounts :
    probe[a].lastKnownActualVersion = probe[a].actualVersion

\* TriggerSyncAndProbe: at most one manual run at a time, and the flag says
\* whether there is one, across any order of triggers, ends and crashes.
ManualExclusive ==
  /\ \A g, h \in Manuals : pc[g] # "off" /\ pc[h] # "off" => g = h
  /\ syncRunning <=> \E g \in Manuals : pc[g] # "off"

\* A row never runs ahead of the chain: syncSupernodes stores a height the
\* chain had, however old the page it was on.
RowsBehindChain ==
  \A a \in Accounts : cols[a].height <= chain[a].height

\* A probe cut short by a cancelled context (a signal, or the end of the
\* request that started it) is never stored as a failed probe: whatever
\* changes a row's probe columns was measured under a live context.
CutShortNeverStored ==
  [][probe' # probe =>
       \E t \in Threads : \E m \in meas[t] :
         pc[t] = "write" /\ pc'[t] # "write" /\ ~m.tainted]_vars

\* A moniker once known is kept, though a restart empties the map and a
\* validator may leave it (COALESCE in UpsertSupernode).
MonikerKept ==
  [][\A a \in Accounts : cols[a].moniker # "" => cols'[a].moniker # ""]_vars

\* With the loops alone (no manual run) a row's height never goes back, across
\* pages, errors and restarts.
HeightNeverDecreases ==
  [][\A a \in Accounts : cols'[a].height >= cols[a].height]_vars

\* With the loops alone lastStatusCheck and lastSuccessfulProbe never go back,
\* and a success is never later than the last check.
CheckTimesInOrder ==
  [][\A a \in Accounts :
       /\ probe'[a].lastStatusCheck >= probe[a].lastStatusCheck
       /\ probe'[a].lastSuccessfulProbe >= probe[a].lastSuccessfulProbe
       /\ probe'[a].lastSuccessfulProbe <= probe'[a].lastStatusCheck]_vars

\* The parts of the inductive invariant behind them. A measurement is held only
\* until it is stored, brings no version unless the status API answered, and
\* is cut short only under a context that is still cancelled; a page is no
\* newer than the chain.
MeasurementsHeld ==
  \A t \in Threads :
    /\ meas[t] # {} => pc[t] = "write"
    /\ \A m \in meas[t] :
         /\ ~m.available => m.version = ""
         /\ m.now > 0
         /\ m.tainted => t \in cancelled

PagesBehindChain ==
  \A t \in Threads : \A sn \in page[t] : sn.height <= chain[sn.acct].height

\* No goroutine without a process.
DownIsIdle == ~up => \A t \in Threads : pc[t] = "off"

IndInv ==
  /\ TypeOK /\ DownIsIdle /\ MeasurementsHeld /\ PagesBehindChain
  /\ ProbeColumnsAgree /\ VersionsAgree /\ RowsBehindChain /\ ManualExclusive

\* With the loops alone: only loopSupernodes holds a page and only loopProbes a
\* measurement, so that what each holds is newer than the rows it will write.
OwnHalf ==
  /\ page["probeLoop"] = {} /\ pc["probeLoop"] \notin {"fetch", "upsert"}
  /\ meas["syncLoop"] = {} /\ pc["syncLoop"] \notin {"list", "measure", "write"}

PageFresh ==
  \A sn \in page["syncLoop"] :
    /\ cols[sn.acct].height <= sn.height
    /\ \A sn2 \in page["syncLoop"] : sn2.acct = sn.acct => sn2 = sn

MeasurementFresh ==
  \A m \in meas["probeLoop"] :
    m.now <= clock /\ probe[m.acct].lastStatusCheck < m.now

TimesInOrder ==
  \A a \in Accounts :
    /\ probe[a].lastStatusCheck <= clock
    /\ probe[a].lastSuccessfulProbe <= probe[a].lastStatusCheck

LoopsAlone == OwnHalf /\ PageFresh /\ MeasurementFresh /\ TimesInOrder

\* A manual run ends and frees the flag, or no later trigger could ever start.
ManualEnds == syncRunning ~> ~syncRunning

\* If the service stays up, every supernode's row ends up equal to the chain
\* for good: what a slow manual run or a failed upsert left stale is healed
\* by a later pass of loopSupernodes.
Synced(a) ==
  chain[a].height > 0 =>
    /\ a \in known
    /\ cols[a].height = chain[a].height /\ cols[a].addr = chain[a].addr

Converges ==
  <>[](up /\ "syncLoop" \notin cancelled) => \A a \in Accounts : <>[]Synced(a)

-----------------------------------------------------------------------------
(* What the documentation says and the code does not do.                   *)

\* docs/DATABASE_UPDATE_ARCHITECTURE.md on the two loops: "Neither overwrites
\* the other's data". A step that leaves the probe columns of a row alone
\* leaves the probe's report alone too.
ProbeReportKept ==
  [][\A a \in Accounts :
       report[a] # ChainReport /\ probe'[a] = probe[a] => report'[a] = report[a]]_vars

\* docs/context.json on the sync endpoint: it triggers a sync and probe of all
\* supernodes. A run that was started comes to its probes.
ManualRunProbes ==
  \A g \in Manuals : pc[g] = "fetch" ~> (pc[g] = "measure" \/ ~up)
=============================================================================
