-------------------------- MODULE ActionEnricher ---------------------------
(***************************************************************************)
(* The tables actions and action_transactions and the two loops that fill  *)
(* them: loopActions copies the chain's list of actions, and               *)
(* loopActionTxEnricher looks up the transactions of every action that has *)
(* no 'register' row yet. An action passes through three transactions on   *)
(* the chain, register, finalize and approve, numbered 1 to 3; the chain's *)
(* transaction index follows the chain with a delay. An action for which   *)
(* no transaction was returned gets a placeholder in its register row.     *)
(* Every element of Replicas is a process with both loops; all share the   *)
(* tables.                                                                 *)
(***************************************************************************)
EXTENDS Integers, FiniteSets, Paging

CONSTANTS
  Replicas,   \* processes of the service on one database
  Ids,        \* action IDs
  StartID,    \* ACTION_ENRICHER_START_ID
  BatchSize,  \* batch of the enricher (50 in the code)
  PageSize,   \* limit of GetActions (100 in the code)
  MaxStage,   \* bound: transactions of one action on the chain
  MaxErrs     \* bound: errors of the chain API and of the database

ASSUME ConstantsAssumption ==
  /\ Ids \subseteq Nat \ {0} /\ IsFiniteSet(Ids)
  /\ StartID \in Nat
  /\ BatchSize \in Nat \ {0} /\ PageSize \in Nat \ {0}
  /\ MaxStage \in 0..3 /\ MaxErrs \in Nat

VARIABLES
  stage,      \* external: number of transactions of each action so far
  indexed,    \* external: how many of them the transaction search finds
  cancelled,  \* the replicas whose background context is cancelled
  apc,        \* loopActions: program counter,
  anext,      \*   pagination key,
  apage,      \*   actions fetched and not yet upserted
  epc,        \* loopActionTxEnricher: program counter,
  minID,      \*   where the next batch starts,
  batch,      \*   actions of the batch not yet looked at,
  full,       \*   len(actions) = batchSize,
  cur,        \*   the action being looked up,
  query,      \*   the next of the three queries,
  got,        \*   transactions returned and not yet stored,
  had,        \*   (history) what was indexed when the queries began,
  cached,     \*   the replicas whose client has the module's address,
  guessing,   \*   those that look an action up without it
  actions,    \* state of each row of actions, 0 if there is none
  txRows,     \* action_transactions by action and type
  errs        \* errors so far

chainVars == <<stage, indexed>>
syncVars == <<apc, anext, apage>>
enrichVars == <<epc, minID, batch, full, cur, query, got, had, cached, guessing>>
table == <<actions, txRows>>
vars == <<stage, indexed, cancelled, apc, anext, apage, epc, minID, batch,
          full, cur, query, got, had, cached, guessing, actions, txRows, errs>>

TxTypes == 1..3

Action == [id : Ids, state : 1..3]

\* A "guess" is a transaction whose payment was told from its transfers without
\* the address of the action module.
Cell == {"none", "placeholder", "tx", "guess"}

Recorded == {"tx", "guess"}

SmallestOf(S) == CHOOSE i \in S : \A j \in S : i <= j

-----------------------------------------------------------------------------
Init ==
  /\ stage = [i \in Ids |-> 0]
  /\ indexed = [i \in Ids |-> 0]
  /\ cancelled = {}
  /\ apc = [r \in Replicas |-> "off"]
  /\ anext = [r \in Replicas |-> 0]
  /\ apage = [r \in Replicas |-> {}]
  /\ epc = [r \in Replicas |-> "off"]
  /\ minID = [r \in Replicas |-> StartID]
  /\ batch = [r \in Replicas |-> {}]
  /\ full = [r \in Replicas |-> FALSE]
  /\ cur = [r \in Replicas |-> 0]
  /\ query = [r \in Replicas |-> 1]
  /\ got = [r \in Replicas |-> {}]
  /\ had = [r \in Replicas |-> 0]
  /\ cached = {} /\ guessing = {}
  /\ actions = [i \in Ids |-> 0]
  /\ txRows = [i \in Ids |-> [k \in TxTypes |-> "none"]]
  /\ errs = 0

-----------------------------------------------------------------------------
(* The chain, which the code only reads.                                   *)

\* The action is registered, finalized or approved.
ChainTx(i) ==
  /\ stage[i] < MaxStage
  /\ stage' = [stage EXCEPT ![i] = @ + 1]
  /\ UNCHANGED <<indexed, cancelled, syncVars, enrichVars, table, errs>>

\* The transaction index catches up by one transaction.
IndexTx(i) ==
  /\ indexed[i] < stage[i]
  /\ indexed' = [indexed EXCEPT ![i] = @ + 1]
  /\ UNCHANGED <<stage, cancelled, syncVars, enrichVars, table, errs>>

\* A call made with the replica's context fails because the context is
\* cancelled, or because the other side does, MaxErrs times at most.
CallFails(r) ==
  \/ r \in cancelled /\ errs' = errs
  \/ errs < MaxErrs /\ errs' = errs + 1

\* Mutant: the context is not passed on.
CallSucceeds_NoContext(r) == errs' = errs

CallSucceeds(r) == r \notin cancelled /\ errs' = errs

-----------------------------------------------------------------------------
(* Process.                                                                *)

\* Runner.Start: loopActions begins with a pass, the enricher with a sleep.
Start(r) ==
  /\ apc[r] = "off" /\ epc[r] = "off" /\ r \notin cancelled
  /\ apc' = [apc EXCEPT ![r] = "fetch"]
  /\ epc' = [epc EXCEPT ![r] = "sleep"]
  /\ UNCHANGED <<chainVars, cancelled, anext, apage, minID, batch, full, cur,
                 query, got, had, cached, guessing, table, errs>>

\* main received a signal: bgCancel.
Shutdown(r) ==
  /\ apc[r] # "off" /\ r \notin cancelled
  /\ cancelled' = cancelled \cup {r}
  /\ UNCHANGED <<chainVars, syncVars, enrichVars, table, errs>>

\* The process ends, after a signal or in the middle of anything. What the
\* goroutines held is lost.
Crash(r) ==
  /\ apc[r] # "off" \/ epc[r] # "off" \/ r \in cancelled
  /\ cancelled' = cancelled \ {r}
  /\ apc' = [apc EXCEPT ![r] = "off"]
  /\ anext' = [anext EXCEPT ![r] = 0]
  /\ apage' = [apage EXCEPT ![r] = {}]
  /\ epc' = [epc EXCEPT ![r] = "off"]
  /\ minID' = [minID EXCEPT ![r] = StartID]
  /\ batch' = [batch EXCEPT ![r] = {}]
  /\ full' = [full EXCEPT ![r] = FALSE]
  /\ cur' = [cur EXCEPT ![r] = 0]
  /\ query' = [query EXCEPT ![r] = 1]
  /\ got' = [got EXCEPT ![r] = {}]
  /\ had' = [had EXCEPT ![r] = 0]
  /\ cached' = cached \ {r} /\ guessing' = guessing \ {r}
  /\ UNCHANGED <<chainVars, table, errs>>

-----------------------------------------------------------------------------
(* loopActions and syncActions.                                            *)

ActionsTick(r) ==
  /\ apc[r] = "wait"
  /\ apc' = [apc EXCEPT ![r] = "fetch"]
  /\ UNCHANGED <<chainVars, cancelled, anext, apage, enrichVars, table, errs>>

ActionsReturns(r) ==
  /\ apc[r] = "wait" /\ r \in cancelled
  /\ apc' = [apc EXCEPT ![r] = "off"]
  /\ UNCHANGED <<chainVars, cancelled, anext, apage, enrichVars, table, errs>>

\* The actions the chain lists.
Listed == {i \in Ids : stage[i] > 0}

\* GetActions returned a page.
FetchActions(r) ==
  /\ apc[r] = "fetch" /\ CallSucceeds(r)
  /\ apage' = [apage EXCEPT ![r] =
       {[id |-> i, state |-> stage[i]] :
          i \in FirstN(Listed, anext[r], PageSize)}]
  /\ anext' = [anext EXCEPT ![r] = NextKey(Listed, anext[r], PageSize)]
  /\ apc' = [apc EXCEPT ![r] = "upsert"]
  /\ UNCHANGED <<chainVars, cancelled, enrichVars, table>>

FetchActionsError(r) ==
  /\ apc[r] = "fetch" /\ CallFails(r)
  /\ anext' = [anext EXCEPT ![r] = 0]
  /\ apc' = [apc EXCEPT ![r] = "wait"]
  /\ UNCHANGED <<chainVars, cancelled, apage, enrichVars, table>>

\* UpsertAction; when it fails, the error is logged and the loop goes on.
UpsertAction(r, a) ==
  /\ apc[r] = "upsert" /\ a \in apage[r]
  /\ apage' = [apage EXCEPT ![r] = @ \ {a}]
  /\ \/ CallSucceeds(r) /\ actions' = [actions EXCEPT ![a.id] = a.state]
     \/ CallFails(r) /\ UNCHANGED actions
  /\ UNCHANGED <<chainVars, cancelled, apc, anext, enrichVars, txRows>>

ActionsPageDone(r) ==
  /\ apc[r] = "upsert" /\ apage[r] = {}
  /\ apc' = [apc EXCEPT ![r] = IF anext[r] = 0 THEN "wait" ELSE "fetch"]
  /\ UNCHANGED <<chainVars, cancelled, anext, apage, enrichVars, table, errs>>

-----------------------------------------------------------------------------
(* loopActionTxEnricher and runActionTxEnricher.                           *)

\* Mutant: a pass goes on where the last one ended.
BeginPass_Resumes(r) ==
  /\ epc[r] \in {"sleep", "wait"}
  /\ epc' = [epc EXCEPT ![r] = "batch"]
  /\ UNCHANGED <<chainVars, cancelled, syncVars, minID, batch, full, cur, query,
                 got, had, cached, guessing, table, errs>>

\* The sleep of 30 seconds is over, or the ticker fires: a pass begins.
BeginPass(r) ==
  /\ epc[r] \in {"sleep", "wait"}
  /\ epc' = [epc EXCEPT ![r] = "batch"]
  /\ minID' = [minID EXCEPT ![r] = StartID]
  /\ UNCHANGED <<chainVars, cancelled, syncVars, batch, full, cur, query, got,
                 had, cached, guessing, table, errs>>

EnricherReturns(r) ==
  /\ epc[r] = "wait" /\ r \in cancelled
  /\ epc' = [epc EXCEPT ![r] = "off"]
  /\ UNCHANGED <<chainVars, cancelled, syncVars, minID, batch, full, cur,
                 query, got, had, cached, guessing, table, errs>>

\* Mutant: enriched actions are looked up again.
Unenriched_All == {i \in Ids : actions[i] > 0}

\* The actions without a register row, a placeholder being one.
Unenriched == {i \in Ids : actions[i] > 0 /\ txRows[i][1] = "none"}

\* GetUnenrichedActions; an empty answer ends the pass.
GetUnenrichedActions(r) ==
  /\ epc[r] = "batch" /\ CallSucceeds(r)
  /\ LET b == FirstN(Unenriched, minID[r], BatchSize) IN
       /\ batch' = [batch EXCEPT ![r] = b]
       /\ full' = [full EXCEPT ![r] = Cardinality(b) = BatchSize]
       /\ epc' = [epc EXCEPT ![r] = IF b = {} THEN "wait" ELSE "next"]
  /\ UNCHANGED <<chainVars, cancelled, syncVars, minID, cur, query, got, had,
                 cached, guessing, table>>

\* Mutant: the query is repeated until it succeeds.
GetUnenrichedError_Retries(r) ==
  /\ epc[r] = "batch" /\ CallFails(r)
  /\ UNCHANGED <<chainVars, cancelled, syncVars, enrichVars, table>>

\* An error ends the pass.
GetUnenrichedError(r) ==
  /\ epc[r] = "batch" /\ CallFails(r)
  /\ epc' = [epc EXCEPT ![r] = "wait"]
  /\ UNCHANGED <<chainVars, cancelled, syncVars, minID, batch, full, cur,
                 query, got, had, cached, guessing, table>>

\* Mutant: the address counts as fetched when the call failed.
GetActionModuleAccount_Always(r) ==
  \/ r \in cached /\ UNCHANGED <<cached, guessing, errs>>
  \/ r \notin cached /\ CallSucceeds(r)
     /\ cached' = cached \cup {r} /\ guessing' = guessing \ {r}
  \/ r \notin cached /\ CallFails(r)
     /\ cached' = cached \cup {r} /\ guessing' = guessing \cup {r}

\* The address is fetched once; when the call fails, this action is looked up
\* without it.
GetActionModuleAccount(r) ==
  \/ r \in cached /\ UNCHANGED <<cached, guessing, errs>>
  \/ r \notin cached /\ CallSucceeds(r)
     /\ cached' = cached \cup {r} /\ guessing' = guessing \ {r}
  \/ r \notin cached /\ CallFails(r)
     /\ UNCHANGED cached /\ guessing' = guessing \cup {r}

\* The next action of the batch: the cursor moves past it before anything
\* is known about it. GetActionTransactions begins.
BeginAction(r) ==
  /\ epc[r] = "next" /\ batch[r] # {}
  /\ LET i == SmallestOf(batch[r]) IN
       /\ cur' = [cur EXCEPT ![r] = i]
       /\ batch' = [batch EXCEPT ![r] = @ \ {i}]
       /\ minID' = [minID EXCEPT ![r] = i + 1]
       /\ had' = [had EXCEPT ![r] = indexed[i]]
  /\ query' = [query EXCEPT ![r] = 1]
  /\ got' = [got EXCEPT ![r] = {}]
  /\ epc' = [epc EXCEPT ![r] = "query"]
  /\ GetActionModuleAccount(r)
  /\ UNCHANGED <<chainVars, cancelled, syncVars, full, table>>

\* Mutant: the search ignores the type of the transaction.
Found_AnyType(r) == IF indexed[cur[r]] > 0 THEN {query[r]} ELSE {}

\* What the transaction search returns for the query.
Found(r) == IF query[r] <= indexed[cur[r]] THEN {query[r]} ELSE {}

\* Mutant: one query too many.
NextQuery_Runs(k) == k + 1

\* The queries are register, finalize and approve, in this order.
NextQuery(k) == IF k = 3 THEN 1 ELSE k + 1

\* One query of GetActionTransactions. An error counts as no transactions.
SearchTxs(r) ==
  /\ epc[r] = "query"
  /\ \/ CallSucceeds(r) /\ got' = [got EXCEPT ![r] = @ \cup Found(r)]
     \/ CallFails(r) /\ UNCHANGED got
  /\ query' = [query EXCEPT ![r] = NextQuery(@)]
  /\ epc' = [epc EXCEPT ![r] =
       IF query[r] < 3 THEN "query"
       ELSE IF got'[r] = {} THEN "placeholder" ELSE "store"]
  /\ UNCHANGED <<chainVars, cancelled, syncVars, minID, batch, full, cur, had,
                 cached, guessing, table>>

\* The loop goes on: the variables of its body are gone.
Forget(r) ==
  /\ cur' = [cur EXCEPT ![r] = 0] /\ had' = [had EXCEPT ![r] = 0]
  /\ guessing' = guessing \ {r}

\* No transactions were returned: the placeholder is upserted, or that fails
\* and is logged.
StorePlaceholder(r) ==
  /\ epc[r] = "placeholder"
  /\ \/ CallSucceeds(r) /\ txRows' = [txRows EXCEPT ![cur[r]][1] = "placeholder"]
     \/ CallFails(r) /\ UNCHANGED txRows
  /\ epc' = [epc EXCEPT ![r] = "next"] /\ Forget(r)
  /\ UNCHANGED <<chainVars, cancelled, syncVars, minID, batch, full, query, got,
                 cached, actions>>

\* One of the transactions is upserted, or that fails and is logged.
StoreTx(r) ==
  /\ epc[r] = "store"
  /\ LET k == SmallestOf(got[r]) IN
       /\ \/ /\ CallSucceeds(r)
             /\ txRows' = [txRows EXCEPT ![cur[r]][k] =
                  IF r \in guessing THEN "guess" ELSE "tx"]
          \/ CallFails(r) /\ UNCHANGED txRows
       /\ got' = [got EXCEPT ![r] = @ \ {k}]
       /\ IF got[r] = {k}
            THEN epc' = [epc EXCEPT ![r] = "next"] /\ Forget(r)
            ELSE UNCHANGED <<epc, cur, had, guessing>>
  /\ UNCHANGED <<chainVars, cancelled, syncVars, minID, batch, full, query,
                 cached, actions>>

\* The batch is done: a full one is followed by another, any other is the last.
BatchDone(r) ==
  /\ epc[r] = "next" /\ batch[r] = {}
  /\ epc' = [epc EXCEPT ![r] = IF full[r] THEN "batch" ELSE "wait"]
  /\ UNCHANGED <<chainVars, cancelled, syncVars, minID, batch, full, cur, query,
                 got, had, cached, guessing, table, errs>>

-----------------------------------------------------------------------------
ActionsStep(r) ==
  \/ FetchActions(r) \/ FetchActionsError(r) \/ ActionsPageDone(r)
  \/ \E a \in apage[r] : UpsertAction(r, a)

EnricherStep(r) ==
  \/ GetUnenrichedActions(r) \/ GetUnenrichedError(r) \/ BeginAction(r)
  \/ SearchTxs(r) \/ StorePlaceholder(r) \/ StoreTx(r) \/ BatchDone(r)

Next ==
  \/ \E i \in Ids : ChainTx(i) \/ IndexTx(i)
  \/ \E r \in Replicas :
       \/ Start(r) \/ Shutdown(r) \/ Crash(r)
       \/ ActionsTick(r) \/ ActionsReturns(r) \/ ActionsStep(r)
       \/ BeginPass(r) \/ EnricherReturns(r) \/ EnricherStep(r)

Spec == Init /\ [][Next]_vars

\* Calls of the chain have timeouts, and the database is assumed to answer (its
\* statements have none), so a pass always goes on; tickers fire; the index
\* catches up. Nothing makes an action move on, or a process start or end.
Fairness ==
  /\ \A i \in Ids : WF_vars(IndexTx(i))
  /\ \A r \in Replicas :
       /\ WF_vars(ActionsTick(r)) /\ WF_vars(ActionsStep(r))
       /\ WF_vars(BeginPass(r)) /\ WF_vars(EnricherStep(r))

FairSpec == Spec /\ Fairness

-----------------------------------------------------------------------------
(* Properties.                                                             *)

\* Every variable has its type; only a register row can be a placeholder.
TypeOK ==
  /\ stage \in [Ids -> 0..3]
  /\ indexed \in [Ids -> 0..3]
  /\ cancelled \subseteq Replicas
  /\ apc \in [Replicas -> {"off", "wait", "fetch", "upsert"}]
  /\ anext \in [Replicas -> Nat]
  /\ apage \in [Replicas -> SUBSET Action]
  /\ epc \in [Replicas -> {"off", "sleep", "wait", "batch", "next", "query",
                           "placeholder", "store"}]
  /\ minID \in [Replicas -> Nat]
  /\ batch \in [Replicas -> SUBSET Ids]
  /\ full \in [Replicas -> BOOLEAN]
  /\ cur \in [Replicas -> Ids \cup {0}]
  /\ query \in [Replicas -> TxTypes]
  /\ got \in [Replicas -> SUBSET TxTypes]
  /\ had \in [Replicas -> 0..3]
  /\ cached \subseteq Replicas /\ guessing \subseteq Replicas
  /\ actions \in [Ids -> 0..3]
  /\ txRows \in [Ids -> [TxTypes -> Cell]]
  /\ errs \in Nat

\* What is recorded is on the chain: a stored transaction was found by the
\* search, whatever failed and whoever else wrote; an action's row is never
\* ahead of the action.
RecordedIsOnChain ==
  \A i \in Ids :
    /\ actions[i] <= stage[i]
    /\ \A k \in TxTypes : txRows[i][k] \in Recorded => k <= indexed[i]
    /\ \A k \in {2, 3} : txRows[i][k] # "placeholder"

\* With one replica a transaction that was recorded stays recorded: the
\* placeholder, and the batch it was decided from, are never that old.
TxNeverLost ==
  [][\A i \in Ids, k \in TxTypes :
       txRows[i][k] \in Recorded => txRows'[i][k] \in Recorded]_vars

\* "PlaceholderTxHash is used to mark actions that have been checked but have
\* no transactions on chain" (handlers/actions.go): when a placeholder is
\* stored, the chain's index had nothing for the action when its queries began.
\* A cancelled context in particular, which fails every query, stores none.
PlaceholderMeansNone ==
  [][\A i \in Ids :
       txRows'[i][1] = "placeholder" /\ txRows[i][1] # "placeholder" =>
         \E r \in Replicas : cur[r] = i /\ epc[r] = "placeholder" /\ had[r] = 0]_vars

\* A payment is told without the module's address only when the chain API
\* failed to give it, and only until it does: a process that is told to stop,
\* whose calls all fail, records none, nor does one that had the address before.
GuessedOnlyAfterError ==
  [][\A i \in Ids, k \in TxTypes :
       txRows'[i][k] = "guess" /\ txRows[i][k] # "guess" =>
         /\ errs > 0
         /\ \E r \in Replicas :
              cur[r] = i /\ epc[r] = "store" /\ r \notin cached]_vars

\* A pass ends: whatever arrives or fails while it runs, it takes no action twice,
\* and an error ends it. (Ids are finitely many; of arrivals that never stop
\* nothing is said.)
PassEnds ==
  \A r \in Replicas : epc[r] = "batch" ~> epc[r] \in {"wait", "off"}

\* If the process stays up, every action of the table from StartID on gets its
\* register row, a transaction or a placeholder: none is passed by for good,
\* whatever failed on the way and wherever batches begin and end.
EveryActionChecked ==
  \A r \in Replicas :
    <>[](epc[r] # "off" /\ r \notin cancelled) =>
      \A i \in Ids : i >= StartID =>
        (actions[i] > 0 ~> txRows[i][1] # "none")

\* lumescope-tutorial.md: an action is enriched "for each of these state
\* transitions, providing a complete audit trail". While the process stays
\* up, every transaction of a listed action is recorded in the end.
AuditTrailComplete ==
  \A r \in Replicas :
    <>[](epc[r] # "off" /\ r \notin cancelled) =>
      \A i \in Ids, k \in TxTypes :
        (actions[i] > 0 /\ k <= indexed[i]) ~> txRows[i][k] \in Recorded
=============================================================================
