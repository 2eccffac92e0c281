------------------------ MODULE ActionEnricherProofs ------------------------
(***************************************************************************)
(* What the two loops record, for any number of replicas, actions and      *)
(* errors. The properties rest on what a replica holds while it looks an   *)
(* action up: which action that is, what the search returned for it, what  *)
(* was indexed when it began, and whether the address of the module is     *)
(* known.                                                                  *)
(***************************************************************************)
EXTENDS ActionEnricher, PagingProofs

LookingUp == {"query", "placeholder", "store"}

\* An action is looked up, and its transactions are stored until none is left.
LookupShape ==
  \A r \in Replicas :
    /\ epc[r] \in LookingUp => cur[r] \in Ids
    /\ epc[r] = "store" => got[r] # {}
    /\ epc[r] = "placeholder" => got[r] = {}

\* What the search returned is indexed, and so is what was when it began.
GotIndexed ==
  \A r \in Replicas :
    /\ \A k \in got[r] : cur[r] \in Ids /\ k <= indexed[cur[r]]
    /\ cur[r] \in Ids => had[r] <= indexed[cur[r]]

\* A page of actions in memory is behind the chain.
PagesBehindChain ==
  \A r \in Replicas : \A a \in apage[r] : a.state <= stage[a.id]

\* Without the address an action is looked up after an error, or in vain as the
\* process is told to stop.
GuessesAfterError ==
  \A r \in guessing :
    r \notin cached /\ (errs > 0 \/ (r \in cancelled /\ got[r] = {}))

\* Without an error the first query finds what was indexed when it began.
NothingMissed ==
  \A r \in Replicas :
    errs = 0 /\ r \notin cancelled /\ had[r] > 0
      /\ (epc[r] = "placeholder" \/ (epc[r] = "query" /\ query[r] > 1))
    => got[r] # {}

\* What the theorems for any number of replicas rest on.
IndInv ==
  /\ TypeOK /\ LookupShape /\ GotIndexed /\ PagesBehindChain
  /\ GuessesAfterError /\ NothingMissed /\ RecordedIsOnChain

-----------------------------------------------------------------------------
(* Types.                                                                  *)

\* The next one of a set of numbers is in it.
LEMMA SmallestIn ==
  ASSUME NEW S \in SUBSET Nat, S # {}
  PROVE  SmallestOf(S) \in S /\ \A j \in S : SmallestOf(S) <= j
  BY LeastElement DEF SmallestOf

\* An error is counted, or the context is cancelled.
LEMMA CallFailsType ==
  ASSUME errs \in Nat, NEW r, CallFails(r)
  PROVE  errs' \in Nat /\ errs' >= errs /\ (r \in cancelled \/ errs' > 0)
  BY DEF CallFails

\* A row of action_transactions is written.
LEMMA CellWritten ==
  ASSUME TypeOK, NEW i \in Ids, NEW k \in TxTypes, NEW c \in Cell,
         txRows' = [txRows EXCEPT ![i][k] = c]
  PROVE  /\ txRows' \in [Ids -> [TxTypes -> Cell]]
         /\ \A j \in Ids, m \in TxTypes :
              txRows'[j][m] = IF j = i /\ m = k THEN c ELSE txRows[j][m]
<1>1. txRows \in [Ids -> [TxTypes -> Cell]]
  BY DEF TypeOK
<1>2. txRows' = [txRows EXCEPT ![i] = [txRows[i] EXCEPT ![k] = c]]
  OBVIOUS
<1>3. txRows[i] \in [TxTypes -> Cell]
  BY <1>1
<1>4. [txRows[i] EXCEPT ![k] = c] \in [TxTypes -> Cell]
  BY <1>3
<1> QED  BY <1>1, <1>2, <1>3, <1>4

\* Before anything happens.
LEMMA IndInvInit == Init => IndInv
<1> SUFFICES ASSUME Init  PROVE IndInv
  OBVIOUS
<1>1. TypeOK
  BY ConstantsAssumption DEF Init, TypeOK, Cell, TxTypes
<1> QED
  BY <1>1 DEF Init, IndInv, LookupShape, GotIndexed, PagesBehindChain, GuessesAfterError,
              NothingMissed, RecordedIsOnChain, LookingUp, Recorded, TxTypes

\* The chain and the process.
LEMMA OutsideType ==
  ASSUME TypeOK, LookupShape,
         \/ \E i \in Ids : ChainTx(i) \/ IndexTx(i)
         \/ \E r \in Replicas : Start(r) \/ Shutdown(r) \/ Crash(r)
  PROVE  TypeOK'
<1> USE ConstantsAssumption
<1>1. ASSUME NEW i \in Ids, ChainTx(i)  PROVE TypeOK'
  BY <1>1 DEF ChainTx, TypeOK, syncVars, enrichVars, table
<1>2. ASSUME NEW i \in Ids, IndexTx(i)  PROVE TypeOK'
  BY <1>2 DEF IndexTx, TypeOK, syncVars, enrichVars, table
<1>3. ASSUME NEW r \in Replicas, Start(r)  PROVE TypeOK'
  BY <1>3 DEF Start, TypeOK, chainVars, table
<1>4. ASSUME NEW r \in Replicas, Shutdown(r)  PROVE TypeOK'
  BY <1>4 DEF Shutdown, TypeOK, chainVars, syncVars, enrichVars, table
<1>5. ASSUME NEW r \in Replicas, Crash(r)  PROVE TypeOK'
  <2>1. /\ apc' \in [Replicas -> {"off", "wait", "fetch", "upsert"}]
        /\ anext' \in [Replicas -> Nat] /\ apage' \in [Replicas -> SUBSET Action]
    BY <1>5 DEF Crash, TypeOK
  <2>2. /\ epc' \in [Replicas -> {"off", "sleep", "wait", "batch", "next", "query",
                                 "placeholder", "store"}]
        /\ minID' \in [Replicas -> Nat] /\ batch' \in [Replicas -> SUBSET Ids]
        /\ full' \in [Replicas -> BOOLEAN]
    BY <1>5 DEF Crash, TypeOK
  <2>3. /\ cur' \in [Replicas -> Ids \cup {0}] /\ query' \in [Replicas -> TxTypes]
        /\ got' \in [Replicas -> SUBSET TxTypes] /\ had' \in [Replicas -> 0..3]
    <3>1. 1 \in TxTypes /\ 0 \in 0..3
      BY DEF TxTypes
    <3>2. cur' \in [Replicas -> Ids \cup {0}] /\ query' \in [Replicas -> TxTypes]
      BY <1>5, <3>1 DEF Crash, TypeOK
    <3>3. got' \in [Replicas -> SUBSET TxTypes]
      BY <1>5 DEF Crash, TypeOK
    <3>4. had' \in [Replicas -> 0..3]
      BY <1>5, <3>1 DEF Crash, TypeOK
    <3> QED  BY <3>2, <3>3, <3>4
  <2>4. cancelled' \subseteq Replicas /\ cached' \subseteq Replicas /\ guessing' \subseteq Replicas
    BY <1>5 DEF Crash, TypeOK
  <2> QED
    BY <1>5, <2>1, <2>2, <2>3, <2>4 DEF Crash, TypeOK, chainVars, table
<1> QED  BY <1>1, <1>2, <1>3, <1>4, <1>5

\* loopActions.
LEMMA ActionsLoopType ==
  ASSUME TypeOK, NEW r \in Replicas,
         ActionsTick(r) \/ ActionsReturns(r) \/ ActionsStep(r)
  PROVE  TypeOK'
<1> USE ConstantsAssumption
<1>1. CASE ActionsTick(r) \/ ActionsReturns(r) \/ ActionsPageDone(r)
  BY <1>1 DEF ActionsTick, ActionsReturns, ActionsPageDone, TypeOK, chainVars, enrichVars, table
<1>2. CASE FetchActions(r)
  <2>1. Listed \in SUBSET (Nat \ {0}) /\ Listed \subseteq Ids /\ anext[r] \in Nat
    BY DEF Listed, TypeOK
  <2>2. NextKey(Listed, anext[r], PageSize) \in Nat
    BY <2>1, NextKeyType
  <2>3. \A i \in FirstN(Listed, anext[r], PageSize) : [id |-> i, state |-> stage[i]] \in Action
    BY <2>1, FirstNType DEF Action, Listed, TypeOK
  <2> QED
    BY <1>2, <2>2, <2>3 DEF FetchActions, CallSucceeds, TypeOK, chainVars, enrichVars, table
<1>3. CASE FetchActionsError(r)
  BY <1>3, CallFailsType DEF FetchActionsError, TypeOK, chainVars, enrichVars, table
<1>4. ASSUME NEW a \in apage[r], UpsertAction(r, a)  PROVE TypeOK'
  <2>1. a.id \in Ids /\ a.state \in 0..3
    BY DEF TypeOK, Action
  <2>2. errs' \in Nat
    BY <1>4, CallFailsType DEF UpsertAction, CallSucceeds, TypeOK
  <2>3. actions' \in [Ids -> 0..3]
    BY <1>4, <2>1 DEF UpsertAction, TypeOK
  <2> QED
    BY <1>4, <2>2, <2>3 DEF UpsertAction, TypeOK, chainVars, enrichVars
<1> QED  BY <1>1, <1>2, <1>3, <1>4 DEF ActionsStep

\* loopActionTxEnricher.
LEMMA EnricherLoopType ==
  ASSUME TypeOK, LookupShape, NEW r \in Replicas,
         BeginPass(r) \/ EnricherReturns(r) \/ EnricherStep(r)
  PROVE  TypeOK'
<1> USE ConstantsAssumption
<1>1. CASE BeginPass(r) \/ EnricherReturns(r) \/ BatchDone(r)
  BY <1>1 DEF BeginPass, EnricherReturns, BatchDone, TypeOK, chainVars, syncVars, table
<1>2. CASE GetUnenrichedActions(r)
  <2>1. FirstN(Unenriched, minID[r], BatchSize) \in SUBSET Ids
    BY FirstNType DEF Unenriched
  <2> QED
    BY <1>2, <2>1 DEF GetUnenrichedActions, CallSucceeds, TypeOK, chainVars, syncVars, table
<1>3. CASE GetUnenrichedError(r)
  BY <1>3, CallFailsType DEF GetUnenrichedError, TypeOK, chainVars, syncVars, table
<1>4. CASE BeginAction(r)
  <2> DEFINE i == SmallestOf(batch[r])
  <2>1. i \in batch[r] /\ i \in Ids /\ i \in Nat
    BY <1>4, SmallestIn DEF BeginAction, TypeOK
  <2> HIDE DEF i
  <2>2. /\ cur' = [cur EXCEPT ![r] = i] /\ batch' = [batch EXCEPT ![r] = @ \ {i}]
        /\ minID' = [minID EXCEPT ![r] = i + 1] /\ had' = [had EXCEPT ![r] = indexed[i]]
    BY <1>4 DEF BeginAction, i
  <2>3. cached' \subseteq Replicas /\ guessing' \subseteq Replicas /\ errs' \in Nat
    BY <1>4, CallFailsType DEF BeginAction, GetActionModuleAccount, CallSucceeds, TypeOK
  <2>4. i + 1 \in Nat /\ indexed[i] \in 0..3
    BY <2>1 DEF TypeOK
  <2> QED
    BY <1>4, <2>1, <2>2, <2>3, <2>4 DEF BeginAction, TypeOK, TxTypes, chainVars, syncVars, table
<1>5. CASE SearchTxs(r)
  <2>1. NextQuery(query[r]) \in TxTypes /\ Found(r) \subseteq TxTypes
    BY DEF NextQuery, Found, TypeOK, TxTypes
  <2>2. got' \in [Replicas -> SUBSET TxTypes] /\ errs' \in Nat
    BY <1>5, <2>1, CallFailsType DEF SearchTxs, CallSucceeds, TypeOK
  <2> QED
    BY <1>5, <2>1, <2>2 DEF SearchTxs, TypeOK, chainVars, syncVars, table
<1>6. CASE StorePlaceholder(r)
  <2>1. cur[r] \in Ids /\ 1 \in TxTypes
    BY <1>6 DEF StorePlaceholder, LookupShape, LookingUp, TxTypes
  <2>2. txRows' \in [Ids -> [TxTypes -> Cell]] /\ errs' \in Nat
    <3>1. "placeholder" \in Cell
      BY DEF Cell
    <3>2. txRows' = [txRows EXCEPT ![cur[r]][1] = "placeholder"] \/ txRows' = txRows
      BY <1>6 DEF StorePlaceholder
    <3>3. errs' \in Nat
      BY <1>6, CallFailsType DEF StorePlaceholder, CallSucceeds, TypeOK
    <3> QED  BY <2>1, <3>1, <3>2, <3>3, CellWritten DEF TypeOK
  <2> QED
    BY <1>6, <2>2 DEF StorePlaceholder, Forget, TypeOK, chainVars, syncVars
<1>7. CASE StoreTx(r)
  <2> DEFINE k == SmallestOf(got[r])
  <2>0. TxTypes \subseteq Nat
    BY DEF TxTypes
  <2>1. cur[r] \in Ids /\ got[r] # {} /\ got[r] \subseteq TxTypes
    BY <1>7 DEF StoreTx, LookupShape, LookingUp, TypeOK
  <2>2. k \in TxTypes
    BY <2>0, <2>1, SmallestIn
  <2> HIDE DEF k
  <2>3. /\ \/ CallSucceeds(r) /\ txRows' = [txRows EXCEPT ![cur[r]][k] =
                 IF r \in guessing THEN "guess" ELSE "tx"]
           \/ CallFails(r) /\ UNCHANGED txRows
        /\ got' = [got EXCEPT ![r] = @ \ {k}]
        /\ \/ epc' = [epc EXCEPT ![r] = "next"] /\ Forget(r)
           \/ UNCHANGED <<epc, cur, had, guessing>>
    BY <1>7 DEF StoreTx, k
  <2>4. txRows' \in [Ids -> [TxTypes -> Cell]] /\ errs' \in Nat
    <3>1. "guess" \in Cell /\ "tx" \in Cell
      BY DEF Cell
    <3>2. \/ txRows' = txRows
          \/ txRows' = [txRows EXCEPT ![cur[r]][k] = "guess"]
          \/ txRows' = [txRows EXCEPT ![cur[r]][k] = "tx"]
      BY <2>3
    <3>3. errs' \in Nat
      BY <2>3, CallFailsType DEF CallSucceeds, TypeOK
    <3> QED  BY <2>1, <2>2, <3>1, <3>2, <3>3, CellWritten DEF TypeOK
  <2> QED
    BY <1>7, <2>3, <2>4 DEF StoreTx, Forget, TypeOK, chainVars, syncVars
<1> QED
  BY <1>1, <1>2, <1>3, <1>4, <1>5, <1>6, <1>7 DEF EnricherStep

\* Every step keeps the types.
LEMMA TypeStep == TypeOK /\ LookupShape /\ [Next]_vars => TypeOK'
<1> SUFFICES ASSUME TypeOK, LookupShape, [Next]_vars  PROVE TypeOK'
  OBVIOUS
<1>1. CASE UNCHANGED vars
  BY <1>1 DEF vars, TypeOK
<1> QED
  BY <1>1, OutsideType, ActionsLoopType, EnricherLoopType DEF Next

-----------------------------------------------------------------------------
(* What a step changes of the lookup of a replica.                         *)

\* Nothing of it.
SameLookup(r) ==
  /\ epc'[r] = epc[r] /\ cur'[r] = cur[r] /\ query'[r] = query[r]
  /\ got'[r] = got[r] /\ had'[r] = had[r]
  /\ (r \in cached') = (r \in cached) /\ (r \in guessing') = (r \in guessing)

\* The replica moves between two lookups.
NoLookup(r) ==
  /\ epc[r] \notin LookingUp /\ epc'[r] \notin LookingUp
  /\ cur'[r] = cur[r] /\ got'[r] = got[r] /\ had'[r] = had[r]
  /\ (r \in cached') = (r \in cached) /\ (r \in guessing') = (r \in guessing)

\* A step on one replica leaves the lookup of another alone.
LEMMA OthersSame ==
  ASSUME TypeOK, NEW r \in Replicas, NEW s \in Replicas, r # s,
         BeginPass(s) \/ EnricherReturns(s) \/ EnricherStep(s) \/ Start(s) \/ Crash(s)
  PROVE  SameLookup(r)
<1> USE DEF SameLookup, TypeOK
<1>1. CASE BeginPass(s) \/ EnricherReturns(s) \/ Start(s) \/ BatchDone(s)
           \/ GetUnenrichedActions(s) \/ GetUnenrichedError(s)
  BY <1>1 DEF BeginPass, EnricherReturns, Start, BatchDone, GetUnenrichedActions, GetUnenrichedError
<1>2. CASE BeginAction(s)
  BY <1>2 DEF BeginAction, GetActionModuleAccount
<1>3. CASE SearchTxs(s)
  BY <1>3 DEF SearchTxs
<1>4. CASE StorePlaceholder(s)
  BY <1>4 DEF StorePlaceholder, Forget
<1>5. CASE StoreTx(s)
  BY <1>5 DEF StoreTx, Forget
<1>6. CASE Crash(s)
  BY <1>6 DEF Crash
<1> QED  BY <1>1, <1>2, <1>3, <1>4, <1>5, <1>6 DEF EnricherStep

\* Who changes the lookup of a replica.
LEMMA LookupWriters ==
  ASSUME TypeOK, [Next]_vars, NEW r \in Replicas
  PROVE  \/ SameLookup(r) \/ NoLookup(r)
         \/ BeginAction(r) \/ SearchTxs(r) \/ StorePlaceholder(r) \/ StoreTx(r) \/ Crash(r)
<1>1. CASE UNCHANGED enrichVars
  BY <1>1 DEF enrichVars, SameLookup
<1>2. ASSUME NEW i \in Ids, ChainTx(i) \/ IndexTx(i)  PROVE UNCHANGED enrichVars
  BY <1>2 DEF ChainTx, IndexTx
<1>3. ASSUME NEW s \in Replicas,
             Shutdown(s) \/ ActionsTick(s) \/ ActionsReturns(s) \/ ActionsStep(s)
      PROVE  UNCHANGED enrichVars
  BY <1>3 DEF Shutdown, ActionsTick, ActionsReturns, ActionsStep, FetchActions,
              FetchActionsError, ActionsPageDone, UpsertAction
<1>4. CASE BeginPass(r) \/ EnricherReturns(r) \/ Start(r) \/ BatchDone(r)
           \/ GetUnenrichedActions(r) \/ GetUnenrichedError(r)
  BY <1>4 DEF BeginPass, EnricherReturns, Start, BatchDone, GetUnenrichedActions,
              GetUnenrichedError, NoLookup, LookingUp, TypeOK
<1>5. ASSUME NEW s \in Replicas,
             BeginPass(s) \/ EnricherReturns(s) \/ EnricherStep(s) \/ Start(s) \/ Crash(s)
      PROVE  \/ SameLookup(r) \/ NoLookup(r)
             \/ BeginAction(r) \/ SearchTxs(r) \/ StorePlaceholder(r) \/ StoreTx(r) \/ Crash(r)
  <2>1. CASE s # r
    BY <1>5, <2>1, OthersSame
  <2>2. CASE s = r
    BY <1>4, <1>5, <2>2 DEF EnricherStep
  <2> QED  BY <2>1, <2>2
<1>6. CASE UNCHANGED vars
  BY <1>6, <1>1 DEF vars, enrichVars
<1> QED  BY <1>1, <1>2, <1>3, <1>5, <1>6 DEF Next

\* The chain and its index only grow, errors are only counted, and only the end
\* of a process ends a cancellation.
LEMMA OutsideGrows ==
  ASSUME TypeOK, [Next]_vars
  PROVE  /\ \A i \in Ids : stage[i] <= stage'[i] /\ indexed[i] <= indexed'[i]
         /\ errs \in Nat /\ errs' \in Nat /\ errs <= errs'
         /\ \A r \in cancelled : r \in cancelled' \/ Crash(r)
<1>0. /\ \A j \in Ids : stage[j] \in Int /\ indexed[j] \in Int
      /\ errs \in Nat
  <2>1. stage \in [Ids -> 0..3] /\ indexed \in [Ids -> 0..3] /\ errs \in Nat
    BY DEF TypeOK
  <2>2. \A n \in 0..3 : n \in Int
    OBVIOUS
  <2> QED  BY <2>1, <2>2
<1>1. ASSUME NEW i \in Ids, ChainTx(i) \/ IndexTx(i)
      PROVE  /\ \A j \in Ids : stage[j] <= stage'[j] /\ indexed[j] <= indexed'[j]
             /\ UNCHANGED <<errs, cancelled>>
  <2>1. CASE ChainTx(i)
    BY <1>0, <2>1 DEF ChainTx, TypeOK
  <2>2. CASE IndexTx(i)
    BY <1>0, <2>2 DEF IndexTx, TypeOK
  <2> QED  BY <1>1, <2>1, <2>2
<1>2. ASSUME NEW r \in Replicas, Start(r) \/ Shutdown(r) \/ Crash(r)
      PROVE  /\ UNCHANGED <<stage, indexed, errs>>
             /\ \A s \in cancelled : s \in cancelled' \/ Crash(s)
  BY <1>2 DEF Start, Shutdown, Crash, chainVars
<1>3. ASSUME NEW r \in Replicas, ActionsTick(r) \/ ActionsReturns(r) \/ ActionsStep(r)
      PROVE  UNCHANGED <<stage, indexed, cancelled>> /\ errs' \in Nat /\ errs <= errs'
  BY <1>0, <1>3 DEF ActionsTick, ActionsReturns, ActionsStep, FetchActions, FetchActionsError,
              ActionsPageDone, UpsertAction, CallSucceeds, CallFails, chainVars
<1>4. ASSUME NEW r \in Replicas, BeginPass(r) \/ EnricherReturns(r) \/ EnricherStep(r)
      PROVE  UNCHANGED <<stage, indexed, cancelled>> /\ errs' \in Nat /\ errs <= errs'
  BY <1>0, <1>4 DEF BeginPass, EnricherReturns, EnricherStep, GetUnenrichedActions,
              GetUnenrichedError, BeginAction, GetActionModuleAccount, SearchTxs,
              StorePlaceholder, StoreTx, BatchDone, CallSucceeds, CallFails, chainVars
<1>5. CASE UNCHANGED vars
  BY <1>0, <1>5 DEF vars
<1> QED  BY <1>0, <1>1, <1>2, <1>3, <1>4, <1>5 DEF Next

-----------------------------------------------------------------------------
(* The parts of the invariant.                                             *)

\* The shape of a lookup.
LEMMA LookupShapeStep ==
  TypeOK /\ LookupShape /\ [Next]_vars => LookupShape'
<1> SUFFICES ASSUME TypeOK, LookupShape, [Next]_vars, NEW r \in Replicas
             PROVE  /\ epc'[r] \in LookingUp => cur'[r] \in Ids
                    /\ epc'[r] = "store" => got'[r] # {}
                    /\ epc'[r] = "placeholder" => got'[r] = {}
  BY DEF LookupShape, LookingUp
<1>0. /\ epc[r] \in LookingUp => cur[r] \in Ids
      /\ epc[r] = "store" => got[r] # {}
      /\ epc[r] = "placeholder" => got[r] = {}
  BY DEF LookupShape
<1>1. CASE SameLookup(r) \/ NoLookup(r)
  BY <1>0, <1>1 DEF SameLookup, NoLookup, LookingUp
<1>2. CASE BeginAction(r)
  <2>1. batch[r] # {} /\ batch[r] \in SUBSET Nat /\ batch[r] \subseteq Ids
    BY <1>2, ConstantsAssumption DEF BeginAction, TypeOK
  <2>2. SmallestOf(batch[r]) \in Ids
    BY <2>1, SmallestIn
  <2> QED  BY <1>2, <2>2 DEF BeginAction, TypeOK
<1>3. CASE SearchTxs(r)
  BY <1>0, <1>3 DEF SearchTxs, TypeOK, LookingUp
<1>4. CASE StorePlaceholder(r)
  BY <1>4 DEF StorePlaceholder, TypeOK, LookingUp
<1>5. CASE StoreTx(r)
  BY <1>0, <1>5 DEF StoreTx, Forget, TypeOK, LookingUp
<1>6. CASE Crash(r)
  BY <1>6 DEF Crash, TypeOK, LookingUp
<1> QED  BY <1>1, <1>2, <1>3, <1>4, <1>5, <1>6, LookupWriters

\* What the search returned stays indexed.
LEMMA GotIndexedStep ==
  TypeOK /\ LookupShape /\ GotIndexed /\ [Next]_vars => GotIndexed'
<1> SUFFICES ASSUME TypeOK, LookupShape, GotIndexed, [Next]_vars, NEW r \in Replicas
             PROVE  /\ \A k \in got'[r] : cur'[r] \in Ids /\ k <= indexed'[cur'[r]]
                    /\ cur'[r] \in Ids => had'[r] <= indexed'[cur'[r]]
  BY DEF GotIndexed
<1>0. /\ \A k \in got[r] : k \in Int /\ cur[r] \in Ids /\ k <= indexed[cur[r]]
      /\ had[r] \in Int /\ (cur[r] \in Ids => had[r] <= indexed[cur[r]])
  <2>1. got[r] \subseteq TxTypes /\ had[r] \in 0..3
    BY DEF TypeOK
  <2> QED  BY <2>1 DEF GotIndexed, TxTypes
<1>1. \A i \in Ids : indexed[i] \in Int /\ indexed'[i] \in Int /\ indexed[i] <= indexed'[i]
  <2>1. indexed \in [Ids -> 0..3] /\ indexed' \in [Ids -> 0..3]
    BY TypeStep DEF TypeOK
  <2> QED  BY <2>1, OutsideGrows
<1>2. CASE /\ cur'[r] = cur[r] /\ had'[r] = had[r]
           /\ \A k \in got'[r] : k \in got[r] \/ (cur[r] \in Ids /\ k \in Int /\ k <= indexed[cur[r]])
  BY <1>0, <1>1, <1>2
<1>3. CASE SameLookup(r) \/ NoLookup(r)
  BY <1>2, <1>3 DEF SameLookup, NoLookup
<1>4. CASE BeginAction(r)
  <2>1. batch[r] # {} /\ batch[r] \in SUBSET Nat /\ batch[r] \subseteq Ids
    BY <1>4, ConstantsAssumption DEF BeginAction, TypeOK
  <2>2. SmallestOf(batch[r]) \in Ids
    BY <2>1, SmallestIn
  <2>3. /\ got'[r] = {} /\ cur'[r] = SmallestOf(batch[r])
        /\ had'[r] = indexed[SmallestOf(batch[r])]
    BY <1>4 DEF BeginAction, TypeOK
  <2> QED  BY <1>1, <2>2, <2>3
<1>5. CASE SearchTxs(r)
  <2>1. cur[r] \in Ids
    BY <1>5 DEF SearchTxs, LookupShape, LookingUp
  <2>2. \A k \in Found(r) : k \in Int /\ k <= indexed[cur[r]]
    BY DEF Found, TypeOK, TxTypes
  <2>3. cur' = cur /\ had' = had
        /\ (got'[r] = got[r] \/ got'[r] = got[r] \cup Found(r))
    BY <1>5 DEF SearchTxs, TypeOK
  <2> QED  BY <1>2, <2>1, <2>2, <2>3
<1>6. CASE StorePlaceholder(r)
  <2>1. got' = got /\ got[r] = {} /\ cur'[r] = 0 /\ 0 \notin Ids
    BY <1>6, ConstantsAssumption DEF StorePlaceholder, Forget, LookupShape, TypeOK
  <2> QED  BY <2>1
<1>7. CASE StoreTx(r)
  <2>1. got'[r] = got[r] \ {SmallestOf(got[r])} /\ 0 \notin Ids
    BY <1>7, ConstantsAssumption DEF StoreTx, TypeOK
  <2>2. \/ cur'[r] = cur[r] /\ had'[r] = had[r]
        \/ cur'[r] = 0 /\ got[r] = {SmallestOf(got[r])}
    BY <1>7 DEF StoreTx, Forget, TypeOK
  <2> QED  BY <1>2, <2>1, <2>2
<1>8. CASE Crash(r)
  <2>1. got'[r] = {} /\ cur'[r] = 0 /\ 0 \notin Ids
    BY <1>8, ConstantsAssumption DEF Crash, TypeOK
  <2> QED  BY <2>1
<1> QED  BY <1>3, <1>4, <1>5, <1>6, <1>7, <1>8, LookupWriters

\* A guess follows an error.
LEMMA GuessesAfterErrorStep ==
  TypeOK /\ LookupShape /\ GuessesAfterError /\ [Next]_vars => GuessesAfterError'
<1> SUFFICES ASSUME TypeOK, LookupShape, GuessesAfterError, [Next]_vars, NEW r \in guessing'
             PROVE  r \notin cached' /\ (errs' > 0 \/ (r \in cancelled' /\ got'[r] = {}))
  BY DEF GuessesAfterError
<1>0. /\ errs \in Nat /\ errs' \in Nat /\ errs <= errs'
      /\ r \in cancelled => r \in cancelled' \/ Crash(r)
  BY OutsideGrows
<1> r \in Replicas
  BY TypeStep DEF TypeOK
<1>1. CASE SameLookup(r) \/ NoLookup(r)
  <2>1. r \in guessing /\ r \notin cached' /\ got'[r] = got[r]
    BY <1>1 DEF SameLookup, NoLookup, GuessesAfterError
  <2>2. CASE errs > 0
    BY <1>0, <2>1, <2>2
  <2>3. CASE r \in cancelled /\ got[r] = {} /\ ~Crash(r)
    BY <1>0, <2>1, <2>3
  <2>4. ~Crash(r)
    BY DEF Crash
  <2> QED  BY <2>1, <2>2, <2>3, <2>4 DEF GuessesAfterError
<1>2. CASE BeginAction(r)
  <2>1. got'[r] = {} /\ cancelled' = cancelled
    BY <1>2 DEF BeginAction, TypeOK
  <2>2. CASE r \in cached
    BY <1>2, <2>2 DEF BeginAction, GetActionModuleAccount, GuessesAfterError
  <2>3. CASE r \notin cached /\ CallFails(r)
    BY <1>0, <1>2, <2>1, <2>3, CallFailsType DEF BeginAction, GetActionModuleAccount
  <2> QED  BY <1>2, <2>2, <2>3 DEF BeginAction, GetActionModuleAccount
<1>3. CASE SearchTxs(r)
  <2>1. r \in guessing /\ cached' = cached /\ cancelled' = cancelled
    BY <1>3 DEF SearchTxs
  <2>2. CASE errs > 0
    BY <1>0, <2>1, <2>2 DEF GuessesAfterError
  <2>3. CASE r \in cancelled /\ got[r] = {}
    <3>1. ~CallSucceeds(r)
      BY <2>3 DEF CallSucceeds
    <3>2. got' = got
      BY <1>3, <3>1 DEF SearchTxs
    <3> QED  BY <2>1, <2>3, <3>2 DEF GuessesAfterError
  <2> QED  BY <2>1, <2>2, <2>3 DEF GuessesAfterError
<1>4. CASE StorePlaceholder(r)
  BY <1>4 DEF StorePlaceholder, Forget
<1>5. CASE StoreTx(r)
  <2>1. got[r] # {}
    BY <1>5 DEF StoreTx, LookupShape
  <2>2. r \in guessing /\ cached' = cached
    BY <1>5 DEF StoreTx, Forget
  <2> QED  BY <1>0, <2>1, <2>2 DEF GuessesAfterError
<1>6. CASE Crash(r)
  BY <1>6 DEF Crash
<1> QED  BY <1>1, <1>2, <1>3, <1>4, <1>5, <1>6, LookupWriters

\* The first query decides.
LEMMA NothingMissedStep ==
  TypeOK /\ LookupShape /\ GotIndexed /\ NothingMissed /\ [Next]_vars => NothingMissed'
<1> SUFFICES ASSUME TypeOK, LookupShape, GotIndexed, NothingMissed, [Next]_vars,
                    NEW r \in Replicas, errs' = 0, r \notin cancelled', had'[r] > 0,
                    epc'[r] = "placeholder" \/ (epc'[r] = "query" /\ query'[r] > 1)
             PROVE  got'[r] # {}
  BY DEF NothingMissed
<1>0. errs = 0 /\ (r \in cancelled => Crash(r))
  BY OutsideGrows
<1>1. CASE SameLookup(r) \/ NoLookup(r)
  <2>1. SameLookup(r)
    BY <1>1 DEF NoLookup, LookingUp
  <2>2. ~Crash(r)
    BY <2>1 DEF Crash, SameLookup, TypeOK
  <2> QED  BY <1>0, <2>1, <2>2 DEF SameLookup, NothingMissed
<1>2. CASE BeginAction(r)
  BY <1>2 DEF BeginAction, TypeOK
<1>3. CASE SearchTxs(r)
  <2>1. /\ had'[r] = had[r] /\ cur[r] \in Ids /\ epc[r] = "query"
        /\ query[r] \in {1, 2, 3} /\ r \notin cancelled
    BY <1>3 DEF SearchTxs, LookupShape, LookingUp, TypeOK, TxTypes
  <2>2. ~CallFails(r)
    BY <1>0, <2>1, CallFailsType DEF TypeOK
  <2>3. got'[r] = got[r] \cup Found(r)
    BY <1>3, <2>2 DEF SearchTxs, TypeOK
  <2>4. CASE query[r] = 1
    <3>1. had[r] \in 0..3 /\ had[r] <= indexed[cur[r]] /\ indexed[cur[r]] \in 0..3
      BY <2>1 DEF GotIndexed, TypeOK
    <3>2. 1 <= indexed[cur[r]]
      BY <2>1, <3>1
    <3> QED  BY <2>3, <2>4, <3>2 DEF Found
  <2>5. CASE query[r] > 1
    BY <1>0, <2>1, <2>3, <2>5 DEF NothingMissed
  <2> QED  BY <2>1, <2>4, <2>5
<1>4. CASE StorePlaceholder(r)
  BY <1>4 DEF StorePlaceholder, TypeOK
<1>5. CASE StoreTx(r)
  BY <1>5 DEF StoreTx, TypeOK
<1>6. CASE Crash(r)
  BY <1>6 DEF Crash, TypeOK
<1> QED  BY <1>1, <1>2, <1>3, <1>4, <1>5, <1>6, LookupWriters

\* A page is a copy of what the chain had.
LEMMA PagesBehindChainStep ==
  TypeOK /\ LookupShape /\ PagesBehindChain /\ [Next]_vars => PagesBehindChain'
<1> SUFFICES ASSUME TypeOK, LookupShape, PagesBehindChain, [Next]_vars,
                    NEW r \in Replicas, NEW a \in apage'[r]
             PROVE  a.state <= stage'[a.id]
  BY DEF PagesBehindChain
<1>0. \A b \in Action : b.id \in Ids /\ b.state \in Int
  BY DEF Action
<1>1. a \in Action
  BY TypeStep DEF TypeOK
<1>2. \A i \in Ids : stage[i] \in Int /\ stage'[i] \in Int /\ stage[i] <= stage'[i]
  <2>1. stage \in [Ids -> 0..3] /\ stage' \in [Ids -> 0..3]
    BY TypeStep DEF TypeOK
  <2> QED  BY <2>1, OutsideGrows
<1>3. CASE a \in apage[r]
  <2>1. a.state <= stage[a.id]
    BY <1>3 DEF PagesBehindChain
  <2> QED  BY <1>0, <1>1, <1>2, <2>1
<1>4. CASE FetchActions(r)
  <2>1. PICK i \in FirstN(Listed, anext[r], PageSize) : a = [id |-> i, state |-> stage[i]]
    BY <1>4 DEF FetchActions, TypeOK
  <2>2. i \in Ids
    BY FirstNType DEF Listed
  <2> QED  BY <1>2, <2>1, <2>2
<1>5. \A s \in Replicas : FetchActions(s) => s = r \/ apage'[r] = apage[r]
  BY DEF FetchActions, TypeOK
<1>6. ASSUME NEW s \in Replicas, ActionsStep(s), ~FetchActions(s)  PROVE apage'[r] \subseteq apage[r]
  BY <1>6 DEF ActionsStep, FetchActionsError, ActionsPageDone, UpsertAction, TypeOK
<1>7. ASSUME NEW i \in Ids, ChainTx(i) \/ IndexTx(i)  PROVE apage' = apage
  BY <1>7 DEF ChainTx, IndexTx, syncVars
<1>8. ASSUME NEW s \in Replicas,
             Start(s) \/ Shutdown(s) \/ Crash(s) \/ ActionsTick(s) \/ ActionsReturns(s)
      PROVE  apage'[r] \subseteq apage[r]
  BY <1>8 DEF Start, Shutdown, Crash, ActionsTick, ActionsReturns, syncVars, TypeOK
<1>9. ASSUME NEW s \in Replicas, BeginPass(s) \/ EnricherReturns(s) \/ EnricherStep(s)
      PROVE  apage' = apage
  BY <1>9 DEF BeginPass, EnricherReturns, EnricherStep, GetUnenrichedActions,
              GetUnenrichedError, BeginAction, SearchTxs, StorePlaceholder, StoreTx,
              BatchDone, syncVars
<1>10. CASE UNCHANGED vars
  BY <1>3, <1>10 DEF vars
<1> QED
  BY <1>3, <1>4, <1>5, <1>6, <1>7, <1>8, <1>9, <1>10 DEF Next, ActionsStep

-----------------------------------------------------------------------------
(* The tables.                                                             *)

\* One step writes one cell of action_transactions.
LEMMA TxWriters ==
  ASSUME TypeOK, LookupShape, [Next]_vars,
         NEW i \in Ids, NEW k \in TxTypes, txRows'[i][k] # txRows[i][k]
  PROVE  \E r \in Replicas :
           /\ cur[r] = i /\ CallSucceeds(r)
           /\ \/ StorePlaceholder(r) /\ k = 1 /\ txRows'[i][k] = "placeholder"
              \/ /\ StoreTx(r) /\ k \in got[r]
                 /\ txRows'[i][k] = IF r \in guessing THEN "guess" ELSE "tx"
<1>1. ASSUME NEW j \in Ids, ChainTx(j) \/ IndexTx(j)  PROVE txRows' = txRows
  BY <1>1 DEF ChainTx, IndexTx, table
<1>2. ASSUME NEW s \in Replicas,
             \/ Start(s) \/ Shutdown(s) \/ Crash(s)
             \/ ActionsTick(s) \/ ActionsReturns(s) \/ ActionsStep(s)
      PROVE  txRows' = txRows
  BY <1>2 DEF Start, Shutdown, Crash, ActionsTick, ActionsReturns, ActionsStep,
              FetchActions, FetchActionsError, ActionsPageDone, UpsertAction, table
<1>3. ASSUME NEW s \in Replicas,
             \/ BeginPass(s) \/ EnricherReturns(s) \/ GetUnenrichedActions(s)
             \/ GetUnenrichedError(s) \/ BeginAction(s) \/ SearchTxs(s) \/ BatchDone(s)
      PROVE  txRows' = txRows
  BY <1>3 DEF BeginPass, EnricherReturns, GetUnenrichedActions, GetUnenrichedError,
              BeginAction, SearchTxs, BatchDone, table
<1>4. CASE UNCHANGED vars
  BY <1>4 DEF vars
<1>5. PICK r \in Replicas : StorePlaceholder(r) \/ StoreTx(r)
  BY <1>1, <1>2, <1>3, <1>4 DEF Next, EnricherStep
<1>6. cur[r] \in Ids
  BY <1>5 DEF StorePlaceholder, StoreTx, LookupShape, LookingUp
<1>7. CASE StorePlaceholder(r)
  <2>1. CallSucceeds(r) /\ txRows' = [txRows EXCEPT ![cur[r]][1] = "placeholder"]
    BY <1>7 DEF StorePlaceholder
  <2>2. 1 \in TxTypes /\ "placeholder" \in Cell
    BY DEF TxTypes, Cell
  <2>3. txRows'[i][k] = IF i = cur[r] /\ k = 1 THEN "placeholder" ELSE txRows[i][k]
    BY <1>6, <2>1, <2>2, CellWritten
  <2> QED  BY <1>7, <2>1, <2>3
<1>8. CASE StoreTx(r)
  <2> DEFINE m == SmallestOf(got[r])
             c == IF r \in guessing THEN "guess" ELSE "tx"
  <2>0. TxTypes \subseteq Nat /\ c \in Cell
    BY DEF TxTypes, Cell
  <2>1. got[r] # {} /\ got[r] \subseteq TxTypes
    BY <1>8 DEF StoreTx, LookupShape, TypeOK
  <2>2. m \in got[r]
    BY <2>0, <2>1, SmallestIn
  <2>3. CallSucceeds(r) /\ txRows' = [txRows EXCEPT ![cur[r]][m] = c]
    BY <1>8 DEF StoreTx
  <2> HIDE DEF m, c
  <2>4. txRows'[i][k] = IF i = cur[r] /\ k = m THEN c ELSE txRows[i][k]
    BY <1>6, <2>0, <2>1, <2>2, <2>3, CellWritten
  <2> QED  BY <1>8, <2>2, <2>3, <2>4 DEF c
<1> QED  BY <1>5, <1>7, <1>8

\* A row of actions changes when an action of a page is upserted.
LEMMA ActionWriters ==
  ASSUME [Next]_vars, actions' # actions
  PROVE  \E r \in Replicas : \E a \in apage[r] : actions' = [actions EXCEPT ![a.id] = a.state]
<1>1. ASSUME NEW j \in Ids, ChainTx(j) \/ IndexTx(j)  PROVE actions' = actions
  BY <1>1 DEF ChainTx, IndexTx, table
<1>2. ASSUME NEW s \in Replicas,
             Start(s) \/ Shutdown(s) \/ Crash(s) \/ ActionsTick(s) \/ ActionsReturns(s)
      PROVE  actions' = actions
  BY <1>2 DEF Start, Shutdown, Crash, ActionsTick, ActionsReturns, table
<1>3. ASSUME NEW s \in Replicas, BeginPass(s) \/ EnricherReturns(s) \/ EnricherStep(s)
      PROVE  actions' = actions
  BY <1>3 DEF BeginPass, EnricherReturns, EnricherStep, GetUnenrichedActions,
              GetUnenrichedError, BeginAction, SearchTxs, StorePlaceholder, StoreTx,
              BatchDone, table
<1>4. ASSUME NEW s \in Replicas, ActionsStep(s)
      PROVE  actions' = actions \/ \E a \in apage[s] : actions' = [actions EXCEPT ![a.id] = a.state]
  BY <1>4 DEF ActionsStep, FetchActions, FetchActionsError, ActionsPageDone, UpsertAction, table
<1>5. CASE UNCHANGED vars
  BY <1>5 DEF vars
<1> QED  BY <1>1, <1>2, <1>3, <1>4, <1>5 DEF Next

\* Nothing is recorded that the chain or its index did not have.
LEMMA RecordedIsOnChainStep ==
  /\ TypeOK /\ LookupShape /\ GotIndexed /\ PagesBehindChain /\ RecordedIsOnChain
  /\ [Next]_vars
  => RecordedIsOnChain'
<1> SUFFICES ASSUME TypeOK, LookupShape, GotIndexed, PagesBehindChain, RecordedIsOnChain,
                    [Next]_vars, NEW i \in Ids
             PROVE  /\ actions'[i] <= stage'[i]
                    /\ \A k \in TxTypes : txRows'[i][k] \in Recorded => k <= indexed'[i]
                    /\ \A k \in {2, 3} : txRows'[i][k] # "placeholder"
  BY DEF RecordedIsOnChain
<1>0. /\ stage[i] \in Int /\ stage'[i] \in Int /\ stage[i] <= stage'[i]
      /\ indexed[i] \in Int /\ indexed'[i] \in Int /\ indexed[i] <= indexed'[i]
      /\ actions[i] \in Int
  <2>1. /\ stage \in [Ids -> 0..3] /\ stage' \in [Ids -> 0..3] /\ actions \in [Ids -> 0..3]
        /\ indexed \in [Ids -> 0..3] /\ indexed' \in [Ids -> 0..3]
    BY TypeStep DEF TypeOK
  <2> QED  BY <2>1, OutsideGrows
<1>1. actions'[i] <= stage'[i]
  <2>1. CASE actions' = actions
    BY <1>0, <2>1 DEF RecordedIsOnChain
  <2>2. CASE actions' # actions
    <3>0. PICK r \in Replicas :
            \E a \in apage[r] : actions' = [actions EXCEPT ![a.id] = a.state]
      BY <2>2, ActionWriters
    <3>1. PICK a \in apage[r] : actions' = [actions EXCEPT ![a.id] = a.state]
      BY <3>0
    <3>2. a.id \in Ids /\ a.state \in Int /\ a.state <= stage[a.id]
      <4>1. a \in Action /\ a.state <= stage[a.id]
        BY DEF PagesBehindChain, TypeOK
      <4> QED  BY <4>1 DEF Action
    <3>3. actions'[i] = IF i = a.id THEN a.state ELSE actions[i]
      BY <3>1, <3>2 DEF TypeOK
    <3> QED  BY <1>0, <3>2, <3>3 DEF RecordedIsOnChain
  <2> QED  BY <2>1, <2>2
<1>2. ASSUME NEW k \in TxTypes
      PROVE  /\ txRows'[i][k] \in Recorded => k <= indexed'[i]
             /\ k \in {2, 3} => txRows'[i][k] # "placeholder"
  <2>0. k \in Int
    BY DEF TxTypes
  <2>1. CASE txRows'[i][k] = txRows[i][k]
    BY <1>0, <2>0, <2>1 DEF RecordedIsOnChain
  <2>2. CASE txRows'[i][k] # txRows[i][k]
    <3>1. PICK r \in Replicas :
            /\ cur[r] = i /\ CallSucceeds(r)
            /\ \/ StorePlaceholder(r) /\ k = 1 /\ txRows'[i][k] = "placeholder"
               \/ /\ StoreTx(r) /\ k \in got[r]
                  /\ txRows'[i][k] = IF r \in guessing THEN "guess" ELSE "tx"
      BY <2>2, TxWriters
    <3>2. CASE k = 1 /\ txRows'[i][k] = "placeholder"
      BY <3>2 DEF Recorded
    <3>3. CASE k \in got[r] /\ txRows'[i][k] \in {"guess", "tx"}
      <4>1. k <= indexed[i]
        BY <3>1, <3>3 DEF GotIndexed
      <4> QED  BY <1>0, <2>0, <3>3, <4>1
    <3> QED  BY <3>1, <3>2, <3>3
  <2> QED  BY <2>1, <2>2
<1>3. \A k \in {2, 3} : k \in TxTypes
  BY DEF TxTypes
<1> QED  BY <1>1, <1>2, <1>3

\* The invariant for any number of replicas.
LEMMA IndInvStep == IndInv /\ [Next]_vars => IndInv'
  BY TypeStep, LookupShapeStep, GotIndexedStep, PagesBehindChainStep,
     GuessesAfterErrorStep, NothingMissedStep, RecordedIsOnChainStep DEF IndInv

\* It holds throughout.
LEMMA Invariant == Spec => []IndInv
  BY IndInvInit, IndInvStep, PTL DEF Spec

\* Without errors of the other side only a cancelled context fails a call.
LEMMA NoErrorStep ==
  ASSUME MaxErrs = 0, errs = 0, [Next]_vars
  PROVE  errs' = 0
<1>1. ASSUME NEW i \in Ids, ChainTx(i) \/ IndexTx(i)  PROVE errs' = errs
  BY <1>1 DEF ChainTx, IndexTx
<1>2. ASSUME NEW r \in Replicas,
             \/ Start(r) \/ Shutdown(r) \/ Crash(r)
             \/ ActionsTick(r) \/ ActionsReturns(r) \/ BeginPass(r) \/ EnricherReturns(r)
      PROVE  errs' = errs
  BY <1>2 DEF Start, Shutdown, Crash, ActionsTick, ActionsReturns, BeginPass, EnricherReturns
<1>3. ASSUME NEW r \in Replicas, CallSucceeds(r) \/ CallFails(r)  PROVE errs' = errs
  BY <1>3 DEF CallSucceeds, CallFails
<1>4. ASSUME NEW r \in Replicas, ActionsStep(r)  PROVE errs' = errs
  BY <1>3, <1>4 DEF ActionsStep, FetchActions, FetchActionsError, ActionsPageDone, UpsertAction
<1>5. ASSUME NEW r \in Replicas, EnricherStep(r)  PROVE errs' = errs
  BY <1>3, <1>5 DEF EnricherStep, GetUnenrichedActions, GetUnenrichedError, BeginAction,
     GetActionModuleAccount, SearchTxs, StorePlaceholder, StoreTx, BatchDone
<1>6. CASE UNCHANGED vars
  BY <1>6 DEF vars
<1> QED  BY <1>1, <1>2, <1>4, <1>5, <1>6 DEF Next

-----------------------------------------------------------------------------
(* One process on the database.                                            *)

\* What a batch was made of, and what a lookup in progress is about, is still
\* without a register row: nobody else could have written it.
StillUnenriched ==
  \A r \in Replicas :
    /\ \A i \in batch[r] : txRows[i][1] = "none"
    /\ epc[r] \in LookingUp => cur[r] \notin batch[r]
    /\ epc[r] \in {"query", "placeholder"} => txRows[cur[r]][1] = "none"

\* A batch changes when it is fetched, when its next action is taken, and when
\* the process ends.
LEMMA BatchWriters ==
  ASSUME TypeOK, [Next]_vars, NEW r \in Replicas
  PROVE  \/ batch'[r] = batch[r]
         \/ GetUnenrichedActions(r) \/ BeginAction(r) \/ Crash(r)
<1>1. ASSUME NEW i \in Ids, ChainTx(i) \/ IndexTx(i)  PROVE batch' = batch
  BY <1>1 DEF ChainTx, IndexTx, enrichVars
<1>2. ASSUME NEW s \in Replicas,
             \/ Start(s) \/ Shutdown(s) \/ ActionsTick(s) \/ ActionsReturns(s)
             \/ ActionsStep(s)
      PROVE  batch' = batch
  BY <1>2 DEF Start, Shutdown, ActionsTick, ActionsReturns, ActionsStep, FetchActions,
              FetchActionsError, ActionsPageDone, UpsertAction, enrichVars
<1>3. ASSUME NEW s \in Replicas,
             \/ BeginPass(s) \/ EnricherReturns(s) \/ GetUnenrichedError(s)
             \/ SearchTxs(s) \/ StorePlaceholder(s) \/ StoreTx(s) \/ BatchDone(s)
      PROVE  batch' = batch
  BY <1>3 DEF BeginPass, EnricherReturns, GetUnenrichedError, SearchTxs, StorePlaceholder,
              StoreTx, BatchDone
<1>4. ASSUME NEW s \in Replicas, s # r,
             GetUnenrichedActions(s) \/ BeginAction(s) \/ Crash(s)
      PROVE  batch'[r] = batch[r]
  BY <1>4 DEF GetUnenrichedActions, BeginAction, Crash, TypeOK
<1>5. CASE UNCHANGED vars
  BY <1>5 DEF vars
<1> QED  BY <1>1, <1>2, <1>3, <1>4, <1>5 DEF Next, EnricherStep

\* It stays so as long as there is one process.
LEMMA StillUnenrichedStep ==
  ASSUME \A r, s \in Replicas : r = s, IndInv, StillUnenriched, [Next]_vars
  PROVE  StillUnenriched'
<1> SUFFICES ASSUME NEW r \in Replicas
             PROVE  /\ \A i \in batch'[r] : txRows'[i][1] = "none"
                    /\ epc'[r] \in LookingUp => cur'[r] \notin batch'[r]
                    /\ epc'[r] \in {"query", "placeholder"} => txRows'[cur'[r]][1] = "none"
  BY DEF StillUnenriched
<1>0. /\ TypeOK /\ LookupShape /\ 1 \in TxTypes
      /\ \A i \in batch[r] : i \in Ids /\ txRows[i][1] = "none"
      /\ epc[r] \in LookingUp => cur[r] \in Ids /\ cur[r] \notin batch[r]
      /\ epc[r] \in {"query", "placeholder"} => txRows[cur[r]][1] = "none"
  BY DEF IndInv, StillUnenriched, LookupShape, TxTypes, TypeOK
<1>1. \A i \in Ids : txRows'[i][1] = txRows[i][1]
                      \/ (cur[r] = i /\ (StorePlaceholder(r) \/ StoreTx(r)))
  BY <1>0, TxWriters
<1>2. CASE StorePlaceholder(r) \/ StoreTx(r)
  <2>1. batch'[r] = batch[r] /\ epc[r] \in LookingUp
    BY <1>2 DEF StorePlaceholder, StoreTx, LookingUp
  <2>2. epc'[r] \in {"next", "store"}
    BY <1>0, <1>2 DEF StorePlaceholder, StoreTx, TypeOK
  <2>3. epc'[r] = "store" => cur'[r] = cur[r]
    BY <1>0, <1>2 DEF StorePlaceholder, StoreTx, TypeOK
  <2> QED  BY <1>0, <1>1, <2>1, <2>2, <2>3 DEF LookingUp
<1>3. CASE BeginAction(r)
  <2>1. batch[r] # {} /\ batch[r] \in SUBSET Nat /\ batch[r] \subseteq Ids
    BY <1>0, <1>3, ConstantsAssumption DEF BeginAction, TypeOK
  <2>2. SmallestOf(batch[r]) \in batch[r]
    BY <2>1, SmallestIn
  <2>3. /\ cur'[r] = SmallestOf(batch[r]) /\ batch'[r] = batch[r] \ {cur'[r]}
        /\ txRows' = txRows
    BY <1>0, <1>3 DEF BeginAction, TypeOK, table
  <2> QED  BY <1>0, <2>2, <2>3
<1>4. CASE GetUnenrichedActions(r)
  <2>1. /\ batch'[r] = FirstN(Unenriched, minID[r], BatchSize)
        /\ epc'[r] \in {"wait", "next"} /\ txRows' = txRows
    BY <1>0, <1>4 DEF GetUnenrichedActions, TypeOK, table
  <2>2. \A i \in Unenriched : txRows[i][1] = "none"
    BY DEF Unenriched
  <2> QED  BY <2>1, <2>2, FirstNType DEF LookingUp
<1>5. CASE SearchTxs(r)
  <2>1. batch'[r] = batch[r] /\ cur'[r] = cur[r] /\ txRows' = txRows /\ epc[r] = "query"
    BY <1>5 DEF SearchTxs, table
  <2> QED  BY <1>0, <2>1 DEF LookingUp
<1>6. CASE Crash(r)
  <2>1. batch'[r] = {} /\ epc'[r] = "off"
    BY <1>0, <1>6 DEF Crash, TypeOK
  <2> QED  BY <2>1 DEF LookingUp
<1>7. CASE SameLookup(r) \/ NoLookup(r)
  <2>1. CASE batch'[r] = batch[r] /\ ~StorePlaceholder(r) /\ ~StoreTx(r)
    <3>1. \A i \in Ids : txRows'[i][1] = txRows[i][1]
      BY <1>1, <2>1
    <3> QED  BY <1>0, <1>7, <2>1, <3>1 DEF SameLookup, NoLookup, LookingUp
  <2> QED  BY <1>0, <1>2, <1>3, <1>4, <1>6, <2>1, BatchWriters
<1> QED  BY <1>0, <1>2, <1>3, <1>5, <1>6, <1>7, LookupWriters

-----------------------------------------------------------------------------
(* Theorems.                                                               *)

\* Every variable keeps its type, whatever fails and whoever crashes.
THEOREM TypeCorrect == Spec => []TypeOK
<1>1. IndInv => TypeOK
  BY DEF IndInv
<1> QED  BY <1>1, Invariant, PTL

\* However many replicas write, and from pages however old, what is recorded is
\* on the chain.
THEOREM RecordedCorrect == Spec => []RecordedIsOnChain
<1>1. IndInv => RecordedIsOnChain
  BY DEF IndInv
<1> QED  BY <1>1, Invariant, PTL

\* A payment is guessed only after an error, by a process that has not had the
\* address of the module since it started.
THEOREM GuessedCorrect == Spec => GuessedOnlyAfterError
<1> DEFINE A == \A i \in Ids, k \in TxTypes :
                  txRows'[i][k] = "guess" /\ txRows[i][k] # "guess" =>
                    /\ errs > 0
                    /\ \E r \in Replicas : cur[r] = i /\ epc[r] = "store" /\ r \notin cached
<1>1. IndInv /\ [Next]_vars => [A]_vars
  <2> SUFFICES ASSUME IndInv, [Next]_vars, NEW i \in Ids, NEW k \in TxTypes,
                      txRows'[i][k] = "guess", txRows[i][k] # "guess"
               PROVE  /\ errs > 0
                      /\ \E r \in Replicas : cur[r] = i /\ epc[r] = "store" /\ r \notin cached
    OBVIOUS
  <2>1. PICK r \in Replicas : cur[r] = i /\ StoreTx(r) /\ k \in got[r] /\ r \in guessing
    BY TxWriters DEF IndInv
  <2>2. epc[r] = "store"
    BY <2>1 DEF StoreTx
  <2> QED  BY <2>1, <2>2 DEF IndInv, GuessesAfterError
<1> QED  BY <1>1, Invariant, PTL DEF Spec, GuessedOnlyAfterError

\* As long as no call fails but for a cancelled context, a placeholder means
\* what its name says, for any number of replicas. The run enricher_placeholder
\* shows that one error is enough to break this.
THEOREM PlaceholderCorrect ==
  ASSUME MaxErrs = 0
  PROVE  Spec => PlaceholderMeansNone
<1> DEFINE I == IndInv /\ errs = 0
           A == \A i \in Ids :
                  txRows'[i][1] = "placeholder" /\ txRows[i][1] # "placeholder" =>
                    \E r \in Replicas : cur[r] = i /\ epc[r] = "placeholder" /\ had[r] = 0
<1>1. Init => I
  BY IndInvInit DEF Init
<1>2. I /\ [Next]_vars => I'
  BY IndInvStep, NoErrorStep DEF IndInv
<1>3. I /\ [Next]_vars => [A]_vars
  <2> SUFFICES ASSUME IndInv, errs = 0, [Next]_vars, NEW i \in Ids,
                      txRows'[i][1] = "placeholder", txRows[i][1] # "placeholder"
               PROVE  \E r \in Replicas :
                        cur[r] = i /\ epc[r] = "placeholder" /\ had[r] = 0
    OBVIOUS
  <2>0. 1 \in TxTypes
    BY DEF TxTypes
  <2>1. PICK r \in Replicas : cur[r] = i /\ CallSucceeds(r) /\ StorePlaceholder(r)
    BY <2>0, TxWriters DEF IndInv
  <2>2. epc[r] = "placeholder" /\ r \notin cancelled
    BY <2>1 DEF StorePlaceholder, CallSucceeds
  <2>3. got[r] = {}
    BY <2>2 DEF IndInv, LookupShape
  <2>4. ~(had[r] > 0)
    BY <2>2, <2>3 DEF IndInv, NothingMissed
  <2>5. had[r] \in 0..3
    BY DEF IndInv, TypeOK
  <2> QED  BY <2>1, <2>2, <2>4, <2>5
<1> QED  BY <1>1, <1>2, <1>3, PTL DEF Spec, PlaceholderMeansNone

\* With one process on the database a recorded transaction stays. A second one
\* is enough to lose it: it may record the transaction after the first has
\* searched and before that one stores its placeholder.
THEOREM TransactionKept ==
  ASSUME \A r, s \in Replicas : r = s
  PROVE  Spec => TxNeverLost
<1> DEFINE I == IndInv /\ StillUnenriched
           A == \A i \in Ids, k \in TxTypes :
                  txRows[i][k] \in Recorded => txRows'[i][k] \in Recorded
<1>1. Init => I
  BY IndInvInit DEF Init, StillUnenriched, LookingUp
<1>2. I /\ [Next]_vars => I'
  BY IndInvStep, StillUnenrichedStep DEF IndInv
<1>3. I /\ [Next]_vars => [A]_vars
  <2> SUFFICES ASSUME IndInv, StillUnenriched, [Next]_vars, NEW i \in Ids, NEW k \in TxTypes,
                      txRows[i][k] \in Recorded, txRows'[i][k] # txRows[i][k]
               PROVE  txRows'[i][k] \in Recorded
    OBVIOUS
  <2>1. PICK r \in Replicas :
          /\ cur[r] = i
          /\ \/ StorePlaceholder(r) /\ k = 1
             \/ txRows'[i][k] = IF r \in guessing THEN "guess" ELSE "tx"
    BY TxWriters DEF IndInv
  <2>2. ~(StorePlaceholder(r) /\ k = 1)
    BY <2>1 DEF StorePlaceholder, StillUnenriched, Recorded
  <2> QED  BY <2>1, <2>2 DEF Recorded
<1> QED  BY <1>1, <1>2, <1>3, PTL DEF Spec, TxNeverLost
=============================================================================
