------------------------- MODULE SupernodeSyncProofs -------------------------
(***************************************************************************)
(* Theorems about SupernodeSync, for all accounts, addresses, versions,    *)
(* manual runs, page sizes and bounds.                                     *)
(***************************************************************************)
EXTENDS SupernodeSync, PagingProofs

-----------------------------------------------------------------------------
(* Types.                                                                  *)

\* A clock that has ticked is a natural number and is not 0, the value of NULL.
LEMMA Successor == \A n \in Nat : n + 1 \in Nat /\ n + 1 > 0 /\ n + 1 # 0
OBVIOUS

\* A time column is set exactly when it is not 0.
LEMMA Positive == \A n \in Nat : n > 0 <=> n # 0
OBVIOUS

\* What a probe finds is a measurement, under the clock's next time.
LEMMA OutcomeType ==
  TypeOK =>
    \A t \in Threads, a \in Accounts : \A m \in Outcome(t, a) :
      /\ m \in Measurement
      /\ m.now > 0 /\ m.acct = a /\ m.now = clock + 1
      /\ ~m.available => m.version = ""
      /\ m.tainted = (t \in cancelled)
<1> SUFFICES ASSUME TypeOK, NEW t \in Threads, NEW a \in Accounts,
                    NEW m \in Outcome(t, a)
             PROVE  /\ m \in Measurement
                    /\ m.now > 0 /\ m.acct = a /\ m.now = clock + 1
                    /\ ~m.available => m.version = ""
                    /\ m.tainted = (t \in cancelled)
  BY Zenon
<1>1. clock \in Nat
  BY DEF TypeOK
<1>2. /\ m \in [acct : {a}, available : BOOLEAN, version : Versions \cup {""},
                open : BOOLEAN, now : {clock + 1}, tainted : {t \in cancelled}]
      /\ ~m.available => m.version = ""
  BY DEF Outcome
<1>3. m.acct = a /\ m.now = clock + 1 /\ m.tainted = (t \in cancelled)
  BY <1>2
<1>4. m.now > 0 /\ m.now \in Nat
  BY <1>1, <1>3, Successor, Zenon
<1>5. m \in Measurement
  BY <1>1, <1>2, <1>4 DEF Measurement
<1> QED  BY <1>2, <1>3, <1>4, <1>5, Zenon

\* The SQL statements write rows of the table's type.
LEMMA RowTypes ==
  /\ \A old \in ChainCols, sn \in Supernode, mon \in Monikers \cup {""} :
       UpsertSupernode(old, sn, mon) \in ChainCols
  /\ \A old \in ProbeCols, m \in Measurement :
       UpdateSupernodeProbeData(old, m) \in ProbeCols
  /\ \A old \in Report : UpsertReport(old) \in Report
  /\ \A m \in Measurement : ProbeReport(m) \in Report
  /\ NewCols \in ChainCols /\ NewProbe \in ProbeCols /\ ChainReport \in Report
<1> USE ConstantsAssumption
<1>1. \A old \in ChainCols, sn \in Supernode, mon \in Monikers \cup {""} :
        UpsertSupernode(old, sn, mon) \in ChainCols
  BY DEF ChainCols, Supernode, UpsertSupernode, Coalesce
<1>2. ASSUME NEW old \in ProbeCols, NEW m \in Measurement
      PROVE  UpdateSupernodeProbeData(old, m) \in ProbeCols
  <2>1. /\ m.available \in BOOLEAN /\ m.now \in Nat
        /\ m.version \in Versions \cup {""}
    BY DEF Measurement
  <2>2. /\ old.actualVersion \in Versions \cup {""}
        /\ old.lastKnownActualVersion \in Versions \cup {""}
        /\ old.lastSuccessfulProbe \in Nat /\ old.failedProbeCounter \in Nat
    BY DEF ProbeCols
  <2>3. /\ Coalesce(m.version, old.actualVersion) \in Versions \cup {""}
        /\ Coalesce(m.version, old.lastKnownActualVersion) \in Versions \cup {""}
    BY <2>1, <2>2 DEF Coalesce
  <2>4. /\ (IF m.available THEN Coalesce(m.version, old.lastKnownActualVersion)
                           ELSE old.lastKnownActualVersion) \in Versions \cup {""}
        /\ (IF m.available THEN m.now ELSE old.lastSuccessfulProbe) \in Nat
        /\ (IF m.available THEN 0 ELSE old.failedProbeCounter + 1) \in Nat
    <3>1. CASE m.available
      BY <3>1, <2>1, <2>3
    <3>2. CASE ~m.available
      BY <3>2, <2>2, Successor, Zenon
    <3> QED  BY <3>1, <3>2
  <2> QED  BY <2>1, <2>3, <2>4, Zenon DEF ProbeCols, UpdateSupernodeProbeData
<1>3. NewCols \in ChainCols /\ NewProbe \in ProbeCols
  BY DEF NewCols, NewProbe, ChainCols, ProbeCols
<1> QED
  BY <1>1, <1>2, <1>3 DEF Report, UpsertReport, ChainReport, ProbeReport

\* What a goroutine holds, and its fields.
LEMMA Held ==
  ASSUME TypeOK, NEW t \in Threads
  PROVE  /\ \A sn \in page[t] : sn \in Supernode
         /\ \A tg \in targets[t] : tg \in ProbeTarget
         /\ \A m \in meas[t] : m \in Measurement
BY DEF TypeOK

\* The fields of fetched supernodes, targets, measurements and rows have their types.
LEMMA Fields ==
  /\ \A sn \in Supernode :
       sn.acct \in Accounts /\ sn.height \in Nat /\ sn.addr \in Addrs
  /\ \A tg \in ProbeTarget : tg.acct \in Accounts /\ tg.addr \in Addrs
  /\ \A m \in Measurement :
       /\ m.acct \in Accounts /\ m.available \in BOOLEAN /\ m.now \in Nat
       /\ m.version \in Versions \cup {""} /\ m.tainted \in BOOLEAN
BY DEF Supernode, ProbeTarget, Measurement

\* A failed call leaves the count of errors a natural number.
LEMMA CallFailsType ==
  ASSUME TypeOK, NEW t \in Threads, CallFails(t)
  PROVE  errs' \in Nat
<1>1. errs \in Nat
  BY DEF TypeOK
<1> QED  BY <1>1 DEF CallFails

\* A service that was never started has well-typed state.
LEMMA TypeInit == Init => TypeOK
<1> SUFFICES ASSUME Init  PROVE TypeOK
  OBVIOUS
<1>1. "" \in Addrs
  BY ConstantsAssumption
<1>2. chain \in [Accounts -> [height : Nat, addr : Addrs]]
  BY <1>1 DEF Init
<1>3. /\ cols \in [Accounts -> ChainCols] /\ probe \in [Accounts -> ProbeCols]
      /\ report \in [Accounts -> Report]
  BY RowTypes DEF Init
<1> QED
  BY <1>2, <1>3 DEF Init, TypeOK

\* One step preserves the types.
LEMMA TypeStep == TypeOK /\ [Next]_vars => TypeOK'
<1> SUFFICES ASSUME TypeOK, [Next]_vars  PROVE TypeOK'
  OBVIOUS
<1> USE ConstantsAssumption DEF TypeOK, table, threadVars
<1>1. CASE \E a \in Accounts : ChainUpdate(a)
  <2>1. PICK a \in Accounts, addr \in Addrs :
          chain' = [chain EXCEPT ![a] = [height |-> @.height + 1, addr |-> addr]]
    BY <1>1 DEF ChainUpdate
  <2>2. chain[a].height \in Nat
    <3>1. chain[a] \in [height : Nat, addr : Addrs]
      BY Zenon
    <3> QED  BY <3>1, Successor, Zenon
  <2>3. chain' \in [Accounts -> [height : Nat, addr : Addrs]]
    <3>1. chain' = [chain EXCEPT ![a] = [height |-> chain[a].height + 1, addr |-> addr]]
      BY <2>1
    <3>2. [height |-> chain[a].height + 1, addr |-> addr] \in [height : Nat, addr : Addrs]
      BY <2>2, Successor, Zenon
    <3> DEFINE new == [height |-> chain[a].height + 1, addr |-> addr]
               C == [height : Nat, addr : Addrs]
    <3>3. chain \in [Accounts -> C] /\ new \in C /\ chain' = [chain EXCEPT ![a] = new]
      BY <3>1, <3>2, Zenon
    <3> HIDE DEF TypeOK, new, C
    <3>4. chain' \in [Accounts -> C]
      BY <3>3
    <3> QED  BY <3>4 DEF C
  <2> QED  BY <1>1, <2>3 DEF ChainUpdate
<1>2. CASE Start
  <2>1. errs' \in Nat /\ validatorMonikers' \in [Accounts -> Monikers \cup {""}]
    <3>1. errs' = errs \/ errs' = errs + 1
      BY <1>2, Zenon DEF Start
    <3>2. validatorMonikers' \in [Accounts -> Monikers \cup {""}]
      BY <1>2, Zenon DEF Start
    <3>3. errs' \in Nat
      <4>1. errs \in Nat
        BY Zenon
      <4> QED  BY <3>1, <4>1, Successor, Zenon
    <3> QED  BY <3>2, <3>3, Zenon
  <2> QED  BY <1>2, <2>1 DEF Start
<1>3. CASE Crash
  BY <1>3 DEF Crash
<1>4. CASE Shutdown
  BY <1>4 DEF Shutdown, Threads
<1>5. CASE SyncValidators
  BY <1>5 DEF SyncValidators
<1>6. CASE SyncTick
  BY <1>6 DEF SyncTick, Loops, Threads
<1>7. CASE ProbeTick
  BY <1>7 DEF ProbeTick, Loops, Threads
<1>8. CASE \E t \in Loops : LoopReturns(t)
  BY <1>8 DEF LoopReturns, Threads
<1>9. CASE \E g \in Manuals : TriggerSyncAndProbe(g)
  BY <1>9 DEF TriggerSyncAndProbe, Threads
<1>10. CASE \E g \in Manuals : RequestDone(g)
  BY <1>10 DEF RequestDone, Threads
<1>11. CASE \E g \in Manuals : Release(g)
  BY <1>11 DEF Release, Threads
<1>20. ASSUME NEW t \in Threads, Fetch(t)  PROVE TypeOK'
  <2> DEFINE new == {[acct |-> a, height |-> chain[a].height, addr |-> chain[a].addr] :
                        a \in FirstN(Registered, next[t], PageSize)}
  <2>1. Registered \in SUBSET (Nat \ {0}) /\ Registered \subseteq Accounts
    BY DEF Registered
  <2>2. NextKey(Registered, next[t], PageSize) \in Nat
    BY <2>1, NextKeyType
  <2>3. FirstN(Registered, next[t], PageSize) \subseteq Accounts
    BY <2>1, FirstNType
  <2>4. new \in SUBSET Supernode
    <3>1. \A a \in Accounts : chain[a].height \in Nat /\ chain[a].addr \in Addrs
      OBVIOUS
    <3> HIDE DEF TypeOK
    <3>2. ASSUME NEW a \in Accounts
          PROVE  [acct |-> a, height |-> chain[a].height, addr |-> chain[a].addr] \in Supernode
      BY <3>1 DEF Supernode
    <3> QED  BY <2>3, <3>2, Zenon
  <2>5. page' = [page EXCEPT ![t] = new] /\ page' \in [Threads -> SUBSET Supernode]
    BY <1>20, <2>4 DEF Fetch
  <2> QED  BY <1>20, <2>2, <2>5 DEF Fetch, CallSucceeds
<1>21. ASSUME NEW t \in Threads, FetchError(t)  PROVE TypeOK'
  <2>1. errs' \in Nat
    BY <1>21, CallFailsType DEF FetchError
  <2> QED  BY <1>21, <2>1 DEF FetchError, AfterSync
<1>22. ASSUME NEW t \in Threads, NEW sn \in page[t], Upsert(t, sn)  PROVE TypeOK'
  <2>1. sn \in Supernode /\ sn.acct \in Accounts
    BY Held, Fields
  <2>2. UpsertSupernode(cols[sn.acct], sn, validatorMonikers[sn.acct]) \in ChainCols
    BY <2>1, RowTypes
  <2>3. UpsertReport(report[sn.acct]) \in Report
    BY <2>1, RowTypes
  <2> QED  BY <1>22, <2>1, <2>2, <2>3 DEF Upsert, CallSucceeds
<1>23. ASSUME NEW t \in Threads, NEW sn \in page[t], UpsertError(t, sn)  PROVE TypeOK'
  <2>1. errs' \in Nat
    BY <1>23, CallFailsType DEF UpsertError
  <2> QED  BY <1>23, <2>1 DEF UpsertError
<1>24. ASSUME NEW t \in Threads, PageDone(t)  PROVE TypeOK'
  BY <1>24 DEF PageDone, AfterSync
<1>25. ASSUME NEW t \in Threads, ListKnown(t)  PROVE TypeOK'
  <2>1. {[acct |-> a, addr |-> cols[a].addr] : a \in known} \in SUBSET ProbeTarget
    <3>1. \A a \in known : a \in Accounts /\ cols[a].addr \in Addrs
      BY DEF ChainCols
    <3> HIDE DEF TypeOK
    <3>2. ASSUME NEW a \in known
          PROVE  [acct |-> a, addr |-> cols[a].addr] \in ProbeTarget
      BY <3>1 DEF ProbeTarget
    <3> QED  BY <3>2, Zenon
  <2> QED  BY <1>25, <2>1 DEF ListKnown, CallSucceeds
<1>26. ASSUME NEW t \in Threads, ListError(t)  PROVE TypeOK'
  <2>1. errs' \in Nat
    BY <1>26, CallFailsType DEF ListError
  <2> QED  BY <1>26, <2>1 DEF ListError, AfterProbe
<1>27. ASSUME NEW t \in Threads, NEW tg \in targets[t], SkipTarget(t, tg)  PROVE TypeOK'
  BY <1>27 DEF SkipTarget
<1>28. ASSUME NEW t \in Threads, NEW tg \in targets[t], Measure(t, tg)  PROVE TypeOK'
  <2>1. tg.acct \in Accounts
    BY Held, Fields
  <2>2. PICK m \in Outcome(t, tg.acct) : meas' = [meas EXCEPT ![t] = {m}]
    BY <1>28 DEF Measure
  <2>3. m \in Measurement
    BY <2>1, OutcomeType, Zenon
  <2>4. meas' \in [Threads -> SUBSET Measurement]
    BY <2>2, <2>3
  <2>5. pc' \in [Threads -> {"off", "wait", "fetch", "upsert", "list", "measure",
                              "write", "release"}]
    BY <1>28 DEF Measure
  <2>6. targets' \in [Threads -> SUBSET ProbeTarget]
    BY <1>28 DEF Measure
  <2>7. clock' \in Nat
    <3>1. clock \in Nat /\ clock' = clock + 1
      BY <1>28, Zenon DEF Measure
    <3> QED  BY <3>1, Successor, Zenon
  <2> QED  BY <1>28, <2>4, <2>5, <2>6, <2>7, Zenon DEF Measure
<1>29. ASSUME NEW t \in Threads, NEW m \in meas[t], StoreProbe(t, m)  PROVE TypeOK'
  <2>1. m \in Measurement /\ m.acct \in Accounts
    BY Held, Fields
  <2>2. UpdateSupernodeProbeData(probe[m.acct], m) \in ProbeCols /\ ProbeReport(m) \in Report
    BY <2>1, RowTypes
  <2>3. probe' \in [Accounts -> ProbeCols] /\ report' \in [Accounts -> Report]
    <3>1. CASE m.acct \in known
      <4>1. /\ probe' = [probe EXCEPT ![m.acct] = UpdateSupernodeProbeData(@, m)]
            /\ report' = [report EXCEPT ![m.acct] = ProbeReport(m)]
        BY <1>29, <3>1, Zenon DEF StoreProbe
      <4> QED  BY <4>1, <2>1, <2>2
    <3>2. CASE m.acct \notin known
      BY <1>29, <3>2, Zenon DEF StoreProbe
    <3> QED  BY <3>1, <3>2
  <2> QED  BY <1>29, <2>3 DEF StoreProbe, CallSucceeds
<1>30. ASSUME NEW t \in Threads, StoreError(t)  PROVE TypeOK'
  <2>1. errs' \in Nat
    BY <1>30, CallFailsType DEF StoreError
  <2> QED  BY <1>30, <2>1 DEF StoreError
<1>31. ASSUME NEW t \in Threads, ProbeDone(t)  PROVE TypeOK'
  BY <1>31 DEF ProbeDone, AfterProbe
<1>32. CASE UNCHANGED vars
  BY <1>32 DEF vars
<1> QED
  BY <1>1, <1>2, <1>3, <1>4, <1>5, <1>6, <1>7, <1>8, <1>9, <1>10, <1>11, <1>20, <1>21, <1>22, <1>23, <1>24, <1>25, <1>26, <1>27, <1>28, <1>29, <1>30, <1>31, <1>32
  DEF Next, SyncStep, ProbeStep

\* Every variable of the sync and probe machine keeps its type.
THEOREM TypeCorrect == Spec => []TypeOK
  BY TypeInit, TypeStep, PTL DEF Spec

-----------------------------------------------------------------------------
(* Which step changes what.                                                *)

\* Only UpdateSupernodeProbeData writes the probe columns.
LEMMA ProbeWriters ==
  [Next]_vars =>
    \/ UNCHANGED probe
    \/ \E t \in Threads : \E m \in meas[t] : StoreProbe(t, m)
BY Zenon
DEF Next, SyncStep, ProbeStep, ChainUpdate, Start, Crash, Shutdown, SyncValidators,
    SyncTick, ProbeTick, LoopReturns, TriggerSyncAndProbe, RequestDone, Release,
    Fetch, FetchError, Upsert, UpsertError, PageDone, ListKnown, ListError,
    SkipTarget, Measure, StoreError, ProbeDone, vars, table

\* Only UpsertSupernode writes the chain's columns.
LEMMA ColsWriters ==
  [Next]_vars =>
    \/ UNCHANGED cols
    \/ \E t \in Threads : \E sn \in page[t] : Upsert(t, sn)
BY Zenon
DEF Next, SyncStep, ProbeStep, ChainUpdate, Start, Crash, Shutdown, SyncValidators,
    SyncTick, ProbeTick, LoopReturns, TriggerSyncAndProbe, RequestDone, Release,
    Fetch, FetchError, UpsertError, PageDone, ListKnown, ListError, SkipTarget,
    Measure, StoreProbe, StoreError, ProbeDone, vars, table

\* Heights on the chain only grow.
LEMMA ChainWriters ==
  [Next]_vars => UNCHANGED chain \/ \E a \in Accounts : ChainUpdate(a)
BY Zenon
DEF Next, SyncStep, ProbeStep, Start, Crash, Shutdown, SyncValidators, SyncTick,
    ProbeTick, LoopReturns, TriggerSyncAndProbe, RequestDone, Release, Fetch,
    FetchError, Upsert, UpsertError, PageDone, ListKnown, ListError, SkipTarget,
    Measure, StoreProbe, StoreError, ProbeDone, vars

\* The form of most steps, as far as measurements go: they stay, and so do the
\* goroutines about to store one and the cancelled contexts.
MeasurementsLeft ==
  /\ meas' = meas
  /\ cancelled \subseteq cancelled'
  /\ \A t \in Threads : pc[t] = "write" => pc'[t] = "write"

\* Goroutines that touch no measurement keep the invariant on measurements.
LEMMA MeasurementsLeftStep ==
  MeasurementsHeld /\ MeasurementsLeft => MeasurementsHeld'
BY DEF MeasurementsHeld, MeasurementsLeft

\* No step but Start brings a goroutine into a process that is not running.
LEMMA DownIsIdleStep == TypeOK /\ DownIsIdle /\ [Next]_vars => DownIsIdle'
<1> SUFFICES ASSUME TypeOK, DownIsIdle, [Next]_vars, ~up'
             PROVE  \A t \in Threads : pc'[t] = "off"
  BY DEF DownIsIdle
<1>1. CASE Crash
  BY <1>1 DEF Crash
<1>2. CASE UNCHANGED <<up, pc>>
  BY <1>2 DEF DownIsIdle
<1>3. CASE up /\ up' = up
  BY <1>3
<1>4. CASE ~up /\ \E t \in Threads : pc[t] # "off"
  BY <1>4 DEF DownIsIdle
<1>5. \/ Crash
      \/ UNCHANGED <<up, pc>>
      \/ up'
      \/ up /\ up' = up
      \/ ~up /\ \E t \in Threads : pc[t] # "off"
  <2>1. "syncLoop" \in Threads /\ "probeLoop" \in Threads /\ Manuals \subseteq Threads
        /\ Loops \subseteq Threads
    BY DEF Threads, Loops
  <2>2. up \in BOOLEAN
    BY DEF TypeOK
  <2>3. CASE \/ \E a \in Accounts : ChainUpdate(a)
             \/ Shutdown \/ SyncValidators
             \/ \E g \in Manuals : RequestDone(g)
             \/ UNCHANGED vars
    BY <2>3 DEF ChainUpdate, Shutdown, SyncValidators, RequestDone, threadVars, vars
  <2>4. CASE Start
    <3>1. up' = TRUE
      BY <2>4 DEF Start
    <3> QED  BY <3>1, Zenon
  <2>5. CASE \/ SyncTick \/ ProbeTick
             \/ \E t \in Loops : LoopReturns(t)
             \/ \E g \in Manuals : TriggerSyncAndProbe(g) \/ Release(g)
    BY <2>1, <2>2, <2>5 DEF SyncTick, ProbeTick, LoopReturns, TriggerSyncAndProbe, Release
  <2>6. CASE \E t \in Threads : SyncStep(t)
    BY <2>2, <2>6 DEF SyncStep, Fetch, FetchError, PageDone, Upsert, UpsertError
  <2>7. CASE \E t \in Threads : ProbeStep(t)
    BY <2>2, <2>7 DEF ProbeStep, ListKnown, ListError, StoreError, ProbeDone,
       SkipTarget, Measure, StoreProbe
  <2>8. CASE Crash
    BY <2>8, Zenon
  <2> QED  BY <2>3, <2>4, <2>5, <2>6, <2>7, <2>8, Zenon DEF Next
<1> QED  BY <1>1, <1>2, <1>3, <1>4, <1>5

\* Every step keeps measurements bound to the storing goroutine, with a version
\* only after an answer, and tainted only under a context still cancelled.
LEMMA MeasurementsStep ==
  TypeOK /\ DownIsIdle /\ MeasurementsHeld /\ [Next]_vars => MeasurementsHeld'
<1> SUFFICES ASSUME TypeOK, DownIsIdle, MeasurementsHeld, [Next]_vars
             PROVE  MeasurementsHeld'
  OBVIOUS
<1>0. /\ pc \in [Threads -> {"off", "wait", "fetch", "upsert", "list", "measure",
                             "write", "release"}]
      /\ meas \in [Threads -> SUBSET Measurement]
  BY DEF TypeOK
<1>1. CASE \/ \E a \in Accounts : ChainUpdate(a)
           \/ Shutdown \/ SyncValidators
           \/ \E g \in Manuals : RequestDone(g)
           \/ UNCHANGED vars
  <2>1. MeasurementsLeft
    BY <1>1 DEF MeasurementsLeft, ChainUpdate, Shutdown, SyncValidators,
       RequestDone, threadVars, vars
  <2> QED  BY <2>1, MeasurementsLeftStep
<1>2. CASE Start
  <2>1. MeasurementsLeft
    BY <1>0, <1>2 DEF MeasurementsLeft, Start, DownIsIdle
  <2> QED  BY <2>1, MeasurementsLeftStep
<1>3. CASE \/ SyncTick \/ ProbeTick
           \/ \E t \in Loops : LoopReturns(t)
           \/ \E g \in Manuals : TriggerSyncAndProbe(g)
  <2>1. MeasurementsLeft
    BY <1>0, <1>3 DEF MeasurementsLeft, SyncTick, ProbeTick, LoopReturns,
       TriggerSyncAndProbe
  <2> QED  BY <2>1, MeasurementsLeftStep
<1>4. CASE \E t \in Threads : SyncStep(t)
  <2>1. MeasurementsLeft
    BY <1>0, <1>4 DEF MeasurementsLeft, SyncStep, Fetch, FetchError, PageDone,
       Upsert, UpsertError
  <2> QED  BY <2>1, MeasurementsLeftStep
<1>5. CASE \E t \in Threads :
             \/ ListKnown(t) \/ ListError(t) \/ ProbeDone(t)
             \/ \E tg \in targets[t] : SkipTarget(t, tg)
  <2>1. MeasurementsLeft
    BY <1>0, <1>5 DEF MeasurementsLeft, ListKnown, ListError, ProbeDone, SkipTarget
  <2> QED  BY <2>1, MeasurementsLeftStep
<1>6. CASE Crash
  BY <1>6 DEF Crash, MeasurementsHeld
<1>7. ASSUME NEW g \in Manuals, Release(g)  PROVE MeasurementsHeld'
  <2>1. g \in Threads /\ meas[g] = {}
    BY <1>7 DEF Release, MeasurementsHeld, Threads
  <2> QED  BY <1>0, <1>7, <2>1 DEF Release, MeasurementsHeld
<1>8. ASSUME NEW t \in Threads, NEW tg \in targets[t], Measure(t, tg)
      PROVE  MeasurementsHeld'
  <2>1. tg.acct \in Accounts
    BY Held, Fields
  <2>2. PICK m \in Outcome(t, tg.acct) : meas' = [meas EXCEPT ![t] = {m}]
    BY <1>8 DEF Measure
  <2>3. (~m.available => m.version = "") /\ m.now > 0 /\ (m.tainted => t \in cancelled)
    <3>1. /\ m \in Measurement
          /\ m.now > 0 /\ m.acct = tg.acct /\ m.now = clock + 1
          /\ ~m.available => m.version = ""
          /\ m.tainted = (t \in cancelled)
      BY <2>1, OutcomeType
    <3> QED  BY <3>1
  <2>4. pc' = [pc EXCEPT ![t] = "write"] /\ cancelled' = cancelled
    BY <1>8 DEF Measure
  <2> QED  BY <1>0, <2>2, <2>3, <2>4 DEF MeasurementsHeld
<1>9. CASE \E t \in Threads : StoreError(t) \/ \E m \in meas[t] : StoreProbe(t, m)
  <2>1. PICK t \in Threads : /\ meas' = [meas EXCEPT ![t] = {}]
                             /\ pc' = [pc EXCEPT ![t] = "measure"]
                             /\ cancelled' = cancelled
    BY <1>9 DEF StoreError, StoreProbe
  <2> QED  BY <1>0, <2>1 DEF MeasurementsHeld
<1> QED
  BY <1>1, <1>2, <1>3, <1>4, <1>5, <1>6, <1>7, <1>8, <1>9 DEF Next, ProbeStep

-----------------------------------------------------------------------------
(* The probe columns.                                                      *)

\* One stored measurement keeps the columns of its row in agreement.
LEMMA StoredColumnsAgree ==
  ASSUME NEW p \in ProbeCols, NEW m \in Measurement, m.now > 0,
         ~m.available => m.version = "",
         p.lastKnownActualVersion = p.actualVersion,
         p.lastStatusCheck = 0 => p.lastSuccessfulProbe = 0,
         NEW q, q = UpdateSupernodeProbeData(p, m)
  PROVE  /\ q.isStatusApiAvailable <=>
              (q.lastStatusCheck > 0 /\ q.failedProbeCounter = 0)
         /\ q.isStatusApiAvailable => q.lastSuccessfulProbe = q.lastStatusCheck
         /\ q.lastStatusCheck = 0 => q.lastSuccessfulProbe = 0
         /\ q.lastKnownActualVersion = q.actualVersion
<1>1. /\ m.available \in BOOLEAN /\ m.now \in Nat
      /\ p.failedProbeCounter \in Nat
  BY Fields DEF ProbeCols
<1>2. CASE m.available
  BY <1>1, <1>2 DEF UpdateSupernodeProbeData
<1>3. CASE ~m.available
  <2>1. Coalesce(m.version, p.actualVersion) = p.actualVersion
    BY <1>3 DEF Coalesce
  <2>2. /\ q.isStatusApiAvailable = FALSE /\ q.lastStatusCheck = m.now
        /\ q.failedProbeCounter = p.failedProbeCounter + 1
        /\ q.actualVersion = p.actualVersion
        /\ q.lastKnownActualVersion = p.lastKnownActualVersion
    BY <1>1, <1>3, <2>1 DEF UpdateSupernodeProbeData
  <2>3. q.failedProbeCounter # 0
    BY <1>1, <2>2, Successor, Zenon
  <2>4. q.lastStatusCheck # 0
    BY <1>1, <2>2, Positive, Zenon
  <2> QED  BY <2>2, <2>3, <2>4, Zenon
<1> QED  BY <1>2, <1>3

\* Every step keeps the probe columns of each row, and its two versions, in
\* agreement.
LEMMA ProbeColumnsStep ==
  TypeOK /\ MeasurementsHeld /\ ProbeColumnsAgree /\ VersionsAgree /\ [Next]_vars
    => ProbeColumnsAgree' /\ VersionsAgree'
<1> SUFFICES ASSUME TypeOK, MeasurementsHeld, ProbeColumnsAgree, VersionsAgree,
                    [Next]_vars
             PROVE  ProbeColumnsAgree' /\ VersionsAgree'
  OBVIOUS
<1>1. CASE UNCHANGED probe
  BY <1>1 DEF ProbeColumnsAgree, VersionsAgree
<1>2. ASSUME NEW t \in Threads, NEW m \in meas[t], StoreProbe(t, m), probe' # probe
      PROVE  ProbeColumnsAgree' /\ VersionsAgree'
  <2>1. m \in Measurement /\ m.acct \in Accounts
    BY Held, Fields
  <2>2. m.now > 0 /\ (~m.available => m.version = "")
    BY DEF MeasurementsHeld
  <2>3. probe' = [probe EXCEPT ![m.acct] = UpdateSupernodeProbeData(@, m)]
    BY <1>2, Zenon DEF StoreProbe
  <2>4. probe \in [Accounts -> ProbeCols]
    BY DEF TypeOK
  <2>5. ASSUME NEW a \in Accounts
        PROVE  /\ probe'[a].isStatusApiAvailable <=>
                    (probe'[a].lastStatusCheck > 0 /\ probe'[a].failedProbeCounter = 0)
               /\ probe'[a].isStatusApiAvailable =>
                    probe'[a].lastSuccessfulProbe = probe'[a].lastStatusCheck
               /\ probe'[a].lastStatusCheck = 0 => probe'[a].lastSuccessfulProbe = 0
               /\ probe'[a].lastKnownActualVersion = probe'[a].actualVersion
    <3>1. CASE a = m.acct
      <4>1. probe'[a] = UpdateSupernodeProbeData(probe[a], m) /\ probe[a] \in ProbeCols
        BY <2>3, <2>4, <3>1
      <4>2. /\ probe[a].lastKnownActualVersion = probe[a].actualVersion
            /\ probe[a].lastStatusCheck = 0 => probe[a].lastSuccessfulProbe = 0
        BY DEF ProbeColumnsAgree, VersionsAgree
      <4> QED  BY <2>1, <2>2, <4>1, <4>2, StoredColumnsAgree
    <3>2. CASE a # m.acct
      <4>1. probe'[a] = probe[a]
        BY <2>3, <2>4, <3>2
      <4> QED  BY <4>1 DEF ProbeColumnsAgree, VersionsAgree
    <3> QED  BY <3>1, <3>2
  <2> QED  BY <2>5 DEF ProbeColumnsAgree, VersionsAgree
<1> QED
  BY <1>1, <1>2, ProbeWriters

-----------------------------------------------------------------------------
(* The chain's columns.                                                    *)

\* Heights on the chain only grow.
LEMMA ChainGrows ==
  TypeOK /\ [Next]_vars =>
    \A a \in Accounts : chain[a].height <= chain'[a].height
<1> SUFFICES ASSUME TypeOK, [Next]_vars, NEW a \in Accounts
             PROVE  chain[a].height <= chain'[a].height
  OBVIOUS
<1>1. chain[a].height \in Nat
  <2>1. chain[a] \in [height : Nat, addr : Addrs]
    BY Zenon DEF TypeOK
  <2> QED  BY <2>1
<1>2. CASE UNCHANGED chain
  BY <1>1, <1>2
<1>3. CASE \E b \in Accounts : ChainUpdate(b)
  <2>1. PICK b \in Accounts, addr \in Addrs :
          chain' = [chain EXCEPT ![b] = [height |-> @.height + 1, addr |-> addr]]
    BY <1>3 DEF ChainUpdate
  <2>2. chain'[a].height = chain[a].height \/ chain'[a].height = chain[a].height + 1
    BY <2>1 DEF TypeOK
  <2> QED  BY <1>1, <2>2
<1> QED  BY <1>2, <1>3, ChainWriters

\* A page is filled from the chain and otherwise only shrinks.
LEMMA PageWriters ==
  TypeOK /\ [Next]_vars =>
    \/ \E t \in Threads : Fetch(t)
    \/ \A t \in Threads : page'[t] \subseteq page[t]
<1> SUFFICES ASSUME TypeOK, [Next]_vars, ~ \E t \in Threads : Fetch(t)
             PROVE  \A t \in Threads : page'[t] \subseteq page[t]
  BY Zenon
<1>0. page \in [Threads -> SUBSET Supernode]
  BY DEF TypeOK
<1>1. CASE \E t \in Threads : \E sn \in page[t] : Upsert(t, sn) \/ UpsertError(t, sn)
  <2>1. PICK t \in Threads, sn \in Supernode : page' = [page EXCEPT ![t] = @ \ {sn}]
    BY <1>0, <1>1 DEF Upsert, UpsertError
  <2> QED  BY <1>0, <2>1
<1>2. CASE Crash
  BY <1>2 DEF Crash
<1>3. CASE UNCHANGED page
  BY <1>3
<1>4. \/ UNCHANGED page
      \/ Crash
      \/ \E t \in Threads : \E sn \in page[t] : Upsert(t, sn) \/ UpsertError(t, sn)
  BY Zenon
  DEF Next, SyncStep, ProbeStep, ChainUpdate, Start, Shutdown, SyncValidators,
      SyncTick, ProbeTick, LoopReturns, TriggerSyncAndProbe, RequestDone, Release,
      FetchError, PageDone, ListKnown, ListError, SkipTarget, Measure, StoreProbe,
      StoreError, ProbeDone, vars, threadVars
<1> QED  BY <1>1, <1>2, <1>3, <1>4

\* The page of a fetch holds the chain as it is.
LEMMA FetchedPage ==
  ASSUME TypeOK, NEW t \in Threads, Fetch(t)
  PROVE  /\ \A u \in Threads \ {t} : page'[u] = page[u]
         /\ \A sn \in page'[t] : /\ sn.acct \in Accounts
                                /\ sn.height = chain[sn.acct].height
                                /\ sn = [acct |-> sn.acct,
                                         height |-> chain[sn.acct].height,
                                         addr |-> chain[sn.acct].addr]
         /\ chain' = chain
<1> DEFINE S == FirstN(Registered, next[t], PageSize)
           item(a) == [acct |-> a, height |-> chain[a].height, addr |-> chain[a].addr]
<1>1. S \subseteq Accounts
  BY FirstNType DEF Registered
<1>2. page' = [page EXCEPT ![t] = {item(a) : a \in S}] /\ chain' = chain
  BY DEF Fetch
<1>3. page \in [Threads -> SUBSET Supernode]
  BY DEF TypeOK
<1>4. page'[t] = {item(a) : a \in S} /\ \A u \in Threads \ {t} : page'[u] = page[u]
  BY <1>2, <1>3
<1>5. ASSUME NEW sn \in page'[t]
      PROVE  /\ sn.acct \in Accounts
             /\ sn.height = chain[sn.acct].height
             /\ sn = item(sn.acct)
  <2>1. PICK a \in S : sn = item(a)
    BY <1>4
  <2>2. sn.acct = a
    BY <2>1
  <2> QED  BY <1>1, <2>1, <2>2
<1> QED  BY <1>2, <1>4, <1>5

\* A page held in memory stays behind the chain it was fetched from.
LEMMA PagesBehindChainStep ==
  TypeOK /\ PagesBehindChain /\ [Next]_vars => PagesBehindChain'
<1> SUFFICES ASSUME TypeOK, PagesBehindChain, [Next]_vars,
                    NEW t \in Threads, NEW sn \in page'[t]
             PROVE  sn.height <= chain'[sn.acct].height
  BY DEF PagesBehindChain
<1>1. TypeOK'
  BY TypeStep
<1>2. sn \in Supernode /\ sn.acct \in Accounts /\ sn.height \in Nat
  <2>1. page' \in [Threads -> SUBSET Supernode]
    BY <1>1 DEF TypeOK
  <2> QED  BY <2>1, Fields
<1>3. chain[sn.acct].height \in Nat /\ chain'[sn.acct].height \in Nat
  <2>1. /\ chain[sn.acct] \in [height : Nat, addr : Addrs]
        /\ chain'[sn.acct] \in [height : Nat, addr : Addrs]
    BY <1>1, <1>2, Zenon DEF TypeOK
  <2> QED  BY <2>1
<1>4. chain[sn.acct].height <= chain'[sn.acct].height
  BY <1>2, ChainGrows
<1>5. sn.height <= chain[sn.acct].height
  <2>1. CASE sn \in page[t]
    BY <2>1 DEF PagesBehindChain
  <2>2. ASSUME NEW u \in Threads, Fetch(u)  PROVE sn \in page[t] \/ sn.height = chain[sn.acct].height
    BY <2>2, FetchedPage
  <2>3. sn \in page[t] \/ sn.height = chain[sn.acct].height
    BY <2>2, PageWriters
  <2> QED  BY <1>2, <1>3, <2>1, <2>3
<1> QED  BY <1>2, <1>3, <1>4, <1>5

\* A row stays behind the chain, since it is written from a page that is.
LEMMA RowsBehindChainStep ==
  TypeOK /\ PagesBehindChain /\ RowsBehindChain /\ [Next]_vars => RowsBehindChain'
<1> SUFFICES ASSUME TypeOK, PagesBehindChain, RowsBehindChain, [Next]_vars,
                    NEW a \in Accounts
             PROVE  cols'[a].height <= chain'[a].height
  BY DEF RowsBehindChain
<1>1. chain[a].height <= chain'[a].height
  BY ChainGrows
<1>2. /\ chain[a].height \in Nat /\ chain'[a].height \in Nat
      /\ cols[a].height \in Nat /\ cols'[a].height \in Nat
  <2>1. TypeOK'
    BY TypeStep
  <2>2. /\ chain[a] \in [height : Nat, addr : Addrs]
        /\ chain'[a] \in [height : Nat, addr : Addrs]
        /\ cols[a] \in ChainCols /\ cols'[a] \in ChainCols
    BY <2>1, Zenon DEF TypeOK
  <2> QED  BY <2>2 DEF ChainCols
<1>3. cols'[a].height <= chain[a].height
  <2>1. CASE UNCHANGED cols
    BY <2>1 DEF RowsBehindChain
  <2>2. ASSUME NEW t \in Threads, NEW sn \in page[t], Upsert(t, sn)
        PROVE  cols'[a].height <= chain[a].height
    <3>1. cols' = [cols EXCEPT ![sn.acct] =
                     UpsertSupernode(@, sn, validatorMonikers[sn.acct])]
      BY <2>2 DEF Upsert
    <3>2. cols \in [Accounts -> ChainCols]
      BY DEF TypeOK
    <3>3. CASE a = sn.acct
      <4>1. cols'[a].height = sn.height
        BY <3>1, <3>2, <3>3 DEF UpsertSupernode
      <4> QED  BY <3>3, <4>1 DEF PagesBehindChain
    <3>4. CASE a # sn.acct
      <4>1. cols'[a] = cols[a]
        BY <3>1, <3>2, <3>4
      <4> QED  BY <4>1 DEF RowsBehindChain
    <3> QED  BY <3>3, <3>4
  <2> QED  BY <2>1, <2>2, ColsWriters
<1> QED  BY <1>1, <1>2, <1>3

-----------------------------------------------------------------------------
(* The manual run.                                                         *)

\* A step that brings no manual goroutine to life or to its end.
LEMMA ManualExclusiveStep ==
  TypeOK /\ ManualExclusive /\ [Next]_vars => ManualExclusive'
<1> SUFFICES ASSUME TypeOK, ManualExclusive, [Next]_vars  PROVE ManualExclusive'
  OBVIOUS
<1> DEFINE Same == /\ syncRunning' = syncRunning
                   /\ \A g \in Manuals : pc'[g] # "off" <=> pc[g] # "off"
<1>0. /\ pc \in [Threads -> {"off", "wait", "fetch", "upsert", "list", "measure",
                             "write", "release"}]
      /\ Manuals \subseteq Threads
      /\ \A g \in Manuals : g # "syncLoop" /\ g # "probeLoop" /\ g \notin Loops
  BY ConstantsAssumption DEF TypeOK, Threads, Loops
<1>1. CASE Same
  BY <1>1 DEF ManualExclusive
<1>2. CASE \/ \E a \in Accounts : ChainUpdate(a)
           \/ Shutdown \/ SyncValidators
           \/ \E g \in Manuals : RequestDone(g)
           \/ UNCHANGED vars
  <2>1. Same
    BY <1>2 DEF ChainUpdate, Shutdown, SyncValidators, RequestDone, threadVars, vars
  <2> QED  BY <1>1, <2>1
<1>3. CASE Start \/ SyncTick \/ ProbeTick \/ \E t \in Loops : LoopReturns(t)
  <2>1. Same
    BY <1>0, <1>3 DEF Start, SyncTick, ProbeTick, LoopReturns
  <2> QED  BY <1>1, <2>1
<1>4. CASE \E t \in Threads : SyncStep(t)
  <2>1. Same
    BY <1>0, <1>4 DEF SyncStep, Fetch, FetchError, PageDone, Upsert, UpsertError,
       AfterSync
  <2> QED  BY <1>1, <2>1
<1>5. CASE \E t \in Threads : ProbeStep(t)
  <2>1. Same
    BY <1>0, <1>5 DEF ProbeStep, ListKnown, ListError, StoreError, ProbeDone,
       SkipTarget, Measure, StoreProbe, AfterProbe
  <2> QED  BY <1>1, <2>1
<1>6. CASE Crash
  BY <1>0, <1>6 DEF Crash, ManualExclusive
<1>7. ASSUME NEW g \in Manuals, TriggerSyncAndProbe(g)  PROVE ManualExclusive'
  <2>1. \A h \in Manuals : pc[h] = "off"
    BY <1>7 DEF TriggerSyncAndProbe, ManualExclusive
  <2>2. syncRunning' = TRUE /\ pc' = [pc EXCEPT ![g] = "fetch"]
    BY <1>7 DEF TriggerSyncAndProbe
  <2> QED  BY <1>0, <2>1, <2>2 DEF ManualExclusive
<1>8. ASSUME NEW g \in Manuals, Release(g)  PROVE ManualExclusive'
  <2>1. \A h \in Manuals : pc[h] # "off" => h = g
    BY <1>8 DEF Release, ManualExclusive
  <2>2. syncRunning' = FALSE /\ pc' = [pc EXCEPT ![g] = "off"]
    BY <1>8 DEF Release
  <2> QED  BY <1>0, <2>1, <2>2 DEF ManualExclusive
<1> QED
  BY <1>2, <1>3, <1>4, <1>5, <1>6, <1>7, <1>8 DEF Next

-----------------------------------------------------------------------------
(* The invariant and what follows from it.                                 *)

\* The rows of an empty table.
LEMMA InitialRows ==
  ASSUME Init, NEW a \in Accounts
  PROVE  /\ chain[a].height = 0 /\ cols[a].height = 0 /\ 0 <= 0 /\ ~(0 > 0)
         /\ probe[a].isStatusApiAvailable = FALSE
         /\ probe[a].lastStatusCheck = 0 /\ probe[a].lastSuccessfulProbe = 0
         /\ probe[a].actualVersion = "" /\ probe[a].lastKnownActualVersion = ""
<1>1. cols[a] = NewCols /\ probe[a] = NewProbe
  BY DEF Init
<1>2. chain[a].height = 0
  BY DEF Init
<1>3. /\ NewCols.height = 0 /\ NewProbe.isStatusApiAvailable = FALSE
      /\ NewProbe.lastStatusCheck = 0 /\ NewProbe.lastSuccessfulProbe = 0
      /\ NewProbe.actualVersion = "" /\ NewProbe.lastKnownActualVersion = ""
  BY DEF NewCols, NewProbe
<1>4. 0 <= 0 /\ ~(0 > 0)
  OBVIOUS
<1> QED  BY <1>1, <1>2, <1>3, <1>4, Zenon

\* The inductive invariant holds before the service is first started.
LEMMA IndInvInit == Init => IndInv
<1> SUFFICES ASSUME Init  PROVE IndInv
  OBVIOUS
<1>1. TypeOK
  BY TypeInit
<1>2. DownIsIdle /\ MeasurementsHeld /\ PagesBehindChain
  BY DEF Init, DownIsIdle, MeasurementsHeld, PagesBehindChain
<1>3. ProbeColumnsAgree /\ VersionsAgree
  BY InitialRows DEF ProbeColumnsAgree, VersionsAgree
<1>4. RowsBehindChain
  BY InitialRows DEF RowsBehindChain
<1>5. ManualExclusive
  BY DEF Init, ManualExclusive, Threads
<1> QED  BY <1>1, <1>2, <1>3, <1>4, <1>5 DEF IndInv

\* Every step of every goroutine keeps the inductive invariant.
LEMMA IndInvStep == IndInv /\ [Next]_vars => IndInv'
BY TypeStep, DownIsIdleStep, MeasurementsStep, PagesBehindChainStep,
   ProbeColumnsStep, RowsBehindChainStep, ManualExclusiveStep, Zenon DEF IndInv

\* The inductive invariant holds for any number of accounts and manual runs.
THEOREM Invariant == Spec => []IndInv
BY IndInvInit, IndInvStep, PTL DEF Spec

\* The probe columns agree with one another, whichever of the goroutines wrote
\* a row last and whatever failed or was cancelled in between.
THEOREM ProbeColumnsCorrect == Spec => []ProbeColumnsAgree
<1>1. IndInv => ProbeColumnsAgree
  BY DEF IndInv
<1> QED  BY <1>1, Invariant, PTL

\* The version of the last successful probe is the version shown.
THEOREM VersionsCorrect == Spec => []VersionsAgree
<1>1. IndInv => VersionsAgree
  BY DEF IndInv
<1> QED  BY <1>1, Invariant, PTL

\* No row is ever ahead of the chain.
THEOREM RowsCorrect == Spec => []RowsBehindChain
<1>1. IndInv => RowsBehindChain
  BY DEF IndInv
<1> QED  BY <1>1, Invariant, PTL

\* At most one manual run, and syncRunning says whether there is one.
THEOREM ManualCorrect == Spec => []ManualExclusive
<1>1. IndInv => ManualExclusive
  BY DEF IndInv
<1> QED  BY <1>1, Invariant, PTL

\* An upsert fills a moniker in and never takes one away, whatever the map of
\* monikers says when the row is written.
THEOREM MonikersCorrect == Spec => MonikerKept
<1>1. TypeOK /\ [Next]_vars =>
        [\A a \in Accounts : cols[a].moniker # "" => cols'[a].moniker # ""]_vars
  <2> SUFFICES ASSUME TypeOK, [Next]_vars, NEW a \in Accounts, cols[a].moniker # ""
               PROVE  cols'[a].moniker # ""
    OBVIOUS
  <2>1. CASE UNCHANGED cols
    BY <2>1
  <2>2. ASSUME NEW t \in Threads, NEW sn \in page[t], Upsert(t, sn)
        PROVE  cols'[a].moniker # ""
    <3>1. /\ cols' = [cols EXCEPT ![sn.acct] =
                        UpsertSupernode(@, sn, validatorMonikers[sn.acct])]
          /\ cols \in [Accounts -> ChainCols]
      BY <2>2 DEF Upsert, TypeOK
    <3>2. CASE a = sn.acct
      BY <3>1, <3>2 DEF UpsertSupernode, Coalesce
    <3>3. CASE a # sn.acct
      BY <3>1, <3>3
    <3> QED  BY <3>2, <3>3
  <2> QED  BY <2>1, <2>2, ColsWriters
<1> QED  BY <1>1, TypeCorrect, PTL DEF Spec, MonikerKept

\* What a cancelled context made of a probe never reaches the table.
THEOREM CutShortCorrect == Spec => CutShortNeverStored
<1>1. IndInv /\ [Next]_vars =>
        [probe' # probe =>
           \E t \in Threads : \E m \in meas[t] :
             pc[t] = "write" /\ pc'[t] # "write" /\ ~m.tainted]_vars
  <2> SUFFICES ASSUME IndInv, [Next]_vars, probe' # probe
               PROVE  \E t \in Threads : \E m \in meas[t] :
                        pc[t] = "write" /\ pc'[t] # "write" /\ ~m.tainted
    BY Zenon
  <2>0. PICK t \in Threads : \E m \in meas[t] : StoreProbe(t, m)
    BY ProbeWriters
  <2>1. PICK m \in meas[t] : StoreProbe(t, m)
    BY <2>0
  <2>2. pc[t] = "write" /\ t \notin cancelled /\ pc' = [pc EXCEPT ![t] = "measure"]
    BY <2>1 DEF StoreProbe, CallSucceeds
  <2>3. pc'[t] # "write"
    BY <2>2 DEF IndInv, TypeOK
  <2>4. ~m.tainted
    BY <2>2 DEF IndInv, MeasurementsHeld
  <2> QED  BY <2>2, <2>3, <2>4
<1> QED  BY <1>1, Invariant, PTL DEF Spec, CutShortNeverStored

-----------------------------------------------------------------------------
(* The loops alone: Manuals = {}, the deployment without the sync endpoint.*)

\* Without manual runs the two loops are the only threads, and each stays with
\* its own half of the work.
LEMMA LoopsAloneInit == Manuals = {} /\ Init => LoopsAlone
<1> SUFFICES ASSUME Manuals = {}, Init  PROVE LoopsAlone
  OBVIOUS
<1>1. /\ page["probeLoop"] = {} /\ page["syncLoop"] = {}
      /\ meas["syncLoop"] = {} /\ meas["probeLoop"] = {}
      /\ pc["syncLoop"] = "off" /\ pc["probeLoop"] = "off" /\ clock = 0
  BY DEF Init, Threads, Loops
<1>2. \A a \in Accounts : /\ probe[a].lastStatusCheck <= clock
                         /\ probe[a].lastSuccessfulProbe <= probe[a].lastStatusCheck
  BY <1>1, InitialRows
<1> QED  BY <1>1, <1>2 DEF LoopsAlone, OwnHalf, PageFresh, MeasurementFresh, TimesInOrder

\* Without manual runs each loop holds only its own half of the state.
LEMMA OwnHalfStep ==
  ASSUME Manuals = {}, TypeOK, OwnHalf, [Next]_vars
  PROVE  OwnHalf'
<1>0. /\ Threads = {"syncLoop", "probeLoop"}
      /\ \A t : AfterSync(t) = "wait" /\ AfterProbe(t) = "wait"
  BY DEF Threads, Loops, AfterSync, AfterProbe
<1>1. /\ pc \in [Threads -> {"off", "wait", "fetch", "upsert", "list", "measure",
                             "write", "release"}]
      /\ page \in [Threads -> SUBSET Supernode]
      /\ meas \in [Threads -> SUBSET Measurement]
  BY DEF TypeOK
<1>2. CASE \/ \E a \in Accounts : ChainUpdate(a)
           \/ Shutdown \/ SyncValidators
           \/ \E g \in Manuals : TriggerSyncAndProbe(g) \/ RequestDone(g) \/ Release(g)
           \/ UNCHANGED vars
  BY <1>2 DEF ChainUpdate, Shutdown, SyncValidators, threadVars, vars, OwnHalf
<1>3. CASE Start \/ SyncTick \/ ProbeTick \/ \E t \in Loops : LoopReturns(t)
  BY <1>0, <1>1, <1>3 DEF Start, SyncTick, ProbeTick, LoopReturns, Loops, OwnHalf
<1>4. CASE Crash
  BY <1>0, <1>4 DEF Crash, OwnHalf
<1>5. ASSUME NEW t \in Threads, SyncStep(t)  PROVE OwnHalf'
  <2>1. t = "syncLoop"
    BY <1>0, <1>5 DEF SyncStep, OwnHalf, Fetch, FetchError, PageDone
  <2>2. meas' = meas
    BY <1>5 DEF SyncStep, Fetch, FetchError, PageDone, Upsert, UpsertError
  <2>3. page'["probeLoop"] = page["probeLoop"] /\ pc'["probeLoop"] = pc["probeLoop"]
    BY <1>0, <1>1, <1>5, <2>1 DEF SyncStep, Fetch, FetchError, PageDone, Upsert,
       UpsertError
  <2>4. pc'["syncLoop"] \notin {"list", "measure", "write"}
    BY <1>0, <1>1, <1>5, <2>1 DEF SyncStep, Fetch, FetchError, PageDone, Upsert,
       UpsertError, OwnHalf
  <2> QED  BY <2>2, <2>3, <2>4 DEF OwnHalf
<1>6. ASSUME NEW t \in Threads, ProbeStep(t)  PROVE OwnHalf'
  <2>1. pc[t] \in {"list", "measure", "write"}
    BY <1>6 DEF ProbeStep, ListKnown, ListError, StoreError, ProbeDone, SkipTarget,
       Measure, StoreProbe
  <2>2. t = "probeLoop"
    BY <1>0, <2>1 DEF OwnHalf
  <2>3. page' = page
    BY <1>6 DEF ProbeStep, ListKnown, ListError, StoreError, ProbeDone, SkipTarget,
       Measure, StoreProbe
  <2>4. meas'["syncLoop"] = meas["syncLoop"] /\ pc'["syncLoop"] = pc["syncLoop"]
    BY <1>0, <1>1, <1>6, <2>2 DEF ProbeStep, ListKnown, ListError, StoreError,
       ProbeDone, SkipTarget, Measure, StoreProbe
  <2>5. pc'["probeLoop"] \notin {"fetch", "upsert"}
    BY <1>0, <1>1, <1>6, <2>2 DEF ProbeStep, ListKnown, ListError, StoreError,
       ProbeDone, SkipTarget, Measure, StoreProbe, OwnHalf
  <2> QED  BY <2>3, <2>4, <2>5 DEF OwnHalf
<1> QED
  BY <1>2, <1>3, <1>4, <1>5, <1>6 DEF Next

\* Without manual runs the page of loopSupernodes is no older than the rows, so
\* that no upsert takes a row's height back.
LEMMA PageFreshStep ==
  ASSUME Manuals = {}, TypeOK, OwnHalf, PageFresh, RowsBehindChain, [Next]_vars
  PROVE  /\ PageFresh'
         /\ \A a \in Accounts : cols'[a].height >= cols[a].height
<1>0. /\ Threads = {"syncLoop", "probeLoop"}
      /\ page \in [Threads -> SUBSET Supernode]
      /\ cols \in [Accounts -> ChainCols]
  BY DEF Threads, Loops, TypeOK
<1>1. \A a \in Accounts : cols[a].height \in Nat
  BY <1>0 DEF ChainCols
<1>2. ASSUME NEW t \in Threads, Fetch(t)
      PROVE  /\ PageFresh'
             /\ \A a \in Accounts : cols'[a].height >= cols[a].height
  <2>1. t = "syncLoop"
    BY <1>0, <1>2 DEF Fetch, OwnHalf
  <2>2. cols' = cols
    BY <1>2 DEF Fetch, table
  <2>3. \A sn \in page'["syncLoop"] :
          /\ sn.acct \in Accounts /\ sn.height = chain[sn.acct].height
          /\ sn = [acct |-> sn.acct, height |-> chain[sn.acct].height,
                   addr |-> chain[sn.acct].addr]
    BY <1>2, <2>1, FetchedPage
  <2>4. ASSUME NEW sn \in page'["syncLoop"]
        PROVE  /\ cols'[sn.acct].height <= sn.height
               /\ \A sn2 \in page'["syncLoop"] : sn2.acct = sn.acct => sn2 = sn
    <3>1. cols'[sn.acct].height <= sn.height
      BY <2>2, <2>3 DEF RowsBehindChain
    <3>2. ASSUME NEW sn2 \in page'["syncLoop"], sn2.acct = sn.acct
          PROVE  sn2 = sn
      BY <2>3, <3>2, Zenon
    <3> QED  BY <3>1, <3>2
  <2>5. \A a \in Accounts : cols'[a].height >= cols[a].height
    BY <1>1, <2>2
  <2> QED  BY <2>4, <2>5 DEF PageFresh
<1>3. ASSUME NEW t \in Threads, NEW sn \in page[t], Upsert(t, sn)
      PROVE  /\ PageFresh'
             /\ \A a \in Accounts : cols'[a].height >= cols[a].height
  <2>1. t = "syncLoop"
    BY <1>0 DEF OwnHalf
  <2>2. sn.acct \in Accounts /\ sn.height \in Nat
    BY Held, Fields
  <2>3. /\ page'["syncLoop"] = page["syncLoop"] \ {sn}
        /\ cols' = [cols EXCEPT ![sn.acct] =
                      UpsertSupernode(@, sn, validatorMonikers[sn.acct])]
    BY <1>0, <1>3, <2>1 DEF Upsert
  <2>4. cols'[sn.acct].height = sn.height
    BY <1>0, <2>2, <2>3 DEF UpsertSupernode
  <2>5. \A a \in Accounts \ {sn.acct} : cols'[a] = cols[a]
    BY <1>0, <2>3
  <2>6. cols[sn.acct].height <= sn.height
    BY <2>1 DEF PageFresh
  <2>7. ASSUME NEW o \in page'["syncLoop"]
        PROVE  /\ cols'[o.acct].height <= o.height
               /\ \A o2 \in page'["syncLoop"] : o2.acct = o.acct => o2 = o
    <3>1. o \in page["syncLoop"] /\ o.acct # sn.acct
      BY <2>1, <2>3 DEF PageFresh
    <3>2. o.acct \in Accounts
      BY <1>0, <3>1, Held, Fields
    <3>3. cols'[o.acct] = cols[o.acct]
      BY <2>5, <3>1, <3>2
    <3> QED  BY <2>3, <3>1, <3>3 DEF PageFresh
  <2>8. \A a \in Accounts : cols'[a].height >= cols[a].height
    BY <1>1, <2>2, <2>4, <2>5, <2>6
  <2> QED  BY <2>7, <2>8 DEF PageFresh
<1>4. CASE UNCHANGED cols /\ \A t \in Threads : page'[t] \subseteq page[t]
  <2>1. PageFresh'
    BY <1>0, <1>4 DEF PageFresh
  <2> QED  BY <1>1, <1>4, <2>1
<1> QED
  BY <1>2, <1>3, <1>4, ColsWriters, PageWriters

\* A measurement is filled by Measure and otherwise only dropped; time passes.
LEMMA MeasurementWriters ==
  TypeOK /\ [Next]_vars =>
    \/ \E t \in Threads : \E tg \in targets[t] : Measure(t, tg)
    \/ /\ \A t \in Threads : meas'[t] \subseteq meas[t]
       /\ clock' = clock
<1> SUFFICES ASSUME TypeOK, [Next]_vars,
                    ~ \E t \in Threads : \E tg \in targets[t] : Measure(t, tg)
             PROVE  /\ \A t \in Threads : meas'[t] \subseteq meas[t]
                    /\ clock' = clock
  OBVIOUS
<1>0. meas \in [Threads -> SUBSET Measurement]
  BY DEF TypeOK
<1>1. CASE \E t \in Threads : StoreError(t) \/ \E m \in meas[t] : StoreProbe(t, m)
  <2>1. PICK t \in Threads : meas' = [meas EXCEPT ![t] = {}] /\ clock' = clock
    BY <1>1 DEF StoreError, StoreProbe
  <2> QED  BY <1>0, <2>1
<1>2. CASE Crash
  BY <1>2 DEF Crash
<1>3. CASE UNCHANGED <<meas, clock>>
  BY <1>3
<1>4. \/ UNCHANGED <<meas, clock>>
      \/ Crash
      \/ \E t \in Threads : StoreError(t) \/ \E m \in meas[t] : StoreProbe(t, m)
  BY Zenon
  DEF Next, SyncStep, ProbeStep, ChainUpdate, Start, Shutdown, SyncValidators,
      SyncTick, ProbeTick, LoopReturns, TriggerSyncAndProbe, RequestDone, Release,
      Fetch, FetchError, Upsert, UpsertError, PageDone, ListKnown, ListError,
      SkipTarget, ProbeDone, vars, threadVars
<1> QED  BY <1>1, <1>2, <1>3, <1>4

\* The steps of the check times: each is one of the three a prober can take.
CheckTimesForward ==
  \A a \in Accounts :
    /\ probe'[a].lastStatusCheck >= probe[a].lastStatusCheck
    /\ probe'[a].lastSuccessfulProbe >= probe[a].lastSuccessfulProbe
    /\ probe'[a].lastSuccessfulProbe <= probe'[a].lastStatusCheck

\* Without manual runs the measurement of loopProbes is later than the check its
\* row records, so that no update takes a row's times back.
LEMMA TimesStep ==
  ASSUME Manuals = {}, TypeOK, OwnHalf, MeasurementFresh, TimesInOrder, [Next]_vars
  PROVE  MeasurementFresh' /\ TimesInOrder' /\ CheckTimesForward
<1>0. /\ Threads = {"syncLoop", "probeLoop"}
      /\ meas \in [Threads -> SUBSET Measurement]
      /\ probe \in [Accounts -> ProbeCols]
      /\ clock \in Nat
  BY DEF Threads, Loops, TypeOK
<1>1. \A a \in Accounts :
        probe[a].lastStatusCheck \in Nat /\ probe[a].lastSuccessfulProbe \in Nat
  BY <1>0 DEF ProbeCols
<1>2. ASSUME NEW t \in Threads, NEW tg \in targets[t], Measure(t, tg)
      PROVE  MeasurementFresh' /\ TimesInOrder' /\ CheckTimesForward
  <2>1. t = "probeLoop"
    BY <1>0, <1>2 DEF Measure, OwnHalf
  <2>2. tg.acct \in Accounts
    BY Held, Fields
  <2>3. PICK m \in Outcome(t, tg.acct) : meas' = [meas EXCEPT ![t] = {m}]
    BY <1>2 DEF Measure
  <2>4. /\ m \in Measurement
        /\ m.now > 0 /\ m.acct = tg.acct /\ m.now = clock + 1
        /\ ~m.available => m.version = ""
        /\ m.tainted = (t \in cancelled)
    BY <2>2, OutcomeType
  <2>5. probe' = probe /\ clock' = clock + 1
    BY <1>2 DEF Measure, table
  <2>6. meas'["probeLoop"] = {m}
    BY <1>0, <2>1, <2>3
  <2>7. m.now <= clock' /\ probe'[m.acct].lastStatusCheck < m.now
    <3>1. probe[tg.acct].lastStatusCheck <= clock
      BY <2>2 DEF TimesInOrder
    <3>2. m.now = clock + 1 /\ clock' = clock + 1
          /\ probe'[m.acct].lastStatusCheck = probe[tg.acct].lastStatusCheck
      BY <2>4, <2>5, Zenon
    <3>3. clock \in Nat /\ probe[tg.acct].lastStatusCheck \in Nat
      BY <1>0, <1>1, <2>2, Zenon
    <3>4. \A x, c \in Nat : x <= c => c + 1 <= c + 1 /\ x < c + 1
      OBVIOUS
    <3> QED  BY <3>1, <3>2, <3>3, <3>4, Zenon
  <2>8. MeasurementFresh'
    BY <2>6, <2>7 DEF MeasurementFresh
  <2>9. TimesInOrder' /\ CheckTimesForward
    BY <1>0, <1>1, <2>5 DEF TimesInOrder, CheckTimesForward
  <2> QED  BY <2>8, <2>9
<1>3. ASSUME NEW t \in Threads, NEW m \in meas[t], StoreProbe(t, m), probe' # probe
      PROVE  MeasurementFresh' /\ TimesInOrder' /\ CheckTimesForward
  <2>1. t = "probeLoop"
    BY <1>0 DEF OwnHalf
  <2>2. /\ m.acct \in Accounts /\ m.now \in Nat /\ m.available \in BOOLEAN
        /\ m.now <= clock /\ probe[m.acct].lastStatusCheck < m.now
    BY <2>1, Held, Fields DEF MeasurementFresh
  <2>3. probe' = [probe EXCEPT ![m.acct] = UpdateSupernodeProbeData(@, m)]
    BY <1>3, Zenon DEF StoreProbe
  <2>4. meas'["probeLoop"] = {} /\ clock' = clock
    BY <1>0, <1>3, <2>1 DEF StoreProbe
  <2>5. \A a \in Accounts \ {m.acct} : probe'[a] = probe[a]
    BY <1>0, <2>3
  <2>6. /\ probe'[m.acct].lastStatusCheck = m.now
        /\ \/ probe'[m.acct].lastSuccessfulProbe = m.now
           \/ probe'[m.acct].lastSuccessfulProbe = probe[m.acct].lastSuccessfulProbe
    BY <1>0, <2>2, <2>3 DEF UpdateSupernodeProbeData
  <2>7. ASSUME NEW a \in Accounts
        PROVE  /\ probe'[a].lastStatusCheck <= clock'
               /\ probe'[a].lastStatusCheck >= probe[a].lastStatusCheck
               /\ probe'[a].lastSuccessfulProbe >= probe[a].lastSuccessfulProbe
               /\ probe'[a].lastSuccessfulProbe <= probe'[a].lastStatusCheck
    <3>1. /\ probe[a].lastStatusCheck <= clock
          /\ probe[a].lastSuccessfulProbe <= probe[a].lastStatusCheck
      BY DEF TimesInOrder
    <3>2. CASE a = m.acct
      BY <1>0, <1>1, <2>2, <2>4, <2>6, <3>1, <3>2
    <3>3. CASE a # m.acct
      BY <1>0, <1>1, <2>4, <2>5, <3>1, <3>3
    <3> QED  BY <3>2, <3>3
  <2> QED  BY <2>4, <2>7 DEF MeasurementFresh, TimesInOrder, CheckTimesForward
<1>4. CASE /\ UNCHANGED <<probe, clock>>
           /\ \A t \in Threads : meas'[t] \subseteq meas[t]
  <2>1. MeasurementFresh'
    BY <1>0, <1>4 DEF MeasurementFresh
  <2>2. TimesInOrder' /\ CheckTimesForward
    BY <1>1, <1>4 DEF TimesInOrder, CheckTimesForward
  <2> QED  BY <2>1, <2>2
<1>5. CASE probe' # probe
  BY <1>3, <1>5, ProbeWriters
<1>6. CASE probe' = probe
  BY <1>2, <1>4, <1>6, MeasurementWriters
<1> QED  BY <1>5, <1>6

\* Without manual runs the loops keep to themselves, in every run.
LEMMA LoopsAloneInvariant ==
  ASSUME Manuals = {}  PROVE Spec => []LoopsAlone
<1>1. Init => LoopsAlone
  BY LoopsAloneInit
<1>2. IndInv /\ LoopsAlone /\ [Next]_vars => LoopsAlone'
  BY OwnHalfStep, PageFreshStep, TimesStep DEF IndInv, LoopsAlone
<1> QED  BY <1>1, <1>2, Invariant, PTL DEF Spec

\* Without manual runs no row goes back in the heights of the chain, across
\* pages, errors and restarts.
THEOREM HeightsCorrect ==
  ASSUME Manuals = {}  PROVE Spec => HeightNeverDecreases
<1>1. IndInv /\ LoopsAlone /\ [Next]_vars =>
        [\A a \in Accounts : cols'[a].height >= cols[a].height]_vars
  BY PageFreshStep DEF IndInv, LoopsAlone
<1> QED
  BY <1>1, LoopsAloneInvariant, Invariant, PTL DEF Spec, HeightNeverDecreases

\* Without manual runs no later check of a supernode is replaced by an earlier
\* one, and no success is later than the last check.
THEOREM CheckTimesCorrect ==
  ASSUME Manuals = {}  PROVE Spec => CheckTimesInOrder
<1>1. IndInv /\ LoopsAlone /\ [Next]_vars =>
        [\A a \in Accounts :
           /\ probe'[a].lastStatusCheck >= probe[a].lastStatusCheck
           /\ probe'[a].lastSuccessfulProbe >= probe[a].lastSuccessfulProbe
           /\ probe'[a].lastSuccessfulProbe <= probe'[a].lastStatusCheck]_vars
  BY TimesStep DEF IndInv, LoopsAlone, CheckTimesForward
<1> QED
  BY <1>1, LoopsAloneInvariant, Invariant, PTL DEF Spec, CheckTimesInOrder
=============================================================================
