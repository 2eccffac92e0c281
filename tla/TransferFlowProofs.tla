------------------------- MODULE TransferFlowProofs -------------------------
(***************************************************************************)
(* The transfer recorded is the best one, whatever the events, the parties *)
(* and the messages, and for transactions of any number of events.         *)
(***************************************************************************)
EXTENDS TransferFlow, SequenceTheorems, TLAPS

Args ==
  /\ txType \in TxTypes
  /\ events \in Seq(Events) /\ logs \in Seq(Events)

\* The loops: a rule is tried only when those before it fit nothing.
LoopInv ==
  /\ phase = "collect" => rule = 1 /\ chosen = 0
  /\ phase = "select" =>
       /\ transfers # <<>> /\ chosen = 0 /\ k <= Len(transfers) + 1
       /\ \A n \in 1..(k - 1) : ~Fits(rule, transfers[n])
       /\ \A r \in 1..(rule - 1), n \in DOMAIN transfers : ~Fits(r, transfers[n])

SameParties(t, u) == t.payer = u.payer /\ t.payee = u.payee

\* The events gathered so far are among the transfers.
EventsGathered ==
  phase = "collect" =>
    \A j \in DOMAIN events : j < k /\ HasParty(Parsed(events[j])) =>
      \E m \in DOMAIN transfers : transfers[m] = Parsed(events[j])

\* A transfer of the logs comes after one of the events between the same parties.
EventFirst ==
  LogsRepeat =>
    \A n \in DOMAIN transfers : \E m \in DOMAIN transfers, j \in DOMAIN events :
      /\ m <= n /\ transfers[m] = Parsed(events[j])
      /\ SameParties(transfers[m], transfers[n])

\* What the theorems rest on.
IndInv ==
  Args /\ FlowTypeOK /\ LoopInv /\ ChosenIsBest /\ EventsGathered /\ EventFirst

-----------------------------------------------------------------------------
(* The rules.                                                              *)

\* The last rule takes any transfer.
LEMMA LastRuleFits == ASSUME NEW t  PROVE Fits(LastRule, t)
  BY DEF Fits, LastRule, RegisterRules, PayoutRules

\* A rule looks at the parties alone.
LEMMA FitsByParties ==
  ASSUME NEW t, NEW u, SameParties(t, u), NEW r \in 1..LastRule
  PROVE  Fits(r, t) <=> Fits(r, u)
<1>1. RegisterRules(t) = RegisterRules(u)
  BY DEF SameParties, RegisterRules, ToModule
<1>2. PayoutRules(t) = PayoutRules(u)
  BY DEF SameParties, PayoutRules, FromModule, ToSigner, ToSupernode, NotFromCreator
<1> QED  BY <1>1, <1>2 DEF Fits

\* The arguments stay, and with them what the rules say.
LEMMA ArgsStay ==
  ASSUME UNCHANGED args
  PROVE  /\ UNCHANGED <<txType, party, msg, events, logs>>
         /\ LastRule' = LastRule /\ LogsRepeat' = LogsRepeat
         /\ \A r, t : Fits(r, t)' <=> Fits(r, t)
<1>1. UNCHANGED <<txType, party, msg, events, logs>>
  BY DEF args
<1>2. LastRule' = LastRule /\ LogsRepeat' = LogsRepeat
  BY <1>1 DEF LastRule, LogsRepeat
<1>3. \A r, t : Fits(r, t)' <=> Fits(r, t)
  BY <1>1 DEF Fits, RegisterRules, PayoutRules, FromModule, ToModule, ToSigner,
              ToSupernode, NotFromCreator, Signer
<1> QED  BY <1>1, <1>2, <1>3

-----------------------------------------------------------------------------
(* The steps.                                                              *)

\* A list of a bounded length is a sequence.
LEMMA ListsAreSeqs == ASSUME NEW max \in Nat  PROVE Lists(max) \subseteq Seq(Events)
<1> SUFFICES ASSUME NEW n \in 0..max, NEW s \in [1..n -> Events]  PROVE s \in Seq(Events)
  BY DEF Lists
<1>1. n \in Nat
  OBVIOUS
<1> QED  BY <1>1, SeqDef

\* Nothing is gathered yet.
LEMMA IndInvInit == FlowInit => IndInv
<1> SUFFICES ASSUME FlowInit  PROVE IndInv
  OBVIOUS
<1>1. Args
  BY ListsAreSeqs, TransferFlowAssumption DEF FlowInit, Args
<1>2. FlowTypeOK
  <2>1. 1 \in 1..LastRule
    BY DEF LastRule
  <2> QED  BY <2>1, EmptySeq DEF FlowInit, FlowTypeOK
<1>3. EventsGathered
  BY <1>1, LenProperties DEF FlowInit, Args, EventsGathered
<1> QED
  BY <1>1, <1>2, <1>3, EmptySeq DEF FlowInit, IndInv, LoopInv, ChosenIsBest, EventFirst

\* One event is parsed.
LEMMA CollectKeepsInv == ASSUME IndInv, Collect  PROVE IndInv'
<1> DEFINE t == Parsed(Source(k))
<1>0. /\ phase = "collect" /\ phase' = "collect" /\ k <= Len(events) + Len(logs)
      /\ transfers' = IF HasParty(t) THEN Append(transfers, t) ELSE transfers
      /\ k' = k + 1 /\ UNCHANGED <<args, rule, chosen>>
  BY DEF Collect
<1>1. /\ Len(events) \in Nat /\ DOMAIN events = 1..Len(events)
      /\ Len(logs) \in Nat /\ DOMAIN logs = 1..Len(logs)
      /\ Len(transfers) \in Nat /\ DOMAIN transfers = 1..Len(transfers)
      /\ k \in Nat \ {0}
  BY LenProperties DEF IndInv, Args, FlowTypeOK
<1>2. \/ k \in DOMAIN events /\ Source(k) = events[k]
      \/ k > Len(events) /\ k - Len(events) \in DOMAIN logs
         /\ Source(k) = logs[k - Len(events)]
  BY <1>0, <1>1 DEF Source
<1>3. Source(k) \in Events
  BY <1>2, ElementOfSeq, <1>1 DEF IndInv, Args
<1>4. HasParty(t) => t \in Transfers
  BY <1>3 DEF Transfers
<1> HIDE DEF t
<1>5. \/ ~HasParty(t) /\ transfers' = transfers
      \/ /\ HasParty(t) /\ transfers' \in Seq(Transfers)
         /\ DOMAIN transfers' = 1..(Len(transfers) + 1)
         /\ transfers'[Len(transfers) + 1] = t
         /\ \A n \in DOMAIN transfers : transfers'[n] = transfers[n]
  <2>1. CASE ~HasParty(t)
    BY <1>0, <2>1
  <2>2. CASE HasParty(t)
    <3>1. transfers \in Seq(Transfers) /\ t \in Transfers
      BY <1>4, <2>2 DEF IndInv, FlowTypeOK
    <3>2. transfers' = Append(transfers, t)
      BY <1>0, <2>2
    <3>3. /\ transfers' \in Seq(Transfers) /\ Len(transfers') = Len(transfers) + 1
          /\ \A n \in 1..Len(transfers) : transfers'[n] = transfers[n]
          /\ transfers'[Len(transfers) + 1] = t
      BY <3>1, <3>2, AppendProperties
    <3>4. DOMAIN transfers' = 1..(Len(transfers) + 1)
      BY <3>3, LenProperties
    <3> QED  BY <1>1, <2>2, <3>3, <3>4
  <2> QED  BY <2>1, <2>2
<1>6. \A n \in DOMAIN transfers : n \in DOMAIN transfers' /\ transfers'[n] = transfers[n]
  BY <1>1, <1>5
<1>7. Args' /\ LoopInv' /\ ChosenIsBest'
  BY <1>0 DEF IndInv, args, Args, LoopInv, ChosenIsBest
<1>8. FlowTypeOK'
  <2>1. transfers' \in Seq(Transfers) /\ Len(transfers') \in Nat
    BY <1>5, LenProperties DEF IndInv, FlowTypeOK
  <2>2. chosen' = 0 /\ k' \in Nat \ {0} /\ 0 \in 0..Len(transfers')
    BY <1>0, <1>1, <2>1 DEF IndInv, LoopInv
  <2> QED  BY <1>0, <2>1, <2>2, ArgsStay DEF IndInv, FlowTypeOK
<1>9. EventsGathered'
  <2> SUFFICES ASSUME NEW j \in DOMAIN events, j < k + 1, HasParty(Parsed(events[j]))
               PROVE  \E m \in DOMAIN transfers' : transfers'[m] = Parsed(events[j])
    BY <1>0, ArgsStay DEF EventsGathered
  <2>1. CASE j < k
    BY <1>0, <1>6, <2>1 DEF IndInv, EventsGathered
  <2>2. CASE j = k
    BY <1>1, <1>2, <1>5, <2>2 DEF t
  <2> QED  BY <1>1, <2>1, <2>2
<1>10. EventFirst'
  <2> SUFFICES ASSUME LogsRepeat, NEW n \in DOMAIN transfers'
               PROVE  \E m \in DOMAIN transfers', j \in DOMAIN events :
                        /\ m <= n /\ transfers'[m] = Parsed(events[j])
                        /\ SameParties(transfers'[m], transfers'[n])
    BY <1>0, ArgsStay DEF EventFirst
  <2>1. CASE n \in DOMAIN transfers
    BY <1>6, <2>1 DEF IndInv, EventFirst
  <2>2. CASE n \notin DOMAIN transfers
    <3>1. HasParty(t) /\ n = Len(transfers) + 1 /\ transfers'[n] = t
      BY <1>1, <1>5, <2>2
    <3>2. CASE k \in DOMAIN events /\ Source(k) = events[k]
      BY <1>1, <3>1, <3>2 DEF t, SameParties
    <3>3. CASE k > Len(events) /\ k - Len(events) \in DOMAIN logs
               /\ Source(k) = logs[k - Len(events)]
      <4>1. PICK j \in DOMAIN events : SameParties(Parsed(events[j]), t)
        BY <3>3 DEF LogsRepeat, SameParties, t
      <4>2. HasParty(Parsed(events[j])) /\ j < k
        BY <1>1, <3>1, <3>3, <4>1 DEF HasParty, SameParties
      <4>3. PICK m \in DOMAIN transfers : transfers[m] = Parsed(events[j])
        BY <1>0, <4>2 DEF IndInv, EventsGathered
      <4> QED  BY <1>1, <1>6, <3>1, <4>1, <4>3
    <3> QED  BY <1>2, <3>2, <3>3
  <2> QED  BY <2>1, <2>2
<1> QED  BY <1>7, <1>8, <1>9, <1>10 DEF IndInv

\* Gathering ends.
LEMMA CollectedKeepsInv == ASSUME IndInv, Collected  PROVE IndInv'
<1>0. /\ phase = "collect" /\ phase' = IF transfers = <<>> THEN "done" ELSE "select"
      /\ k' = 1 /\ UNCHANGED <<args, transfers, rule, chosen>>
  BY DEF Collected
<1>1. rule = 1 /\ chosen = 0 /\ Len(transfers) \in Nat
  BY <1>0, LenProperties DEF IndInv, LoopInv, FlowTypeOK
<1>2. Args' /\ EventsGathered' /\ EventFirst'
  BY <1>0, ArgsStay DEF IndInv, Args, EventsGathered, EventFirst
<1>3. FlowTypeOK'
  BY <1>0, ArgsStay DEF IndInv, FlowTypeOK
<1>4. LoopInv' /\ ChosenIsBest'
  BY <1>0, <1>1 DEF LoopInv, ChosenIsBest
<1> QED  BY <1>2, <1>3, <1>4 DEF IndInv

\* A transfer that fits is chosen, and is the first; another is passed over.
LEMMA TryKeepsInv == ASSUME IndInv, Try  PROVE IndInv'
<1>0. /\ phase = "select" /\ k <= Len(transfers)
      /\ \/ Fits(rule, transfers[k]) /\ chosen' = k /\ phase' = "done" /\ k' = k
         \/ ~Fits(rule, transfers[k]) /\ k' = k + 1 /\ chosen' = chosen /\ phase' = phase
      /\ UNCHANGED <<args, transfers, rule>>
  BY DEF Try
<1>1. /\ Len(transfers) \in Nat /\ DOMAIN transfers = 1..Len(transfers)
      /\ k \in Nat \ {0} /\ rule \in 1..LastRule /\ LastRule \in Nat
      /\ transfers # <<>> /\ chosen = 0
      /\ \A n \in 1..(k - 1) : ~Fits(rule, transfers[n])
      /\ \A r \in 1..(rule - 1), n \in DOMAIN transfers : ~Fits(r, transfers[n])
  BY <1>0, LenProperties DEF IndInv, LoopInv, FlowTypeOK, LastRule
<1>2. Args' /\ EventsGathered' /\ EventFirst'
  BY <1>0, ArgsStay DEF IndInv, Args, EventsGathered, EventFirst
<1>3. FlowTypeOK'
  BY <1>0, <1>1, ArgsStay DEF IndInv, FlowTypeOK
<1>4. \A n \in Nat, r \in Nat : Fits(r, transfers[n])' <=> Fits(r, transfers[n])
  BY <1>0, ArgsStay
<1>5. LoopInv'
  BY <1>0, <1>1, <1>4 DEF LoopInv
<1>6. ChosenIsBest'
  BY <1>0, <1>1, <1>4 DEF ChosenIsBest
<1> QED  BY <1>2, <1>3, <1>5, <1>6 DEF IndInv

\* No transfer fits: the rule was not the last.
LEMMA NextRuleKeepsInv == ASSUME IndInv, NextRule  PROVE IndInv'
<1>0. /\ phase = "select" /\ k > Len(transfers) /\ UNCHANGED <<args, transfers, chosen>>
  BY DEF NextRule
<1>1. /\ Len(transfers) \in Nat /\ DOMAIN transfers = 1..Len(transfers)
      /\ k \in Nat \ {0} /\ rule \in 1..LastRule /\ LastRule \in Nat
      /\ transfers # <<>> /\ chosen = 0 /\ k <= Len(transfers) + 1
      /\ \A n \in 1..(k - 1) : ~Fits(rule, transfers[n])
      /\ \A r \in 1..(rule - 1), n \in DOMAIN transfers : ~Fits(r, transfers[n])
  BY <1>0, LenProperties DEF IndInv, LoopInv, FlowTypeOK, LastRule
<1>2. \A n \in DOMAIN transfers : ~Fits(rule, transfers[n])
  BY <1>0, <1>1
<1>3. rule < LastRule
  <2>1. 1 \in DOMAIN transfers
    BY <1>1, EmptySeq DEF IndInv, FlowTypeOK
  <2>2. rule # LastRule
    BY <1>2, <2>1, LastRuleFits
  <2> QED  BY <1>1, <2>2
<1>4. rule' = rule + 1 /\ k' = 1 /\ phase' = phase
  BY <1>3 DEF NextRule
<1>5. Args' /\ EventsGathered' /\ EventFirst'
  BY <1>0, <1>4, ArgsStay DEF IndInv, Args, EventsGathered, EventFirst
<1>6. FlowTypeOK'
  BY <1>0, <1>1, <1>3, <1>4, ArgsStay DEF IndInv, FlowTypeOK
<1>7. \A n \in Nat, r \in Nat : Fits(r, transfers[n])' <=> Fits(r, transfers[n])
  BY <1>0, ArgsStay
<1>8. LoopInv' /\ ChosenIsBest'
  BY <1>0, <1>1, <1>2, <1>4, <1>7 DEF LoopInv, ChosenIsBest
<1> QED  BY <1>5, <1>6, <1>8 DEF IndInv

\* One step per action of FlowNext.
LEMMA IndInvStep == IndInv /\ [FlowNext]_flowVars => IndInv'
<1> SUFFICES ASSUME IndInv, [FlowNext]_flowVars  PROVE IndInv'
  OBVIOUS
<1>1. CASE UNCHANGED flowVars
  <2>1. UNCHANGED <<args, phase, transfers, rule, k, chosen>>
    BY <1>1 DEF flowVars, args
  <2>2. \A n \in Nat, r \in Nat : Fits(r, transfers[n])' <=> Fits(r, transfers[n])
    BY <2>1, ArgsStay
  <2> QED
    BY <2>1, ArgsStay
    DEF IndInv, Args, FlowTypeOK, LoopInv, ChosenIsBest, EventsGathered, EventFirst
<1> QED
  BY <1>1, CollectKeepsInv, CollectedKeepsInv, TryKeepsInv, NextRuleKeepsInv DEF FlowNext

\* The strengthening holds throughout.
LEMMA Invariant == FlowSpec => []IndInv
  BY IndInvInit, IndInvStep, PTL DEF FlowSpec

\* Every variable keeps its type, and every transfer gathered has a party.
THEOREM FlowTypeCorrect == FlowSpec => []FlowTypeOK
<1>1. IndInv => FlowTypeOK
  BY DEF IndInv
<1> QED  BY <1>1, Invariant, PTL

\* For transactions of any number of events: what is recorded is the first
\* transfer that fits the first rule to fit any, nil only without transfers.
THEOREM BestCorrect == FlowSpec => []ChosenIsBest
<1>1. IndInv => ChosenIsBest
  BY DEF IndInv
<1> QED  BY <1>1, Invariant, PTL

\* Logs that list the events again, merged in any way, change nothing.
THEOREM OneTransferCorrect == FlowSpec => []OneTransfer
<1>1. IndInv => OneTransfer
  <2> SUFFICES ASSUME IndInv, phase = "done", chosen > 0, LogsRepeat
               PROVE  \E n \in DOMAIN events : transfers[chosen] = Parsed(events[n])
    BY DEF OneTransfer
  <2>1. /\ chosen \in DOMAIN transfers /\ transfers # <<>> /\ rule \in 1..LastRule
        /\ DOMAIN transfers = 1..Len(transfers) /\ Len(transfers) \in Nat
    BY EmptySeq, LenProperties DEF IndInv, FlowTypeOK
  <2>2. PICK m \in DOMAIN transfers, j \in DOMAIN events :
          /\ m <= chosen /\ transfers[m] = Parsed(events[j])
          /\ SameParties(transfers[m], transfers[chosen])
    BY <2>1 DEF IndInv, EventFirst
  <2>3. Fits(rule, transfers[m])
    BY <2>1, <2>2, FitsByParties DEF IndInv, ChosenIsBest
  <2>4. m = chosen
    BY <2>1, <2>2, <2>3 DEF IndInv, ChosenIsBest
  <2> QED  BY <2>2, <2>4
<1> QED  BY <1>1, Invariant, PTL
=============================================================================
