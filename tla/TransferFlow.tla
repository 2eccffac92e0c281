---------------------------- MODULE TransferFlow ----------------------------
(***************************************************************************)
(* extractTransferFlow: which transfer of a transaction is recorded as the *)
(* payment of an action. The transfers are gathered from the events of the *)
(* transaction and then from its logs, where some SDK versions list the    *)
(* same transfers again, several in one event. Then the first of a list of *)
(* rules that fits any transfer picks the first it fits. Each step is one  *)
(* turn of a loop. Events that are not transfers are left out.             *)
(***************************************************************************)
EXTENDS Integers, Sequences

CONSTANTS
  Events,    \* transfer events: sequences of attributes
  Messages,  \* first messages: what each field of SignerFields holds
  Parties,   \* [creator, module, supernode]: the addresses known, "" if not
  MaxEvents, \* bound: events of a transaction
  MaxLogs    \* bound: events in its logs

ASSUME TransferFlowAssumption == MaxEvents \in Nat /\ MaxLogs \in Nat

\* A pointer that is nil.
Nil == "nil"

TxTypes == {"register", "finalize", "approve"}

SignerFields == <<"creator", "sender", "from_address", "signer">>

VARIABLES
  txType, party, msg,  \* the arguments,
  events, logs,        \*   with the events of the transaction and its logs
  phase,               \* "collect", "select", "done"
  transfers,           \* the transfers gathered so far
  rule,                \* the rule tried
  k,                   \* index of the loop, from 1
  chosen               \* index of the transfer returned, 0 for nil

flowVars == <<txType, party, msg, events, logs, phase, transfers, rule, k, chosen>>

args == <<txType, party, msg, events, logs>>

Lists(max) == UNION {[1..n -> Events] : n \in 0..max}

FlowInit ==
  /\ txType \in TxTypes /\ party \in Parties /\ msg \in Messages
  /\ events \in Lists(MaxEvents) /\ logs \in Lists(MaxLogs)
  /\ phase = "collect" /\ transfers = <<>>
  /\ rule = 1 /\ k = 1 /\ chosen = 0

-----------------------------------------------------------------------------
(* parseTransferEvent.                                                     *)

\* The attributes of e with this key, of which the last one counts.
LastOne(e, S) == e[CHOOSE n \in S : \A m \in S : m <= n].value

Address(e, key) ==
  LET S == {n \in DOMAIN e : e[n].key = key}
  IN  IF S = {} THEN Nil ELSE LastOne(e, S)

\* parseCoinString splits "10090ulume" after its digits; a part that is empty
\* leaves what an earlier coin set. A coin is given as its two parts.
Coin(e, part) ==
  LET S == {n \in DOMAIN e : e[n].key = "amount" /\ e[n].value[part] # ""}
  IN  IF S = {} THEN Nil ELSE LastOne(e, S)[part]

Parsed(e) ==
  [payer |-> Address(e, "sender"), payee |-> Address(e, "recipient"),
   amount |-> Coin(e, "amount"), denom |-> Coin(e, "denom")]

\* An event with neither is dropped.
HasParty(t) == t.payer # Nil \/ t.payee # Nil

Transfers == {t \in {Parsed(e) : e \in Events} : HasParty(t)}

-----------------------------------------------------------------------------
(* extractTxSigner: the first of the fields that holds a string.           *)

Signer ==
  LET S == {n \in DOMAIN SignerFields : msg[SignerFields[n]] # ""}
  IN  IF S = {} THEN ""
      ELSE msg[SignerFields[CHOOSE n \in S : \A m \in S : n <= m]]

-----------------------------------------------------------------------------
(* The rules, in the order of the code. An unknown address fits nothing,   *)
(* not even an empty attribute.                                            *)

FromModule(t) == party.module # "" /\ t.payer = party.module
ToModule(t) == party.module # "" /\ t.payee = party.module
ToSigner(t) == Signer # "" /\ t.payee = Signer
ToSupernode(t) == party.supernode # "" /\ t.payee = party.supernode
NotFromCreator(t) == t.payer \notin {Nil, party.creator}

RegisterRules(t) == <<ToModule(t), t.payer = party.creator, TRUE>>

PayoutRules(t) ==
  <<FromModule(t) /\ ToSigner(t), FromModule(t) /\ ToSupernode(t),
    FromModule(t), ToSigner(t), ToSupernode(t), NotFromCreator(t), TRUE>>

LastRule == IF txType = "register" THEN 3 ELSE 7

Fits(r, t) ==
  IF txType = "register" THEN RegisterRules(t)[r] ELSE PayoutRules(t)[r]

-----------------------------------------------------------------------------
\* Mutant: the logs come first.
Source_LogsFirst(n) ==
  IF n <= Len(logs) THEN logs[n] ELSE events[n - Len(logs)]

\* The events, then those of the logs.
Source(n) == IF n <= Len(events) THEN events[n] ELSE logs[n - Len(events)]

\* Mutant: transfers without parties are kept.
Collect_All ==
  /\ phase = "collect" /\ k <= Len(events) + Len(logs)
  /\ transfers' = Append(transfers, Parsed(Source(k)))
  /\ k' = k + 1
  /\ UNCHANGED <<args, phase, rule, chosen>>

Collect ==
  /\ phase = "collect" /\ k <= Len(events) + Len(logs)
  /\ LET t == Parsed(Source(k)) IN
       transfers' = IF HasParty(t) THEN Append(transfers, t) ELSE transfers
  /\ k' = k + 1
  /\ UNCHANGED <<args, phase, rule, chosen>>

\* No transfers: nil.
Collected ==
  /\ phase = "collect" /\ k > Len(events) + Len(logs)
  /\ phase' = IF transfers = <<>> THEN "done" ELSE "select"
  /\ k' = 1
  /\ UNCHANGED <<args, transfers, rule, chosen>>

\* One turn of the loop of a rule.
Try ==
  /\ phase = "select" /\ k <= Len(transfers)
  /\ IF Fits(rule, transfers[k])
       THEN chosen' = k /\ phase' = "done" /\ UNCHANGED k
       ELSE k' = k + 1 /\ UNCHANGED <<chosen, phase>>
  /\ UNCHANGED <<args, transfers, rule>>

\* Mutant: one index for all loops.
NextRule_SameIndex ==
  /\ phase = "select" /\ k > Len(transfers)
  /\ IF rule < LastRule THEN rule' = rule + 1 /\ UNCHANGED <<k, phase>>
                        ELSE phase' = "done" /\ UNCHANGED <<rule, k>>
  /\ UNCHANGED <<args, transfers, chosen>>

\* The rule fits no transfer: the next one, or nil.
NextRule ==
  /\ phase = "select" /\ k > Len(transfers)
  /\ IF rule < LastRule THEN rule' = rule + 1 /\ k' = 1 /\ UNCHANGED phase
                        ELSE phase' = "done" /\ UNCHANGED <<rule, k>>
  /\ UNCHANGED <<args, transfers, chosen>>

FlowNext == Collect \/ Collected \/ Try \/ NextRule

FlowSpec == FlowInit /\ [][FlowNext]_flowVars

-----------------------------------------------------------------------------
(* Properties.                                                             *)

\* Every variable has its type; every transfer gathered has a party.
FlowTypeOK ==
  /\ txType \in TxTypes
  /\ phase \in {"collect", "select", "done"}
  /\ transfers \in Seq(Transfers)
  /\ rule \in 1..LastRule
  /\ k \in Nat \ {0}
  /\ chosen \in 0..Len(transfers)

\* The comments of extractTransferFlow give the rules as fallbacks of each
\* other: the transfer returned is the first that fits the first rule that
\* fits any, and nil is returned only when there are no transfers.
ChosenIsBest ==
  phase = "done" =>
    IF transfers = <<>> THEN chosen = 0
    ELSE /\ chosen > 0 /\ Fits(rule, transfers[chosen])
         /\ \A n \in 1..(chosen - 1) : ~Fits(rule, transfers[n])
         /\ \A r \in 1..(rule - 1), n \in DOMAIN transfers :
              ~Fits(r, transfers[n])

\* The logs list transfers between the same parties as the events. Of those
\* merged into one event parseTransferEvent reads the parties of the last, but
\* an amount of an earlier one when the last has none.
LogsRepeat ==
  \A n \in DOMAIN logs : \E m \in DOMAIN events :
    LET a == Parsed(logs[n]) b == Parsed(events[m])
    IN  a.payer = b.payer /\ a.payee = b.payee

\* The logs of older SDKs list the transfers of the events again, merged into
\* one event. This changes nothing: what is recorded is what one event of the
\* transaction tells, payer, payee and amount never put together from two.
OneTransfer ==
  phase = "done" /\ chosen > 0 /\ LogsRepeat =>
    \E n \in DOMAIN events : transfers[chosen] = Parsed(events[n])
=============================================================================
