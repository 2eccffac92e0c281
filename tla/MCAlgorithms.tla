---------------------------- MODULE MCAlgorithms ----------------------------
(***************************************************************************)
(* Three parts that share no state, in one run: a behaviour is one of      *)
(* LatestEntry, one of TransferFlow or one of ConditionalGet, while the    *)
(* others rest. Histories of up to four entries, with ties, zero and       *)
(* negative heights; up to two transfer events and one in the logs; two    *)
(* supernodes and four instants, two to a second.                         *)
(***************************************************************************)
EXTENDS LatestEntry, TransferFlow, ConditionalGet, TLC

VARIABLE part

SomeHeights == {-1, 0, 1, 2}

RowSymmetry == Permutations(Rows)

-----------------------------------------------------------------------------
Attr(key, value) == [key |-> key, value |-> value]

Transfer(payer, payee, coin) ==
  <<Attr("recipient", payee), Attr("sender", payer), Attr("amount", coin)>>

Price == [amount |-> "5", denom |-> "ulume"]

Fee == Transfer("creator", "collector", Price)
Deposit == Transfer("creator", "module", Price)
Reward == Transfer("module", "signer", Price)
NoReward == Transfer("module", "supernode", [amount |-> "", denom |-> ""])

\* Also an event without a sender, one with an empty sender, one without
\* either party, and transfers merged into one event.
SomeEvents ==
  {Fee, Deposit, Reward, NoReward, <<Attr("recipient", "supernode")>>,
   <<Attr("sender", "")>>, <<Attr("amount", Price)>>,
   Fee \o Deposit, Reward \o NoReward}

Message(creator, sender) ==
  [creator |-> creator, sender |-> sender, from_address |-> "", signer |-> ""]

SomeMessages ==
  {Message("", ""), Message("", "signer"), Message("creator", "signer")}

SomeParties ==
  [creator : {"creator"}, module : {"", "module"}, supernode : {"", "supernode"}]

-----------------------------------------------------------------------------
LatestRests ==
  /\ hist = <<[ok |-> TRUE, height |-> 1]>>
  /\ i = 1 /\ maxIdx = 1 /\ maxHeight = 0

TransferRests ==
  /\ txType = "register" /\ events = <<>> /\ logs = <<>> /\ transfers = <<>>
  /\ party = CHOOSE p \in Parties : TRUE
  /\ msg = Message("", "")
  /\ phase = "collect" /\ rule = 1 /\ k = 1 /\ chosen = 0

GetRests ==
  /\ now = 1 /\ content = 1 /\ check = [n \in Rows |-> 0] /\ target = "now"
  /\ headers = {"If-None-Match"} /\ handler = "idle" /\ read = NoBody
  /\ copy = NoCopy /\ answered = 0

MCInit ==
  \/ part = "latest" /\ Init /\ TransferRests /\ GetRests
  \/ part = "transfer" /\ LatestRests /\ FlowInit /\ GetRests
  \/ part = "get" /\ LatestRests /\ TransferRests /\ GetInit

MCNext ==
  /\ UNCHANGED part
  /\ \/ part = "latest" /\ Next /\ UNCHANGED <<flowVars, getVars>>
     \/ part = "transfer" /\ FlowNext /\ UNCHANGED <<vars, getVars>>
     \/ part = "get" /\ GetNext /\ UNCHANGED <<vars, flowVars>>

MCSpec == MCInit /\ [][MCNext]_<<part, vars, flowVars, getVars>>
=============================================================================
