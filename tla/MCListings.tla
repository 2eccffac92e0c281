----------------------------- MODULE MCListings -----------------------------
(***************************************************************************)
(* Both listings in one run: a behaviour is one of GET /v1/actions or one  *)
(* of GET /v1/supernodes/metrics, while the other table rests. Three       *)
(* actions in two states and two supernodes, listed one at a time, while   *)
(* rows are written.                                                       *)
(***************************************************************************)
EXTENDS ActionListing, SupernodeListing

VARIABLE endpoint

ThreeIds == 1..3
TwoStates == {"pending", "done"}

\* The actions of a state, those of a creator, and one id.
SomeFilters ==
  {[state |-> "done", among |-> ThreeIds], [state |-> "any", among |-> {1, 3}],
   [state |-> "any", among |-> {2}]}

SomeSnFilters ==
  {[currentState |-> "any", status |-> "available", version |-> "any", minFailed |-> 0],
   [currentState |-> "active", status |-> "unavailable", version |-> "any", minFailed |-> 0],
   [currentState |-> "stopped", status |-> "any", version |-> "v1", minFailed |-> 0],
   [currentState |-> "any", status |-> "any", version |-> "any", minFailed |-> 1]}

\* The filters before the first request do not matter.
MCInit ==
  /\ Init /\ SnInit /\ endpoint \in {"actions", "supernodes"}
  /\ filter = CHOOSE f \in Filters : TRUE
  /\ snFilter = CHOOSE f \in SnFilters : TRUE

MCNext ==
  \/ endpoint = "actions" /\ Next /\ UNCHANGED <<endpoint, snVars>>
  \/ endpoint = "supernodes" /\ SnNext /\ UNCHANGED <<endpoint, vars>>

MCRequest ==
  \/ endpoint = "actions" /\ Request /\ UNCHANGED <<endpoint, snVars>>
  \/ endpoint = "supernodes" /\ SnRequest /\ UNCHANGED <<endpoint, vars>>

MCSpec == MCInit /\ [][MCNext]_<<endpoint, vars, snVars>>
                 /\ WF_<<endpoint, vars, snVars>>(MCRequest)
=============================================================================
