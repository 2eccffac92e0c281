------------------------------- MODULE Paging -------------------------------
(***************************************************************************)
(* Pages of a keyed collection, keys being numbers: the pages of the       *)
(* chain's list endpoints (pagination.key, pagination.limit) and the rows  *)
(* of ORDER BY key ASC (or DESC) LIMIT n.                                  *)
(***************************************************************************)
EXTENDS Integers, FiniteSets

\* The first n keys of S that are at least k.
FirstN(S, k, n) ==
  {a \in S : a >= k /\ Cardinality({b \in S : k <= b /\ b < a}) < n}

\* next_key after the page FirstN(S, k, n); 0 when no key is left.
NextKey(S, k, n) ==
  LET rest == {a \in S : a >= k} \ FirstN(S, k, n)
  IN  IF rest = {} THEN 0 ELSE CHOOSE a \in rest : \A b \in rest : a <= b

\* The n largest keys of S: ORDER BY key DESC LIMIT n.
LastN(S, n) == {a \in S : Cardinality({b \in S : b > a}) < n}
=============================================================================
