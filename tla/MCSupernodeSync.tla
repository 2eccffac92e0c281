-------------------------- MODULE MCSupernodeSync --------------------------
(***************************************************************************)
(* Small instances of SupernodeSync for TLC.                               *)
(***************************************************************************)
EXTENDS SupernodeSync, TLC

\* One account, then two accounts on a page each.
OneAccount == {1}
TwoAccounts == {1, 2}

\* An address that can be probed and the empty one, which cannot.
SomeAddrs == {"", "h"}
GoodAddrs == {"h"}

OneMoniker == {"m"}
OneVersion == {"v"}
TwoVersions == {"v1", "v2"}
NoMonikers == {}
NoVersions == {}
NoManuals == {}

\* The goroutines of manual runs are interchangeable.
ManualSymmetry == Permutations(Manuals)
=============================================================================
