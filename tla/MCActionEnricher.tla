------------------------- MODULE MCActionEnricher --------------------------
(***************************************************************************)
(* Small instances of ActionEnricher for TLC.                              *)
(***************************************************************************)
EXTENDS ActionEnricher, TLC

OneId == {1}
TwoIds == {1, 2}
ThreeIds == {1, 2, 3}

\* Replicas are interchangeable.
ReplicaSymmetry == Permutations(Replicas)
=============================================================================
