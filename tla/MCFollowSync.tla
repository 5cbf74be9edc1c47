---------------------------- MODULE MCFollowSync ----------------------------
(* FollowSync for TLC: batches that were not created are interchangeable. *)
EXTENDS FollowSync, TLC

BatchSymmetry == Permutations(Batches)
=============================================================================
