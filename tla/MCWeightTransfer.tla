-------------------------- MODULE MCWeightTransfer --------------------------
(* The sets of sizes that the cfg files choose from. *)
EXTENDS WeightTransfer

\* Empty, less than a bucket of 4, equal, one more, more than two buckets.
MCSizes == {0, 1, 2, 4, 5, 9}

\* For tensors with items of sizes 1 and 2.
MCMixedSizes == {1, 2, 4}

=============================================================================
