--------------------------- MODULE MCMerkleCohort ---------------------------
(* Instances of MerkleCohort for TLC.                                      *)
EXTENDS MerkleCohort, SequencesExt

\* Every list of up to three leaves, duplicates included, and one shuffled list
\* of each size up to 8, one more than the model's MAX_LEAVES.
Shuffled == <<5, 2, 7, 1, 6, 3, 4, 8>>
MCInputs == BoundedSeq(1 .. 3, 3) \cup {SubSeq(Shuffled, 1, n) : n \in 4 .. 8}
=============================================================================
