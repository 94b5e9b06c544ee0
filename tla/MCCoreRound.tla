---------------------------- MODULE MCCoreRound ----------------------------
(* Instances of CoreRound for TLC.                                         *)
EXTENDS CoreRound, TLC

Good ==
  [version |-> 1, min_participants |-> 2, max_participants |-> 3,
   registration_duration |-> 2, min_release_delay |-> 1, max_release_delay |-> 2,
   execution_window |-> 1, max_timing_dispersion |-> 1, allowlists |-> TRUE,
   hash_matches |-> TRUE]

\* A good configuration and one that fails each check.
MCConfigs ==
  {Good, [Good EXCEPT !.version = 2], [Good EXCEPT !.min_participants = 1],
   [Good EXCEPT !.min_participants = 4], [Good EXCEPT !.max_participants = 5],
   [Good EXCEPT !.registration_duration = 0],
   [Good EXCEPT !.execution_window = 0, !.max_timing_dispersion = 0],
   [Good EXCEPT !.min_release_delay = 3], [Good EXCEPT !.max_timing_dispersion = 2],
   [Good EXCEPT !.allowlists = FALSE], [Good EXCEPT !.hash_matches = FALSE]}

\* Nothing tells holders, or roots, from each other, and only safety is checked.
Symmetry == Permutations(Holders) \cup Permutations(Roots)
=============================================================================
