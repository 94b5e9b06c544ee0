----------------------- MODULE MCCoordinationProgram -----------------------
(* Instances of CoordinationProgram for TLC.                               *)
EXTENDS CoordinationProgram, TLC

\* A transparent and a Merkle policy with different timing, and one that
\* ValidPolicy refuses.
Transparent ==
  [template_hash |-> "memo", min_participants |-> 2, max_participants |-> 3,
   min_release_delay |-> 0, max_release_delay |-> 1, execution_window |-> 1,
   backend |-> "TransparentRegistry"]
Merkle ==
  [template_hash |-> "memo", min_participants |-> 2, max_participants |-> 2,
   min_release_delay |-> 1, max_release_delay |-> 2, execution_window |-> 2,
   backend |-> "MerkleCohort"]
EmptyWindow == [Transparent EXCEPT !.execution_window = 0]

BothBackends == {Transparent, Merkle, EmptyWindow}
OnlyTransparent == {Transparent}

MCTemplates == {"memo", "stake"}
MCDeadlines == {0, 2, 3}
MCReleases == 0 .. 4
MCCounts == {1, 2, 3}

Wallets == Permutations(Authorities)
Registrants == Permutations(Keys) \cup Permutations(Bumps)
=============================================================================
