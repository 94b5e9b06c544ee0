\* Cohorts of up to seven leaves, every proof, and every altered copy of it.
CONSTANTS
  Inputs <- MCInputs
  Queries = {1, 2, 3, 4, 5, 6, 7, 9}
  RoundIds = {1, 2}
  MaxLeaves = 7
  Indices = {0, 1, 2, 3, 4, 5, 6, 7, 8, 11}
  NoProof = NoProof
SPECIFICATION Spec
INVARIANTS TypeOK HonestProofAccepted RootIsCanonical AcceptedOpensRoot
CHECK_DEADLOCK FALSE
