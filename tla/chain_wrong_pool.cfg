\* A release scheduled with the account of the operator's other pool.
CONSTANTS
  Pools = {p1, p2}
  Authorities = {a1}
  Keys = {k1, k2}
  Bumps = {b1}
  Templates <- MCTemplates
  Hashes = {h1}
  ZeroKey = ZeroKey
  ZeroHash = ZeroHash
  Policies <- BothBackends
  Deadlines <- MCDeadlines
  Releases <- MCReleases
  Counts <- MCCounts
  MaxCohortSize = 3
  U64Max = 5
  MaxSlot = 5
  MaxRounds = 1
  AccountRent = 2
  RecordRent = 1
  InitialLamports = 12
SPECIFICATION Spec
INVARIANT WindowFollowsOwnPolicy
CHECK_DEADLOCK FALSE
