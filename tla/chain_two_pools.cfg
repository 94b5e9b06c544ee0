\* Two pools with different policies, one round each, one operator wallet and
\* one other: every instruction may be given either pool.
CONSTANTS
  Pools = {p1, p2}
  Authorities = {a1, a2}
  Keys = {k1, k2}
  Bumps = {b1}
  Templates <- MCTemplates
  Hashes = {h1}
  ZeroKey = ZeroKey
  ZeroHash = ZeroHash
  Policies <- BothBackends
  Deadlines <- MCDeadlines
  Releases <- MCReleases
  Counts <- MCCounts
  MaxCohortSize = 3
  U64Max = 5
  MaxSlot = 5
  MaxRounds = 1
  AccountRent = 2
  RecordRent = 1
  InitialLamports = 8
SPECIFICATION Spec
SYMMETRY Wallets
INVARIANTS TypeOK CohortWithinPolicy WindowTiming LamportsConserved
PROPERTIES MissedRoundOnlyCancels LifecycleSpec
CHECK_DEADLOCK FALSE
