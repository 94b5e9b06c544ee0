\* One key registered under two bumps.
CONSTANTS
  Pools = {p1}
  Authorities = {a1}
  Keys = {k1, k2}
  Bumps = {b1, b2}
  Templates <- MCTemplates
  Hashes = {h1}
  ZeroKey = ZeroKey
  ZeroHash = ZeroHash
  Policies <- OnlyTransparent
  Deadlines <- MCDeadlines
  Releases = {1, 3}
  Counts <- MCCounts
  MaxCohortSize = 3
  U64Max = 4
  MaxSlot = 4
  MaxRounds = 2
  AccountRent = 2
  RecordRent = 1
  InitialLamports = 12
SPECIFICATION Spec
INVARIANT OneRecordPerKey
CHECK_DEADLOCK FALSE
