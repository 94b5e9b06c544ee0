\* Two holders of one round, with stale copies and crashes, near the end of the clock.
CONSTANTS
  Holders = {h1, h2}
  Configs <- MCConfigs
  Roots = {r1, r2}
  Releases = {2, 3}
  Maxima = {1, 2}
  Minima = {1, 2}
  None = None
  U32Max = 5
  U64Max = 3
  MaxParticipants = 4
  SchemaVersion = 1
  MaxSlot = 2
SYMMETRY Symmetry
SPECIFICATION Spec
INVARIANTS TypeOK CopiesAreSound
PROPERTIES RowIsMonotone
CHECK_DEADLOCK FALSE
