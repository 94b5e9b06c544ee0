\* A call whose window check passed in time and whose transaction lands late.
CONSTANTS
  Calls = {c1}
  Parameters <- OneMemo
  Fees = {5000}
  Windows <- MCWindows
  BlockhashLife = 1
  MaxSlot = 4
  NoFile = NoFile
SPECIFICATION Spec
INVARIANT ExecutedInsideWindow
CHECK_DEADLOCK FALSE
