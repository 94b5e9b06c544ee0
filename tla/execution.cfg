\* Two calls on one action file, every template at its bounds, edits of the file
\* between the calls.
CONSTANTS
  Calls = {c1, c2}
  Parameters <- MCParameters
  Fees = {20000, 20001}
  Windows <- MCWindows
  BlockhashLife = 1
  MaxSlot = 5
  NoFile = NoFile
SPECIFICATION FairSpec
INVARIANTS TypeOK SubmittedIsSafe PreparedFitsPolicy NothingBeforeRelease ResultsAreConclusive
PROPERTIES CallsReturn
CHECK_DEADLOCK FALSE
