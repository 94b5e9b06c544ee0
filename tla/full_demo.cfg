\* Two demos that compete for one port range; two participants execute.
CONSTANTS
  Demos = {d1, d2}
  Ports = {1}
  Joining <- MCJoining
  Minimum = 2
  Maximum = 3
  MinDelay = 1
  MaxDelay = 2
  ReleaseDelay = 1
  DeadlineDelay = 2
  WindowLength = 1
  BlockhashLife = 1
  Participants = 2
  MaxPolls = 1
  MaxSlot = 2
SPECIFICATION FairSpec
INVARIANTS ScriptInStep ReportIsTrue
PROPERTIES DemosEnd
CHECK_DEADLOCK FALSE
