\* Two processes on one database race for the last place, the root and the
\* schedule; together they are the atomic CohortService.
CONSTANTS
  c1 = c1
  c2 = c2
  t1 = t1
  t2 = t2
  t3 = t3
  t4 = t4
  t5 = t5
  forged = forged
  Procs = {c1, c2}
  Reqs <- FourReqs
  Tickets <- MCTickets
  Key <- MCKey
  Expiry <- MCExpiry
  Genuine <- MCGenuine
  Inputs <- RaceInputs
  Minimum = 1
  Maximum = 2
  RatePerMinute = 1
  Windows <- MCWindows
  I64Max = 5
  MaxSlot = 0
SPECIFICATION Spec
INVARIANTS AnswersAreDurable EventsTellTheTables OvershootBounded RootAnswersAgree
PROPERTIES ServiceSpec
