\* One process: tickets, a retry, a competing key, a forged ticket, a seal; every
\* request ends, with tokio's scheduling as the only fairness.
CONSTANTS
  c1 = c1
  c2 = c2
  t1 = t1
  t2 = t2
  t3 = t3
  t4 = t4
  t5 = t5
  forged = forged
  Procs = {c1}
  Reqs <- ThreeReqs
  Tickets <- MCTickets
  Key <- MCKey
  Expiry <- MCExpiry
  Genuine <- MCGenuine
  Inputs <- SealInputs
  Minimum = 2
  Maximum = 2
  RatePerMinute = 1
  Windows <- MCWindows
  I64Max = 5
  MaxSlot = 1
SPECIFICATION FairSpec
INVARIANTS TypeOK ExpiredIsRefused
PROPERTIES RequestsEnd
