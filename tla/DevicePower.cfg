\* Two users' writes of up to as many messages as the pool has requests, as in the
\* driver, so that they may wait for each other; two entries into D0.  The result of
\* a transfer and the old statuses of a header decide nothing but the reports, which
\* are not in question here: one of each stands for all.
CONSTANTS
  N = 2
  MaxAlloc = 2
  c1 = c1
  c2 = c2
  d1 = d1
  h1 = h1
  h2 = h2
  Power = Power
  NoHeader = NoHeader
  MaxEntries = 2
  MaxStarts = 2
  Callers <- TwoUsers
  Threads <- TwoUsersDpc
  Headers <- TwoHeaders
  Garbage <- NoGarbage
  Results = {"ok"}
  Reread = FALSE
SPECIFICATION FairPowerSpec
CHECK_DEADLOCK FALSE
INVARIANTS
  PowerTypeOK
  RequestsOutliveUse
  AllReturnedAtExit
  ReadyInD0
  DeadlockOnlyOfWrites
PROPERTIES
  PowerDownCompletes
