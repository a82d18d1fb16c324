\* The second firmware request cannot be sent while the first is in flight.
CONSTANTS
  N = 3
  MaxAlloc = 2
  c1 = c1
  c2 = c2
  d1 = d1
  h1 = h1
  h2 = h2
  Power = Power
  NoHeader = NoHeader
  MaxEntries = 2
  MaxStarts = 2
  Callers <- OneUser
  Threads <- OneDpc
  Headers <- OneHeader
  Garbage <- AnyStatuses
  Results = {"ok", "short", "failed"}
  Reread = FALSE
SPECIFICATION PowerSpec
INVARIANTS
  StackWithinCount
