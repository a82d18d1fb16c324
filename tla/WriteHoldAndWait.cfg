\* Two batches as large as the pool: each may hold permits the other needs.
CONSTANTS
  N = 2
  MaxAlloc = 2
  c1 = c1
  c2 = c2
  d1 = d1
  d2 = d2
  h1 = h1
  h2 = h2
  NoHeader = NoHeader
  Callers <- TwoCallers
  Threads <- TwoDpcs
  Headers <- TwoHeaders
  Garbage <- AnyStatuses
  Results = {"ok", "short", "failed"}
  Reread = FALSE
SPECIFICATION WriteSpec
SYMMETRY Symmetry
INVARIANTS
  NoHoldAndWait
