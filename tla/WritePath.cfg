\* Two writes of up to two messages, on a pool of three, so that two batches
\* contend but cannot starve each other; two processors run completions.
CONSTANTS
  N = 3
  MaxAlloc = 2
  c1 = c1
  c2 = c2
  d1 = d1
  d2 = d2
  h1 = h1
  h2 = h2
  NoHeader = NoHeader
  Callers <- TwoCallers
  Threads <- TwoDpcs
  Headers <- TwoHeaders
  Garbage <- AnyStatuses
  Results = {"ok", "short", "failed"}
  Reread = FALSE
SPECIFICATION WriteSpec
SYMMETRY Symmetry
INVARIANTS
  WriteTypeOK
  NoReuseInFlight
  CompletedWhenSettled
  HeadersExclusive
  ReportIsTrueUnlessLate
  NothingLeaked
PROPERTIES
  PoolSpec
