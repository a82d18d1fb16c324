\* Two writes of up to two messages on a pool of three and one processor, with
\* every thread and every transfer scheduled fairly.  There is memory for one
\* header only, so the second batch recycles it or is refused.
CONSTANTS
  N = 3
  MaxAlloc = 2
  c1 = c1
  c2 = c2
  d1 = d1
  d2 = d2
  h1 = h1
  h2 = h2
  NoHeader = NoHeader
  Callers <- TwoCallers
  Threads <- OneDpc
  Headers <- OneHeader
  Garbage <- AnyStatuses
  Results = {"ok", "short", "failed"}
  Reread = FALSE
SPECIFICATION FairWriteSpec
PROPERTIES
  EveryWriteCompletes
