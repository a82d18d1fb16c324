\* Two callers of up to three indices on a pool of three: as in the driver, a
\* caller may ask for the whole pool.  Such callers wait for each other (3 + 3,
\* 3 + 2, but not 2 + 2 or 3 + 1), and then nothing more happens.
CONSTANTS
  N = 3
  MaxAlloc = 3
  c1 = c1
  c2 = c2
  d1 = d1
  Callers <- MCCallers
  Threads <- MCThreads
SPECIFICATION PoolSpec
SYMMETRY Symmetry
CHECK_DEADLOCK FALSE
INVARIANTS
  TypeOK
  IndicesPartitioned
  PermitsBackedByIndices
  PopWithinStack
  ReleaseWithinLimit
  DeadlockNeedsDemand
