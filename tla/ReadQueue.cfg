\* Two reads of up to three frames, a queue of two, items cut two from a page, and
\* five frames: enough to fill the queue, drop from it and serve both reads.
CONSTANTS
  r1 = r1
  r2 = r2
  r3 = r3
  NoRead = NoRead
  Reads <- TwoReads
  MaxCount = 3
  MaxFrames = 5
  MaxQueued = 2
  PageItems = 2
SPECIFICATION FairSpec
CHECK_DEADLOCK FALSE
INVARIANTS
  TypeOK
  QueueAccounting
  WaitsOnlyWhenEmpty
  FramesInOrder
  SlotsFilledFromStart
  OwnedUnlessRaced
PROPERTIES
  CompletedIsFinal
  CancelledReadCompletes
  ImplementsFrameQueue
