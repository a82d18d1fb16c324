\* A read is cancelled while Add has it out of the cancelable state.
CONSTANTS
  r1 = r1
  r2 = r2
  r3 = r3
  NoRead = NoRead
  Reads <- TwoReads
  MaxCount = 3
  MaxFrames = 5
  MaxQueued = 2
  PageItems = 2
SPECIFICATION Spec
CHECK_DEADLOCK FALSE
INVARIANTS
  NoOrphan
