----------------------------- MODULE FrameQueue -----------------------------
(***************************************************************************)
(* What the read queue of a file promises: a bounded queue that loses the  *)
(* oldest frames when it is full, counts what it loses, and hands frames   *)
(* to reads in the order they came.  Frames are numbered as they arrive.   *)
(***************************************************************************)
EXTENDS Naturals, Sequences

CONSTANT MaxQueued  \* MCBA_MAX_READ_BUFFERS_QUEUED.

VARIABLES
  queue,    \* The frames that wait for a read.
  taken,    \* The frames that reads have got.
  lost,     \* How many were lost.
  received  \* How many have arrived.

vars == <<queue, taken, lost, received>>

Init == queue = <<>> /\ taken = {} /\ lost = 0 /\ received = 0

Arrive == received' = received + 1

\* There is room for the frame.
Keep ==
  /\ Arrive /\ Len(queue) < MaxQueued
  /\ queue' = Append(queue, received + 1)
  /\ UNCHANGED <<taken, lost>>

\* There is none: it takes the place of the oldest.
DropOldest ==
  /\ Arrive /\ Len(queue) = MaxQueued
  /\ queue' = Append(Tail(queue), received + 1)
  /\ lost' = lost + 1
  /\ UNCHANGED taken

\* There is no memory to keep it in.
DropNewest == Arrive /\ lost' = lost + 1 /\ UNCHANGED <<queue, taken>>

\* A read waits for it, which it does only if nothing is queued.
HandOver ==
  /\ Arrive /\ queue = <<>>
  /\ taken' = taken \cup {received + 1}
  /\ UNCHANGED <<queue, lost>>

\* A read takes the n oldest.
Take(n) ==
  /\ taken' = taken \cup {queue[i] : i \in 1..n}
  /\ queue' = SubSeq(queue, n + 1, Len(queue))
  /\ UNCHANGED <<lost, received>>

Next ==
  \/ Keep \/ DropOldest \/ DropNewest \/ HandOver
  \/ \E n \in 1..Len(queue) : Take(n)

Spec == Init /\ [][Next]_vars
=============================================================================
