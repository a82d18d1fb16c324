----------------------------- MODULE ReadQueue ------------------------------
(***************************************************************************)
(* Reading from one open file: the frames that arrive are queued for it    *)
(* (McbaAddCanMessageToFileReadQueue) or go straight into a read that      *)
(* waits (McbaRead left it pending), which the user may cancel at any time *)
(* (McbaCancelPendingReadRequest).  ReadLock serializes the three, except  *)
(* that cancellation reaches a request between any two of their steps.     *)
(***************************************************************************)
EXTENDS Integers, Sequences, FiniteSets

CONSTANTS
  Reads,      \* The read requests the user sends.
  NoRead,     \* No request is pending.
  MaxCount,   \* Bound: frames asked for in one read.
  MaxFrames,  \* Bound: frames that arrive.
  MaxQueued,  \* MCBA_MAX_READ_BUFFERS_QUEUED.
  PageItems   \* Queue items in a page of memory.

ASSUME ReadAssumption ==
  /\ IsFiniteSet(Reads) /\ NoRead \notin Reads
  /\ MaxCount \in Nat \ {0} /\ MaxFrames \in Nat
  /\ MaxQueued \in Nat \ {0} /\ PageItems \in Nat \ {0}

\* ReadFile waits for all frames it asked for, MCBA_IOCTL_HOST_CAN_FRAME_READ_-
\* AT_LEAST_ONE for the first, and ..._NON_BLOCKING for none.
Modes == {"all", "atLeastOne", "nonBlocking"}

Frames == 1..MaxFrames
NoFrame == 0

VARIABLES
  read,               \* The reads: what they ask for.
  ReadBuffersList,    \* The queue of frames.
  ReadBuffersQueued,  \* Its length, kept separately.
  available,          \* Free queue items (MessageBuffersAvailable) ...
  pages,              \* ... and the pages they were cut from.
  RxLost,             \* Stats.RxLost.
  received,           \* Frames that have arrived so far: 1..received.
  PendingReadRequest, \* The read that waits, and where its next frame goes:
  PendingReadBuffer,  \* the slot the pending buffer starts at,
  PendingReadOffset,  \* the next slot, counted from there,
  PendingReadCount,   \* and the number of frames that completes it.
  wdf,                \* The framework's state of each request: "dispatched" to
                      \* the driver, "owned" by it, "cancelable", its cancel
                      \* "callback" under way, or "completed".
  cancelled,          \* Has the user cancelled it?
  slots,              \* The user's buffers.
  result,             \* How each request was completed (and, as history, with
                      \* how many frames it began to wait).
  adding,             \* The reader thread in Add: "idle", "remark" (holding
                      \* ReadLock) or "complete" (a request, after unlocking).
  requestToComplete,  \* Its local variable of that name.
  raced               \* History: has Add lost a race against a cancellation?

queueVars == <<ReadBuffersList, ReadBuffersQueued, available, pages, RxLost>>
pendingVars == <<PendingReadRequest, PendingReadBuffer, PendingReadOffset, PendingReadCount>>
requestVars == <<wdf, cancelled, slots, result>>
addVars == <<adding, requestToComplete, raced>>
vars == <<read, queueVars, received, pendingVars, requestVars, addVars>>

\* The slots a read may write: a buffer of MaxCount frames, and as many after it.
Slots == 0..(2 * MaxCount - 1)

Init ==
  /\ read \in [Reads -> [mode : Modes, count : 1..MaxCount]]
  /\ ReadBuffersList = <<>> /\ ReadBuffersQueued = 0
  /\ available = 0 /\ pages = 0 /\ RxLost = 0
  /\ received = 0
  /\ PendingReadRequest = NoRead
  /\ PendingReadBuffer = 0 /\ PendingReadOffset = 0 /\ PendingReadCount = 0
  /\ wdf = [r \in Reads |-> "dispatched"]
  /\ cancelled = [r \in Reads |-> FALSE]
  /\ slots = [r \in Reads |-> [s \in Slots |-> NoFrame]]
  /\ result = [r \in Reads |-> [status |-> "none", count |-> 0, waitedAt |-> 0]]
  /\ adding = "idle" /\ requestToComplete = NoRead /\ raced = FALSE

-----------------------------------------------------------------------------
(* The framework (external). *)

\* WdfRequestCompleteWithInformation(r, status, frames): the new state of the
\* request and its result.
Completed(r, status, count) ==
  /\ wdf' = [wdf EXCEPT ![r] = "completed"]
  /\ result' = [result EXCEPT ![r].status = status, ![r].count = count]

\* The user cancels r (CancelIoEx, or a thread that ends).  If the request is
\* cancelable the framework calls the driver's callback, which may have to wait
\* for ReadLock; otherwise it only remembers.
Cancel(r) ==
  /\ wdf[r] \in {"dispatched", "owned", "cancelable"} /\ ~cancelled[r]
  /\ cancelled' = [cancelled EXCEPT ![r] = TRUE]
  /\ wdf' = [wdf EXCEPT ![r] = IF @ = "cancelable" THEN "callback" ELSE @]
  /\ UNCHANGED <<read, queueVars, received, pendingVars, slots, result, addVars>>

-----------------------------------------------------------------------------
\* ReadLock is free unless Add holds it between its two framework calls.
Unlocked == adding # "remark"

\* McbaClearPendingReadRequest.
ClearPending ==
  /\ PendingReadRequest' = NoRead
  /\ PendingReadBuffer' = 0 /\ PendingReadOffset' = 0 /\ PendingReadCount' = 0

(* McbaRead. *)

\* A length that is no multiple of a frame and a buffer that cannot be retrieved
\* are refused, and a read of nothing succeeds at once.
CompleteAtOnce(r, status) ==
  /\ wdf[r] = "dispatched"
  /\ Completed(r, status, 0)
  /\ UNCHANGED <<read, queueVars, received, pendingVars, cancelled, slots, addVars>>

\* Fault: a second read that has to wait takes the first one's place.
NeverBusy == FALSE

\* Another read waits already.
Busy == PendingReadRequest # NoRead

\* PendingReadCount for a read that found took frames before it had to wait.
Needed(r, took) == IF read[r].mode = "all" THEN read[r].count ELSE took + 1

\* Takes what is queued, up to the count; a read that may not return with that
\* waits for more, if it is the only one and is not cancelled yet.
Read(r) ==
  LET count == read[r].count
      took == IF count <= ReadBuffersQueued THEN count ELSE ReadBuffersQueued
      satisfied == \/ took = count
                   \/ read[r].mode = "nonBlocking"
                   \/ read[r].mode = "atLeastOne" /\ took > 0
  IN
  /\ wdf[r] = "dispatched" /\ Unlocked
  /\ slots' = [slots EXCEPT ![r] =
                 [s \in Slots |-> IF s < took THEN ReadBuffersList[s + 1] ELSE @[s]]]
  /\ ReadBuffersList' = SubSeq(ReadBuffersList, took + 1, Len(ReadBuffersList))
  /\ ReadBuffersQueued' = ReadBuffersQueued - took
  /\ available' = available + took
  /\ \/ /\ satisfied
        /\ Completed(r, "success", took)
        /\ UNCHANGED pendingVars
     \/ /\ ~satisfied /\ Busy
        /\ Completed(r, "notImplemented", took)
        /\ UNCHANGED pendingVars
     \/ /\ ~satisfied /\ ~Busy /\ cancelled[r]
        /\ Completed(r, "cancelled", took)
        /\ UNCHANGED pendingVars
     \/ /\ ~satisfied /\ ~Busy /\ ~cancelled[r]
        /\ wdf' = [wdf EXCEPT ![r] = "cancelable"]
        /\ PendingReadRequest' = r
        /\ PendingReadBuffer' = took
        /\ PendingReadOffset' = took
        /\ PendingReadCount' = Needed(r, took)
        /\ result' = [result EXCEPT ![r].waitedAt = took]
  /\ UNCHANGED <<read, pages, RxLost, received, cancelled, addVars>>

\* McbaCancelPendingReadRequest, called by the framework.
CancelPendingRead(r) ==
  /\ wdf[r] = "callback" /\ Unlocked
  /\ ClearPending
  /\ Completed(r, "cancelled", 0)
  /\ UNCHANGED <<read, queueVars, received, cancelled, slots, addVars>>

-----------------------------------------------------------------------------
(* McbaAddCanMessageToFileReadQueue.  The reader's completion routines call it *)
(* under FilesLock, one at a time.                                             *)

\* A frame arrives.
Arrives == adding = "idle" /\ received < MaxFrames /\ received' = received + 1

\* Fault: the newest frame is dropped in place of the oldest.
RemoveTail(list) == SubSeq(list, 1, Len(list) - 1)

\* RemoveHeadList.
RemoveHead(list) == Tail(list)

\* Fault: InsertHeadList.
InsertHead(list) == <<received + 1>> \o list

InsertTail(list) == Append(list, received + 1)

\* Fault: off by one at the limit.
OverFull == ReadBuffersQueued > MaxQueued

Full == ReadBuffersQueued = MaxQueued

\* Fault: the counter is not taken down for the frame that is dropped.
StillQueued == ReadBuffersQueued

\* The counter after the oldest frame is dropped.
QueuedAfterDrop == ReadBuffersQueued - 1

LostOne == RxLost + 1

\* Fault: a frame is queued although a read waits for it.
AlwaysQueue == TRUE

\* No read waits.
NobodyWaits == PendingReadRequest = NoRead

\* McbaMessageBuffersAdd cuts a new page into items, one of which is then taken.
MessageBuffersAdd == available' = available + PageItems - 1 /\ pages' = pages + 1

\* No read waits: the frame is queued, in place of the oldest one if the queue
\* is full,
Enqueue ==
  /\ Arrives /\ NobodyWaits
  /\ \/ /\ Full
        /\ ReadBuffersList' = InsertTail(RemoveHead(ReadBuffersList))
        /\ ReadBuffersQueued' = QueuedAfterDrop + 1
        /\ RxLost' = LostOne
        /\ UNCHANGED <<available, pages>>
     \/ /\ ~Full
        /\ \/ available > 0 /\ available' = available - 1 /\ UNCHANGED pages
           \/ available = 0 /\ MessageBuffersAdd
        /\ ReadBuffersList' = InsertTail(ReadBuffersList)
        /\ ReadBuffersQueued' = ReadBuffersQueued + 1
        /\ UNCHANGED RxLost
  /\ UNCHANGED <<read, pendingVars, requestVars, addVars>>

\* or lost if a new page is needed and McbaMessageBuffersAdd fails.
EnqueueFails ==
  /\ Arrives /\ NobodyWaits
  /\ ~Full /\ available = 0
  /\ RxLost' = LostOne
  /\ UNCHANGED <<read, ReadBuffersList, ReadBuffersQueued, available, pages,
                 pendingVars, requestVars, addVars>>

\* Fault: one slot too far.
SlotAfterNext == PendingReadBuffer + PendingReadOffset + 1

NextSlot == PendingReadBuffer + PendingReadOffset

\* Fault: the request is completed here although its cancel callback will.
CompleteCancelled(r) == adding' = "complete" /\ requestToComplete' = r

\* STATUS_CANCELLED: "cancel callback executed, we don't need to complete the
\* request" (Device.c 1055).
DropCancelled(r) == UNCHANGED <<adding, requestToComplete>>

\* A read waits: the frame goes into its buffer and WdfRequestUnmarkCancelable
\* tells whether the driver still owns the request.
Deliver ==
  LET r == PendingReadRequest
      full == PendingReadOffset + 1 = PendingReadCount
  IN
  /\ Arrives /\ r # NoRead
  /\ slots' = [slots EXCEPT ![r][NextSlot] = received + 1]
  /\ \/ /\ wdf[r] = "cancelable" /\ full
        /\ wdf' = [wdf EXCEPT ![r] = "owned"]
        /\ requestToComplete' = r
        /\ ClearPending
        /\ adding' = "complete"
        /\ UNCHANGED raced
     \/ /\ wdf[r] = "cancelable" /\ ~full
        /\ wdf' = [wdf EXCEPT ![r] = "owned"]
        /\ PendingReadOffset' = PendingReadOffset + 1
        /\ adding' = "remark"
        /\ UNCHANGED <<PendingReadRequest, PendingReadBuffer, PendingReadCount,
                       requestToComplete, raced>>
     \/ /\ wdf[r] = "callback"
        /\ ClearPending
        /\ raced' = TRUE
        /\ DropCancelled(r)
        /\ UNCHANGED wdf
  /\ UNCHANGED <<read, queueVars, cancelled, result>>

\* Fault: the read is not made cancelable again.
RemarkForgotten(r) == UNCHANGED wdf

MarkAgain(r) == wdf' = [wdf EXCEPT ![r] = "cancelable"]

\* WdfRequestMarkCancelableEx makes the read that goes on waiting cancelable
\* again, or finds it cancelled; the framework then calls no callback.
Remark ==
  LET r == PendingReadRequest IN
  /\ adding = "remark"
  /\ \/ /\ ~cancelled[r]
        /\ MarkAgain(r)
        /\ UNCHANGED <<pendingVars, raced>>
     \/ /\ cancelled[r]
        /\ ClearPending
        /\ raced' = TRUE
        /\ UNCHANGED wdf
  /\ adding' = "idle"
  /\ UNCHANGED <<read, queueVars, received, cancelled, slots, result, requestToComplete>>

\* After unlocking.
CompleteRead ==
  /\ adding = "complete"
  /\ Completed(requestToComplete, "success",
               Needed(requestToComplete, result[requestToComplete].waitedAt))
  /\ adding' = "idle" /\ requestToComplete' = NoRead
  /\ UNCHANGED <<read, queueVars, received, pendingVars, cancelled, slots, raced>>

-----------------------------------------------------------------------------
Next ==
  \/ \E r \in Reads :
       \/ Cancel(r)
       \/ \E status \in {"success", "invalid"} : CompleteAtOnce(r, status)
       \/ Read(r)
       \/ CancelPendingRead(r)
  \/ Enqueue \/ EnqueueFails
  \/ Deliver \/ Remark \/ CompleteRead

Spec == Init /\ [][Next]_vars

\* Code that is running goes on: the callback of a cancelled request gets the
\* lock, and the reader finishes what it has begun.  Frames need never arrive.
Fairness ==
  /\ \A r \in Reads : WF_vars(CancelPendingRead(r))
  /\ WF_vars(Remark) /\ WF_vars(CompleteRead)

FairSpec == Spec /\ Fairness

-----------------------------------------------------------------------------
(* Correctness. *)

TypeOK ==
  /\ read \in [Reads -> [mode : Modes, count : 1..MaxCount]]
  /\ ReadBuffersList \in Seq(Frames)
  /\ ReadBuffersQueued \in 0..MaxQueued
  /\ available \in Nat /\ pages \in Nat /\ RxLost \in 0..MaxFrames
  /\ received \in 0..MaxFrames
  /\ PendingReadRequest \in Reads \cup {NoRead}
  /\ PendingReadBuffer \in 0..MaxCount
  /\ PendingReadOffset \in 0..MaxCount
  /\ PendingReadCount \in 0..MaxCount
  /\ wdf \in [Reads -> {"dispatched", "owned", "cancelable", "callback", "completed"}]
  /\ cancelled \in [Reads -> BOOLEAN]
  /\ slots \in [Reads -> [Slots -> 0..MaxFrames]]
  /\ result \in [Reads -> [status : {"none", "success", "invalid", "cancelled", "notImplemented"},
                           count : 0..MaxCount, waitedAt : 0..MaxCount]]
  /\ adding \in {"idle", "remark", "complete"}
  /\ requestToComplete \in Reads \cup {NoRead}
  /\ raced \in BOOLEAN

\* The separate counter is the queue's length and stays within the limit, and
\* every queue item is in the queue or on the free list.
QueueAccounting ==
  /\ ReadBuffersQueued = Len(ReadBuffersList) /\ ReadBuffersQueued <= MaxQueued
  /\ available + Len(ReadBuffersList) = pages * PageItems

\* A read never waits while there is a frame it could have, whichever of McbaRead
\* and the arriving frame came first.
WaitsOnlyWhenEmpty == PendingReadRequest # NoRead => ReadBuffersList = <<>>

\* The frames in a read's buffer, and those in all of them.
FramesOf(r) == {slots[r][s] : s \in Slots} \ {NoFrame}
Taken == UNION {FramesOf(r) : r \in Reads}

\* Frames leave in the order they came: what a read has is older than whatever
\* is queued, the queue and every buffer are sorted, and no frame is in two.
FramesInOrder ==
  /\ \A i, j \in 1..Len(ReadBuffersList) : i < j => ReadBuffersList[i] < ReadBuffersList[j]
  /\ \A f \in Taken, i \in 1..Len(ReadBuffersList) : f < ReadBuffersList[i]
  /\ \A r \in Reads, s, u \in Slots :
       s < u /\ slots[r][s] # NoFrame /\ slots[r][u] # NoFrame => slots[r][s] < slots[r][u]
  /\ \A r, q \in Reads : r # q => FramesOf(r) \cap FramesOf(q) = {}

\* Whatever the modes of the reads, their cancellations and the order of their
\* steps with those of the reader, the queue is a FrameQueue: every frame is kept,
\* handed over or counted as lost in one step, and leaves oldest first.
Queue == INSTANCE FrameQueue WITH
  queue <- ReadBuffersList, taken <- Taken, lost <- RxLost, received <- received,
  MaxQueued <- MaxQueued
ImplementsFrameQueue == Queue!Spec

\* RxLost is exact: a frame that has arrived is queued, or in a buffer, or counted.
\* ImplementsFrameQueue implies it; it is a part of the inductive invariant.
LossCounted ==
  received = Len(ReadBuffersList) + Cardinality(Taken) + RxLost

\* The slots a read reports are filled.
Filled(r) == \A s \in 0..(result[r].count - 1) : slots[r][s] # NoFrame

\* A successful read reports only slots that it filled: the frames of a waiting
\* read go into its buffer one behind the other.
SlotsFilled ==
  \A r \in Reads : result[r].status = "success" => Filled(r)

\* That is so for every read that had nothing yet when it began to wait.
SlotsFilledFromStart ==
  \A r \in Reads : result[r].status = "success" /\ result[r].waitedAt = 0 => Filled(r)

\* Once a request is completed nobody completes it again or writes to its buffer.
CompletedIsFinal ==
  [][\A r \in Reads : wdf[r] = "completed" => UNCHANGED <<result[r], slots[r]>>]_vars

\* Somebody will complete r: it has not been handled yet, or it waits, or Add has
\* it in hand, or its cancel callback is under way.
HasOwner(r) ==
  \/ wdf[r] \in {"dispatched", "callback", "completed"}
  \/ r = PendingReadRequest
  \/ r = requestToComplete

\* "cancel callback executed, we don't need to complete the request" (Device.c
\* 1055): a request Add drops is completed by its cancel callback.
NoOrphan == \A r \in Reads : HasOwner(r)

\* "NT_ASSERT(Request == pFileContext->PendingReadRequest)" (Device.c 1713): the
\* cancel callback finds its own request pending, and clears no other.
CallbackOwnsPending ==
  \A r \in Reads : wdf[r] = "callback" /\ Unlocked => r = PendingReadRequest

\* Requests are only dropped, or another read's state cleared, in runs where a
\* frame for a waiting read meets that read's cancellation.
OwnedUnlessRaced == raced \/ (NoOrphan /\ CallbackOwnsPending)

\* In the others a cancelled read is completed even if no frame ever comes.
CancelledReadCompletes ==
  \A r \in Reads :
    cancelled[r] /\ wdf[r] # "dispatched" ~> wdf[r] = "completed" \/ raced
=============================================================================
