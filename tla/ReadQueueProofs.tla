--------------------------- MODULE ReadQueueProofs ---------------------------
(***************************************************************************)
(* Proofs of the safety properties of ReadQueue, and that it implements    *)
(* FrameQueue, for any reads, counts, limits and number of frames.         *)
(***************************************************************************)
EXTENDS ReadQueue, FiniteSetTheorems, SequenceTheorems, TLAPS

\* Every frame in the queue or in a buffer has arrived.
Arrived ==
  /\ \A i \in 1..Len(ReadBuffersList) : ReadBuffersList[i] <= received
  /\ \A r \in Reads, s \in Slots : slots[r][s] <= received

\* A request that is not handled yet has an empty buffer, one that has a result is
\* completed, and a successful one that waited from the start reports filled slots.
RequestsOK ==
  \A r \in Reads :
    /\ result[r].waitedAt < read[r].count
    /\ wdf[r] = "dispatched" => \A s \in Slots : slots[r][s] = NoFrame
    /\ result[r].status # "none" => wdf[r] = "completed"
    /\ result[r].status = "success" /\ result[r].waitedAt = 0 => Filled(r)

\* The read that waits: what McbaRead left in the context is still about it, it needs
\* at least one more frame, and its buffer is empty from the next slot on.
PendingOK ==
  /\ adding = "remark" => PendingReadRequest # NoRead
  /\ PendingReadRequest # NoRead =>
       /\ wdf[PendingReadRequest] \in (IF adding = "remark" THEN {"owned"} ELSE {"cancelable", "callback"})
       /\ PendingReadBuffer = result[PendingReadRequest].waitedAt
       /\ PendingReadCount = Needed(PendingReadRequest, PendingReadBuffer)
       /\ PendingReadBuffer <= PendingReadOffset /\ PendingReadOffset < PendingReadCount
       /\ \A s \in Slots : NextSlot <= s => slots[PendingReadRequest][s] = NoFrame
       /\ PendingReadBuffer = 0 =>
            \A s \in Slots : s < PendingReadOffset => slots[PendingReadRequest][s] # NoFrame

\* The read that Add is about to complete is the driver's, and is full.
CompletingOK ==
  /\ adding = "complete" <=> requestToComplete # NoRead
  /\ requestToComplete # NoRead =>
       /\ wdf[requestToComplete] = "owned" /\ requestToComplete # PendingReadRequest
       /\ result[requestToComplete].waitedAt = 0 =>
            \A s \in Slots : s < Needed(requestToComplete, 0) => slots[requestToComplete][s] # NoFrame

\* Until a race every request that waits or is owned is known to the driver.
OwnersOK ==
  ~raced => \A r \in Reads :
    /\ wdf[r] = "owned" => r = PendingReadRequest \/ r = requestToComplete
    /\ wdf[r] \in {"cancelable", "callback"} => r = PendingReadRequest

\* The inductive invariant.
IInv ==
  /\ TypeOK /\ Arrived /\ RequestsOK /\ PendingOK /\ CompletingOK /\ OwnersOK
  /\ QueueAccounting /\ WaitsOnlyWhenEmpty /\ FramesInOrder /\ LossCounted

-----------------------------------------------------------------------------
(* Queues of frames. *)

\* What is left of a queue after its n oldest frames are taken.
LEMMA Rest ==
  ASSUME NEW list \in Seq(Frames), NEW n \in 0..Len(list)
  PROVE  LET rest == SubSeq(list, n + 1, Len(list)) IN
         /\ rest \in Seq(Frames) /\ Len(rest) = Len(list) - n
         /\ \A i \in 1..Len(rest) : rest[i] = list[i + n]
<1>. DEFINE l == Len(list)  rest == SubSeq(list, n + 1, l)
<1>1. l \in Nat /\ n \in Int /\ 0 <= n /\ n <= l /\ n + 1 \in Int
  BY LenProperties
<1>2. \A i \in (n + 1)..l : list[i] \in Frames
  BY <1>1, ElementOfSeq
<1>. HIDE DEF l
<1>3. /\ rest \in Seq(Frames)
      /\ Len(rest) = IF n + 1 <= l THEN l - (n + 1) + 1 ELSE 0
      /\ \A i \in 1..(l - (n + 1) + 1) : rest[i] = list[(n + 1) + i - 1]
  BY <1>1, <1>2, SubSeqProperties
<1>. HIDE DEF rest
<1>4. Len(rest) = l - n
  BY <1>1, <1>3
<1>5. \A i \in 1..Len(rest) : rest[i] = list[i + n]
  <2>. SUFFICES ASSUME NEW i \in 1..Len(rest) PROVE rest[i] = list[i + n]
    OBVIOUS
  <2>1. i \in 1..(l - (n + 1) + 1) /\ (n + 1) + i - 1 = i + n
    BY <1>1, <1>4
  <2>. QED
    BY <1>3, <2>1
<1>. QED
  BY <1>3, <1>4, <1>5 DEF rest, l

\* The queue with one more frame.
LEMMA Longer ==
  ASSUME NEW list \in Seq(Frames), NEW f \in Frames
  PROVE  /\ Append(list, f) \in Seq(Frames) /\ Len(Append(list, f)) = Len(list) + 1
         /\ \A i \in 1..Len(list) : Append(list, f)[i] = list[i]
         /\ Append(list, f)[Len(list) + 1] = f
BY AppendProperties

\* In a sorted queue no frame is twice.
LEMMA Oldest ==
  ASSUME NEW list \in Seq(Frames), NEW n \in 0..Len(list),
         \A i, j \in 1..Len(list) : i < j => list[i] < list[j]
  PROVE  LET first == {list[i] : i \in 1..n} IN
         IsFiniteSet(first) /\ Cardinality(first) = n
<1>. DEFINE first == {list[i] : i \in 1..n}  g == [i \in 1..n |-> list[i]]
<1>1. Len(list) \in Nat /\ n \in Nat /\ n <= Len(list)
  BY LenProperties
<1>2. \A i \in 1..n : i \in 1..Len(list) /\ list[i] \in Int
  <2>. SUFFICES ASSUME NEW i \in 1..n PROVE i \in 1..Len(list) /\ list[i] \in Int
    OBVIOUS
  <2>1. i \in 1..Len(list)
    BY <1>1
  <2>2. list[i] \in Frames
    BY <2>1, ElementOfSeq
  <2>. QED
    BY <2>1, <2>2 DEF Frames
<1>3. \A i, j \in 1..n : g[i] = g[j] => i = j
  <2>. SUFFICES ASSUME NEW i \in 1..n, NEW j \in 1..n, list[i] = list[j] PROVE i = j
    OBVIOUS
  <2>1. ~(i < j) /\ ~(j < i)
    BY <1>2
  <2>. QED
    BY <2>1
<1>4. g \in Bijection(1..n, first)
  <2>1. g \in [1..n -> first]
    OBVIOUS
  <2>2. \A x \in first : \E i \in 1..n : g[i] = x
    OBVIOUS
  <2>. QED
    BY <1>3, <2>1, <2>2 DEF Bijection, Injection, Surjection, IsInjective
<1>5. IsFiniteSet(1..n) /\ Cardinality(1..n) = n
  <2>1. IsFiniteSet(1..n) /\ Cardinality(1..n) = IF 1 > n THEN 0 ELSE n - 1 + 1
    BY <1>1, FS_Interval
  <2>. QED
    BY <1>1, <2>1
<1>. QED
  BY <1>4, <1>5, FS_Bijection DEF ExistsBijection

\* Taken is finite.
LEMMA TakenFinite ==
  ASSUME TypeOK
  PROVE  Taken \subseteq Frames /\ IsFiniteSet(Taken) /\ Cardinality(Taken) \in Nat
<1>1. Taken \subseteq Frames
  BY ReadAssumption, SMT DEF TypeOK, Taken, FramesOf, NoFrame, Frames
<1>2. IsFiniteSet(Frames)
  BY ReadAssumption, FS_Interval DEF Frames
<1>. QED
  BY <1>1, <1>2, FS_Subset, FS_CardinalityType

-----------------------------------------------------------------------------
(* The invariant is inductive.  First the actions that move no frame.          *)

\* How reads end, what they report, and where the framework has them.
Statuses == {"none", "success", "invalid", "cancelled", "notImplemented"}
Result == [status : Statuses, count : 0..MaxCount, waitedAt : 0..MaxCount]
States == {"dispatched", "owned", "cancelable", "callback", "completed"}

\* The types of requests, by name.
LEMMA RequestTypes ==
  TypeOK => wdf \in [Reads -> States] /\ result \in [Reads -> Result]
BY Zenon DEF TypeOK, Result, Statuses, States

\* Types hold again if those of requests do and nothing else but what is pending has
\* changed, or only to proper values.
LEMMA TypesKept ==
  ASSUME TypeOK, UNCHANGED <<read, queueVars, received, slots>>,
         wdf' \in [Reads -> States], result' \in [Reads -> Result],
         cancelled' \in [Reads -> BOOLEAN],
         PendingReadRequest' \in Reads \cup {NoRead}, PendingReadBuffer' \in 0..MaxCount,
         PendingReadOffset' \in 0..MaxCount, PendingReadCount' \in 0..MaxCount,
         adding' \in {"idle", "remark", "complete"},
         requestToComplete' \in Reads \cup {NoRead}, raced' \in BOOLEAN
  PROVE  TypeOK'
BY Zenon DEF TypeOK, queueVars, Result, Statuses, States

\* What WdfRequestComplete changes.
LEMMA CompletedChanges ==
  ASSUME TypeOK, NEW r \in Reads, NEW status \in Statuses, NEW n \in 0..MaxCount,
         Completed(r, status, n)
  PROVE  /\ wdf' \in [Reads -> States] /\ result' \in [Reads -> Result]
         /\ wdf'[r] = "completed" /\ result'[r].status = status /\ result'[r].count = n
         /\ result'[r].waitedAt = result[r].waitedAt
         /\ \A q \in Reads \ {r} : wdf'[q] = wdf[q] /\ result'[q] = result[q]
<1>1. wdf \in [Reads -> States] /\ result \in [Reads -> Result]
  BY RequestTypes
<1>2. [result[r] EXCEPT !.status = status, !.count = n] \in Result
  BY <1>1 DEF Result
<1>3. result' = [result EXCEPT ![r] = [result[r] EXCEPT !.status = status, !.count = n]]
  BY <1>1 DEF Completed, Result
<1>4. /\ result'[r].status = status /\ result'[r].count = n
      /\ result'[r].waitedAt = result[r].waitedAt
  BY <1>1, <1>3 DEF Result
<1>5. wdf' = [wdf EXCEPT ![r] = "completed"] /\ "completed" \in States
  BY DEF Completed, States
<1>. HIDE DEF Result, States
<1>. QED
  BY <1>1, <1>2, <1>3, <1>4, <1>5

\* The invariant holds initially.
LEMMA InitIInv == Init => IInv
<1>. SUFFICES ASSUME Init PROVE IInv
  OBVIOUS
<1>0. /\ MaxCount \in Nat \ {0} /\ MaxFrames \in Nat /\ MaxQueued \in Nat \ {0}
      /\ PageItems \in Nat \ {0} /\ NoRead \notin Reads
  BY ReadAssumption
<1>1. TypeOK
  <2>1. ReadBuffersList \in Seq(Frames)
    BY DEF Init
  <2>2. slots \in [Reads -> [Slots -> 0..MaxFrames]]
    BY <1>0 DEF Init, NoFrame
  <2>3. result \in [Reads -> Result] /\ wdf \in [Reads -> States]
    BY <1>0 DEF Init, Result, Statuses, States
  <2>4. /\ ReadBuffersQueued \in 0..MaxQueued /\ available \in Nat /\ pages \in Nat
        /\ RxLost \in 0..MaxFrames /\ received \in 0..MaxFrames
        /\ PendingReadBuffer \in 0..MaxCount /\ PendingReadOffset \in 0..MaxCount
        /\ PendingReadCount \in 0..MaxCount
    BY <1>0 DEF Init
  <2>5. cancelled \in [Reads -> BOOLEAN]
    BY DEF Init
  <2>. QED
    BY <2>1, <2>2, <2>3, <2>4, <2>5, Zenon DEF Init, TypeOK, Result, Statuses, States
<1>2. Taken = {} /\ \A r \in Reads : FramesOf(r) = {}
  BY DEF Init, Taken, FramesOf, NoFrame
<1>3. Cardinality(Taken) = 0
  BY <1>2, FS_EmptySet
<1>4. Arrived /\ RequestsOK
  BY <1>0 DEF Init, Arrived, RequestsOK, Filled, NoFrame
<1>5. PendingOK /\ CompletingOK /\ OwnersOK
  BY DEF Init, PendingOK, CompletingOK, OwnersOK
<1>6. QueueAccounting /\ WaitsOnlyWhenEmpty
  BY <1>0 DEF Init, QueueAccounting, WaitsOnlyWhenEmpty
<1>7. FramesInOrder
  BY <1>2 DEF Init, FramesInOrder
<1>8. LossCounted
  BY <1>3 DEF Init, LossCounted
<1>. QED
  BY <1>1, <1>4, <1>5, <1>6, <1>7, <1>8 DEF IInv

\* A step that leaves queue and buffers alone.
LEMMA QueueKept ==
  ASSUME IInv, UNCHANGED <<queueVars, received, slots>>
  PROVE  Arrived' /\ QueueAccounting' /\ FramesInOrder' /\ LossCounted'
<1>1. Taken' = Taken /\ \A r \in Reads : FramesOf(r)' = FramesOf(r)
  BY DEF Taken, FramesOf
<1>2. Arrived' /\ QueueAccounting'
  BY DEF IInv, queueVars, Arrived, QueueAccounting
<1>3. FramesInOrder'
  BY <1>1 DEF IInv, queueVars, FramesInOrder
<1>4. LossCounted'
  BY <1>1 DEF IInv, queueVars, LossCounted
<1>. QED
  BY <1>2, <1>3, <1>4

\* The user cancels a request.
LEMMA CancelKeeps ==
  ASSUME IInv, NEW r \in Reads, Cancel(r)
  PROVE  IInv'
<1>. USE DEF Cancel, queueVars, pendingVars, addVars
<1>1. TypeOK'
  BY DEF IInv, TypeOK
<1>2. \A q \in Reads : wdf'[q] = wdf[q] \/ (q = r /\ wdf[q] = "cancelable" /\ wdf'[q] = "callback")
  BY DEF IInv, TypeOK
<1>3. RequestsOK'
  BY <1>2 DEF IInv, RequestsOK, Filled
<1>4. PendingOK'
  BY <1>2 DEF IInv, TypeOK, PendingOK, Needed, NextSlot
<1>5. CompletingOK'
  BY <1>2 DEF IInv, TypeOK, CompletingOK, Needed
<1>6. OwnersOK'
  BY <1>2 DEF IInv, OwnersOK
<1>7. WaitsOnlyWhenEmpty'
  BY DEF IInv, WaitsOnlyWhenEmpty
<1>. QED
  BY <1>1, <1>3, <1>4, <1>5, <1>6, <1>7, QueueKept DEF IInv

\* A request is completed without the queue.
LEMMA CompleteAtOnceKeeps ==
  ASSUME IInv, NEW r \in Reads, NEW status \in {"success", "invalid"}, CompleteAtOnce(r, status)
  PROVE  IInv'
<1>. USE DEF CompleteAtOnce, Completed, queueVars, pendingVars, addVars
<1>0. status \in Statuses /\ 0 \in 0..MaxCount
  BY ReadAssumption DEF Statuses
<1>2. /\ wdf' \in [Reads -> States] /\ result' \in [Reads -> Result]
      /\ wdf[r] = "dispatched" /\ wdf'[r] = "completed"
      /\ result'[r].count = 0 /\ result'[r].waitedAt = result[r].waitedAt
      /\ \A q \in Reads \ {r} : wdf'[q] = wdf[q] /\ result'[q] = result[q]
  BY <1>0, CompletedChanges DEF IInv
<1>1. TypeOK'
  BY <1>2, TypesKept, Zenon DEF IInv, TypeOK
<1>3. r # PendingReadRequest /\ r # requestToComplete
  BY <1>2, ReadAssumption DEF IInv, PendingOK, CompletingOK
<1>4. RequestsOK'
  <2>1. Filled(r)' /\ \A q \in Reads \ {r} : Filled(q)' = Filled(q)
    BY <1>2 DEF Filled
  <2>. QED
    BY <1>2, <2>1 DEF IInv, RequestsOK
<1>5. PendingOK'
  BY <1>2, <1>3 DEF IInv, TypeOK, PendingOK, Needed, NextSlot
<1>6. CompletingOK'
  BY <1>2, <1>3 DEF IInv, TypeOK, CompletingOK, Needed
<1>7. OwnersOK'
  BY <1>2 DEF IInv, OwnersOK
<1>8. WaitsOnlyWhenEmpty'
  BY DEF IInv, WaitsOnlyWhenEmpty
<1>. QED
  BY <1>1, <1>4, <1>5, <1>6, <1>7, <1>8, QueueKept DEF IInv

\* The cancel callback completes its request, and clears whatever read waits.
LEMMA CancelPendingReadKeeps ==
  ASSUME IInv, NEW r \in Reads, CancelPendingRead(r)
  PROVE  IInv'
<1>. USE DEF CancelPendingRead, ClearPending, Completed, queueVars, addVars
<1>0. "cancelled" \in Statuses /\ 0 \in 0..MaxCount
  BY ReadAssumption DEF Statuses
<1>2. /\ wdf' \in [Reads -> States] /\ result' \in [Reads -> Result]
      /\ wdf[r] = "callback" /\ wdf'[r] = "completed"
      /\ result'[r].status = "cancelled" /\ result'[r].waitedAt = result[r].waitedAt
      /\ \A q \in Reads \ {r} : wdf'[q] = wdf[q] /\ result'[q] = result[q]
  BY <1>0, CompletedChanges DEF IInv
<1>1. TypeOK'
  BY <1>0, <1>2, TypesKept, Zenon DEF IInv, TypeOK
<1>3. r # requestToComplete /\ adding # "remark" /\ PendingReadRequest' = NoRead
  BY <1>2, ReadAssumption DEF IInv, CompletingOK, Unlocked
<1>4. RequestsOK'
  BY <1>2 DEF IInv, RequestsOK, Filled
<1>5. PendingOK'
  BY <1>3 DEF PendingOK
<1>6. CompletingOK'
  BY <1>2, <1>3, ReadAssumption DEF IInv, TypeOK, CompletingOK, Needed
<1>7. OwnersOK'
  BY <1>2 DEF IInv, OwnersOK, PendingOK, Unlocked
<1>8. WaitsOnlyWhenEmpty'
  BY <1>3 DEF WaitsOnlyWhenEmpty
<1>. QED
  BY <1>1, <1>4, <1>5, <1>6, <1>7, <1>8, QueueKept DEF IInv

\* The read that goes on waiting is made cancelable again, or dropped.
LEMMA RemarkKeeps ==
  ASSUME IInv, Remark
  PROVE  IInv'
<1>. DEFINE r == PendingReadRequest
<1>. USE DEF Remark, ClearPending, MarkAgain, queueVars, pendingVars
<1>1. r \in Reads /\ wdf[r] = "owned" /\ r # requestToComplete
  BY DEF IInv, TypeOK, PendingOK, CompletingOK
<1>0. 0 \in 0..MaxCount
  BY ReadAssumption
<1>2. TypeOK'
  <2>1. wdf' \in [Reads -> States]
    BY RequestTypes DEF IInv, States
  <2>. QED
    BY <1>0, <2>1, RequestTypes, TypesKept, Zenon DEF IInv, TypeOK
<1>3. \A q \in Reads : wdf'[q] = wdf[q] \/ (q = r /\ ~cancelled[r] /\ wdf'[q] = "cancelable")
  BY <1>1 DEF IInv, TypeOK
<1>4. RequestsOK'
  BY <1>1, <1>3 DEF IInv, RequestsOK, Filled
<1>5. PendingOK'
  <2>1. CASE ~cancelled[r]
    BY <1>1, <2>1 DEF IInv, TypeOK, PendingOK, Needed, NextSlot
  <2>2. CASE cancelled[r]
    BY <2>2 DEF PendingOK
  <2>. QED
    BY <2>1, <2>2
<1>6. CompletingOK'
  BY <1>1, <1>3 DEF IInv, TypeOK, CompletingOK, Needed
<1>7. OwnersOK'
  BY <1>1, <1>3 DEF IInv, OwnersOK
<1>8. WaitsOnlyWhenEmpty'
  BY DEF IInv, WaitsOnlyWhenEmpty
<1>. QED
  BY <1>2, <1>4, <1>5, <1>6, <1>7, <1>8, QueueKept DEF IInv

\* Add completes the read it filled.
LEMMA CompleteReadKeeps ==
  ASSUME IInv, CompleteRead
  PROVE  IInv'
<1>. USE DEF CompleteRead, queueVars, pendingVars
<1>0. PICK r \in Reads : r = requestToComplete
  BY DEF IInv, TypeOK, CompletingOK
<1>1. wdf[r] = "owned" /\ r # PendingReadRequest /\ requestToComplete' = NoRead /\ r # NoRead
  BY <1>0, ReadAssumption DEF IInv, TypeOK, CompletingOK
<1>2. Needed(r, result[r].waitedAt) \in 1..MaxCount
  <2>1. read[r].count \in 1..MaxCount /\ result[r].waitedAt \in 0..MaxCount
    BY <1>1, RequestTypes DEF IInv, TypeOK, Result
  <2>2. result[r].waitedAt < read[r].count /\ MaxCount \in Nat
    BY ReadAssumption DEF IInv, RequestsOK
  <2>. QED
    BY <2>1, <2>2 DEF Needed
<1>4. /\ wdf' \in [Reads -> States] /\ result' \in [Reads -> Result]
      /\ wdf'[r] = "completed" /\ result'[r].waitedAt = result[r].waitedAt
      /\ result'[r].count = Needed(r, result[r].waitedAt)
      /\ \A q \in Reads \ {r} : wdf'[q] = wdf[q] /\ result'[q] = result[q]
  <2>1. "success" \in Statuses /\ Needed(r, result[r].waitedAt) \in 0..MaxCount
    BY <1>2 DEF Statuses
  <2>. QED
    BY <1>0, <2>1, CompletedChanges DEF IInv
<1>3. TypeOK'
  BY <1>4, TypesKept, Zenon DEF IInv, TypeOK
<1>5. RequestsOK'
  <2>1. result[r].waitedAt = 0 => \A s \in 0..(Needed(r, 0) - 1) : slots[r][s] # NoFrame
    BY <1>0, <1>1, <1>2, ReadAssumption DEF IInv, CompletingOK, Slots
  <2>2. result'[r].waitedAt = 0 => Filled(r)'
    BY <1>4, <2>1 DEF Filled
  <2>3. \A q \in Reads \ {r} : Filled(q)' = Filled(q)
    BY <1>4 DEF Filled
  <2>. QED
    BY <1>1, <1>4, <2>2, <2>3 DEF IInv, RequestsOK
<1>6. PendingOK'
  BY <1>1, <1>4 DEF IInv, TypeOK, PendingOK, Needed, NextSlot
<1>7. CompletingOK'
  BY <1>1 DEF CompletingOK
<1>8. OwnersOK'
  BY <1>0, <1>1, <1>4 DEF IInv, OwnersOK
<1>9. WaitsOnlyWhenEmpty'
  BY DEF IInv, WaitsOnlyWhenEmpty
<1>. QED
  BY <1>3, <1>5, <1>6, <1>7, <1>8, <1>9, QueueKept DEF IInv

-----------------------------------------------------------------------------
(* A frame arrives and no read waits. *)

\* A step that leaves the requests alone.
LEMMA RequestsKept ==
  ASSUME IInv, UNCHANGED <<read, pendingVars, requestVars, addVars>>
  PROVE  RequestsOK' /\ PendingOK' /\ CompletingOK' /\ OwnersOK'
<1>. USE DEF pendingVars, requestVars, addVars
<1>1. RequestsOK'
  BY DEF IInv, RequestsOK, Filled
<1>2. PendingOK'
  BY DEF IInv, PendingOK, Needed, NextSlot
<1>3. CompletingOK'
  BY DEF IInv, CompletingOK, Needed
<1>4. OwnersOK'
  BY DEF IInv, OwnersOK
<1>. QED
  BY <1>1, <1>2, <1>3, <1>4

\* Types hold again if those of the queue do.
LEMMA QueueTypes ==
  ASSUME TypeOK, UNCHANGED <<read, pendingVars, requestVars, addVars>>,
         ReadBuffersList' \in Seq(Frames), ReadBuffersQueued' \in 0..MaxQueued,
         available' \in Nat, pages' \in Nat, RxLost' \in 0..MaxFrames,
         received' \in 0..MaxFrames
  PROVE  TypeOK'
BY Zenon DEF TypeOK, pendingVars, requestVars, addVars

\* The new frame, behind the queue or what is left of it without its oldest frame.
LEMMA QueuedInOrder ==
  ASSUME IInv, UNCHANGED slots, received < MaxFrames, received' = received + 1,
         NEW d \in {0, 1}, NEW base \in Seq(Frames), Len(base) = Len(ReadBuffersList) - d,
         \A i \in 1..Len(base) : base[i] = ReadBuffersList[i + d],
         ReadBuffersList' = Append(base, received + 1)
  PROVE  /\ ReadBuffersList' \in Seq(Frames)
         /\ Len(ReadBuffersList') = Len(ReadBuffersList) - d + 1
         /\ Arrived' /\ FramesInOrder'
<1>. DEFINE list == ReadBuffersList  list2 == ReadBuffersList'
<1>1. /\ received \in Nat /\ received + 1 \in Frames /\ list \in Seq(Frames)
      /\ Len(list) \in Nat /\ Len(base) \in Nat
  BY ReadAssumption, LenProperties DEF IInv, TypeOK, Frames
<1>2. /\ list2 \in Seq(Frames) /\ Len(list2) = Len(base) + 1
      /\ \A i \in 1..Len(base) : list2[i] = base[i]
      /\ list2[Len(base) + 1] = received + 1
  BY <1>1, Longer
<1>3. Taken' = Taken /\ \A r \in Reads : FramesOf(r)' = FramesOf(r)
  BY DEF Taken, FramesOf
<1>4. \A i \in 1..Len(list) : list[i] \in Frames /\ list[i] <= received
  BY <1>1, ElementOfSeq DEF IInv, Arrived
<1>5. \A i \in 1..Len(base) : i + d \in 1..Len(list) /\ list2[i] = list[i + d]
  BY <1>1, <1>2
<1>. HIDE DEF list, list2
<1>6. \A i \in 1..Len(list2) : i \in 1..Len(base) \/ i = Len(base) + 1
  BY <1>1, <1>2
<1>7. \A f \in Taken : f \in Frames /\ f <= received
  BY TakenFinite DEF IInv, Arrived, Taken, FramesOf
<1>8. Arrived'
  <2>1. ASSUME NEW i \in 1..Len(list2) PROVE list2[i] <= received'
    <3>1. CASE i \in 1..Len(base)
      <4>1. i + d \in 1..Len(list) /\ list2[i] = list[i + d]
        BY <1>5, <3>1
      <4>2. list[i + d] \in Frames /\ list[i + d] <= received
        BY <1>4, <4>1
      <4>. QED
        BY <1>1, <4>1, <4>2 DEF Frames
    <3>2. CASE i = Len(base) + 1
      BY <1>1, <1>2, <3>2 DEF Frames
    <3>. QED
      BY <1>6, <3>1, <3>2
  <2>2. \A r \in Reads, s \in Slots : slots[r][s] \in Nat /\ slots[r][s] <= received
    BY ReadAssumption DEF IInv, TypeOK, Arrived
  <2>3. \A r \in Reads, s \in Slots : slots'[r][s] <= received'
    BY <1>1, <2>2
  <2>. QED
    BY <2>1, <2>3 DEF Arrived, list2
<1>9. FramesInOrder'
  <2>1. ASSUME NEW i \in 1..Len(list2), NEW j \in 1..Len(list2), i < j
        PROVE  list2[i] < list2[j]
    <3>1. i \in 1..Len(base)
      BY <1>1, <1>6, <2>1
    <3>2. CASE j \in 1..Len(base)
      <4>1. /\ i + d < j + d /\ i + d \in 1..Len(list) /\ j + d \in 1..Len(list)
            /\ list2[i] = list[i + d] /\ list2[j] = list[j + d]
        BY <1>5, <2>1, <3>1, <3>2
      <4>2. \A a, b \in 1..Len(list) : a < b => list[a] < list[b]
        BY DEF IInv, FramesInOrder, list
      <4>3. list[i + d] < list[j + d]
        BY <4>1, <4>2
      <4>. QED
        BY <4>1, <4>3
    <3>3. CASE j = Len(base) + 1
      <4>1. i + d \in 1..Len(list) /\ list2[i] = list[i + d]
        BY <1>5, <3>1
      <4>2. list[i + d] \in Frames /\ list[i + d] <= received
        BY <1>4, <4>1
      <4>. QED
        BY <1>1, <1>2, <3>3, <4>1, <4>2 DEF Frames
    <3>. QED
      BY <1>6, <3>2, <3>3
  <2>2. ASSUME NEW f \in Taken, NEW i \in 1..Len(list2)
        PROVE  f < list2[i]
    <3>1. CASE i \in 1..Len(base)
      BY <1>5, <3>1 DEF IInv, FramesInOrder, list
    <3>2. CASE i = Len(base) + 1
      BY <1>1, <1>2, <1>7, <3>2 DEF Frames
    <3>. QED
      BY <1>6, <3>1, <3>2
  <2>3. /\ \A r \in Reads, s, u \in Slots :
             s < u /\ slots'[r][s] # NoFrame /\ slots'[r][u] # NoFrame => slots'[r][s] < slots'[r][u]
        /\ \A r, q \in Reads : r # q => FramesOf(r)' \cap FramesOf(q)' = {}
    BY <1>3 DEF IInv, FramesInOrder
  <2>. QED
    BY <1>3, <2>1, <2>2, <2>3 DEF FramesInOrder, list2
<1>. QED
  BY <1>1, <1>2, <1>8, <1>9 DEF list, list2

\* Types and accounts hold again when a frame is queued or lost.
LEMMA ArrivalKeeps ==
  ASSUME IInv, UNCHANGED <<read, pendingVars, requestVars, addVars>>,
         PendingReadRequest = NoRead, received < MaxFrames, received' = received + 1,
         NEW n \in Nat, ReadBuffersList' \in Seq(Frames), Len(ReadBuffersList') = n,
         n <= MaxQueued, n <= Len(ReadBuffersList) + 1, ReadBuffersQueued' = n, available' \in Nat, pages' \in Nat,
         available' + n = pages' * PageItems,
         RxLost' = RxLost + (Len(ReadBuffersList) + 1 - n),
         Arrived', FramesInOrder'
  PROVE  IInv'
<1>1. /\ MaxQueued \in Nat /\ MaxFrames \in Nat /\ received \in Nat /\ RxLost \in Nat
      /\ Len(ReadBuffersList) \in Nat /\ received + 1 \in 0..MaxFrames
  BY ReadAssumption, LenProperties DEF IInv, TypeOK
<1>2. Taken' = Taken
  BY DEF Taken, FramesOf, requestVars
<1>3. Cardinality(Taken) \in Nat
  BY TakenFinite DEF IInv
<1>4. LossCounted' /\ QueueAccounting'
  <2>1. LossCounted'
    <3>1. PICK l \in Nat, m \in Nat : l = Len(ReadBuffersList) /\ m = Cardinality(Taken)
      BY <1>1, <1>3
    <3>2. received = l + m + RxLost /\ RxLost' = RxLost + (l + 1 - n)
      BY <3>1 DEF IInv, LossCounted
    <3>3. received + 1 = n + m + RxLost'
      BY <1>1, <3>2
    <3>. QED
      BY <1>2, <3>1, <3>3 DEF LossCounted
  <2>2. QueueAccounting'
    BY DEF QueueAccounting
  <2>. QED
    BY <2>1, <2>2
<1>5. RxLost' \in 0..MaxFrames
  <2>1. RxLost' \in Int /\ received + 1 = n + Cardinality(Taken) + RxLost'
    BY <1>1, <1>2, <1>4 DEF LossCounted
  <2>2. RxLost' >= 0
    BY <1>1
  <2>. QED
    BY <1>1, <1>3, <2>1, <2>2
<1>6. ReadBuffersQueued' \in 0..MaxQueued
  BY <1>1
<1>7. TypeOK'
  BY <1>1, <1>5, <1>6, QueueTypes DEF IInv
<1>8. WaitsOnlyWhenEmpty'
  BY DEF WaitsOnlyWhenEmpty, pendingVars
<1>. QED
  BY <1>4, <1>7, <1>8, RequestsKept DEF IInv

\* A frame is queued.
LEMMA EnqueueKeeps ==
  ASSUME IInv, Enqueue
  PROVE  IInv'
<1>. DEFINE list == ReadBuffersList
<1>1. /\ list \in Seq(Frames) /\ Len(list) \in Nat /\ ReadBuffersQueued = Len(list)
      /\ available \in Nat /\ pages \in Nat /\ RxLost \in Nat /\ received \in Nat
      /\ available + Len(list) = pages * PageItems /\ Len(list) <= MaxQueued
      /\ PageItems \in Nat \ {0} /\ MaxQueued \in Nat \ {0} /\ MaxFrames \in Nat
  BY LenProperties, ReadAssumption DEF IInv, TypeOK, QueueAccounting
<1>2. /\ received < MaxFrames /\ received' = received + 1 /\ PendingReadRequest = NoRead
      /\ UNCHANGED <<read, pendingVars, requestVars, addVars>> /\ UNCHANGED slots
  BY DEF Enqueue, Arrives, NobodyWaits, requestVars
<1>3. CASE /\ Full /\ ReadBuffersList' = InsertTail(RemoveHead(ReadBuffersList))
           /\ ReadBuffersQueued' = QueuedAfterDrop + 1 /\ RxLost' = LostOne
           /\ UNCHANGED <<available, pages>>
  <2>1. list # <<>> /\ Len(list) = MaxQueued
    BY <1>1, <1>3 DEF Full
  <2>2. /\ Tail(list) \in Seq(Frames) /\ Len(Tail(list)) = Len(list) - 1
        /\ \A i \in 1..Len(Tail(list)) : Tail(list)[i] = list[i + 1]
    BY <1>1, <2>1, HeadTailProperties
  <2>3. ReadBuffersList' = Append(Tail(list), received + 1)
    BY <1>3 DEF InsertTail, RemoveHead
  <2>4. /\ ReadBuffersList' \in Seq(Frames) /\ Len(ReadBuffersList') = Len(list) - 1 + 1
        /\ Arrived' /\ FramesInOrder'
    <3>1. 1 \in {0, 1}
      OBVIOUS
    <3>. QED
      BY <1>2, <2>2, <2>3, <3>1, QueuedInOrder
  <2>. HIDE DEF list
  <2>5. Len(ReadBuffersList') = Len(list) /\ ReadBuffersQueued' = Len(list)
    BY <1>1, <1>3, <2>4 DEF QueuedAfterDrop
  <2>6. /\ RxLost' = RxLost + (Len(ReadBuffersList) + 1 - Len(list))
        /\ Len(list) <= Len(ReadBuffersList) + 1
    BY <1>1, <1>3 DEF LostOne, list
  <2>. QED
    BY <1>1, <1>2, <1>3, <2>4, <2>5, <2>6, ArrivalKeeps
<1>4. CASE /\ ~Full
           /\ \/ available > 0 /\ available' = available - 1 /\ UNCHANGED pages
              \/ available = 0 /\ MessageBuffersAdd
           /\ ReadBuffersList' = InsertTail(ReadBuffersList)
           /\ ReadBuffersQueued' = ReadBuffersQueued + 1 /\ UNCHANGED RxLost
  <2>1. /\ ReadBuffersList' \in Seq(Frames) /\ Len(ReadBuffersList') = Len(list) - 0 + 1
        /\ Arrived' /\ FramesInOrder'
    <3>1. /\ 0 \in {0, 1} /\ Len(list) = Len(list) - 0
          /\ \A i \in 1..Len(list) : list[i] = list[i + 0]
          /\ ReadBuffersList' = Append(list, received + 1)
      BY <1>1, <1>4 DEF InsertTail
    <3>. QED
      BY <1>1, <1>2, <3>1, QueuedInOrder
  <2>. HIDE DEF list
  <2>2. Len(list) < MaxQueued
    BY <1>1, <1>4 DEF Full
  <2>3. available' \in Nat /\ pages' \in Nat /\ available' + (Len(list) + 1) = pages' * PageItems
    <3>1. CASE available > 0 /\ available' = available - 1 /\ UNCHANGED pages
      BY <1>1, <3>1
    <3>2. CASE available = 0 /\ MessageBuffersAdd
      <4>1. (pages + 1) * PageItems = pages * PageItems + PageItems
        BY <1>1
      <4>2. pages * PageItems \in Nat
        BY <1>1
      <4>. QED
        BY <1>1, <3>2, <4>1, <4>2 DEF MessageBuffersAdd
    <3>. QED
      BY <1>4, <3>1, <3>2
  <2>4. /\ Len(ReadBuffersList') = Len(list) + 1 /\ ReadBuffersQueued' = Len(list) + 1
        /\ Len(list) + 1 \in Nat /\ Len(list) + 1 <= MaxQueued
    BY <1>1, <1>4, <2>1, <2>2
  <2>5. /\ RxLost' = RxLost + (Len(ReadBuffersList) + 1 - (Len(list) + 1))
        /\ Len(list) + 1 <= Len(ReadBuffersList) + 1
    BY <1>1, <1>4 DEF list
  <2>. QED
    BY <1>2, <2>1, <2>3, <2>4, <2>5, ArrivalKeeps
<1>. QED
  BY <1>3, <1>4, Zenon DEF Enqueue

\* A frame is lost for want of memory.
LEMMA EnqueueFailsKeeps ==
  ASSUME IInv, EnqueueFails
  PROVE  IInv'
<1>1. /\ ReadBuffersList \in Seq(Frames) /\ Len(ReadBuffersList) \in Nat
      /\ Len(ReadBuffersList) <= MaxQueued /\ ReadBuffersQueued = Len(ReadBuffersList)
      /\ available + Len(ReadBuffersList) = pages * PageItems
      /\ available \in Nat /\ pages \in Nat /\ RxLost \in Nat
      /\ received \in Nat /\ MaxFrames \in Nat
  BY LenProperties, ReadAssumption DEF IInv, TypeOK, QueueAccounting
<1>2. /\ received < MaxFrames /\ received' = received + 1 /\ PendingReadRequest = NoRead
      /\ UNCHANGED <<read, pendingVars, requestVars, addVars, slots, ReadBuffersList>>
      /\ UNCHANGED <<ReadBuffersQueued, available, pages>>
      /\ RxLost' = RxLost + (Len(ReadBuffersList) + 1 - Len(ReadBuffersList))
  BY <1>1 DEF EnqueueFails, Arrives, NobodyWaits, requestVars, LostOne
<1>3. Arrived'
  <2>1. \A i \in 1..Len(ReadBuffersList) : ReadBuffersList[i] \in Int
    BY <1>1, ElementOfSeq DEF Frames
  <2>2. \A r \in Reads, s \in Slots : slots[r][s] \in Int
    BY DEF IInv, TypeOK
  <2>. QED
    BY <1>1, <1>2, <2>1, <2>2 DEF IInv, Arrived
<1>4. FramesInOrder'
  <2>1. Taken' = Taken /\ \A r \in Reads : FramesOf(r)' = FramesOf(r)
    BY <1>2 DEF Taken, FramesOf
  <2>. QED
    BY <1>2, <2>1 DEF IInv, FramesInOrder
<1>. QED
  BY <1>1, <1>2, <1>3, <1>4, ArrivalKeeps

-----------------------------------------------------------------------------
(* A frame goes into the buffer of the read that waits. *)

\* Queue, buffers and accounts when the new frame goes into slot x of r's buffer, which
\* is empty from there on, and nothing is queued.
LEMMA SlotWritten ==
  ASSUME IInv, NEW r \in Reads, NEW x \in Slots,
         \A s \in Slots : x <= s => slots[r][s] = NoFrame,
         ReadBuffersList = <<>>, UNCHANGED queueVars,
         received < MaxFrames, received' = received + 1,
         slots' = [slots EXCEPT ![r][x] = received + 1]
  PROVE  /\ slots' \in [Reads -> [Slots -> 0..MaxFrames]] /\ received' \in 0..MaxFrames
         /\ \A q \in Reads \ {r} : slots'[q] = slots[q]
         /\ \A s \in Slots \ {x} : slots'[r][s] = slots[r][s]
         /\ slots'[r][x] = received + 1 /\ received + 1 # NoFrame
         /\ Taken' = Taken \cup {received + 1}
         /\ Arrived' /\ QueueAccounting' /\ FramesInOrder' /\ LossCounted'
<1>1. /\ received \in Nat /\ received + 1 # 0 /\ received + 1 \in 0..MaxFrames
      /\ slots \in [Reads -> [Slots -> 0..MaxFrames]] /\ MaxFrames \in Nat
      /\ \A s \in Slots : s \in Int
  <2>1. MaxFrames \in Nat /\ received \in 0..MaxFrames /\ slots \in [Reads -> [Slots -> 0..MaxFrames]]
    BY ReadAssumption DEF IInv, TypeOK
  <2>2. \A s \in Slots : s \in Int
    BY DEF Slots
  <2>. QED
    BY <2>1, <2>2
<1>2. \A q \in Reads, s \in Slots : slots[q][s] \in 0..MaxFrames /\ slots[q][s] <= received
  BY <1>1 DEF IInv, Arrived
<1>3. slots' \in [Reads -> [Slots -> 0..MaxFrames]] /\ received' \in 0..MaxFrames
  BY <1>1
<1>4. /\ \A q \in Reads \ {r} : slots'[q] = slots[q]
      /\ \A s \in Slots \ {x} : slots'[r][s] = slots[r][s]
      /\ slots'[r][x] = received + 1
  BY <1>1
<1>5. /\ \A q \in Reads \ {r} : FramesOf(q)' = FramesOf(q)
      /\ FramesOf(r)' = FramesOf(r) \cup {received + 1}
  <2>1. \A q \in Reads \ {r} : FramesOf(q)' = FramesOf(q)
    BY <1>4 DEF FramesOf
  <2>2. slots[r][x] = NoFrame
    BY <1>1
  <2>3. FramesOf(r)' = FramesOf(r) \cup {received + 1}
    BY <1>1, <1>4, <2>2 DEF FramesOf, NoFrame
  <2>. QED
    BY <2>1, <2>3
<1>6. Taken' = Taken \cup {received + 1}
  BY <1>5 DEF Taken
<1>7. \A q \in Reads : received + 1 \notin FramesOf(q)
  <2>. SUFFICES ASSUME NEW q \in Reads, NEW s \in Slots PROVE slots[q][s] # received + 1
    BY DEF FramesOf
  <2>. QED
    BY <1>1, <1>2
<1>8. received + 1 \notin Taken
  BY <1>7 DEF Taken
<1>9. Arrived'
  <2>1. ASSUME NEW q \in Reads, NEW s \in Slots PROVE slots'[q][s] <= received'
    BY <1>1, <1>2, <1>4
  <2>2. Len(ReadBuffersList') = 0
    BY DEF queueVars
  <2>. QED
    BY <2>1, <2>2 DEF Arrived
<1>10. QueueAccounting'
  BY DEF IInv, QueueAccounting, queueVars
<1>11. LossCounted'
  <2>1. Cardinality(Taken') = Cardinality(Taken) + 1 /\ Cardinality(Taken) \in Nat
    BY <1>6, <1>8, TakenFinite, FS_AddElement DEF IInv
  <2>. QED
    BY <1>1, <2>1 DEF IInv, TypeOK, LossCounted, queueVars
<1>12. FramesInOrder'
  <2>1. Len(ReadBuffersList') = 0
    BY DEF queueVars
  <2>2. ASSUME NEW q \in Reads, NEW s \in Slots, NEW u \in Slots, s < u,
               slots'[q][s] # NoFrame, slots'[q][u] # NoFrame
        PROVE  slots'[q][s] < slots'[q][u]
    <3>1. CASE q # r
      BY <1>4, <2>2, <3>1 DEF IInv, FramesInOrder
    <3>2. CASE q = r
      <4>1. s # x
        BY <1>1, <1>4, <2>2, <3>2
      <4>2. CASE u = x
        BY <1>1, <1>2, <1>4, <3>2, <4>1, <4>2
      <4>3. CASE u # x
        BY <1>4, <2>2, <3>2, <4>1, <4>3 DEF IInv, FramesInOrder
      <4>. QED
        BY <4>2, <4>3
    <3>. QED
      BY <3>1, <3>2
  <2>3. ASSUME NEW q \in Reads, NEW w \in Reads, q # w
        PROVE  FramesOf(q)' \cap FramesOf(w)' = {}
    <3>1. FramesOf(q) \cap FramesOf(w) = {}
      BY <2>3 DEF IInv, FramesInOrder
    <3>. QED
      BY <1>5, <1>7, <2>3, <3>1, Zenon
  <2>. QED
    BY <2>1, <2>2, <2>3 DEF FramesInOrder
<1>. QED
  BY <1>1, <1>3, <1>4, <1>6, <1>9, <1>10, <1>11, <1>12 DEF NoFrame

\* Types hold again if those of the pending read do.
LEMMA DeliverTypes ==
  ASSUME TypeOK, UNCHANGED <<read, queueVars, cancelled, result>>,
         slots' \in [Reads -> [Slots -> 0..MaxFrames]], received' \in 0..MaxFrames,
         wdf' \in [Reads -> States],
         PendingReadRequest' \in Reads \cup {NoRead}, PendingReadBuffer' \in 0..MaxCount,
         PendingReadOffset' \in 0..MaxCount, PendingReadCount' \in 0..MaxCount,
         adding' \in {"idle", "remark", "complete"},
         requestToComplete' \in Reads \cup {NoRead}, raced' \in BOOLEAN
  PROVE  TypeOK'
BY Zenon DEF TypeOK, queueVars, Result, Statuses, States

\* A read that waits gets a frame.
LEMMA DeliverKeeps ==
  ASSUME IInv, Deliver
  PROVE  IInv' /\ Taken' = Taken \cup {received + 1}
<1>0. PICK r \in Reads : r = PendingReadRequest
  BY DEF Deliver, IInv, TypeOK
<1>1. /\ r # NoRead /\ adding = "idle" /\ requestToComplete = NoRead
      /\ received < MaxFrames /\ received' = received + 1
      /\ UNCHANGED <<read, queueVars, cancelled, result>>
      /\ slots' = [slots EXCEPT ![r][NextSlot] = received + 1]
  BY <1>0 DEF Deliver, Arrives, IInv, TypeOK, CompletingOK
<1>2. /\ wdf[r] \in {"cancelable", "callback"} /\ ReadBuffersList = <<>>
      /\ PendingReadBuffer = result[r].waitedAt
      /\ PendingReadCount = Needed(r, PendingReadBuffer)
      /\ PendingReadBuffer <= PendingReadOffset /\ PendingReadOffset < PendingReadCount
      /\ \A s \in Slots : NextSlot <= s => slots[r][s] = NoFrame
      /\ PendingReadBuffer = 0 =>
           \A s \in Slots : s < PendingReadOffset => slots[r][s] # NoFrame
  BY <1>0, <1>1 DEF IInv, PendingOK, WaitsOnlyWhenEmpty
<1>3. /\ MaxCount \in Nat \ {0} /\ PendingReadBuffer \in 0..MaxCount /\ 0 \in 0..MaxCount
      /\ PendingReadOffset \in 0..MaxCount /\ PendingReadCount \in 0..MaxCount
      /\ wdf \in [Reads -> States] /\ NoRead \notin Reads
      /\ raced \in BOOLEAN
  BY ReadAssumption, RequestTypes DEF IInv, TypeOK
<1>4. NextSlot \in Slots /\ NextSlot \in Int
  BY <1>2, <1>3 DEF NextSlot, Slots
<1>5. /\ slots' \in [Reads -> [Slots -> 0..MaxFrames]] /\ received' \in 0..MaxFrames
      /\ \A q \in Reads \ {r} : slots'[q] = slots[q]
      /\ \A s \in Slots \ {NextSlot} : slots'[r][s] = slots[r][s]
      /\ slots'[r][NextSlot] # NoFrame
      /\ Taken' = Taken \cup {received + 1}
      /\ Arrived' /\ QueueAccounting' /\ FramesInOrder' /\ LossCounted'
  <2>. DEFINE x == NextSlot
  <2>1. x \in Slots /\ slots' = [slots EXCEPT ![r][x] = received + 1]
    BY <1>1, <1>4
  <2>2. \A s \in Slots : x <= s => slots[r][s] = NoFrame
    BY <1>2
  <2>3. UNCHANGED queueVars
    BY <1>1
  <2>. HIDE DEF x
  <2>4. /\ slots' \in [Reads -> [Slots -> 0..MaxFrames]] /\ received' \in 0..MaxFrames
        /\ \A q \in Reads \ {r} : slots'[q] = slots[q]
        /\ \A s \in Slots \ {x} : slots'[r][s] = slots[r][s]
        /\ slots'[r][x] = received + 1 /\ received + 1 # NoFrame
        /\ Taken' = Taken \cup {received + 1}
        /\ Arrived' /\ QueueAccounting' /\ FramesInOrder' /\ LossCounted'
    BY <1>1, <1>2, <2>1, <2>2, <2>3, SlotWritten
  <2>. QED
    BY <2>4 DEF x
<1>6. result[r].status = "none" \/ wdf[r] = "completed"
  BY DEF IInv, RequestsOK
<1>7. RequestsOK'
  <2>1. \A q \in Reads : result'[q] = result[q] /\ read'[q] = read[q]
    BY <1>1
  <2>2. \A q \in Reads \ {r} : wdf'[q] = wdf[q]
    BY <1>0, <1>3 DEF Deliver
  <2>3. wdf'[r] # "dispatched" /\ result[r].status = "none"
    BY <1>0, <1>2, <1>3, <1>6 DEF Deliver
  <2>4. \A q \in Reads \ {r} : Filled(q)' = Filled(q)
    BY <1>5, <2>1 DEF Filled
  <2>. QED
    BY <1>5, <2>1, <2>2, <2>3, <2>4 DEF IInv, RequestsOK
<1>8. CASE wdf[r] = "cancelable" /\ PendingReadOffset + 1 = PendingReadCount
  <2>1. /\ wdf' = [wdf EXCEPT ![r] = "owned"] /\ requestToComplete' = r
        /\ PendingReadRequest' = NoRead /\ PendingReadBuffer' = 0
        /\ PendingReadOffset' = 0 /\ PendingReadCount' = 0
        /\ adding' = "complete" /\ raced' = raced
    BY <1>0, <1>8 DEF Deliver, ClearPending
  <2>2. wdf' \in [Reads -> States]
    BY <1>3, <2>1 DEF States
  <2>3. TypeOK'
    BY <1>1, <1>3, <1>5, <2>1, <2>2, DeliverTypes DEF IInv
  <2>4. PendingOK' /\ WaitsOnlyWhenEmpty'
    BY <2>1 DEF PendingOK, WaitsOnlyWhenEmpty
  <2>5. CompletingOK'
    <3>1. wdf'[r] = "owned" /\ Needed(r, 0)' = Needed(r, 0)
      BY <1>1, <1>3, <2>1 DEF Needed
    <3>2. ASSUME result[r].waitedAt = 0, NEW s \in Slots, s < Needed(r, 0)
          PROVE  slots'[r][s] # NoFrame
      <4>1. s < PendingReadOffset \/ s = NextSlot
        BY <1>2, <1>3, <1>8, <3>2 DEF NextSlot, Slots
      <4>2. s # NextSlot => slots[r][s] # NoFrame
        BY <1>2, <3>2, <4>1
      <4>. QED
        BY <1>5, <4>2
    <3>. QED
      BY <1>1, <1>3, <2>1, <3>1, <3>2 DEF CompletingOK
  <2>6. OwnersOK'
    BY <1>0, <1>1, <1>3, <2>1 DEF IInv, OwnersOK
  <2>. QED
    BY <1>5, <1>7, <2>3, <2>4, <2>5, <2>6 DEF IInv
<1>9. CASE wdf[r] = "cancelable" /\ PendingReadOffset + 1 # PendingReadCount
  <2>1. /\ wdf' = [wdf EXCEPT ![r] = "owned"]
        /\ PendingReadOffset' = PendingReadOffset + 1 /\ adding' = "remark"
        /\ UNCHANGED <<PendingReadRequest, PendingReadBuffer, PendingReadCount,
                       requestToComplete, raced>>
    BY <1>0, <1>9 DEF Deliver
  <2>2. wdf' \in [Reads -> States] /\ PendingReadOffset + 1 \in 0..MaxCount
    BY <1>2, <1>3, <1>9, <2>1 DEF States
  <2>3. TypeOK'
    BY <1>0, <1>1, <1>3, <1>5, <2>1, <2>2, DeliverTypes DEF IInv
  <2>4. PendingOK'
    <3>1. /\ wdf'[r] = "owned" /\ PendingReadRequest' = r /\ NextSlot' = NextSlot + 1
          /\ Needed(r, PendingReadBuffer)' = Needed(r, PendingReadBuffer)
      BY <1>0, <1>1, <1>3, <2>1 DEF Needed, NextSlot
    <3>2. PendingReadBuffer' <= PendingReadOffset' /\ PendingReadOffset' < PendingReadCount'
      BY <1>2, <1>3, <1>9, <2>1
    <3>3. ASSUME NEW s \in Slots, NextSlot + 1 <= s
          PROVE  slots'[r][s] = NoFrame
      <4>1. s \in Int
        BY <1>3 DEF Slots
      <4>. QED
        BY <1>2, <1>4, <1>5, <3>3, <4>1
    <3>4. ASSUME PendingReadBuffer = 0, NEW s \in Slots, s < PendingReadOffset + 1
          PROVE  slots'[r][s] # NoFrame
      <4>1. s < PendingReadOffset \/ s = NextSlot
        BY <1>3, <3>4 DEF NextSlot, Slots
      <4>2. s # NextSlot => slots[r][s] # NoFrame
        BY <1>2, <3>4, <4>1
      <4>. QED
        BY <1>5, <4>2
    <3>5. adding' = "remark" /\ wdf'[PendingReadRequest'] \in {"owned"} /\ r # NoRead
      BY <1>1, <2>1, <3>1
    <3>6. \A s \in Slots : NextSlot' <= s => slots'[r][s] = NoFrame
      BY <3>1, <3>3
    <3>7. PendingReadBuffer' = 0 =>
            \A s \in Slots : s < PendingReadOffset' => slots'[r][s] # NoFrame
      BY <2>1, <3>4
    <3>8. /\ PendingReadBuffer' = result'[r].waitedAt
          /\ PendingReadCount' = Needed(r, PendingReadBuffer)'
      BY <1>1, <1>2, <2>1, <3>1
    <3>. HIDE DEF NextSlot, Needed, Slots
    <3>. QED
      BY <3>1, <3>2, <3>5, <3>6, <3>7, <3>8 DEF PendingOK
  <2>5. CompletingOK'
    BY <1>1, <2>1 DEF CompletingOK
  <2>6. OwnersOK'
    BY <1>0, <1>1, <1>3, <2>1 DEF IInv, OwnersOK
  <2>7. WaitsOnlyWhenEmpty'
    BY <1>1, <1>2 DEF WaitsOnlyWhenEmpty, queueVars
  <2>. QED
    BY <1>5, <1>7, <2>3, <2>4, <2>5, <2>6, <2>7 DEF IInv
<1>10. CASE wdf[r] = "callback"
  <2>1. /\ wdf' = wdf /\ raced' = TRUE
        /\ PendingReadRequest' = NoRead /\ PendingReadBuffer' = 0
        /\ PendingReadOffset' = 0 /\ PendingReadCount' = 0
        /\ UNCHANGED <<adding, requestToComplete>>
    BY <1>0, <1>10 DEF Deliver, ClearPending, DropCancelled
  <2>2. TypeOK'
    BY <1>1, <1>3, <1>5, <2>1, DeliverTypes DEF IInv
  <2>3. PendingOK' /\ WaitsOnlyWhenEmpty' /\ CompletingOK' /\ OwnersOK'
    BY <1>1, <2>1 DEF PendingOK, WaitsOnlyWhenEmpty, CompletingOK, OwnersOK
  <2>. QED
    BY <1>5, <1>7, <2>2, <2>3 DEF IInv
<1>. QED
  BY <1>2, <1>8, <1>9, <1>10

-----------------------------------------------------------------------------
(* A read takes what is queued. *)

\* Queue, buffers and accounts when r takes the took oldest frames.
LEMMA FramesMoved ==
  ASSUME IInv, NEW r \in Reads, wdf[r] = "dispatched",
         NEW took \in 0..MaxCount, took <= Len(ReadBuffersList),
         slots' = [slots EXCEPT ![r] =
                     [s \in Slots |-> IF s < took THEN ReadBuffersList[s + 1] ELSE @[s]]],
         ReadBuffersList' = SubSeq(ReadBuffersList, took + 1, Len(ReadBuffersList)),
         ReadBuffersQueued' = ReadBuffersQueued - took, available' = available + took,
         UNCHANGED <<pages, RxLost, received>>
  PROVE  /\ slots' \in [Reads -> [Slots -> 0..MaxFrames]]
         /\ ReadBuffersList' \in Seq(Frames) /\ Len(ReadBuffersList') = Len(ReadBuffersList) - took
         /\ \A q \in Reads \ {r} : slots'[q] = slots[q]
         /\ \A s \in Slots : slots'[r][s] # NoFrame <=> s < took
         /\ Taken' = Taken \cup {ReadBuffersList[i] : i \in 1..took}
         /\ Arrived' /\ QueueAccounting' /\ FramesInOrder' /\ LossCounted'
<1>. DEFINE list == ReadBuffersList  list2 == ReadBuffersList'
            first == {list[i] : i \in 1..took}
<1>1. /\ list \in Seq(Frames) /\ Len(list) \in Nat /\ took \in Nat /\ took \in 0..Len(list)
      /\ MaxCount \in Nat /\ MaxFrames \in Nat /\ received \in Nat
      /\ slots \in [Reads -> [Slots -> 0..MaxFrames]]
      /\ \A s \in Slots : s \in Int /\ 0 <= s
      /\ \A i \in 1..took : i - 1 \in Slots
  <2>1. /\ list \in Seq(Frames) /\ MaxCount \in Nat /\ MaxFrames \in Nat /\ received \in Nat
        /\ slots \in [Reads -> [Slots -> 0..MaxFrames]]
    BY ReadAssumption DEF IInv, TypeOK
  <2>2. Len(list) \in Nat
    BY <2>1, LenProperties
  <2>3. took \in Nat /\ took \in 0..Len(list)
    BY <2>1, <2>2
  <2>4. \A s \in Slots : s \in Int /\ 0 <= s
    BY <2>1 DEF Slots
  <2>5. \A i \in 1..took : i - 1 \in Slots
    BY <2>1, <2>3 DEF Slots
  <2>. QED
    BY <2>1, <2>2, <2>3, <2>4, <2>5
<1>2. \A i \in 1..Len(list) : list[i] \in 1..MaxFrames /\ list[i] <= received
  BY <1>1, ElementOfSeq DEF IInv, Arrived, Frames
<1>3. /\ list2 \in Seq(Frames) /\ Len(list2) = Len(list) - took
      /\ \A i \in 1..Len(list2) : list2[i] = list[i + took]
  BY <1>1, Rest
<1>4. /\ \A i, j \in 1..Len(list) : i < j => list[i] < list[j]
      /\ \A f \in Taken, i \in 1..Len(list) : f < list[i]
  BY DEF IInv, FramesInOrder
<1>. HIDE DEF list, list2
<1>5. \A s \in Slots : slots[r][s] = NoFrame
  BY DEF IInv, RequestsOK
<1>6. /\ \A q \in Reads \ {r} : slots'[q] = slots[q]
      /\ \A s \in Slots : slots'[r][s] = IF s < took THEN list[s + 1] ELSE NoFrame
  BY <1>1, <1>5 DEF list
<1>7. \A s \in Slots : s < took => s + 1 \in 1..Len(list) /\ s + 1 \in 1..took
  BY <1>1
<1>8. slots' \in [Reads -> [Slots -> 0..MaxFrames]]
  <2>1. [s \in Slots |-> IF s < took THEN list[s + 1] ELSE slots[r][s]] \in [Slots -> 0..MaxFrames]
    BY <1>1, <1>2, <1>7
  <2>. QED
    BY <1>1, <2>1 DEF list
<1>9. \A s \in Slots : slots'[r][s] # NoFrame <=> s < took
  BY <1>2, <1>6, <1>7 DEF NoFrame
<1>10. /\ FramesOf(r)' = first /\ FramesOf(r) = {}
       /\ \A q \in Reads \ {r} : FramesOf(q)' = FramesOf(q)
  <2>1. \A q \in Reads \ {r} : FramesOf(q)' = FramesOf(q)
    BY <1>6 DEF FramesOf
  <2>2. FramesOf(r) = {}
    BY <1>5 DEF FramesOf
  <2>3. ASSUME NEW f \in FramesOf(r)' PROVE f \in first
    <3>1. PICK s \in Slots : f = slots'[r][s] /\ slots'[r][s] # NoFrame
      BY <2>3 DEF FramesOf
    <3>. QED
      BY <1>6, <1>7, <1>9, <3>1
  <2>4. ASSUME NEW i \in 1..took PROVE list[i] \in FramesOf(r)'
    <3>1. i - 1 \in Slots /\ i - 1 < took /\ (i - 1) + 1 = i
      BY <1>1
    <3>2. slots'[r][i - 1] = list[i] /\ slots'[r][i - 1] # NoFrame
      BY <1>6, <1>9, <3>1
    <3>. QED
      BY <3>1, <3>2 DEF FramesOf
  <2>5. FramesOf(r)' = first
    BY <2>3, <2>4
  <2>. QED
    BY <2>1, <2>2, <2>5
<1>11. Taken' = Taken \cup first
  BY <1>10 DEF Taken
<1>12. Taken \cap first = {}
  <2>1. ASSUME NEW i \in 1..took, list[i] \in Taken PROVE FALSE
    <3>1. i \in 1..Len(list)
      BY <1>1
    <3>2. list[i] < list[i] /\ list[i] \in Int
      BY <1>2, <1>4, <2>1, <3>1
    <3>. QED
      BY <3>2
  <2>. QED
    BY <2>1
<1>13. IsFiniteSet(first) /\ Cardinality(first) = took
  BY <1>1, <1>4, Oldest
<1>14. LossCounted'
  <2>. HIDE DEF first
  <2>1. Cardinality(Taken \cup first) = Cardinality(Taken) + took - Cardinality({})
    BY <1>12, <1>13, TakenFinite, FS_Union DEF IInv
  <2>2. Cardinality(Taken') = Cardinality(Taken) + took /\ Cardinality(Taken) \in Nat
    BY <1>1, <1>11, <2>1, TakenFinite, FS_EmptySet DEF IInv
  <2>3. received = Len(list) + Cardinality(Taken) + RxLost /\ RxLost \in Int
    BY DEF IInv, TypeOK, LossCounted, list
  <2>. QED
    BY <1>1, <1>3, <2>2, <2>3 DEF LossCounted, list2
<1>15. QueueAccounting'
  <2>1. /\ ReadBuffersQueued = Len(list) /\ Len(list) <= MaxQueued /\ available \in Nat
        /\ available + Len(list) = pages * PageItems /\ MaxQueued \in Nat
    BY ReadAssumption DEF IInv, TypeOK, QueueAccounting, list
  <2>2. /\ ReadBuffersQueued' = Len(list2) /\ Len(list2) <= MaxQueued
        /\ available' + Len(list2) = available + Len(list)
    BY <1>1, <1>3, <2>1
  <2>. QED
    BY <2>1, <2>2 DEF QueueAccounting, list2
<1>16. ASSUME NEW i \in 1..Len(list2)
       PROVE  i + took \in 1..Len(list) /\ list2[i] = list[i + took]
  BY <1>1, <1>3
<1>17. Arrived'
  <2>1. \A i \in 1..Len(list2) : list2[i] <= received
    BY <1>2, <1>16
  <2>2. \A s \in Slots : slots'[r][s] <= received
    BY <1>1, <1>2, <1>6, <1>7 DEF NoFrame
  <2>3. \A q \in Reads \ {r}, s \in Slots : slots'[q][s] <= received
    BY <1>6 DEF IInv, Arrived
  <2>. QED
    BY <2>1, <2>2, <2>3 DEF Arrived, list2
<1>18. FramesInOrder'
  <2>1. ASSUME NEW i \in 1..Len(list2), NEW j \in 1..Len(list2), i < j
        PROVE  list2[i] < list2[j]
    <3>1. /\ i + took < j + took /\ i + took \in 1..Len(list) /\ j + took \in 1..Len(list)
          /\ list2[i] = list[i + took] /\ list2[j] = list[j + took]
      BY <1>1, <1>16, <2>1
    <3>2. list[i + took] < list[j + took]
      BY <1>4, <3>1
    <3>. QED
      BY <3>1, <3>2
  <2>2. ASSUME NEW f \in Taken', NEW i \in 1..Len(list2)
        PROVE  f < list2[i]
    <3>1. i + took \in 1..Len(list) /\ list2[i] = list[i + took]
      BY <1>16
    <3>2. CASE f \in Taken
      BY <1>4, <3>1, <3>2
    <3>3. CASE f \in first
      <4>1. PICK k \in 1..took : f = list[k]
        BY <3>3
      <4>2. k \in 1..Len(list) /\ k < i + took
        BY <1>1, <3>1
      <4>. QED
        BY <1>4, <3>1, <4>1, <4>2
    <3>. QED
      BY <1>11, <3>2, <3>3
  <2>3. ASSUME NEW q \in Reads, NEW s \in Slots, NEW u \in Slots, s < u,
               slots'[q][s] # NoFrame, slots'[q][u] # NoFrame
        PROVE  slots'[q][s] < slots'[q][u]
    <3>1. CASE q # r
      BY <1>6, <2>3, <3>1 DEF IInv, FramesInOrder
    <3>2. CASE q = r
      <4>1. /\ slots'[r][s] = list[s + 1] /\ slots'[r][u] = list[u + 1]
            /\ s + 1 \in 1..Len(list) /\ u + 1 \in 1..Len(list)
        BY <1>6, <1>7, <1>9, <2>3, <3>2
      <4>2. s + 1 < u + 1
        BY <1>1, <2>3
      <4>. QED
        BY <1>4, <3>2, <4>1, <4>2
    <3>. QED
      BY <3>1, <3>2
  <2>4. ASSUME NEW q \in Reads, NEW w \in Reads, q # w
        PROVE  FramesOf(q)' \cap FramesOf(w)' = {}
    <3>1. FramesOf(q) \cap FramesOf(w) = {}
      BY <2>4 DEF IInv, FramesInOrder
    <3>2. FramesOf(q) \subseteq Taken /\ FramesOf(w) \subseteq Taken
      BY DEF Taken
    <3>. HIDE DEF first
    <3>. QED
      BY <1>10, <1>12, <2>4, <3>1, <3>2
  <2>. QED
    BY <2>1, <2>2, <2>3, <2>4 DEF FramesInOrder, list2
<1>. QED
  BY <1>3, <1>6, <1>8, <1>9, <1>11, <1>14, <1>15, <1>17, <1>18 DEF list, list2

\* Types hold again if those of queue, buffers, results and pending read do.
LEMMA ReadTypes ==
  ASSUME TypeOK, UNCHANGED <<read, pages, RxLost, received, cancelled, addVars>>,
         slots' \in [Reads -> [Slots -> 0..MaxFrames]], ReadBuffersList' \in Seq(Frames),
         ReadBuffersQueued' \in 0..MaxQueued, available' \in Nat,
         wdf' \in [Reads -> States], result' \in [Reads -> Result],
         PendingReadRequest' \in Reads \cup {NoRead}, PendingReadBuffer' \in 0..MaxCount,
         PendingReadOffset' \in 0..MaxCount, PendingReadCount' \in 0..MaxCount
  PROVE  TypeOK'
BY Zenon DEF TypeOK, addVars, Result, Statuses, States

\* What McbaRead does to the request: it completes it with what it took, or leaves it
\* waiting for more when that was all there was and no other read waits.
LEMMA ReadCases ==
  ASSUME IInv, NEW r \in Reads, Read(r)
  PROVE  \E took \in 0..MaxCount :
           /\ took <= Len(ReadBuffersList)
           /\ slots' = [slots EXCEPT ![r] =
                [s \in Slots |-> IF s < took THEN ReadBuffersList[s + 1] ELSE @[s]]]
           /\ ReadBuffersList' = SubSeq(ReadBuffersList, took + 1, Len(ReadBuffersList))
           /\ ReadBuffersQueued' = ReadBuffersQueued - took /\ available' = available + took
           /\ \/ /\ \E status \in {"success", "notImplemented", "cancelled"} :
                      Completed(r, status, took)
                 /\ UNCHANGED pendingVars
              \/ /\ took < read[r].count /\ took = Len(ReadBuffersList) /\ ~Busy
                 /\ wdf' = [wdf EXCEPT ![r] = "cancelable"]
                 /\ PendingReadRequest' = r
                 /\ PendingReadBuffer' = took
                 /\ PendingReadOffset' = took
                 /\ PendingReadCount' = Needed(r, took)
                 /\ result' = [result EXCEPT ![r].waitedAt = took]
<1>. DEFINE count == read[r].count
            took == IF count <= ReadBuffersQueued THEN count ELSE ReadBuffersQueued
<1>1. /\ ReadBuffersQueued = Len(ReadBuffersList) /\ Len(ReadBuffersList) \in Nat
      /\ count \in 1..MaxCount /\ MaxCount \in Nat
  BY ReadAssumption, LenProperties DEF IInv, TypeOK, QueueAccounting
<1>2. /\ took \in 0..MaxCount /\ took <= Len(ReadBuffersList)
      /\ took # count => took < count /\ took = Len(ReadBuffersList)
  BY <1>1
<1>3. took = count \/ took # count
  OBVIOUS
<1>. QED
  BY <1>2, <1>3, Zenon DEF Read

\* A read.
LEMMA ReadKeeps ==
  ASSUME IInv, NEW r \in Reads, Read(r)
  PROVE  IInv'
<1>. DEFINE list == ReadBuffersList
<1>1. PICK took \in 0..MaxCount :
        /\ took <= Len(ReadBuffersList)
        /\ slots' = [slots EXCEPT ![r] =
             [s \in Slots |-> IF s < took THEN ReadBuffersList[s + 1] ELSE @[s]]]
        /\ ReadBuffersList' = SubSeq(ReadBuffersList, took + 1, Len(ReadBuffersList))
        /\ ReadBuffersQueued' = ReadBuffersQueued - took /\ available' = available + took
        /\ \/ /\ \E status \in {"success", "notImplemented", "cancelled"} :
                   Completed(r, status, took)
              /\ UNCHANGED pendingVars
           \/ /\ took < read[r].count /\ took = Len(ReadBuffersList) /\ ~Busy
              /\ wdf' = [wdf EXCEPT ![r] = "cancelable"]
              /\ PendingReadRequest' = r
              /\ PendingReadBuffer' = took
              /\ PendingReadOffset' = took
              /\ PendingReadCount' = Needed(r, took)
              /\ result' = [result EXCEPT ![r].waitedAt = took]
  BY ReadCases
<1>2. /\ wdf[r] = "dispatched" /\ adding # "remark"
      /\ UNCHANGED <<read, pages, RxLost, received, cancelled, addVars>>
  BY DEF Read, Unlocked
<1>3. /\ slots' \in [Reads -> [Slots -> 0..MaxFrames]]
      /\ ReadBuffersList' \in Seq(Frames) /\ Len(ReadBuffersList') = Len(list) - took
      /\ \A q \in Reads \ {r} : slots'[q] = slots[q]
      /\ \A s \in Slots : slots'[r][s] # NoFrame <=> s < took
      /\ Arrived' /\ QueueAccounting' /\ FramesInOrder' /\ LossCounted'
  BY <1>1, <1>2, FramesMoved
<1>4. /\ ReadBuffersQueued = Len(list) /\ Len(list) \in Nat /\ Len(list) <= MaxQueued
      /\ available \in Nat /\ MaxQueued \in Nat /\ MaxCount \in Nat /\ took \in Nat
      /\ NoRead \notin Reads /\ list \in Seq(Frames)
      /\ read[r].count \in 1..MaxCount
  BY ReadAssumption, LenProperties DEF IInv, TypeOK, QueueAccounting
<1>5. ReadBuffersQueued' \in 0..MaxQueued /\ available' \in Nat
  BY <1>1, <1>4
<1>6. wdf \in [Reads -> States] /\ result \in [Reads -> Result] /\ result[r].status = "none"
  BY <1>2, RequestTypes DEF IInv, RequestsOK
<1>7. r # PendingReadRequest /\ r # requestToComplete
  BY <1>2, ReadAssumption DEF IInv, PendingOK, CompletingOK
<1>8. Len(list) = took => ReadBuffersList' = <<>>
  BY <1>3, <1>4, EmptySeq
<1>9. \A q \in Reads, n \in Int : Needed(q, n)' = Needed(q, n)
  BY <1>2 DEF Needed
<1>. HIDE DEF list
<1>10. ASSUME NEW status \in {"success", "notImplemented", "cancelled"},
              Completed(r, status, took), UNCHANGED pendingVars
       PROVE  IInv'
  <2>1. /\ wdf' \in [Reads -> States] /\ result' \in [Reads -> Result]
        /\ wdf'[r] = "completed" /\ result'[r].status = status /\ result'[r].count = took
        /\ result'[r].waitedAt = result[r].waitedAt
        /\ \A q \in Reads \ {r} : wdf'[q] = wdf[q] /\ result'[q] = result[q]
    <3>1. status \in Statuses
      BY DEF Statuses
    <3>. QED
      BY <1>10, <3>1, CompletedChanges DEF IInv
  <2>2. /\ PendingReadRequest' = PendingReadRequest /\ PendingReadBuffer' = PendingReadBuffer
        /\ PendingReadOffset' = PendingReadOffset /\ PendingReadCount' = PendingReadCount
    BY <1>10 DEF pendingVars
  <2>3. TypeOK'
    <3>1. /\ PendingReadRequest \in Reads \cup {NoRead} /\ PendingReadBuffer \in 0..MaxCount
          /\ PendingReadOffset \in 0..MaxCount /\ PendingReadCount \in 0..MaxCount /\ TypeOK
      BY DEF IInv, TypeOK
    <3>. QED
      BY <1>2, <1>3, <1>5, <2>1, <2>2, <3>1, ReadTypes
  <2>4. RequestsOK'
    <3>1. Filled(r)'
      BY <1>3, <1>4, <2>1 DEF Filled, Slots
    <3>2. \A q \in Reads \ {r} : Filled(q)' = Filled(q)
      BY <1>3, <2>1 DEF Filled
    <3>3. RequestsOK
      BY DEF IInv
    <3>4. ASSUME NEW q \in Reads
          PROVE  /\ result'[q].waitedAt < read'[q].count
                 /\ wdf'[q] = "dispatched" => \A s \in Slots : slots'[q][s] = NoFrame
                 /\ result'[q].status # "none" => wdf'[q] = "completed"
                 /\ result'[q].status = "success" /\ result'[q].waitedAt = 0 => Filled(q)'
      <4>1. CASE q = r
        BY <1>2, <2>1, <3>1, <3>3, <4>1 DEF RequestsOK
      <4>2. CASE q # r
        <5>1. /\ result'[q] = result[q] /\ wdf'[q] = wdf[q] /\ slots'[q] = slots[q]
              /\ read'[q] = read[q] /\ Filled(q)' = Filled(q)
          BY <1>2, <1>3, <2>1, <3>2, <4>2
        <5>. QED
          BY <3>3, <5>1 DEF RequestsOK
      <4>. QED
        BY <4>1, <4>2
    <3>. QED
      BY <3>4 DEF RequestsOK
  <2>5. PendingOK'
    BY <1>2, <1>3, <1>7, <2>1, <2>2 DEF IInv, TypeOK, PendingOK, Needed, NextSlot, addVars
  <2>6. CompletingOK'
    BY <1>2, <1>3, <1>7, <2>1, <2>2 DEF IInv, TypeOK, CompletingOK, Needed, addVars
  <2>7. OwnersOK'
    BY <1>2, <2>1, <2>2 DEF IInv, OwnersOK, addVars
  <2>8. WaitsOnlyWhenEmpty'
    <3>1. ASSUME list = <<>> PROVE ReadBuffersList' = <<>>
      BY <1>1, <1>4, <1>8, <3>1 DEF list
    <3>. QED
      BY <2>2, <3>1 DEF IInv, WaitsOnlyWhenEmpty, list
  <2>. QED
    BY <1>3, <2>3, <2>4, <2>5, <2>6, <2>7, <2>8 DEF IInv
<1>11. ASSUME took < read[r].count, took = Len(list), ~Busy,
              wdf' = [wdf EXCEPT ![r] = "cancelable"],
              PendingReadRequest' = r, PendingReadBuffer' = took,
              PendingReadOffset' = took, PendingReadCount' = Needed(r, took),
              result' = [result EXCEPT ![r].waitedAt = took]
       PROVE  IInv'
  <2>1. /\ wdf' \in [Reads -> States] /\ wdf'[r] = "cancelable"
        /\ \A q \in Reads \ {r} : wdf'[q] = wdf[q] /\ result'[q] = result[q]
    BY <1>6, <1>11 DEF States
  <2>2. /\ result' \in [Reads -> Result] /\ result'[r].waitedAt = took
        /\ result'[r].status = "none"
    BY <1>6, <1>11 DEF Result
  <2>3. Needed(r, took) \in 0..MaxCount /\ took < Needed(r, took) /\ took \in 0..MaxCount
    BY <1>4, <1>11 DEF Needed
  <2>4. TypeOK'
    BY <1>2, <1>3, <1>5, <1>11, <2>1, <2>2, <2>3, ReadTypes DEF IInv
  <2>5. RequestsOK'
    <3>1. \A q \in Reads \ {r} : Filled(q)' = Filled(q)
      BY <1>3, <2>1 DEF Filled
    <3>2. /\ result'[r].waitedAt < read'[r].count /\ wdf'[r] # "dispatched"
          /\ result'[r].status = "none" /\ read' = read
      BY <1>2, <1>11, <2>1, <2>2
    <3>. QED
      BY <1>3, <2>1, <3>1, <3>2 DEF IInv, RequestsOK
  <2>6. PendingOK'
    <3>1. adding' # "remark" /\ PendingReadRequest' = r /\ wdf'[r] \in {"cancelable", "callback"}
      BY <1>2, <1>11, <2>1 DEF addVars
    <3>2. /\ PendingReadBuffer' = result'[r].waitedAt
          /\ PendingReadCount' = Needed(r, PendingReadBuffer)'
      BY <1>2, <1>11, <2>2 DEF Needed
    <3>3. PendingReadBuffer' <= PendingReadOffset' /\ PendingReadOffset' < PendingReadCount'
      BY <1>4, <1>11, <2>3
    <3>4. \A s \in Slots : NextSlot' <= s => slots'[r][s] = NoFrame
      <4>. SUFFICES ASSUME NEW s \in Slots, took + took <= s PROVE slots'[r][s] = NoFrame
        BY <1>11 DEF NextSlot
      <4>1. ~(s < took)
        BY <1>4 DEF Slots
      <4>. QED
        BY <1>3, <4>1
    <3>5. PendingReadBuffer' = 0 =>
            \A s \in Slots : s < PendingReadOffset' => slots'[r][s] # NoFrame
      BY <1>3, <1>11
    <3>. HIDE DEF Needed
    <3>. QED
      BY <3>1, <3>2, <3>3, <3>4, <3>5 DEF PendingOK
  <2>7. CompletingOK'
    BY <1>2, <1>3, <1>7, <1>11, <2>1 DEF IInv, TypeOK, CompletingOK, Needed, addVars
  <2>8. OwnersOK'
    BY <1>2, <1>4, <1>11, <2>1 DEF IInv, OwnersOK, addVars, Busy
  <2>9. WaitsOnlyWhenEmpty'
    BY <1>8, <1>11 DEF WaitsOnlyWhenEmpty
  <2>. QED
    BY <1>3, <2>4, <2>5, <2>6, <2>7, <2>8, <2>9 DEF IInv
<1>. QED
  BY <1>1, <1>10, <1>11 DEF list

-----------------------------------------------------------------------------
\* Every step keeps the invariant.
LEMMA NextKeepsIInv ==
  ASSUME IInv, [Next]_vars
  PROVE  IInv'
<1>1. ASSUME NEW r \in Reads, Cancel(r) PROVE IInv'
  BY <1>1, CancelKeeps
<1>2. ASSUME NEW r \in Reads, NEW status \in {"success", "invalid"}, CompleteAtOnce(r, status)
      PROVE  IInv'
  BY <1>2, CompleteAtOnceKeeps
<1>3. ASSUME NEW r \in Reads, Read(r) PROVE IInv'
  BY <1>3, ReadKeeps
<1>4. ASSUME NEW r \in Reads, CancelPendingRead(r) PROVE IInv'
  BY <1>4, CancelPendingReadKeeps
<1>5. Enqueue => IInv'
  BY EnqueueKeeps
<1>6. EnqueueFails => IInv'
  BY EnqueueFailsKeeps
<1>7. Deliver => IInv'
  BY DeliverKeeps
<1>8. Remark => IInv'
  BY RemarkKeeps
<1>9. CompleteRead => IInv'
  BY CompleteReadKeeps
<1>10. CASE UNCHANGED vars
  <2>. USE <1>10 DEF vars, queueVars, pendingVars, requestVars, addVars
  <2>1. TypeOK'
    BY Zenon DEF IInv, TypeOK
  <2>2. WaitsOnlyWhenEmpty'
    BY DEF IInv, WaitsOnlyWhenEmpty
  <2>. QED
    BY <2>1, <2>2, QueueKept, RequestsKept DEF IInv
<1>. QED
  BY <1>1, <1>2, <1>3, <1>4, <1>5, <1>6, <1>7, <1>8, <1>9, <1>10 DEF Next

\* The inductive invariant: what the ten parts of it say is so in every state that
\* McbaRead, its cancel callback and McbaAddCanMessageToFileReadQueue reach.
THEOREM ReadQueueInvariant == Spec => []IInv
<1>1. IInv /\ [Next]_vars => IInv'
  BY NextKeepsIInv
<1>. QED
  BY InitIInv, <1>1, PTL DEF Spec

-----------------------------------------------------------------------------
(* What the invariant gives. *)

\* The variables of the read queue keep their types.
THEOREM ReadQueueTypes == Spec => []TypeOK
<1>1. IInv => TypeOK
  BY DEF IInv
<1>. QED
  BY ReadQueueInvariant, <1>1, PTL

\* ReadBuffersQueued is the length of the queue and within its limit, and no queue item
\* is lost or made twice (McbaAddCanMessageToFileReadQueue, McbaRead).
THEOREM QueueIsAccounted == Spec => []QueueAccounting
<1>1. IInv => QueueAccounting
  BY DEF IInv
<1>. QED
  BY ReadQueueInvariant, <1>1, PTL

\* No read waits for a frame while one is queued (McbaRead looks before it waits, Add
\* queues only if nobody waits).
THEOREM NobodyWaitsForQueued == Spec => []WaitsOnlyWhenEmpty
<1>1. IInv => WaitsOnlyWhenEmpty
  BY DEF IInv
<1>. QED
  BY ReadQueueInvariant, <1>1, PTL

\* Frames leave in the order they came and none leaves twice, through the queue or
\* straight into a buffer.
THEOREM FramesStayInOrder == Spec => []FramesInOrder
<1>1. IInv => FramesInOrder
  BY DEF IInv
<1>. QED
  BY ReadQueueInvariant, <1>1, PTL

\* RxLost counts exactly the frames nobody got or will get.
THEOREM LossIsCounted == Spec => []LossCounted
<1>1. IInv => LossCounted
  BY DEF IInv
<1>. QED
  BY ReadQueueInvariant, <1>1, PTL

\* A successful read that had nothing when it began to wait reports filled slots only.
THEOREM FilledFromStart == Spec => []SlotsFilledFromStart
<1>1. IInv => SlotsFilledFromStart
  BY DEF IInv, RequestsOK, SlotsFilledFromStart
<1>. QED
  BY ReadQueueInvariant, <1>1, PTL

\* Unless a frame has met the cancellation of the read that waits for it, the driver
\* knows every request it owns, and a cancel callback finds its own request pending.
THEOREM OwnersKnown == Spec => []OwnedUnlessRaced
<1>1. ASSUME IInv PROVE OwnedUnlessRaced
  <2>. SUFFICES ASSUME ~raced PROVE NoOrphan /\ CallbackOwnsPending
    BY DEF OwnedUnlessRaced
  <2>1. wdf \in [Reads -> States]
    BY <1>1, RequestTypes DEF IInv
  <2>2. NoOrphan
    BY <1>1, <2>1 DEF IInv, OwnersOK, NoOrphan, HasOwner, States
  <2>3. CallbackOwnsPending
    BY <1>1 DEF IInv, OwnersOK, CallbackOwnsPending
  <2>. QED
    BY <2>2, <2>3
<1>. QED
  BY ReadQueueInvariant, <1>1, PTL

\* What a step leaves of a completed request: no handler completes it again, and none
\* writes to its buffer.
LEMMA CompletedKept ==
  ASSUME IInv, [Next]_vars, NEW r \in Reads, wdf[r] = "completed"
  PROVE  UNCHANGED <<result[r], slots[r]>>
<1>. DEFINE Same == result'[r] = result[r] /\ slots'[r] = slots[r]
<1>1. /\ wdf \in [Reads -> States] /\ result \in [Reads -> Result]
      /\ slots \in [Reads -> [Slots -> 0..MaxFrames]]
  BY RequestTypes DEF IInv, TypeOK
<1>2. ASSUME NEW q \in Reads, Cancel(q) PROVE Same
  BY <1>2 DEF Cancel
<1>3. ASSUME NEW q \in Reads, NEW status, CompleteAtOnce(q, status) PROVE Same
  BY <1>1, <1>3 DEF CompleteAtOnce, Completed
<1>4. ASSUME NEW q \in Reads, Read(q) PROVE Same
  BY <1>1, <1>4 DEF Read, Completed
<1>5. ASSUME NEW q \in Reads, CancelPendingRead(q) PROVE Same
  BY <1>1, <1>5 DEF CancelPendingRead, Completed
<1>6. CASE Enqueue
  BY <1>6 DEF Enqueue, requestVars
<1>7. CASE EnqueueFails
  BY <1>7 DEF EnqueueFails, requestVars
<1>8. CASE Deliver
  <2>1. r # PendingReadRequest
    BY <1>8 DEF IInv, PendingOK, Deliver, Arrives
  <2>. QED
    BY <1>1, <1>8, <2>1 DEF Deliver
<1>9. CASE Remark
  BY <1>9 DEF Remark
<1>10. CASE CompleteRead
  <2>1. r # requestToComplete
    BY <1>10, ReadAssumption DEF IInv, CompletingOK
  <2>. QED
    BY <1>1, <1>10, <2>1 DEF CompleteRead, Completed
<1>11. CASE UNCHANGED vars
  BY <1>11 DEF vars, requestVars
<1>. QED
  BY <1>2, <1>3, <1>4, <1>5, <1>6, <1>7, <1>8, <1>9, <1>10, <1>11 DEF Next

\* A request that McbaRead, Add or the cancel callback has completed stays as it is: it
\* is completed once, and its buffer is the user's again.
THEOREM CompletedStays == Spec => CompletedIsFinal
<1>1. IInv /\ [Next]_vars =>
        [\A r \in Reads : wdf[r] = "completed" => UNCHANGED <<result[r], slots[r]>>]_vars
  BY CompletedKept
<1>. QED
  BY ReadQueueInvariant, <1>1, PTL DEF Spec, CompletedIsFinal

-----------------------------------------------------------------------------
(* The read queue implements FrameQueue. *)

\* A step that moves no frame is a stuttering step of the abstract queue.
LEMMA NoFrameMoves ==
  ASSUME UNCHANGED <<queueVars, received, slots>>
  PROVE  UNCHANGED Queue!vars
BY DEF Queue!vars, queueVars, Taken, FramesOf

\* A frame that Add queues is kept, or takes the place of the oldest, in the abstract
\* queue too.
LEMMA EnqueueMaps ==
  ASSUME IInv, Enqueue
  PROVE  Queue!Keep \/ Queue!DropOldest
<1>1. /\ ReadBuffersQueued = Len(ReadBuffersList) /\ Len(ReadBuffersList) \in Nat
      /\ Len(ReadBuffersList) <= MaxQueued /\ MaxQueued \in Nat
  BY LenProperties, ReadAssumption DEF IInv, TypeOK, QueueAccounting
<1>2. Taken' = Taken /\ Queue!Arrive
  BY DEF Enqueue, requestVars, Taken, FramesOf, Arrives, Queue!Arrive
<1>3. Full => Len(ReadBuffersList) = MaxQueued
  BY <1>1 DEF Full
<1>4. ~Full => Len(ReadBuffersList) < MaxQueued
  BY <1>1 DEF Full
<1>. QED
  BY <1>2, <1>3, <1>4
     DEF Enqueue, InsertTail, RemoveHead, LostOne, Queue!Keep, Queue!DropOldest

\* One that finds no memory is dropped.
LEMMA EnqueueFailsMaps ==
  ASSUME EnqueueFails
  PROVE  Queue!DropNewest
BY DEF EnqueueFails, requestVars, Taken, FramesOf, Arrives, LostOne, Queue!Arrive, Queue!DropNewest

\* One that goes into a waiting read is handed over.
LEMMA DeliverMaps ==
  ASSUME IInv, Deliver
  PROVE  Queue!HandOver
<1>1. Taken' = Taken \cup {received + 1}
  BY DeliverKeeps
<1>2. ReadBuffersList = <<>>
  BY DEF Deliver, IInv, WaitsOnlyWhenEmpty
<1>. QED
  BY <1>1, <1>2 DEF Deliver, Arrives, queueVars, Queue!Arrive, Queue!HandOver

\* A read takes the oldest, or nothing.
LEMMA ReadMaps ==
  ASSUME IInv, NEW r \in Reads, Read(r)
  PROVE  (\E n \in 1..Len(ReadBuffersList) : Queue!Take(n)) \/ UNCHANGED Queue!vars
<1>1. /\ wdf[r] = "dispatched" /\ UNCHANGED <<pages, RxLost, received>>
      /\ ReadBuffersList \in Seq(Frames) /\ Len(ReadBuffersList) \in Nat
      /\ MaxCount \in Nat
  BY LenProperties, ReadAssumption DEF Read, IInv, TypeOK
<1>2. PICK took \in 0..MaxCount :
        /\ took <= Len(ReadBuffersList)
        /\ slots' = [slots EXCEPT ![r] =
             [s \in Slots |-> IF s < took THEN ReadBuffersList[s + 1] ELSE @[s]]]
        /\ ReadBuffersList' = SubSeq(ReadBuffersList, took + 1, Len(ReadBuffersList))
        /\ ReadBuffersQueued' = ReadBuffersQueued - took /\ available' = available + took
  BY ReadCases
<1>3. Taken' = Taken \cup {ReadBuffersList[i] : i \in 1..took}
  BY <1>1, <1>2, FramesMoved
<1>4. CASE took = 0
  <2>1. Taken' = Taken
    BY <1>3, <1>4
  <2>2. ReadBuffersList' = ReadBuffersList
    <3>1. /\ 0 \in 0..Len(ReadBuffersList)
          /\ ReadBuffersList' = SubSeq(ReadBuffersList, 0 + 1, Len(ReadBuffersList))
      BY <1>1, <1>2, <1>4
    <3>2. /\ ReadBuffersList' \in Seq(Frames) /\ Len(ReadBuffersList') = Len(ReadBuffersList) - 0
          /\ \A i \in 1..Len(ReadBuffersList') : ReadBuffersList'[i] = ReadBuffersList[i + 0]
      BY <1>1, <3>1, Rest
    <3>3. /\ Len(ReadBuffersList') = Len(ReadBuffersList)
          /\ \A i \in 1..Len(ReadBuffersList) : ReadBuffersList'[i] = ReadBuffersList[i]
      BY <1>1, <3>2
    <3>. QED
      BY <1>1, <3>2, <3>3, SeqEqual
  <2>. QED
    BY <1>1, <2>1, <2>2 DEF Queue!vars
<1>5. CASE took # 0
  <2>1. took \in 1..Len(ReadBuffersList)
    BY <1>1, <1>2, <1>5
  <2>. QED
    BY <1>1, <1>2, <1>3, <2>1 DEF Queue!Take
<1>. QED
  BY <1>4, <1>5

\* Every step of the read queue is one of the abstract queue, or moves no frame.
LEMMA NextMaps ==
  ASSUME IInv, [Next]_vars
  PROVE  [Queue!Next]_Queue!vars
<1>1. ASSUME NEW r \in Reads, Cancel(r) PROVE UNCHANGED Queue!vars
  BY <1>1, NoFrameMoves DEF Cancel
<1>2. ASSUME NEW r \in Reads, NEW status, CompleteAtOnce(r, status) PROVE UNCHANGED Queue!vars
  BY <1>2, NoFrameMoves DEF CompleteAtOnce
<1>3. ASSUME NEW r \in Reads, Read(r) PROVE [Queue!Next]_Queue!vars
  BY <1>3, ReadMaps DEF Queue!Next
<1>4. ASSUME NEW r \in Reads, CancelPendingRead(r) PROVE UNCHANGED Queue!vars
  BY <1>4, NoFrameMoves DEF CancelPendingRead
<1>5. Enqueue => Queue!Next
  BY EnqueueMaps DEF Queue!Next
<1>6. EnqueueFails => Queue!Next
  BY EnqueueFailsMaps DEF Queue!Next
<1>7. Deliver => Queue!Next
  BY DeliverMaps DEF Queue!Next
<1>8. Remark => UNCHANGED Queue!vars
  BY NoFrameMoves DEF Remark
<1>9. CompleteRead => UNCHANGED Queue!vars
  BY NoFrameMoves DEF CompleteRead
<1>10. CASE UNCHANGED vars
  BY <1>10, NoFrameMoves DEF vars, requestVars
<1>. QED
  BY <1>1, <1>2, <1>3, <1>4, <1>5, <1>6, <1>7, <1>8, <1>9, <1>10 DEF Next

\* The read queue of a file, with its waiting reads and their cancellations, is a bounded
\* queue that drops the oldest frame: in one step of McbaRead or of Add a frame is kept,
\* handed over, or lost and counted.
THEOREM ReadQueueImplements == Spec => ImplementsFrameQueue
<1>1. Init => Queue!Init
  <2>. SUFFICES ASSUME Init PROVE Taken = {}
    BY DEF Init, Queue!Init
  <2>. QED
    BY DEF Init, Taken, FramesOf, NoFrame
<1>2. IInv /\ [Next]_vars => [Queue!Next]_Queue!vars
  BY NextMaps
<1>. QED
  BY ReadQueueInvariant, <1>1, <1>2, PTL DEF Spec, ImplementsFrameQueue, Queue!Spec
=============================================================================
