----------------------------- MODULE WritePath ------------------------------
(***************************************************************************)
(* Writing to the device: McbaEvtIoWrite and the IOCTLs that send one      *)
(* command, from the dispatch of the user's request to its completion.     *)
(*                                                                         *)
(* A write of one message (McbaStandaloneUsbRequest) takes one USB request *)
(* from the pool and its completion routine completes the user's request.  *)
(* A write of several (McbaStartBatchWrite) takes as many USB requests and *)
(* a batch header that counts the transfers still pending; whoever brings  *)
(* the count to zero, the dispatching thread or one of the completion      *)
(* routines, finalizes the batch.  The dispatching thread still works on   *)
(* the header while the completion routines of what it has already sent    *)
(* run on other processors.                                                *)
(***************************************************************************)
EXTENDS UsbRequestPool, Sequences

CONSTANTS
  Headers,    \* Batch headers that ExAllocatePoolWithTag can give out.
  NoHeader,   \* The header of a standalone write.
  Garbage,    \* What the statuses of a new header may be: all there is, or, where
              \* reports are not in question, a part of it.
  Results,    \* How a transfer may end: all of it was sent, it succeeded but was
              \* cut short, it failed (or, again, some of these).
  Reread      \* Does the compiled code load UsbRequestStatuses[i] again for
              \* the check after the send (a build without optimization), or
              \* use the value it has just stored?  The field is not volatile
              \* and completion routines write it: the build decides.

ASSUME WriteAssumption ==
  /\ IsFiniteSet(Headers) /\ NoHeader \notin Headers
  /\ Garbage \subseteq [1..MaxAlloc -> BOOLEAN]
  /\ Results \subseteq {"ok", "short", "failed"}
  /\ Reread \in BOOLEAN

\* Processors that run completion routines.
Dpcs == Threads \ Callers

Positions == 1..MaxAlloc

VARIABLES
  pc,          \* Where each thread is.
  local,       \* Its local variables.
  req,         \* The user's requests, one per caller.
  header,      \* The batch headers.
  allocated,   \* The headers allocated so far; they are never freed.
  batchList,   \* BatchRequestDataListHeader: recycled headers, last in first out.
  usb,         \* USB requests: with the stack, and the completion's context.
  outcome,     \* History: what really became of each message of each request.
  late         \* History: has a status of a send been stored after the transfer's
               \* completion routine had stored its own?

writeVars == <<pc, local, req, header, allocated, batchList, usb, outcome, late>>
allVars == <<poolVars, writeVars>>

\* Locals: the user's request and the batch (or the index, for a standalone
\* write) the thread works on, the loop's position and the status at hand.
NoWork == [r |-> NoHeader, h |-> NoHeader, i |-> 0, k |-> 0, ok |-> TRUE]

NoContext == [h |-> NoHeader, k |-> 0, r |-> NoHeader]

\* After its work a caller has returned from the dispatch, and a processor is
\* free for the next completion.
AtRest(t) == IF t \in Callers THEN "returned" ELSE "idle"

WriteInit ==
  /\ Init
  /\ pc = [t \in Threads |-> "idle"]
  /\ local = [t \in Threads |-> NoWork]
  /\ req = [c \in Callers |-> [n |-> 0, completions |-> 0, ok |-> FALSE, info |-> 0]]
  /\ header = [h \in Headers |->
                 [Request |-> NoHeader, Count |-> 0, Pending |-> 0,
                  UsbRequestStatuses |-> [k \in Positions |-> TRUE],
                  UsbRequestIndices |-> [k \in Positions |-> 0]]]
  /\ allocated = {}
  /\ batchList = <<>>
  /\ usb = [i \in Indices |-> [inFlight |-> FALSE, ctx |-> NoContext]]
  /\ outcome = [c \in Callers |-> [k \in Positions |-> "none"]]
  /\ late = FALSE

-----------------------------------------------------------------------------
(* Helpers. *)

IsBatch(t) == local[t].h # NoHeader
Hdr(t) == header[local[t].h]

\* Fault: the first index is given back in place of all of them.
HeldFirst(t) == IF IsBatch(t)
                THEN [k \in 1..Hdr(t).Count |-> Hdr(t).UsbRequestIndices[1]]
                ELSE <<local[t].i>>

\* The USB requests thread t is about to give back, in order.
Held(t) == IF IsBatch(t)
           THEN [k \in 1..Hdr(t).Count |-> Hdr(t).UsbRequestIndices[k]]
           ELSE <<local[t].i>>

\* WdfRequestCompleteWithInformation.
Complete(c, success, count) ==
  req' = [req EXCEPT ![c].completions = @ + 1, ![c].ok = success, ![c].info = count]

Goto(t, l) == pc' = [pc EXCEPT ![t] = l]
Return(t) == Goto(t, AtRest(t)) /\ local' = [local EXCEPT ![t] = NoWork]

-----------------------------------------------------------------------------
(* Dispatch. *)

\* D0Entry creates the pool before the queue delivers requests.
PowerUp == PoolInit /\ UNCHANGED writeVars

\* McbaEvtIoWrite refuses a length that is no multiple of a message or is more
\* than MCBA_MAX_WRITES messages, and a buffer it cannot retrieve, and completes
\* a write of nothing with success.
CompleteAtOnce(c, success) ==
  /\ Count # 0 /\ pc[c] = "idle"
  /\ Complete(c, success, 0)
  /\ Goto(c, "returned")
  /\ UNCHANGED <<poolVars, local, header, allocated, batchList, usb, outcome, late>>

\* McbaStandaloneUsbRequest starts.  (While the pool is up nobody is refused one
\* request.)
StartStandalone(c) ==
  /\ pc[c] = "idle"
  /\ AllocBegin(c, 1)
  /\ req' = [req EXCEPT ![c].n = 1]
  /\ local' = [local EXCEPT ![c] = [NoWork EXCEPT !.r = c, !.k = 1]]
  /\ Goto(c, "alloc")
  /\ UNCHANGED <<header, allocated, batchList, usb, outcome, late>>

\* Fault: the recycled header stays on the list.
TakeHeaderPeeks(h) ==
  IF batchList # <<>>
  THEN h = Head(batchList) /\ UNCHANGED <<header, allocated, batchList>>
  ELSE /\ h \in Headers \ allocated
       /\ allocated' = allocated \cup {h}
       /\ UNCHANGED <<header, batchList>>

\* ExAllocatePoolWithTag gives out a header whose statuses are what the memory held.
NewHeader(h) ==
  /\ h \in Headers \ allocated
  /\ allocated' = allocated \cup {h}
  /\ \E garbage \in Garbage :
       header' = [header EXCEPT ![h].UsbRequestStatuses = garbage]

\* McbaStartBatchWrite starts with a recycled header or with a new one ...
TakeHeader(h) ==
  IF batchList # <<>>
  THEN h = Head(batchList) /\ batchList' = Tail(batchList) /\ UNCHANGED <<header, allocated>>
  ELSE NewHeader(h) /\ UNCHANGED batchList

\* ... and puts it on the list at once if the pool refuses it the indices.
TakeAndPutBack(h) ==
  IF batchList # <<>>
  THEN h = Head(batchList) /\ UNCHANGED <<header, allocated, batchList>>
  ELSE NewHeader(h) /\ batchList' = <<h>>

\* (A batch is refused only by a pool smaller than the largest write, which the
\* driver's is not.)
StartBatch(c, n, h) ==
  /\ Count # 0 /\ pc[c] = "idle"
  /\ IF n <= Count
     THEN /\ TakeHeader(h)
          /\ AllocBegin(c, n)
          /\ req' = [req EXCEPT ![c].n = n]
          /\ local' = [local EXCEPT ![c] = [NoWork EXCEPT !.r = c, !.h = h, !.k = 1]]
          /\ Goto(c, "alloc")
     ELSE /\ TakeAndPutBack(h)
          /\ AllocRefused(c, n)
          /\ Complete(c, FALSE, 0)
          /\ Goto(c, "returned")
          /\ UNCHANGED local
  /\ UNCHANGED <<usb, outcome, late>>

\* No recycled header, and ExAllocatePoolWithTag fails.
NoMemory(c) ==
  /\ Count # 0 /\ pc[c] = "idle" /\ batchList = <<>>
  /\ Complete(c, FALSE, 0)
  /\ Goto(c, "returned")
  /\ UNCHANGED <<poolVars, local, header, allocated, batchList, usb, outcome, late>>

\* The loop of waits in McbaUsbRequestsAlloc.
Wait(c) == pc[c] = "alloc" /\ AllocWait(c) /\ UNCHANGED writeVars

\* Its pop writes the indices into the header, or into the caller's local.
Pop(c) ==
  /\ pc[c] = "alloc"
  /\ AllocPop(c)
  /\ IF IsBatch(c)
     THEN /\ header' = [header EXCEPT ![local[c].h].UsbRequestIndices =
                [k \in Positions |-> IF k <= want[c] THEN Popped(want[c])[k] ELSE @[k]]]
          /\ Goto(c, "fill")
          /\ UNCHANGED local
     ELSE /\ local' = [local EXCEPT ![c].i = Popped(1)[1]]
          /\ Goto(c, "send")
          /\ UNCHANGED header
  /\ UNCHANGED <<req, allocated, batchList, usb, outcome, late>>

Fill(c) ==
  /\ pc[c] = "fill"
  /\ header' = [header EXCEPT ![local[c].h].Request = c,
                              ![local[c].h].Count = req[c].n,
                              ![local[c].h].Pending = req[c].n]
  /\ Goto(c, "send")
  /\ UNCHANGED <<poolVars, local, req, allocated, batchList, usb, outcome, late>>

\* One McbaUsbBulkWritePipeSend, after the completion routine and its context
\* are set: the transfer is in flight when it returns success.
Send(c, success) ==
  LET k == local[c].k
      i == IF IsBatch(c) THEN Hdr(c).UsbRequestIndices[k] ELSE local[c].i
  IN
  /\ pc[c] = "send"
  /\ usb' = [usb EXCEPT ![i] = [inFlight |-> success,
                               ctx |-> [h |-> local[c].h, k |-> k, r |-> c]]]
  /\ outcome' = [outcome EXCEPT ![c][k] = IF success THEN "sent" ELSE "failed"]
  /\ IF IsBatch(c)
     THEN Goto(c, "store") /\ local' = [local EXCEPT ![c].ok = success]
     ELSE IF success
          THEN Return(c)
          ELSE Goto(c, "push") /\ local' = [local EXCEPT ![c].ok = FALSE]
  /\ UNCHANGED <<poolVars, req, header, allocated, batchList, late>>

\* The send's status is stored after the transfer may have completed ...
Store(c) ==
  /\ pc[c] = "store"
  /\ header' = [header EXCEPT ![local[c].h].UsbRequestStatuses[local[c].k] = local[c].ok]
  /\ late' = (late \/ (local[c].ok /\ outcome[c][local[c].k] # "sent"))
  /\ Goto(c, "check")
  /\ UNCHANGED <<poolVars, local, req, allocated, batchList, usb, outcome>>

\* ... and checked, to go on with the next message or to leave the loop with
\* local[c].k - 1 messages sent.
Check(c) ==
  LET good == IF Reread THEN Hdr(c).UsbRequestStatuses[local[c].k] ELSE local[c].ok
      sent == IF good THEN local[c].k ELSE local[c].k - 1
  IN
  /\ pc[c] = "check"
  /\ local' = [local EXCEPT ![c].k = sent + 1]
  /\ Goto(c, IF good /\ sent < req[c].n THEN "send" ELSE "settle")
  /\ UNCHANGED <<poolVars, req, header, allocated, batchList, usb, outcome, late>>

\* Fault: the message whose send failed is taken off twice.
UnsentTwice(sent, n) == sent - n - 1

\* Fault: what was not sent stays pending.
UnsentStays(sent, n) == 0

\* What the dispatching thread adds to Pending after a loop that it left early.
Unsent(sent, n) == sent - n

\* Fault: the last but one finalizes.
LastButOne(left) == left <= 1

\* The interlocked operation that leaves nothing pending finalizes the batch.
Last(left) == left = 0

\* Takes what was not sent off Pending: if that leaves nothing pending, or if
\* nothing was sent, the dispatching thread finalizes the batch.
Settle(c) ==
  LET sent == local[c].k - 1
      left == Hdr(c).Pending + Unsent(sent, req[c].n)
  IN
  /\ pc[c] = "settle"
  /\ \/ /\ sent = req[c].n
        /\ Return(c)
        /\ UNCHANGED header
     \/ /\ sent \in 1..(req[c].n - 1)
        /\ header' = [header EXCEPT ![local[c].h].Pending = left]
        /\ IF Last(left) THEN Goto(c, "finalize") /\ UNCHANGED local ELSE Return(c)
     \/ /\ sent = 0
        /\ Goto(c, "finalize")
        /\ UNCHANGED <<header, local>>
  /\ UNCHANGED <<poolVars, req, allocated, batchList, usb, outcome, late>>

-----------------------------------------------------------------------------
(* Completion routines: transfer i completes on processor d. *)

\* McbaUrbCompleted completes the user's request (of no bytes) and takes a short
\* transfer for a good one ...
UrbCompleted(d, i, result) ==
  /\ pc[d] = "idle"
  /\ usb[i].inFlight /\ usb[i].ctx.h = NoHeader
  /\ usb' = [usb EXCEPT ![i].inFlight = FALSE]
  /\ outcome' = [outcome EXCEPT ![usb[i].ctx.r][1] = result]
  /\ Complete(usb[i].ctx.r, result # "failed", 0)
  /\ local' = [local EXCEPT ![d] = [NoWork EXCEPT !.r = usb[i].ctx.r, !.i = i]]
  /\ Goto(d, "push")
  /\ UNCHANGED <<poolVars, header, allocated, batchList, late>>

\* ... McbaUrbCompletedForCanFrameInBatch records the status, and a short transfer
\* as a failure.
UrbCompletedInBatch(d, i, result) ==
  LET ctx == usb[i].ctx IN
  /\ pc[d] = "idle"
  /\ usb[i].inFlight /\ ctx.h # NoHeader
  /\ usb' = [usb EXCEPT ![i].inFlight = FALSE]
  /\ outcome' = [outcome EXCEPT ![ctx.r][ctx.k] = result]
  /\ header' = [header EXCEPT ![ctx.h].UsbRequestStatuses[ctx.k] = (result = "ok")]
  /\ local' = [local EXCEPT ![d] = [NoWork EXCEPT !.h = ctx.h]]
  /\ Goto(d, "count")
  /\ UNCHANGED <<poolVars, req, allocated, batchList, late>>

\* InterlockedDecrement(&pHeader->Pending).
CountDown(d) ==
  LET left == Hdr(d).Pending - 1 IN
  /\ pc[d] = "count"
  /\ header' = [header EXCEPT ![local[d].h].Pending = left]
  /\ IF Last(left) THEN Goto(d, "finalize") /\ UNCHANGED local ELSE Return(d)
  /\ UNCHANGED <<poolVars, req, allocated, batchList, usb, outcome, late>>

-----------------------------------------------------------------------------
(* The end of a write. *)

\* Fault: the loop goes on after a failure.
GoodAnywhere(statuses, n) == Cardinality({k \in 1..n : statuses[k]})

\* The number of messages before the first one that failed.
Good(statuses, n) ==
  LET bad == {k \in 1..n : ~statuses[k]}
  IN IF bad = {} THEN n ELSE (CHOOSE k \in bad : \A j \in bad : k <= j) - 1

\* McbaFinalizeBatchWrite completes the user's request with the first failure's
\* status and the bytes sent before it.
Finalize(t) ==
  LET good == Good(Hdr(t).UsbRequestStatuses, Hdr(t).Count) IN
  /\ pc[t] = "finalize"
  /\ Complete(Hdr(t).Request, good = Hdr(t).Count, good)
  /\ Goto(t, "push")
  /\ UNCHANGED <<poolVars, local, header, allocated, batchList, usb, outcome, late>>

\* McbaUsbRequestsReuse and the first half of McbaUsbRequestsFree ...
Push(t) ==
  /\ pc[t] = "push"
  /\ FreePush(t, Len(Held(t)), Held(t))
  /\ Goto(t, "release")
  /\ UNCHANGED <<local, req, header, allocated, batchList, usb, outcome, late>>

\* ... and its second half.  A standalone write whose send failed is completed
\* only now.
Release(t) ==
  /\ pc[t] = "release"
  /\ FreeRelease(t)
  /\ IF IsBatch(t)
     THEN Goto(t, "recycle") /\ UNCHANGED <<local, req>>
     ELSE /\ Return(t)
          /\ IF t \in Callers THEN Complete(t, FALSE, 0) ELSE UNCHANGED req
  /\ UNCHANGED <<header, allocated, batchList, usb, outcome, late>>

\* Fault: the header is not given back.
RecycleForgets(t) ==
  /\ pc[t] = "recycle"
  /\ Return(t)
  /\ UNCHANGED <<poolVars, req, header, allocated, batchList, usb, outcome, late>>

\* The header goes back on the list.
Recycle(t) ==
  /\ pc[t] = "recycle"
  /\ batchList' = <<local[t].h>> \o batchList
  /\ Return(t)
  /\ UNCHANGED <<poolVars, req, header, allocated, usb, outcome, late>>

-----------------------------------------------------------------------------
\* The steps a thread takes once it has begun: nothing but the semaphore can
\* hold it up.
Run(t) ==
  \/ Wait(t) \/ Pop(t) \/ Fill(t)
  \/ \E success \in BOOLEAN : Send(t, success)
  \/ Store(t) \/ Check(t) \/ Settle(t)
  \/ CountDown(t)
  \/ Finalize(t) \/ Push(t) \/ Release(t) \/ Recycle(t)

\* McbaEvtIoWrite chooses by the number of messages.
EvtIoWrite(c) ==
  \/ \E success \in BOOLEAN : CompleteAtOnce(c, success)
  \/ StartStandalone(c)
  \/ \E n \in 2..MaxAlloc, h \in Headers : StartBatch(c, n, h)
  \/ NoMemory(c)

\* McbaEvtIoDeviceControl sends one command to set the bit rate or to switch the
\* termination.  It completes everything else at once, but the reads, which are
\* no business of the write path (what the getters return is left out).
EvtIoDeviceControl(c) ==
  StartStandalone(c) \/ \E success \in BOOLEAN : CompleteAtOnce(c, success)

Arrive(c) == EvtIoWrite(c) \/ EvtIoDeviceControl(c)

\* The bus completes transfer i, on a processor that is free.
Bus(i) ==
  \E d \in Dpcs, result \in Results :
    UrbCompleted(d, i, result) \/ UrbCompletedInBatch(d, i, result)

\* Everything is done.
Finished ==
  /\ \A c \in Callers : pc[c] = "returned" /\ req[c].completions > 0
  /\ \A d \in Dpcs : pc[d] = "idle"
  /\ \A i \in Indices : ~usb[i].inFlight

WriteNext ==
  \/ PowerUp
  \/ \E c \in Callers : Arrive(c)
  \/ \E t \in Threads : Run(t)
  \/ \E i \in Indices : Bus(i)
  \/ Finished /\ UNCHANGED allVars

WriteSpec == WriteInit /\ [][WriteNext]_allVars

\* The scheduler runs every thread that can run, and the USB stack completes
\* every transfer.
WriteFairness ==
  /\ \A t \in Threads : WF_allVars(Run(t))
  /\ \A i \in Indices : WF_allVars(Bus(i))

FairWriteSpec == WriteSpec /\ WriteFairness

-----------------------------------------------------------------------------
(* Correctness. *)

\* Types; a batch never has more transfers pending than messages, nor fewer
\* than none.
WriteTypeOK ==
  /\ TypeOK
  /\ pc \in [Threads -> {"idle", "alloc", "fill", "send", "store", "check", "settle",
                         "count", "finalize", "push", "release", "recycle", "returned"}]
  /\ local \in [Threads -> [r : Callers \cup {NoHeader}, h : Headers \cup {NoHeader},
                            i : Indices, k : 0..(MaxAlloc + 1), ok : BOOLEAN]]
  /\ req \in [Callers -> [n : 0..MaxAlloc, completions : 0..1, ok : BOOLEAN,
                          info : 0..MaxAlloc]]
  /\ header \in [Headers -> [Request : Callers \cup {NoHeader}, Count : 0..MaxAlloc,
                             Pending : 0..MaxAlloc,
                             UsbRequestStatuses : [Positions -> BOOLEAN],
                             UsbRequestIndices : [Positions -> Indices]]]
  /\ allocated \subseteq Headers
  /\ batchList \in Seq(allocated)
  /\ usb \in [Indices -> [inFlight : BOOLEAN,
                          ctx : [h : Headers \cup {NoHeader}, k : 0..MaxAlloc,
                                 r : Callers \cup {NoHeader}]]]
  /\ outcome \in [Callers -> [Positions -> {"none", "sent", "ok", "short", "failed"}]]
  /\ late \in BOOLEAN

\* WdfRequestReuse is called only on requests that the USB stack has given back
\* (its status is asserted at Device.c 1651), although the thread that
\* finalizes a batch is not the one that sent it.
NoReuseInFlight ==
  \A t \in Threads : pc[t] = "push" =>
    \A k \in 1..Len(Held(t)) : ~usb[Held(t)[k]].inFlight

\* The user's request is completed only when nothing of it is in flight any
\* more, so its buffer and status are final: the count in Pending, which two
\* kinds of threads take down by different amounts, is right.
CompletedWhenSettled ==
  \A c \in Callers : req[c].completions > 0 =>
    /\ \A i \in Indices : usb[i].inFlight => usb[i].ctx.r # c
    /\ \A k \in 1..req[c].n : outcome[c][k] # "sent"

\* A header on the free list is there once, and nothing pending refers to it:
\* no transfer in flight, no completion routine that has still to count down
\* and no thread that finalizes the batch.  And only one thread finalizes it.
HeadersExclusive ==
  LET listed == {batchList[j] : j \in 1..Len(batchList)}
      ends(t) == pc[t] \in {"finalize", "push", "release", "recycle"} /\ IsBatch(t)
  IN
  /\ Cardinality(listed) = Len(batchList)
  /\ \A i \in Indices : usb[i].inFlight => usb[i].ctx.h \notin listed
  /\ \A t \in Threads :
       pc[t] \in {"count", "alloc", "fill", "send"} \/ ends(t) => local[t].h \notin listed
  /\ \A t, u \in Threads : ends(t) /\ ends(u) /\ local[t].h = local[u].h => t = u

\* "collect status, bytes transfered of batch write" (Queue.c 625): a batch that
\* was begun reports success if all its messages went out, and otherwise a
\* failure and the bytes of the messages before the first that did not.
ReportIsTrue ==
  \A c \in Callers :
    req[c].completions > 0 /\ req[c].n > 1 =>
      /\ \A k \in 1..req[c].info : outcome[c][k] = "ok"
      /\ IF req[c].ok THEN req[c].info = req[c].n
                      ELSE outcome[c][req[c].info + 1] \in {"short", "failed"}

\* The late store is all there is to it: reports are true in every run in which
\* each send's status is stored before the transfer's, although headers keep
\* the statuses of the requests that used them before.
ReportIsTrueUnlessLate == late \/ ReportIsTrue

\* When all writes are done every index and permit is back in the pool, and
\* every header that was allocated is on the list.
NothingLeaked ==
  Finished => /\ FreeIndexEnd = N /\ Availabe = N
              /\ Len(batchList) = Cardinality(allocated)

\* Every write that reaches the driver is completed, and its dispatch returns.
EveryWriteCompletes ==
  \A c \in Callers : pc[c] # "idle" ~> (pc[c] = "returned" /\ req[c].completions > 0)
=============================================================================
