---------------------------- MODULE DevicePower -----------------------------
(***************************************************************************)
(* The device enters and leaves its working state D0 (McbaEvtDeviceD0Entry *)
(* and McbaEvtDeviceD0Exit) around the writes of WritePath.  The power     *)
(* thread starts the pipes, creates the pool of USB requests, and uses two *)
(* of them to ask the device for its firmware versions; their completion   *)
(* routine may run as soon as each is sent.  If a step fails it deletes    *)
(* the requests and stops the pipes, and on the way out of D0 it stops the *)
(* pipes and deletes the requests.  DeviceSetup comes first, and again     *)
(* when a device that is off is started anew.                              *)
(***************************************************************************)
EXTENDS WritePath, DeviceSetup

CONSTANTS
  Power,      \* The power thread, among the Callers.
  MaxEntries  \* Bound: how often D0 is entered.

ASSUME PowerAssumption ==
  /\ Power \in Callers /\ MaxAlloc >= 2
  /\ MaxEntries \in Nat

\* The threads that dispatch requests of users.
Users == Callers \ {Power}

VARIABLES
  power,      \* Where the power thread is: "off", in D0Entry ("init", "begin",
              \* "alloc", "send", "free", "released", "fail", "failStop"), with
              \* the device "on", with its queues "stopping", in D0Exit
              \* ("exit", "uninit"), or "failed" for good.
  entries,    \* How often D0 has been entered.
  indices,    \* McbaSendFirmwareRequests: its two indices ...
  sent,       \* ... and how many of them are sent.
  ioctlRead   \* An MCBA_IOCTL_HOST_CAN_FRAME_READ_AT_LEAST_ONE, which waits in
              \* the power-managed queue for a frame.

d0Vars == <<power, entries, indices, sent, ioctlRead>>
powerVars == <<d0Vars, setupVars>>
deviceVars == <<allVars, powerVars>>

PowerInit ==
  /\ WriteInit /\ SetupInit
  /\ power = "off" /\ entries = 0
  /\ indices = <<>> /\ sent = 0
  /\ ioctlRead = "none"

-----------------------------------------------------------------------------
(* McbaEvtDeviceD0Entry. *)

\* WdfIoTargetStart for both pipes; one that fails fails the whole entry.
StartPipes(success) ==
  /\ setup = "prepared"
  /\ power = "off" /\ entries < MaxEntries
  /\ entries' = entries + 1
  /\ power' = IF success THEN "init" ELSE "fail"
  /\ UNCHANGED <<allVars, indices, sent, ioctlRead, setupVars>>

CreateRequests ==
  /\ power = "init"
  /\ \/ PoolInit /\ power' = "begin"
     \/ (\E i \in Indices : PoolInitFails(i)) /\ power' = "fail"
  /\ UNCHANGED <<writeVars, entries, indices, sent, ioctlRead>>

\* McbaSendFirmwareRequests allocates two requests at once (the pool has them, so
\* it is not refused) ...
FirmwareAlloc ==
  /\ \/ /\ power = "begin"
        /\ AllocBegin(Power, 2)
        /\ power' = "alloc"
        /\ UNCHANGED <<indices, sent>>
     \/ /\ power = "alloc"
        /\ AllocWait(Power)
        /\ UNCHANGED <<power, indices, sent>>
     \/ /\ power = "alloc"
        /\ AllocPop(Power)
        /\ indices' = Popped(2) /\ sent' = 0
        /\ power' = "send"
  /\ UNCHANGED <<writeVars, entries, ioctlRead>>

\* ... and sends one after the other; a completion routine may run after each.
FirmwareSend(success) ==
  /\ power = "send"
  /\ usb' = [usb EXCEPT ![indices[sent + 1]] =
               [inFlight |-> success, ctx |-> [NoContext EXCEPT !.r = Power]]]
  /\ IF success
     THEN sent' = sent + 1 /\ power' = IF sent = 1 THEN "on" ELSE "send"
     ELSE power' = "free" /\ UNCHANGED sent
  /\ UNCHANGED <<poolVars, pc, local, req, header, allocated, batchList, outcome, late,
                 entries, indices, ioctlRead>>

\* If a send fails it frees that request and those after it.
FirmwareFree ==
  LET unsent == SubSeq(indices, sent + 1, 2) IN
  /\ \/ power = "free" /\ FreePush(Power, Len(unsent), unsent) /\ power' = "released"
     \/ power = "released" /\ FreeRelease(Power) /\ power' = "fail"
  /\ UNCHANGED <<writeVars, entries, indices, sent, ioctlRead>>

\* The entry has failed: first the requests are deleted, then the pipes stopped.
FailUninit ==
  /\ power = "fail"
  /\ IF Count # 0 THEN PoolUninit ELSE UNCHANGED poolVars
  /\ power' = "failStop"
  /\ UNCHANGED <<writeVars, entries, indices, sent, ioctlRead>>

-----------------------------------------------------------------------------
(* The framework (external). *)

\* It decides to take the device out of D0, and dispatches no more requests of
\* the power-managed queue.  McbaEvtIoStop is called for each the driver still
\* has, and does nothing for them: it cancels the request the user sent, but
\* the requests the driver has sent are its own.
StopQueues ==
  /\ power = "on"
  /\ power' = "stopping"
  /\ UNCHANGED <<allVars, entries, indices, sent, ioctlRead>>

\* It waits until all of them are completed (and their dispatch has returned).
Drained ==
  /\ \A c \in Users : pc[c] = "idle" \/ (pc[c] = "returned" /\ req[c].completions > 0)
  /\ ioctlRead # "pending"

CallD0Exit ==
  /\ power = "stopping" /\ Drained
  /\ power' = "exit"
  /\ UNCHANGED <<allVars, entries, indices, sent, ioctlRead>>

-----------------------------------------------------------------------------
(* McbaEvtDeviceD0Exit, and the end of a failed entry. *)

\* Fault: the pipes are told to stop, without waiting for what was sent.
Unwaited == TRUE

\* WdfIoTargetStop(..., WdfIoTargetCancelSentIo) has every transfer that was
\* sent completed and its completion routine run before it returns.
PipesStopped ==
  /\ \A i \in Indices : ~usb[i].inFlight
  /\ \A d \in Dpcs : pc[d] = "idle"

StopPipes ==
  /\ PipesStopped
  /\ \/ power = "failStop" /\ power' = "failed"
     \/ power = "exit" /\ power' = "uninit"
  /\ UNCHANGED <<allVars, entries, indices, sent, ioctlRead>>

ExitUninit ==
  /\ power = "uninit"
  /\ PoolUninit
  /\ power' = "off"
  /\ UNCHANGED <<writeVars, entries, indices, sent, ioctlRead>>

-----------------------------------------------------------------------------
(* Completion routines and the read. *)

\* Fault: a request that failed is not freed ("FIX ME, requeue").
FirmwareKeptIfFailed(d, i, result) ==
  /\ pc[d] = "idle"
  /\ usb[i].inFlight /\ usb[i].ctx.r = Power
  /\ usb' = [usb EXCEPT ![i].inFlight = FALSE]
  /\ IF result = "failed"
     THEN UNCHANGED <<pc, local>>
     ELSE local' = [local EXCEPT ![d] = [NoWork EXCEPT !.r = Power, !.i = i]] /\ Goto(d, "push")
  /\ UNCHANGED <<poolVars, req, header, allocated, batchList, outcome, late, powerVars>>

\* McbaUrbCompletedForFirmwareRequest goes on to reuse and free the request,
\* whether it failed or not.
FirmwareCompleted(d, i, result) ==
  /\ pc[d] = "idle"
  /\ usb[i].inFlight /\ usb[i].ctx.r = Power
  /\ usb' = [usb EXCEPT ![i].inFlight = FALSE]
  /\ local' = [local EXCEPT ![d] = [NoWork EXCEPT !.r = Power, !.i = i]]
  /\ Goto(d, "push")
  /\ UNCHANGED <<poolVars, req, header, allocated, batchList, outcome, late, powerVars>>

\* The IOCTL's read finds no frame and waits; a frame or its user ends it.
IoctlRead ==
  /\ \/ power = "on" /\ ioctlRead = "none" /\ ioctlRead' = "pending"
     \/ ioctlRead = "pending" /\ ioctlRead' = "completed"
  /\ UNCHANGED <<allVars, power, entries, indices, sent>>

-----------------------------------------------------------------------------
PowerStep ==
  /\ \/ CreateRequests \/ FirmwareAlloc
     \/ \E success \in BOOLEAN : FirmwareSend(success)
     \/ FirmwareFree \/ FailUninit
     \/ CallD0Exit \/ StopPipes \/ ExitUninit
  /\ UNCHANGED setupVars

\* Set-up and restarts happen while the device is off.
SetUp ==
  /\ power = "off" /\ SetupStep
  /\ UNCHANGED <<allVars, d0Vars>>

Dispatch(c) == power = "on" /\ Arrive(c) /\ UNCHANGED powerVars
Work(t) == Run(t) /\ UNCHANGED powerVars

Transfer(i) ==
  \/ usb[i].ctx.r # Power /\ Bus(i) /\ UNCHANGED powerVars
  \/ \E d \in Dpcs, result \in {"ok", "failed"} : FirmwareCompleted(d, i, result)

\* Failed for good, or off and never turned on again.
PoweredDown ==
  /\ power = "failed" \/ setup = "failed" \/ (power = "off" /\ entries = MaxEntries)
  /\ ioctlRead # "pending"

PowerNext ==
  \/ \E success \in BOOLEAN : StartPipes(success)
  \/ PowerStep
  \/ SetUp
  \/ StopQueues /\ UNCHANGED setupVars
  \/ \E c \in Users : Dispatch(c)
  \/ \E t \in Threads : Work(t)
  \/ \E i \in Indices : Transfer(i)
  \/ IoctlRead /\ UNCHANGED setupVars
  \/ PoweredDown /\ UNCHANGED deviceVars

PowerSpec == PowerInit /\ [][PowerNext]_deviceVars

\* The power thread and the dispatching threads run, and the bus completes or
\* the stopped pipe cancels every transfer.
FairPowerSpec ==
  /\ PowerSpec
  /\ WF_deviceVars(PowerStep)
  /\ \A t \in Threads : WF_deviceVars(Work(t))
  /\ \A i \in Indices : WF_deviceVars(Transfer(i))

-----------------------------------------------------------------------------
(* Correctness. *)

\* Types.
PowerTypeOK ==
  /\ WriteTypeOK
  /\ power \in {"off", "init", "begin", "alloc", "send", "free", "released", "fail",
                "failStop", "on", "stopping", "exit", "uninit", "failed"}
  /\ entries \in 0..MaxEntries
  /\ indices \in {<<>>} \cup [1..2 -> Indices] /\ sent \in 0..2
  /\ ioctlRead \in {"none", "pending", "completed"}
  /\ setup \in {"unloaded", "loaded", "buffers", "created", "starting", "configured",
                "prepared", "freeing", "failed"}
  /\ endpoints \subseteq {"in", "out"} /\ starts \in 0..MaxStarts /\ UsbDevice \in BOOLEAN
  /\ {BulkReadPipe, BulkWritePipe, reader} \subseteq 0..starts

\* The entry has failed with the first firmware request sent and the second not.
EntryFailed == power \in {"failStop", "failed"} /\ sent = 1

\* "NT_ASSERT(McbaCheckUsbRequestIndices(UsbRequestData))" (Device.c 1617): the
\* stack of free indices never holds more than the requests that exist, so that
\* no request is given back to a pool that was deleted.
StackWithinCount == FreeIndexEnd <= Count

\* On the way out of D0 the order is right: as long as a transfer is in flight,
\* its completion routine runs, or a thread holds an index or permits, the
\* requests exist; so they do when an entry fails, unless it has sent one of the
\* two firmware requests.
RequestsOutliveUse ==
  EntryFailed \/
    ( ((\E i \in Indices : usb[i].inFlight) \/ outstanding # {}
       \/ \E t \in Threads : stage[t] # "out") => Count = N )

\* When D0Exit deletes the requests, all of them and all permits are back, so the
\* pool is started anew with nothing lost and nobody waiting.
AllReturnedAtExit ==
  power = "uninit" => FreeIndexEnd = N /\ Availabe = N /\ Quiescent

\* "If we didn't find both pipes, fail the start" (Device.c 669): as long as the
\* device keeps its endpoints, D0 is entered only with the pipes of the
\* configuration of this start, and frames are read from the one that is used.
ReadyInD0 ==
  power \notin {"off", "failed"} =>
    /\ BulkReadPipe = starts /\ BulkWritePipe = starts
    /\ reader = starts

\* D0Entry, which asks the pool for two requests itself, never waits for others:
\* only users' writes wait for each other, in D0 or until its queues are stopped,
\* and only if they ask for more than the pool has.
DeadlockOnlyOfWrites ==
  HoldAndWait => power \in {"on", "stopping"} /\ Cardinality(Demand) >= N

\* If no read waits in the power-managed queue when it is stopped, the device
\* leaves D0, unless writes then wait for each other's USB requests for ever (as
\* they do: see NoHoldAndWait).  Nothing else that is under way holds it up.
PowerDownCompletes ==
  (power = "stopping" /\ ioctlRead # "pending") ~> (power = "off" \/ HoldAndWait)
=============================================================================
