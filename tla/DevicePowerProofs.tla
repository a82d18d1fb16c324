------------------------- MODULE DevicePowerProofs --------------------------
(***************************************************************************)
(* Proofs of properties of DevicePower, for any number of starts, entries, *)
(* users, requests and headers.                                            *)
(***************************************************************************)
EXTENDS DevicePower, WritePathProofs

-----------------------------------------------------------------------------
(* The set-up of the device. *)

\* A pipe that no endpoint gives is never found; one that an endpoint gives belongs to
\* this start as soon as the device is configured, and a prepared device has both and
\* reads from the one it has.
PipesOK ==
  /\ "in" \notin endpoints => BulkReadPipe = 0
  /\ "out" \notin endpoints => BulkWritePipe = 0
  /\ setup = "configured" =>
       /\ "in" \in endpoints => BulkReadPipe = starts
       /\ "out" \in endpoints => BulkWritePipe = starts
  /\ setup = "prepared" =>
       /\ BulkReadPipe = starts /\ BulkWritePipe = starts
       /\ reader = starts

\* D0 is entered when the device is prepared, and no start begins until it is off.
EnteredPrepared == power \notin {"off", "failed"} => setup = "prepared"

SetupInvariant == PipesOK /\ EnteredPrepared

\* Every step of the set-up keeps the pipes right (McbaEvtDevicePrepareHardware).
LEMMA SetupKeepsPipes ==
  ASSUME PipesOK, SetupStep
  PROVE  PipesOK'
<1>1. ASSUME NEW success \in BOOLEAN,
             DriverEntry(success) \/ AddBuffers(success) \/ CreateQueues(success)
      PROVE  PipesOK'
  BY <1>1 DEF PipesOK, DriverEntry, AddBuffers, CreateQueues, Advance, pipeVars
<1>2. ASSUME NEW success \in BOOLEAN, FindPipes(success)
      PROVE  PipesOK'
  BY <1>2 DEF PipesOK, FindPipes, Found, Advance
<1>3. ASSUME NEW success \in BOOLEAN, ConfigureReader(success)
      PROVE  PipesOK'
  BY <1>3 DEF PipesOK, ConfigureReader, Advance
<1>4. CASE Start
  BY <1>4 DEF PipesOK, Start, pipeVars
<1>5. CASE MessageBuffersFree
  BY <1>5 DEF PipesOK, MessageBuffersFree, setupVars, pipeVars
<1> QED
  BY <1>1, <1>2, <1>3, <1>4, <1>5 DEF SetupStep

\* D0 is entered only from the prepared state, and left only by the power thread.
LEMMA SetupInvariantKept ==
  ASSUME SetupInvariant, [PowerNext]_deviceVars
  PROVE  SetupInvariant'
<1>1. ASSUME NEW success \in BOOLEAN, StartPipes(success)
      PROVE  SetupInvariant'
  BY <1>1 DEF SetupInvariant, PipesOK, EnteredPrepared, StartPipes, setupVars, pipeVars
<1>2. CASE PowerStep
  <2>1. power \notin {"off", "failed"}
    BY <1>2 DEF PowerStep, CreateRequests, FirmwareAlloc, FirmwareSend, FirmwareFree, FailUninit,
                CallD0Exit, StopPipes, ExitUninit
  <2> QED
    BY <1>2, <2>1 DEF SetupInvariant, PipesOK, EnteredPrepared, PowerStep, setupVars, pipeVars
<1>3. CASE SetUp
  BY <1>3, SetupKeepsPipes DEF SetupInvariant, EnteredPrepared, SetUp, d0Vars
<1>4. CASE StopQueues /\ UNCHANGED setupVars
  BY <1>4 DEF SetupInvariant, PipesOK, EnteredPrepared, StopQueues, setupVars, pipeVars
<1>5. CASE UNCHANGED <<power, setupVars>>
  BY <1>5 DEF SetupInvariant, PipesOK, EnteredPrepared, setupVars, pipeVars
<1>6. ASSUME NEW i \in Indices, Transfer(i)
      PROVE  UNCHANGED <<power, setupVars>>
  BY <1>6 DEF Transfer, FirmwareCompleted, powerVars, d0Vars
<1>7. ASSUME \/ \E c \in Users : Dispatch(c)
             \/ \E t \in Threads : Work(t)
             \/ IoctlRead /\ UNCHANGED setupVars
             \/ PoweredDown /\ UNCHANGED deviceVars
             \/ UNCHANGED deviceVars
      PROVE  UNCHANGED <<power, setupVars>>
  BY <1>7 DEF Dispatch, Work, IoctlRead, deviceVars, powerVars, d0Vars
<1> QED
  BY <1>1, <1>2, <1>3, <1>4, <1>5, <1>6, <1>7 DEF PowerNext

\* The invariant holds at every state of every behaviour.
LEMMA SetupInvariantHolds == PowerSpec => []SetupInvariant
<1>1. PowerInit => SetupInvariant
  BY DEF PowerInit, SetupInit, SetupInvariant, PipesOK, EnteredPrepared
<1> QED
  BY <1>1, SetupInvariantKept, PTL DEF PowerSpec

\* "If we didn't find both pipes, fail the start" (Device.c 669): whatever endpoints the
\* device has and however often it is started, D0 is entered only with the pipes of the
\* configuration of this start, and frames are read from the one that is used.
THEOREM PowerReadyInD0 == PowerSpec => []ReadyInD0
<1>1. SetupInvariant => ReadyInD0
  BY DEF SetupInvariant, PipesOK, EnteredPrepared, ReadyInD0
<1> QED
  BY <1>1, SetupInvariantHolds, PTL

-----------------------------------------------------------------------------
(* The inductive invariant. *)

\* While D0 is entered and after it is left hardly anything happens: no thread has work
\* to do, and nothing is in flight ...
Resting(t) == pc[t] \in {"idle", "returned"}
Grounded == \A i \in Indices : ~usb[i].inFlight
Still == Grounded /\ \A t \in Threads : Resting(t)

\* ... but for one firmware request, in flight or given back by its completion routine.
Lone(i) ==
  /\ usb[i].inFlight /\ usb[i].ctx.h = NoHeader /\ usb[i].ctx.r = Power
  /\ \A j \in Indices \ {i} : ~usb[j].inFlight
Frees(d) == d \notin Callers /\ pc[d] \in {"push", "release"} /\ local[d].h = NoHeader
OneFlies == (\A t \in Threads : Resting(t)) /\ \E i \in Indices : Lone(i)
OneFreed == Grounded /\ \E d \in Threads : Frees(d) /\ \A t \in Threads \ {d} : Resting(t)

\* When there may be such a request.
MaybeSent == {"send", "free", "released", "fail", "failStop", "failed"}

CalmOK ==
  /\ power \in {"off", "init", "begin", "alloc", "uninit"} => Still
  /\ power \in MaybeSent => Still \/ (sent = 1 /\ (OneFlies \/ OneFreed))
  /\ power = "exit" => \A c \in Callers : Resting(c)

\* The requests exist from CreateRequests to FailUninit or ExitUninit.
CountOK ==
  /\ power \in {"begin", "alloc", "send", "free", "released", "on", "stopping", "exit", "uninit"} =>
       Count = N
  /\ power \in {"off", "init", "failStop", "failed"} => Count = 0
  /\ power = "fail" /\ sent = 1 => Count = N

\* Where the power thread is in the pool.
PowerInPool ==
  /\ power = "alloc" => stage[Power] = "alloc" /\ want[Power] = 2
  /\ power = "released" => stage[Power] = "free"
  /\ power \notin {"alloc", "released"} => stage[Power] = "out"

\* How many firmware requests have been sent.
SentOK ==
  /\ power \in {"off", "init", "begin", "alloc"} => sent # 1
  /\ power \in {"on", "stopping", "exit", "uninit"} => sent = 2
  /\ power \in {"send", "free", "released"} => sent \in {0, 1}

\* The indices of those that are not sent, which the power thread has.
ToSend == IF power \in {"send", "free"} THEN {indices[k] : k \in (sent + 1)..2} ELSE {}

ToSendOK ==
  power \in {"send", "free"} =>
    /\ indices \in [1..2 -> Indices] /\ indices[1] # indices[2]
    /\ \A i \in ToSend : /\ i \in outstanding /\ ~usb[i].inFlight
                         /\ \A t \in Threads : Single(t) => local[t].i # i

\* The writes' invariant holds beside the power thread's two requests.
WritesOK == \E apart \in SUBSET Indices : apart = ToSend /\ WriteIInv(apart, {Power})

\* If the entry failed after one was sent, that one may come back to a pool that is gone.
StragglerOK ==
  EntryFailed =>
    /\ TypeOK
    /\ (\E i \in Indices : usb[i].inFlight) \/ (\E d \in Threads : pc[d] = "push") =>
         FreeIndexEnd = 0 /\ Availabe < N
    /\ \A d \in Threads : pc[d] = "release" => Availabe + permits[d] <= N

Powers == {"off", "init", "begin", "alloc", "send", "free", "released", "fail", "failStop",
           "on", "stopping", "exit", "uninit", "failed"}

PowerIInv ==
  /\ power \in Powers
  /\ ~EntryFailed => IInv
  /\ CalmOK /\ CountOK /\ PowerInPool /\ SentOK /\ ToSendOK /\ WritesOK /\ StragglerOK

-----------------------------------------------------------------------------
(* What a step leaves alone. *)

\* The power thread is a caller that dispatches no writes.
LEMMA PowerConstants ==
  /\ Power \in Callers /\ Power \in Threads /\ 2 \in 1..MaxAlloc /\ 1 \in 1..MaxAlloc
  /\ \A d \in Dpcs : d \in Threads /\ d \notin Callers /\ d # Power
<1>1. Power \in Callers /\ 2 <= MaxAlloc
  BY PowerAssumption, Constants
<1>. QED
  BY <1>1, Constants DEF Dpcs

\* A thread's step is one of a thread that has work, and touches no other's.
LEMMA RunEffects ==
  ASSUME NEW apart, NEW guests, TypeOK, WriteIInv(apart, guests), NEW t \in Threads, Run(t)
  PROVE  /\ ~Resting(t) /\ Count' = Count
         /\ \A u \in Threads \ {t} : /\ pc'[u] = pc[u] /\ local'[u] = local[u]
                                     /\ stage'[u] = stage[u] /\ want'[u] = want[u]
         /\ pc[t] = "push" => Push(t)
         /\ pc[t] = "release" => Release(t)
<1>1. /\ pc \in [Threads -> PCs] /\ local \in [Threads -> Locals]
      /\ stage \in [Threads -> {"out", "alloc", "free"}] /\ want \in [Threads -> 0..MaxAlloc]
  BY TypeParts DEF WriteIInv, TypeOK
<1>2. CASE Wait(t)
  BY <1>1, <1>2 DEF Wait, AllocWait, writeVars, Resting
<1>3. CASE Pop(t)
  BY <1>1, <1>3 DEF Pop, AllocPop, Goto, Resting
<1>4. CASE Push(t)
  BY <1>1, <1>4 DEF Push, FreePush, Goto, Resting
<1>5. CASE Release(t)
  BY <1>1, <1>5 DEF Release, FreeRelease, Goto, Return, Resting
<1>6. CASE Fill(t) \/ (\E success \in BOOLEAN : Send(t, success)) \/ Store(t) \/ Check(t)
  BY <1>1, <1>6 DEF Fill, Send, Store, Check, Goto, Return, poolVars, Resting
<1>7. CASE Settle(t) \/ CountDown(t) \/ Finalize(t) \/ Recycle(t)
  BY <1>1, <1>7 DEF Settle, CountDown, Finalize, Recycle, Goto, Return, poolVars, Resting
<1>. QED
  BY <1>2, <1>3, <1>4, <1>5, <1>6, <1>7 DEF Run

\* The dispatch of a user's request touches nobody else's place in the pool.
LEMMA ArriveEffects ==
  ASSUME TypeOK, NEW c \in Callers, Arrive(c)
  PROVE  Count' = Count /\ \A u \in Threads \ {c} : stage'[u] = stage[u] /\ want'[u] = want[u]
<1>1. CASE NoMemory(c) \/ \E success \in BOOLEAN : CompleteAtOnce(c, success)
  BY <1>1 DEF NoMemory, CompleteAtOnce, poolVars
<1>2. ASSUME NEW n, AllocBegin(c, n)
      PROVE  Count' = Count /\ \A u \in Threads \ {c} : stage'[u] = stage[u] /\ want'[u] = want[u]
  BY <1>2 DEF AllocBegin, TypeOK
<1>. QED
  BY <1>1, <1>2 DEF Arrive, EvtIoWrite, EvtIoDeviceControl, StartStandalone, StartBatch, AllocRefused, poolVars

\* The power thread and its requests touch nothing of the writes'.
LEMMA PowerStepKeeps ==
  ASSUME NEW apart, NEW there, WriteIInv(apart, {Power}),
         UNCHANGED <<pc, local, req, header, allocated, batchList, outcome, late>>,
         \A u \in Threads \ {Power} : stage'[u] = stage[u] /\ want'[u] = want[u],
         usb' \in [Indices -> Usbs],
         \A i \in Indices : \/ usb'[i] = usb[i]
                            \/ /\ ~usb[i].inFlight
                               /\ usb'[i].ctx.h = NoHeader /\ usb'[i].ctx.r = Power,
         PlacesOK', AllPlaced(there)'
  PROVE  WriteIInv(there, {Power})'
<1>1. /\ VarTypes /\ Power \in Threads /\ Power \in Callers /\ pc[Power] = "idle" /\ ThreadOK(Power)
      /\ \A h \in Headers : BatchOK(h)
      /\ ~late => ReportOK(Power)
  BY PowerConstants DEF WriteIInv, StageMatches
<1>2. OthersStay(Power)
  BY DEF OthersStay
<1>3. VarTypes'
  BY <1>1 DEF VarTypes
<1>4. ThreadOK(Power)'
  BY <1>1 DEF ThreadOK
<1>5. StageMatches(Power, {Power})'
  BY <1>1 DEF StageMatches
<1>6. \A g \in Headers : NotOf(Power, g) /\ NotOf(Power, g)'
  BY <1>1 DEF NotOf, Works, Begins, Sends, Loop, Counts, Ends
<1>7. \A g \in Headers : SameRole(Power, g)
  BY <1>6, NoRole
<1>8. \A g \in Headers : Filled(g) => header[g].Request # Power
  BY <1>1 DEF BatchOK
<1>9. ~late => ReportOK(Power)'
  BY <1>1 DEF ReportOK
<1>10. \A i \in Indices : \/ usb'[i] = usb[i]
                          \/ /\ usb[i].inFlight => Alone(i) /\ usb[i].ctx.r \in {Power}
                             /\ usb'[i].inFlight => Alone(i)' /\ usb'[i].ctx.r \in {Power}
  BY DEF Alone
<1>. QED
  BY <1>1, <1>2, <1>3, <1>4, <1>5, <1>6, <1>7, <1>8, <1>9, <1>10, GuestStep

-----------------------------------------------------------------------------
(* When hardly anything happens. *)

\* No header is in use then.
LEMMA CalmNoBatch ==
  ASSUME NEW apart, NEW guests, WriteIInv(apart, guests), Still \/ OneFlies \/ OneFreed
  PROVE  \A h \in Headers :
           /\ ~Taken(h) /\ (\A t \in Threads : NotOf(t, h)) /\ \A i \in Indices : ~Flies(i, h)
           /\ \A k \in Positions : ~Has(h, k)
<1> SUFFICES ASSUME NEW h \in Headers
             PROVE  /\ ~Taken(h) /\ (\A t \in Threads : NotOf(t, h))
                    /\ \A i \in Indices : ~Flies(i, h)
                    /\ \A k \in Positions : ~Has(h, k)
  OBVIOUS
<1>1. h # NoHeader
  BY Constants
<1>2. \A t \in Threads : Resting(t) \/ (pc[t] \in {"push", "release"} /\ local[t].h = NoHeader)
  BY DEF Still, OneFlies, OneFreed, Frees
<1>3. \A i \in Indices : usb[i].inFlight => usb[i].ctx.h = NoHeader
  BY DEF Still, OneFlies, OneFreed, Grounded, Lone
<1>4. \A t \in Threads : NotOf(t, h)
  BY <1>1, <1>2 DEF Resting, NotOf, Works, Begins, Sends, Loop, Counts, Ends
<1>5. \A i \in Indices : ~Flies(i, h)
  BY <1>1, <1>3 DEF Flies
<1>6. ~Taken(h)
  BY <1>4, <1>5 DEF WriteIInv, UseOK, NotOf
<1>7. \A k \in Positions : ~Has(h, k)
  BY <1>2, <1>6 DEF Has, Armed, Filled, Resting
<1>. QED
  BY <1>4, <1>5, <1>6, <1>7

\* Who has a batch's index does not change when these do not.
LEMMA PlacesSame ==
  ASSUME UNCHANGED <<pc, local, req, header, allocated, batchList>>
  PROVE  /\ \A h \in Headers, k \in Positions : Has(h, k)' <=> Has(h, k)
         /\ \A t \in Threads : (Single(t)' <=> Single(t)) /\ local'[t] = local[t]
<1>1. \A h \in Headers, k \in Positions : Has(h, k)' <=> Has(h, k)
  BY DEF Has, Armed, Filled, Taken, Begins, Ends
<1>2. \A t \in Threads : (Single(t)' <=> Single(t)) /\ local'[t] = local[t]
  BY DEF Single
<1>. QED
  BY <1>1, <1>2

\* When nothing happens at all, the indices that are out are those set apart.
LEMMA WhenStill ==
  ASSUME NEW apart, NEW guests, TypeOK, WriteIInv(apart, guests), Still
  PROVE  /\ outstanding \subseteq apart
         /\ \A t \in Threads \ guests : stage[t] = "out"
         /\ \A t \in Threads : ~Single(t)
         /\ \A i \in Indices : ~Alone(i)
         /\ \A h \in Headers, k \in Positions : ~Has(h, k)
<1>1. \A h \in Headers, k \in Positions : ~Has(h, k)
  BY CalmNoBatch
<1>2. \A t \in Threads : ~Single(t)
  BY DEF Still, Resting, Single
<1>3. \A i \in Indices : ~Alone(i)
  BY DEF Still, Grounded, Alone
<1>4. outstanding \subseteq apart
  BY <1>1, <1>2, <1>3 DEF WriteIInv, AllPlaced, TypeOK
<1>5. \A t \in Threads \ guests : stage[t] = "out"
  BY DEF Still, Resting, WriteIInv, StageMatches
<1>. QED
  BY <1>1, <1>2, <1>3, <1>4, <1>5

-----------------------------------------------------------------------------
(* Steps of the power thread alone. *)

\* What it does with its own variables does not concern the writes, nor does a permit.
LEMMA WritesStay ==
  ASSUME PowerIInv, UNCHANGED writeVars, UNCHANGED <<outstanding, stage, want>>, ToSend' = ToSend
  PROVE  /\ WritesOK'
         /\ Still' <=> Still
         /\ OneFlies' <=> OneFlies
         /\ OneFreed' <=> OneFreed
         /\ \A t \in Threads : Resting(t)' <=> Resting(t)
<1>1. PICK apart \in SUBSET Indices : apart = ToSend /\ WriteIInv(apart, {Power})
  BY DEF PowerIInv, WritesOK
<1>2. WriteIInv(apart, {Power})' /\ apart = ToSend'
  BY <1>1, NothingChanges
<1>3. WritesOK'
  BY <1>2 DEF WritesOK
<1>4. UNCHANGED <<pc, local, usb>>
  BY DEF writeVars
<1>. QED
  BY <1>3, <1>4 DEF Still, OneFlies, OneFreed, Grounded, Resting, Lone, Frees

\* The same, if it does nothing in the pool.
LEMMA AllStays ==
  ASSUME PowerIInv, UNCHANGED <<allVars, indices, sent>>, ToSend' = ToSend
  PROVE  /\ IInv => IInv'
         /\ WritesOK'
         /\ Still' <=> Still
         /\ OneFlies' <=> OneFlies
         /\ OneFreed' <=> OneFreed
         /\ \A t \in Threads : Resting(t)' <=> Resting(t)
         /\ UNCHANGED <<Count, stage, want, sent>>
<1>1. UNCHANGED poolVars /\ UNCHANGED writeVars
  BY DEF allVars
<1>2. UNCHANGED <<Count, outstanding, stage, want>>
  BY <1>1 DEF poolVars
<1>3. IInv => IInv'
  BY <1>1, NextKeepsIInv
<1>. QED
  BY <1>1, <1>2, <1>3, WritesStay

\* D0 is entered while all is still and the pool is not there.
LEMMA StartPipesKeeps ==
  ASSUME PowerIInv, NEW success \in BOOLEAN, StartPipes(success)
  PROVE  PowerIInv'
<1>1. /\ power = "off" /\ power' \in {"init", "fail"} /\ UNCHANGED <<allVars, indices, sent>>
      /\ ToSend' = ToSend /\ ~EntryFailed /\ ~EntryFailed'
  BY DEF StartPipes, ToSend, EntryFailed
<1>2. /\ IInv' /\ WritesOK' /\ (Still' <=> Still) /\ UNCHANGED <<Count, stage, want, sent>>
  BY <1>1, AllStays DEF PowerIInv
<1>3. CalmOK' /\ CountOK' /\ PowerInPool' /\ SentOK'
  BY <1>1, <1>2 DEF PowerIInv, CalmOK, CountOK, PowerInPool, SentOK, MaybeSent
<1>4. ToSendOK' /\ StragglerOK' /\ power' \in Powers
  BY <1>1 DEF ToSendOK, StragglerOK, Powers
<1>. QED
  BY <1>1, <1>2, <1>3, <1>4 DEF PowerIInv

\* The pool is created while nobody is in it.
LEMMA CreateRequestsKeeps ==
  ASSUME PowerIInv, CreateRequests
  PROVE  PowerIInv'
<1>1. /\ power = "init" /\ power' \in {"begin", "fail"} /\ UNCHANGED writeVars
      /\ UNCHANGED <<indices, sent>>
      /\ ToSend' = ToSend /\ ~EntryFailed /\ ~EntryFailed'
  BY DEF CreateRequests, ToSend, EntryFailed, d0Vars
<1>2. /\ \/ PoolInit /\ power' = "begin"
         \/ (\E i \in Indices : PoolInitFails(i)) /\ power' = "fail"
      /\ IInv /\ sent # 1
  BY <1>1 DEF PowerIInv, CreateRequests, SentOK
<1>3. Count = 0 /\ Quiescent
  BY <1>2 DEF PoolInit, PoolInitFails, IInv, OffIsQuiescent
<1>4. IInv'
  BY <1>2, <1>3, PoolInitKeeps, PoolInitFailsKeeps
<1>5. UNCHANGED <<outstanding, stage, want>> /\ (power' = "begin" => Count' = N)
  BY <1>2 DEF PoolInit, PoolInitFails
<1>6. WritesOK' /\ (Still' <=> Still)
  BY <1>1, <1>5, WritesStay
<1>7. CalmOK' /\ CountOK' /\ PowerInPool' /\ SentOK'
  BY <1>1, <1>2, <1>5, <1>6 DEF PowerIInv, CalmOK, CountOK, PowerInPool, SentOK, MaybeSent
<1>8. ToSendOK' /\ StragglerOK' /\ power' \in Powers
  BY <1>1 DEF ToSendOK, StragglerOK, Powers
<1>. QED
  BY <1>1, <1>4, <1>6, <1>7, <1>8 DEF PowerIInv

\* The firmware requests' indices come out of a pool from which nothing else is out.
LEMMA FirmwareAllocKeeps ==
  ASSUME PowerIInv, FirmwareAlloc
  PROVE  PowerIInv'
<1>1. /\ power \in {"begin", "alloc"} /\ ~EntryFailed /\ ~EntryFailed' /\ ToSend = {}
      /\ UNCHANGED writeVars /\ IInv /\ Still /\ TypeOK
  BY DEF PowerIInv, CalmOK, FirmwareAlloc, EntryFailed, ToSend, IInv
<1>2. WriteIInv({}, {Power}) /\ UNCHANGED <<pc, local, req, header, allocated, batchList, usb, outcome, late>>
  BY <1>1 DEF PowerIInv, WritesOK, writeVars
<1>3. /\ outstanding = {} /\ \A t \in Threads : ~Single(t)
      /\ \A i \in Indices : ~Alone(i)
      /\ \A h \in Headers, k \in Positions : ~Has(h, k)
      /\ usb \in [Indices -> Usbs]
  BY <1>1, <1>2, WhenStill, TypeParts DEF WriteIInv
<1>4. /\ \A t \in Threads : ~Single(t)'
      /\ \A i \in Indices : ~Alone(i)' /\ usb'[i] = usb[i]
      /\ \A h \in Headers, k \in Positions : ~Has(h, k)'
      /\ usb' \in [Indices -> Usbs]
  BY <1>2, <1>3, PlacesSame DEF Alone
<1>5. PlacesOK'
  BY <1>4 DEF PlacesOK
<1>6. Still'
  BY <1>1, <1>2 DEF Still, Grounded, Resting
<1>7. CASE power = "begin" /\ AllocBegin(Power, 2) /\ power' = "alloc" /\ UNCHANGED <<indices, sent>>
  <2>1. IInv'
    BY <1>1, <1>7, AllocBeginKeeps, PowerConstants
  <2>2. /\ UNCHANGED <<Count, outstanding>>
        /\ \A u \in Threads \ {Power} : stage'[u] = stage[u] /\ want'[u] = want[u]
        /\ stage'[Power] = "alloc" /\ want'[Power] = 2
    BY <1>1, <1>7, PowerConstants DEF AllocBegin, TypeOK
  <2>3. AllPlaced({})'
    BY <1>3, <2>2 DEF AllPlaced
  <2>4. WriteIInv({}, {Power})'
    BY <1>2, <1>4, <1>5, <2>2, <2>3, PowerStepKeeps
  <2>5. WritesOK'
    <3>1. ToSend' = {} /\ {} \in SUBSET Indices
      BY <1>7 DEF ToSend
    <3>. QED
      BY <2>4, <3>1 DEF WritesOK
  <2>6. CalmOK' /\ CountOK' /\ PowerInPool' /\ SentOK'
    BY <1>6, <1>7, <2>2 DEF PowerIInv, CalmOK, CountOK, PowerInPool, SentOK, MaybeSent
  <2>7. ToSendOK' /\ StragglerOK' /\ power' \in Powers
    BY <1>1, <1>7 DEF ToSendOK, StragglerOK, Powers
  <2>. QED
    BY <1>1, <2>1, <2>5, <2>6, <2>7 DEF PowerIInv
<1>8. CASE power = "alloc" /\ AllocWait(Power) /\ UNCHANGED <<power, indices, sent>>
  <2>1. IInv'
    BY <1>1, <1>8, AllocWaitKeeps, PowerConstants
  <2>2. UNCHANGED <<Count, outstanding, stage, want>> /\ ToSend' = ToSend
    BY <1>8 DEF AllocWait, ToSend
  <2>3. WritesOK'
    BY <1>1, <2>2, WritesStay
  <2>4. CalmOK' /\ CountOK' /\ PowerInPool' /\ SentOK'
    BY <1>6, <1>8, <2>2 DEF PowerIInv, CalmOK, CountOK, PowerInPool, SentOK, MaybeSent
  <2>5. ToSendOK' /\ StragglerOK' /\ power' \in Powers
    BY <1>1, <1>8 DEF ToSendOK, StragglerOK, Powers
  <2>. QED
    BY <1>1, <2>1, <2>3, <2>4, <2>5 DEF PowerIInv
<1>9. CASE power = "alloc" /\ AllocPop(Power) /\ indices' = Popped(2) /\ sent' = 0 /\ power' = "send"
  <2>1. IInv' /\ want[Power] = 2
    BY <1>1, <1>9, AllocPopKeeps, PowerConstants DEF PowerIInv, PowerInPool
  <2>2. PICK w : w = 2
    OBVIOUS
  <2>3. PICK x : x = Popped(2)
    OBVIOUS
  <2>4. /\ \A k \in 1..2 : x[k] \in Indices
        /\ \A k, l \in 1..2 : x[k] = x[l] => k = l
        /\ outstanding' = outstanding \cup {x[k] : k \in 1..2}
    BY <1>1, <1>9, <2>1, <2>3, PopParts, PowerConstants
  <2>5. x \in [1..2 -> Indices] /\ x[1] # x[2]
    BY <2>3, <2>4 DEF Popped
  <2>6. /\ Count' = Count
        /\ \A u \in Threads \ {Power} : stage'[u] = stage[u] /\ want'[u] = want[u]
        /\ stage'[Power] = "out"
    BY <1>1, <1>9, PowerConstants DEF AllocPop, TypeOK
  <2>7. PICK there : there = {x[k] : k \in 1..2}
    OBVIOUS
  <2>8. ToSend' = there /\ there \in SUBSET Indices /\ outstanding' = there
    BY <1>3, <1>9, <2>3, <2>4, <2>7 DEF ToSend
  <2>9. AllPlaced(there)'
    BY <2>8 DEF AllPlaced
  <2>10. WriteIInv(there, {Power})'
    BY <1>2, <1>4, <1>5, <2>6, <2>9, PowerStepKeeps
  <2>11. WritesOK'
    BY <2>8, <2>10 DEF WritesOK
  <2>12. CalmOK' /\ CountOK' /\ PowerInPool' /\ SentOK'
    BY <1>6, <1>9, <2>6 DEF PowerIInv, CalmOK, CountOK, PowerInPool, SentOK, MaybeSent
  <2>13. ToSendOK'
    <3>1. \A i \in there : i \in outstanding' /\ ~usb'[i].inFlight
      BY <1>6, <2>8 DEF Still, Grounded
    <3>. QED
      BY <1>4, <1>9, <2>3, <2>5, <2>8, <3>1 DEF ToSendOK
  <2>14. StragglerOK' /\ power' \in Powers
    BY <1>1, <1>9 DEF StragglerOK, Powers
  <2>. QED
    BY <1>1, <2>1, <2>11, <2>12, <2>13, <2>14 DEF PowerIInv
<1>. QED
  BY <1>7, <1>8, <1>9 DEF FirmwareAlloc

\* A firmware request goes out while nothing else is in flight but the one before it.
LEMMA FirmwareSendKeeps ==
  ASSUME PowerIInv, NEW success \in BOOLEAN, FirmwareSend(success)
  PROVE  PowerIInv'
<1>1. /\ power = "send" /\ sent \in {0, 1} /\ ~EntryFailed /\ ~EntryFailed'
      /\ UNCHANGED poolVars /\ IInv /\ IInv' /\ TypeOK /\ Count = N /\ stage[Power] = "out"
      /\ UNCHANGED <<pc, local, req, header, allocated, batchList, outcome, late, indices>>
  <2>1. power = "send" /\ UNCHANGED poolVars
    BY DEF FirmwareSend
  <2>2. IInv /\ TypeOK /\ sent \in {0, 1} /\ Count = N /\ stage[Power] = "out"
    BY <2>1 DEF PowerIInv, SentOK, CountOK, PowerInPool, EntryFailed, IInv
  <2>. QED
    BY <2>1, <2>2, NextKeepsIInv DEF FirmwareSend, EntryFailed
<1>2. /\ Still \/ OneFlies \/ OneFreed
      /\ sent = 0 => Still
  BY <1>1 DEF PowerIInv, CalmOK, MaybeSent
<1>3. PICK apart \in SUBSET Indices : apart = ToSend /\ WriteIInv(apart, {Power})
  BY DEF PowerIInv, WritesOK
<1>4. PICK i : i = indices[sent + 1]
  OBVIOUS
<1>5. PICK there : there = IF ~success THEN apart ELSE IF sent = 0 THEN {indices[2]} ELSE {}
  OBVIOUS
<1>6. /\ indices \in [1..2 -> Indices] /\ indices[1] # indices[2]
      /\ \A j \in apart : /\ j \in outstanding /\ ~usb[j].inFlight
                          /\ \A t \in Threads : Single(t) => local[t].i # j
  BY <1>1, <1>3 DEF PowerIInv, ToSendOK
<1>7. /\ apart = IF sent = 0 THEN {indices[1], indices[2]} ELSE {indices[2]}
      /\ i \in apart /\ i \in Indices
      /\ there \subseteq apart /\ there \in SUBSET Indices
      /\ success => i \notin there /\ apart = there \cup {i}
      /\ ~success => there = apart
  <2>1. CASE sent = 0
    <3>1. apart = {indices[1], indices[2]} /\ i = indices[1]
      BY <1>1, <1>3, <1>4, <2>1 DEF ToSend
    <3>. QED
      BY <1>5, <1>6, <2>1, <3>1
  <2>2. CASE sent = 1
    <3>1. apart = {indices[2]} /\ i = indices[2]
      BY <1>1, <1>3, <1>4, <2>2 DEF ToSend
    <3>. QED
      BY <1>5, <1>6, <2>2, <3>1
  <2>. QED
    BY <1>1, <2>1, <2>2
<1>8. ToSend' = there
  <2>1. CASE ~success
    BY <1>1, <1>3, <1>5, <2>1 DEF FirmwareSend, ToSend
  <2>2. CASE success /\ sent = 0
    <3>1. power' = "send" /\ sent' = 1
      BY <1>1, <2>2 DEF FirmwareSend
    <3>. QED
      BY <1>1, <1>5, <2>2, <3>1 DEF ToSend
  <2>3. CASE success /\ sent = 1
    <3>1. power' = "on"
      BY <1>1, <2>3 DEF FirmwareSend
    <3>. QED
      BY <1>5, <2>3, <3>1 DEF ToSend
  <2>. QED
    BY <1>1, <2>1, <2>2, <2>3
<1>9. VarTypes
  BY <1>3 DEF WriteIInv
<1>10. /\ usb' \in [Indices -> Usbs]
       /\ usb'[i].inFlight = success /\ usb'[i].ctx.h = NoHeader /\ usb'[i].ctx.r = Power
       /\ \A j \in Indices \ {i} : usb'[j] = usb[j]
  <2>1. usb \in [Indices -> Usbs]
    BY <1>9, TypeParts
  <2>2. [NoContext EXCEPT !.r = Power] = [h |-> NoHeader, k |-> 0, r |-> Power]
    BY DEF NoContext
  <2>3. 0 \in 0..MaxAlloc
    BY Constants
  <2>4. [h |-> NoHeader, k |-> 0, r |-> Power] \in Ctxs
    BY <2>3, PowerConstants DEF Ctxs
  <2>5. usb' = [usb EXCEPT ![i] = [inFlight |-> success, ctx |-> [h |-> NoHeader, k |-> 0, r |-> Power]]]
    BY <1>4, <2>2 DEF FirmwareSend
  <2>. QED
    BY <1>7, <2>1, <2>4, <2>5 DEF Usbs
<1>11. \A j \in Indices : Alone(j)' <=> Alone(j) \/ (j = i /\ success)
  <2>1. ~Alone(i)
    BY <1>6, <1>7 DEF Alone
  <2>. QED
    BY <1>7, <1>10, <2>1 DEF Alone
<1>12. /\ \A h \in Headers, k \in Positions : ~Has(h, k) /\ ~Has(h, k)'
       /\ \A t \in Threads : (Single(t)' <=> Single(t)) /\ local'[t] = local[t]
       /\ outstanding' = outstanding /\ outstanding \subseteq Indices
       /\ PlacesOK /\ AllPlaced(apart)
  BY <1>1, <1>2, <1>3, CalmNoBatch, PlacesSame DEF poolVars, TypeOK, WriteIInv
<1>13. PlacesOK'
  <2>1. \A t \in Threads : Single(t) => local[t].i \in outstanding /\ local[t].i # i
                                        /\ ~Alone(local[t].i)
    BY <1>6, <1>7, <1>12 DEF PlacesOK
  <2>2. \A t \in Threads : Single(t)' => local'[t].i \in outstanding'
    BY <1>12, <2>1
  <2>3. \A t \in Threads : Single(t)' => ~(Alone(local[t].i)')
    <3>1. ASSUME NEW t \in Threads, Single(t)' PROVE ~(Alone(local[t].i)')
      <4>1. PICK j \in Indices : j = local[t].i
        BY <1>12, <2>1, <3>1
      <4>2. ~Alone(j)'
        BY <1>11, <1>12, <2>1, <3>1, <4>1
      <4>3. local'[t].i = j
        BY <1>12, <3>1, <4>1
      <4>. QED
        BY <4>2, <4>3 DEF Alone
    <3>. QED
      BY <3>1
  <2>4. \A t, u \in Threads : Single(t)' /\ Single(u)' /\ local'[t].i = local'[u].i => t = u
    BY <1>12 DEF PlacesOK
  <2>5. \A j \in Indices : Alone(j)' => j \in outstanding'
    BY <1>6, <1>7, <1>11, <1>12 DEF PlacesOK
  <2>. QED
    BY <1>12, <2>2, <2>3, <2>4, <2>5 DEF PlacesOK
<1>14. AllPlaced(there)'
  <2> SUFFICES ASSUME NEW j \in outstanding \ there
               PROVE  Alone(j)' \/ \E t \in Threads : Single(t)' /\ local'[t].i = j
    BY <1>12 DEF AllPlaced
  <2>1. CASE j \in apart
    <3>1. j = i /\ success
      BY <1>7, <2>1
    <3>. QED
      BY <1>7, <1>11, <3>1
  <2>2. CASE j \notin apart
    BY <1>11, <1>12, <2>2 DEF AllPlaced
  <2>. QED
    BY <2>1, <2>2
<1>15. WritesOK'
  <2>1. \A j \in Indices : \/ usb'[j] = usb[j]
                           \/ /\ ~usb[j].inFlight
                              /\ usb'[j].ctx.h = NoHeader /\ usb'[j].ctx.r = Power
    BY <1>6, <1>7, <1>10
  <2>2. UNCHANGED <<stage, want>>
    BY <1>1 DEF poolVars
  <2>3. WriteIInv(there, {Power})'
    BY <1>1, <1>3, <1>10, <1>13, <1>14, <2>1, <2>2, PowerStepKeeps
  <2>. QED
    BY <1>7, <1>8, <2>3 DEF WritesOK
<1>16. CalmOK'
  <2>1. CASE success /\ sent = 0
    <3>1. Still /\ power' = "send" /\ sent' = 1
      BY <1>1, <1>2, <2>1 DEF FirmwareSend
    <3>2. Lone(i)'
      BY <1>10, <2>1, <3>1 DEF Still, Grounded, Lone
    <3>3. OneFlies'
      BY <1>1, <1>7, <3>1, <3>2 DEF OneFlies, Still, Resting
    <3>. QED
      BY <3>1, <3>3 DEF CalmOK
  <2>2. CASE success /\ sent = 1
    <3>1. power' = "on"
      BY <1>1, <2>2 DEF FirmwareSend
    <3>. QED
      BY <3>1 DEF CalmOK, MaybeSent
  <2>3. CASE ~success
    <3>1. power' = "free" /\ sent' = sent
      BY <2>3 DEF FirmwareSend
    <3>2. \A j \in Indices : (usb'[j].inFlight <=> usb[j].inFlight) /\ (usb[j].inFlight => usb'[j] = usb[j])
      BY <1>6, <1>7, <1>10, <2>3
    <3>3. (Still => Still') /\ (OneFreed => OneFreed')
      BY <1>1, <3>2 DEF Still, OneFreed, Grounded, Resting, Frees
    <3>4. OneFlies => OneFlies'
      BY <1>1, <3>2 DEF OneFlies, Lone, Resting
    <3>. QED
      BY <1>1, <1>2, <3>1, <3>3, <3>4 DEF CalmOK
  <2>. QED
    BY <1>1, <2>1, <2>2, <2>3
<1>17. CountOK' /\ PowerInPool' /\ SentOK' /\ power' \in Powers
  <2>1. Count' = N /\ stage'[Power] = "out"
    BY <1>1 DEF poolVars
  <2>2. \/ power' = "send" /\ sent' = 1
        \/ power' = "on" /\ sent' = 2
        \/ power' = "free" /\ sent' \in {0, 1}
    BY <1>1 DEF FirmwareSend
  <2>. QED
    BY <2>1, <2>2 DEF CountOK, PowerInPool, SentOK, Powers
<1>18. ToSendOK'
  <2>1. \A j \in there : /\ j \in outstanding' /\ ~usb'[j].inFlight
                         /\ \A t \in Threads : Single(t)' => local'[t].i # j
    BY <1>6, <1>7, <1>10, <1>12
  <2>2. indices' = indices
    BY <1>1
  <2>. QED
    BY <1>6, <1>8, <2>1, <2>2 DEF ToSendOK
<1>19. StragglerOK'
  BY <1>1 DEF StragglerOK
<1>. QED
  BY <1>1, <1>15, <1>16, <1>17, <1>18, <1>19 DEF PowerIInv

\* What was not sent goes back, while nothing is out but what was sent.
LEMMA FirmwareFreeKeeps ==
  ASSUME PowerIInv, FirmwareFree
  PROVE  PowerIInv'
<1>1. /\ power \in {"free", "released"} /\ sent \in {0, 1} /\ ~EntryFailed /\ ~EntryFailed'
      /\ IInv /\ TypeOK /\ Count = N
      /\ Still \/ (sent = 1 /\ (OneFlies \/ OneFreed))
      /\ UNCHANGED writeVars /\ UNCHANGED <<indices, sent>>
  <2>1. power \in {"free", "released"} /\ power' \in {"released", "fail"}
        /\ UNCHANGED writeVars /\ UNCHANGED <<indices, sent>>
    BY DEF FirmwareFree
  <2>. QED
    BY <2>1 DEF PowerIInv, SentOK, CountOK, CalmOK, MaybeSent, EntryFailed, IInv
<1>2. PICK apart \in SUBSET Indices : apart = ToSend /\ WriteIInv(apart, {Power})
  BY DEF PowerIInv, WritesOK
<1>3. UNCHANGED <<pc, local, req, header, allocated, batchList, usb, outcome, late>>
  BY <1>1 DEF writeVars
<1>4. Still' \/ (sent' = 1 /\ (OneFlies' \/ OneFreed'))
  BY <1>1, <1>3 DEF Still, OneFlies, OneFreed, Grounded, Resting, Lone, Frees
<1>5. /\ \A h \in Headers, k \in Positions : ~Has(h, k) /\ ~Has(h, k)'
      /\ \A t \in Threads : (Single(t)' <=> Single(t)) /\ local'[t] = local[t]
      /\ \A i \in Indices : (Alone(i)' <=> Alone(i)) /\ usb'[i] = usb[i]
      /\ usb' \in [Indices -> Usbs]
      /\ outstanding \subseteq Indices /\ PlacesOK /\ AllPlaced(apart)
  <2>1. VarTypes /\ PlacesOK /\ AllPlaced(apart)
    BY <1>2 DEF WriteIInv
  <2>2. usb' \in [Indices -> Usbs]
    BY <1>3, <2>1, TypeParts
  <2>. QED
    BY <1>1, <1>2, <1>3, <2>1, <2>2, CalmNoBatch, PlacesSame DEF TypeOK, Alone
<1>6. ASSUME NEW there, outstanding' = outstanding \ apart, AllPlaced(there)',
             \A u \in Threads \ {Power} : stage'[u] = stage[u] /\ want'[u] = want[u],
             \A i \in apart : ~Alone(i) /\ \A t \in Threads : Single(t) => local[t].i # i
      PROVE  WriteIInv(there, {Power})'
  <2>1. \A t \in Threads : Single(t)' => local'[t].i \in outstanding'
    BY <1>5, <1>6 DEF PlacesOK
  <2>2. \A t \in Threads : Single(t)' => ~Alone(local[t].i)'
    <3>1. ASSUME NEW t \in Threads, Single(t)' PROVE ~Alone(local[t].i)'
      <4>1. PICK j \in Indices : j = local[t].i
        BY <1>5, <3>1 DEF PlacesOK
      <4>2. ~Alone(j)'
        BY <1>5, <3>1, <4>1 DEF PlacesOK
      <4>3. local'[t].i = j
        BY <1>5, <4>1
      <4>. QED
        BY <4>2, <4>3 DEF Alone
    <3>. QED
      BY <3>1
  <2>3. \A t, u \in Threads : Single(t)' /\ Single(u)' /\ local'[t].i = local'[u].i => t = u
    BY <1>5 DEF PlacesOK
  <2>4. \A j \in Indices : Alone(j)' => j \in outstanding'
    BY <1>5, <1>6 DEF PlacesOK
  <2>5. PlacesOK'
    BY <1>5, <2>1, <2>2, <2>3, <2>4 DEF PlacesOK
  <2>. QED
    BY <1>2, <1>3, <1>5, <1>6, <2>5, PowerStepKeeps
<1>7. CASE /\ power = "free" /\ power' = "released"
           /\ FreePush(Power, Len(SubSeq(indices, sent + 1, 2)), SubSeq(indices, sent + 1, 2))
  <2>1. /\ indices \in [1..2 -> Indices] /\ indices[1] # indices[2]
        /\ apart = {indices[k] : k \in (sent + 1)..2}
        /\ \A i \in apart : /\ i \in outstanding /\ ~usb[i].inFlight
                            /\ \A t \in Threads : Single(t) => local[t].i # i
    BY <1>2, <1>7 DEF PowerIInv, ToSendOK, ToSend
  <2>2. PICK unsent : unsent = SubSeq(indices, sent + 1, 2)
    OBVIOUS
  <2>3. PICK n : n = 2 - sent
    OBVIOUS
  <2>4. n \in {1, 2} /\ n \in 1..MaxAlloc
    BY <1>1, <2>3, PowerConstants
  <2>5. Len(unsent) = n /\ \A k \in 1..n : unsent[k] = indices[sent + k]
    <3>1. /\ sent + 1 \in Int /\ 2 \in Int
          /\ \A k \in (sent + 1)..2 : indices[k] \in Indices
      BY <1>1, <2>1
    <3>2. /\ Len(unsent) = IF sent + 1 <= 2 THEN 2 - (sent + 1) + 1 ELSE 0
          /\ \A k \in 1..(2 - (sent + 1) + 1) : unsent[k] = indices[(sent + 1) + k - 1]
      BY <2>2, <3>1, SubSeqProperties
    <3>3. 2 - (sent + 1) + 1 = n /\ sent + 1 <= 2 /\ \A k \in 1..n : (sent + 1) + k - 1 = sent + k
      BY <1>1, <2>3
    <3>4. PICK m : m = 2 - (sent + 1) + 1
      OBVIOUS
    <3>5. m = n /\ Len(unsent) = m
      BY <3>2, <3>3, <3>4
    <3>6. \A k \in 1..m : unsent[k] = indices[(sent + 1) + k - 1]
      BY <3>2, <3>4
    <3>. QED
      BY <3>3, <3>5, <3>6
  <2>6. apart = {unsent[k] : k \in 1..n}
    <3>1. \A k \in 1..n : sent + k \in (sent + 1)..2
      BY <1>1, <2>3
    <3>2. \A j \in (sent + 1)..2 : \E k \in 1..n : j = sent + k
      <4>1. \A j \in (sent + 1)..2 : j - sent \in 1..n /\ j = sent + (j - sent)
        BY <1>1, <2>3
      <4>. QED
        BY <4>1
    <3>. QED
      BY <2>1, <2>5, <3>1, <3>2
  <2>7. unsent \in Returnable(n)
    <3>1. \A k, l \in 1..n : unsent[k] = unsent[l] => k = l
      <4>1. \A k \in 1..n : unsent[k] = indices[sent + k]
        BY <2>5
      <4>2. CASE sent = 0
        BY <2>1, <2>3, <2>4, <4>1, <4>2
      <4>3. CASE sent = 1
        BY <2>3, <4>3
      <4>. QED
        BY <1>1, <4>2, <4>3
    <3>2. unsent \in [1..n -> outstanding]
      <4>1. unsent \in Seq(Indices)
        <5>1. /\ sent + 1 \in Int /\ 2 \in Int
              /\ \A k \in (sent + 1)..2 : indices[k] \in Indices
          BY <1>1, <2>1
        <5>. QED
          BY <2>2, <5>1, SubSeqProperties
      <4>2. unsent \in [1..n -> Indices]
        BY <2>5, <4>1, LenProperties
      <4>. QED
        BY <2>1, <2>6, <4>2
    <3>. QED
      BY <3>1, <3>2 DEF Returnable
  <2>8. FreePush(Power, n, unsent)
    BY <1>7, <2>2, <2>5
  <2>9. IInv'
    BY <1>1, <2>4, <2>7, <2>8, FreePushKeeps, PowerConstants
  <2>10. /\ outstanding' = outstanding \ apart /\ Count' = Count
         /\ \A u \in Threads \ {Power} : stage'[u] = stage[u] /\ want'[u] = want[u]
         /\ stage'[Power] = "free"
    BY <1>1, <2>6, <2>8, PowerConstants DEF FreePush, TypeOK
  <2>11. AllPlaced({})'
    <3> SUFFICES ASSUME NEW j \in outstanding \ apart
                 PROVE  Alone(j)' \/ \E t \in Threads : Single(t)' /\ local'[t].i = j
      BY <2>10 DEF AllPlaced
    <3>. QED
      BY <1>5 DEF AllPlaced
  <2>12. WriteIInv({}, {Power})'
    BY <1>6, <2>1, <2>10, <2>11 DEF Alone
  <2>13. WritesOK'
    <3>1. ToSend' = {} /\ {} \in SUBSET Indices
      BY <1>7 DEF ToSend
    <3>. QED
      BY <2>12, <3>1 DEF WritesOK
  <2>14. CalmOK' /\ CountOK' /\ PowerInPool' /\ SentOK'
    BY <1>1, <1>4, <1>7, <2>10 DEF CalmOK, CountOK, PowerInPool, SentOK
  <2>15. ToSendOK' /\ StragglerOK' /\ power' \in Powers
    BY <1>1, <1>7 DEF ToSendOK, StragglerOK, Powers
  <2>. QED
    BY <1>1, <2>9, <2>13, <2>14, <2>15 DEF PowerIInv
<1>8. CASE power = "released" /\ FreeRelease(Power) /\ power' = "fail"
  <2>1. IInv'
    BY <1>1, <1>8, FreeReleaseKeeps, PowerConstants
  <2>2. /\ outstanding' = outstanding /\ Count' = Count /\ apart = {}
        /\ \A u \in Threads \ {Power} : stage'[u] = stage[u] /\ want'[u] = want[u]
        /\ stage'[Power] = "out"
    BY <1>1, <1>2, <1>8, PowerConstants DEF FreeRelease, TypeOK, ToSend
  <2>3. AllPlaced({})'
    <3> SUFFICES ASSUME NEW j \in outstanding
                 PROVE  Alone(j)' \/ \E t \in Threads : Single(t)' /\ local'[t].i = j
      BY <2>2 DEF AllPlaced
    <3>. QED
      BY <1>5, <2>2 DEF AllPlaced
  <2>4. WriteIInv({}, {Power})'
    BY <1>6, <2>2, <2>3
  <2>5. WritesOK'
    <3>1. ToSend' = {} /\ {} \in SUBSET Indices
      BY <1>8 DEF ToSend
    <3>. QED
      BY <2>4, <3>1 DEF WritesOK
  <2>6. CalmOK' /\ CountOK' /\ PowerInPool' /\ SentOK'
    BY <1>1, <1>4, <1>8, <2>2 DEF CalmOK, CountOK, PowerInPool, SentOK
  <2>7. ToSendOK' /\ StragglerOK' /\ power' \in Powers
    BY <1>1, <1>8 DEF ToSendOK, StragglerOK, Powers
  <2>. QED
    BY <1>1, <2>1, <2>5, <2>6, <2>7 DEF PowerIInv
<1>. QED
  BY <1>7, <1>8 DEF FirmwareFree

\* When all is still nobody is in the pool.
LEMMA StillIsQuiescent ==
  ASSUME PowerIInv, Still, TypeOK, power \notin {"alloc", "send", "free", "released"}
  PROVE  Quiescent
<1>1. WriteIInv({}, {Power}) /\ stage[Power] = "out"
  BY DEF PowerIInv, WritesOK, ToSend, PowerInPool
<1>2. outstanding \subseteq {} /\ \A t \in Threads \ {Power} : stage[t] = "out"
  BY <1>1, WhenStill
<1>. QED
  BY <1>1, <1>2 DEF Quiescent

\* The requests are deleted; if one was sent, the pool has room for it and no more.
LEMMA FailUninitKeeps ==
  ASSUME PowerIInv, FailUninit
  PROVE  PowerIInv'
<1>1. /\ power = "fail" /\ power' = "failStop" /\ ~EntryFailed
      /\ IInv /\ TypeOK /\ stage[Power] = "out"
      /\ Still \/ (sent = 1 /\ (OneFlies \/ OneFreed))
      /\ UNCHANGED writeVars /\ UNCHANGED <<indices, sent>> /\ ToSend' = ToSend /\ ToSend = {}
      /\ sent = 1 => Count = N
      /\ IF Count # 0 THEN PoolUninit ELSE UNCHANGED poolVars
  <2>1. power = "fail" /\ power' = "failStop"
    BY DEF FailUninit
  <2>. QED
    BY <2>1 DEF FailUninit, PowerIInv, CountOK, CalmOK, PowerInPool, MaybeSent, EntryFailed, IInv, ToSend
<1>2. /\ UNCHANGED <<outstanding, stage, want>>
      /\ Count' = 0
  BY <1>1 DEF PoolUninit, poolVars
<1>3. /\ WritesOK'
      /\ (Still' <=> Still) /\ (OneFlies' <=> OneFlies) /\ (OneFreed' <=> OneFreed)
  BY <1>1, <1>2, WritesStay
<1>4. CalmOK' /\ CountOK' /\ PowerInPool' /\ SentOK' /\ ToSendOK' /\ power' \in Powers
  BY <1>1, <1>2, <1>3 DEF CalmOK, CountOK, PowerInPool, SentOK, ToSendOK, Powers
<1>5. Still => IInv'
  <2> SUFFICES ASSUME Still PROVE IInv'
    OBVIOUS
  <2>1. CASE Count = 0
    BY <1>1, <2>1, NextKeepsIInv
  <2>2. CASE Count # 0
    BY <1>1, <2>2, StillIsQuiescent, PoolUninitKeeps
  <2>. QED
    BY <2>1, <2>2
<1>6. ~EntryFailed' => IInv'
  BY <1>1, <1>5 DEF EntryFailed
<1>7. StragglerOK'
  <2> SUFFICES ASSUME EntryFailed' PROVE StragglerOK'
    BY DEF StragglerOK
  <2>1. sent = 1 /\ Count = N /\ PoolUninit
    BY <1>1, Constants DEF EntryFailed
  <2>2. TypeOK' /\ FreeIndexEnd' = 0 /\ UNCHANGED <<Availabe, permits>>
    BY <1>1, <2>1, Constants DEF PoolUninit, TypeOK
  <2>3. UNCHANGED <<usb, pc, local>>
    BY <1>1 DEF writeVars
  <2>4. WriteIInv({}, {Power})
    BY <1>1 DEF PowerIInv, WritesOK
  <2>5. Availabe \in Int /\ FreeIndexEnd \in Int /\ FreeIndexEnd <= N /\ N \in Int
    BY <1>1, Constants DEF TypeOK
  <2>6. ASSUME (\E i \in Indices : usb[i].inFlight) \/ (\E d \in Threads : pc[d] = "push")
        PROVE  Availabe < N
    <3>1. OneFlies \/ OneFreed
      BY <1>1, <2>6 DEF Still, Grounded, Resting
    <3>2. (\E i \in Indices : Alone(i)) \/ (\E d \in Threads : Single(d))
      BY <2>6, <3>1 DEF OneFlies, OneFreed, Grounded, Lone, Frees, Resting, Alone, Single
    <3>3. outstanding # {}
      BY <2>4, <3>2 DEF WriteIInv, PlacesOK
    <3>4. IsFiniteSet(outstanding) /\ Cardinality(outstanding) = N - FreeIndexEnd
      BY <1>1, <2>1, IndicesAddUp DEF IInv
    <3>5. N - FreeIndexEnd # 0
      BY <3>3, <3>4, FS_EmptySet
    <3>6. permits[Power] \in Nat /\ Availabe + permits[Power] <= FreeIndexEnd
      BY <1>1, <2>1, PermitsBound, PowerConstants, Constants DEF IInv, TypeOK
    <3>. QED
      BY <2>5, <3>5, <3>6
  <2>7. ASSUME NEW d \in Threads PROVE Availabe + permits[d] <= N
    <3>1. permits[d] \in Nat /\ Availabe + permits[d] <= FreeIndexEnd
      BY <1>1, <2>1, PermitsBound, Constants DEF IInv, TypeOK
    <3>. QED
      BY <2>5, <3>1
  <2>. QED
    BY <2>2, <2>3, <2>6, <2>7 DEF StragglerOK
<1>. QED
  BY <1>3, <1>4, <1>6, <1>7 DEF PowerIInv

\* The framework's decisions.
LEMMA FrameworkKeeps ==
  ASSUME PowerIInv, CallD0Exit \/ StopPipes \/ StopQueues
  PROVE  PowerIInv'
<1>1. /\ \/ power = "stopping" /\ power' = "exit" /\ Drained
         \/ power = "failStop" /\ power' = "failed"
         \/ power = "exit" /\ power' = "uninit" /\ PipesStopped
         \/ power = "on" /\ power' = "stopping"
      /\ UNCHANGED <<allVars, indices, sent>>
  BY DEF CallD0Exit, StopPipes, StopQueues
<1>2. ToSend' = ToSend /\ (EntryFailed' <=> EntryFailed)
  BY <1>1 DEF ToSend, EntryFailed
<1>3. /\ IInv => IInv'
      /\ WritesOK'
      /\ Still' <=> Still
      /\ OneFlies' <=> OneFlies
      /\ OneFreed' <=> OneFreed
      /\ \A t \in Threads : Resting(t)' <=> Resting(t)
      /\ UNCHANGED <<Count, stage, want, sent>>
  BY <1>1, <1>2, AllStays
<1>4. power' = "exit" => \A c \in Callers : Resting(c)
  <2>1. pc[Power] = "idle"
    BY PowerConstants DEF PowerIInv, WritesOK, WriteIInv, StageMatches
  <2>. QED
    BY <1>1, <2>1 DEF Drained, Users, Resting
<1>5. power' = "uninit" => Still
  <2>1. power' = "uninit" => PipesStopped /\ \A c \in Callers : Resting(c)
    BY <1>1 DEF PowerIInv, CalmOK
  <2>. QED
    BY <2>1 DEF PipesStopped, Dpcs, Still, Grounded, Resting
<1>6. CalmOK'
  BY <1>1, <1>3, <1>4, <1>5, Constants DEF PowerIInv, CalmOK, MaybeSent
<1>7. CountOK' /\ PowerInPool' /\ SentOK' /\ ToSendOK' /\ power' \in Powers
  BY <1>1, <1>3 DEF PowerIInv, CountOK, PowerInPool, SentOK, ToSendOK, Powers
<1>8. StragglerOK'
  BY <1>1, <1>2 DEF PowerIInv, StragglerOK, allVars, poolVars, writeVars, TypeOK
<1>. QED
  BY <1>2, <1>3, <1>6, <1>7, <1>8 DEF PowerIInv

\* On the way out of D0 they are deleted when all are back.
LEMMA ExitUninitKeeps ==
  ASSUME PowerIInv, ExitUninit
  PROVE  PowerIInv'
<1>1. /\ power = "uninit" /\ power' = "off" /\ PoolUninit /\ UNCHANGED writeVars
      /\ UNCHANGED <<indices, sent>>
      /\ ToSend' = ToSend /\ ~EntryFailed /\ ~EntryFailed'
  BY DEF ExitUninit, ToSend, EntryFailed
<1>2. IInv /\ TypeOK /\ Still /\ sent = 2 /\ stage[Power] = "out"
  BY <1>1 DEF PowerIInv, CalmOK, SentOK, PowerInPool, IInv
<1>3. IInv'
  BY <1>1, <1>2, StillIsQuiescent, PoolUninitKeeps
<1>4. UNCHANGED <<outstanding, stage, want>> /\ Count' = 0
  BY <1>1 DEF PoolUninit
<1>5. WritesOK' /\ (Still' <=> Still)
  BY <1>1, <1>4, WritesStay
<1>6. CalmOK' /\ CountOK' /\ PowerInPool' /\ SentOK'
  BY <1>1, <1>2, <1>4, <1>5 DEF CalmOK, CountOK, PowerInPool, SentOK, MaybeSent
<1>7. ToSendOK' /\ StragglerOK' /\ power' \in Powers
  BY <1>1 DEF ToSendOK, StragglerOK, Powers
<1>. QED
  BY <1>1, <1>3, <1>5, <1>6, <1>7 DEF PowerIInv

-----------------------------------------------------------------------------
(* Steps beside the power thread. *)

\* What does not depend on the writes stays as it is.
LEMMA D0Stays ==
  ASSUME PowerIInv, UNCHANGED <<power, indices, sent>>, Count' = Count,
         stage'[Power] = stage[Power], want'[Power] = want[Power]
  PROVE  /\ CountOK' /\ PowerInPool' /\ SentOK' /\ power' \in Powers
         /\ ToSend' = ToSend /\ (EntryFailed' <=> EntryFailed)
BY DEF PowerIInv, CountOK, PowerInPool, SentOK, ToSend, EntryFailed

\* Users' requests come when the device is on.
LEMMA DispatchKeeps ==
  ASSUME PowerIInv, NEW c \in Users, Dispatch(c)
  PROVE  PowerIInv'
<1>1. /\ power = "on" /\ Arrive(c) /\ UNCHANGED <<power, indices, sent>> /\ ~EntryFailed
      /\ IInv /\ TypeOK /\ c \in Callers /\ c # Power /\ ToSend = {}
  <2>1. power = "on"
    BY DEF Dispatch
  <2>2. UNCHANGED <<power, indices, sent>>
    BY DEF Dispatch, powerVars, d0Vars
  <2>. QED
    BY <2>1, <2>2 DEF Dispatch, EntryFailed, PowerIInv, IInv, Users, ToSend
<1>2. WriteIInv({}, {Power})
  BY <1>1 DEF PowerIInv, WritesOK
<1>3. WriteIInv({}, {Power})' /\ IInv'
  BY <1>1, <1>2, ArriveKeeps, ArriveStepsThePool, NextKeepsIInv
<1>4. /\ CountOK' /\ PowerInPool' /\ SentOK' /\ power' \in Powers
      /\ ToSend' = {} /\ ~EntryFailed'
  BY <1>1, ArriveEffects, D0Stays, PowerConstants
<1>5. WritesOK'
  <2>1. {} \in SUBSET Indices
    OBVIOUS
  <2>. QED
    BY <1>3, <1>4, <2>1 DEF WritesOK
<1>6. CalmOK' /\ ToSendOK' /\ StragglerOK'
  BY <1>1, <1>4 DEF CalmOK, MaybeSent, ToSendOK, StragglerOK
<1>. QED
  BY <1>3, <1>4, <1>5, <1>6 DEF PowerIInv

\* The one completion routine that runs frees its request, and then all is still.
LEMMA FreedStep ==
  ASSUME NEW apart, TypeOK, WriteIInv(apart, {Power}), OneFreed, NEW t \in Threads, Run(t)
  PROVE  /\ Frees(t) /\ UNCHANGED usb /\ \A u \in Threads : ~Single(u)'
         /\ \/ /\ Push(t) /\ Single(t) /\ OneFreed'
               /\ pc[t] = "push" /\ pc'[t] = "release" /\ \A u \in Threads \ {t} : Resting(u)'
               /\ FreePush(t, 1, Held(t)) /\ Held(t)[1] = local[t].i
               /\ outstanding' = outstanding \ {local[t].i}
            \/ /\ Release(t) /\ Still' /\ pc[t] = "release"
               /\ outstanding' = outstanding
<1>1. PICK d \in Threads : Frees(d) /\ \A u \in Threads \ {d} : Resting(u)
  BY DEF OneFreed
<1>2. /\ ~Resting(t)
      /\ \A u \in Threads \ {t} : pc'[u] = pc[u] /\ local'[u] = local[u]
      /\ pc[t] = "push" => Push(t)
      /\ pc[t] = "release" => Release(t)
  BY RunEffects
<1>3. t = d /\ Frees(t) /\ \A u \in Threads \ {t} : Resting(u)
  BY <1>1, <1>2
<1>4. \A u \in Threads \ {t} : Resting(u)'
  BY <1>2, <1>3 DEF Resting
<1>5. /\ VarTypes /\ Grounded /\ t \notin Callers
  BY <1>3 DEF WriteIInv, OneFreed, Frees
<1>6. CASE pc[t] = "push"
  <2>1. Push(t) /\ UNCHANGED <<local, usb>> /\ Goto(t, "release")
    BY <1>2, <1>6 DEF Push
  <2>2. Single(t) /\ ~IsBatch(t)
    BY <1>3, <1>6 DEF Frees, Single, IsBatch
  <2>3. Len(Held(t)) = 1 /\ Held(t)[1] = local[t].i
    BY <1>6, <2>2, HeldParts
  <2>4. FreePush(t, 1, Held(t))
    BY <2>1, <2>3 DEF Push
  <2>5. outstanding' = outstanding \ {local[t].i}
    <3>1. outstanding' = outstanding \ {Held(t)[k] : k \in 1..1}
      BY <2>4 DEF FreePush
    <3>. QED
      BY <2>3, <3>1
  <2>6. pc'[t] = "release"
    BY <1>5, <2>1 DEF Goto, VarTypes
  <2>7. OneFreed'
    BY <1>3, <1>4, <1>5, <2>1, <2>6 DEF OneFreed, Grounded, Frees
  <2>8. \A u \in Threads : ~Single(u)'
    BY <1>4, <2>6 DEF Single, Resting
  <2>. QED
    BY <1>3, <1>4, <1>6, <2>1, <2>2, <2>3, <2>4, <2>5, <2>6, <2>7, <2>8
<1>7. CASE pc[t] = "release"
  <2>1. Release(t) /\ UNCHANGED usb /\ outstanding' = outstanding /\ Return(t)
    BY <1>2, <1>3, <1>7 DEF Release, FreeRelease, Frees, IsBatch
  <2>2. pc'[t] = "idle"
    BY <1>5, <2>1 DEF Return, Goto, AtRest, VarTypes
  <2>3. Still'
    BY <1>4, <1>5, <2>1, <2>2 DEF Still, Grounded, Resting
  <2>4. \A u \in Threads : ~Single(u)'
    BY <2>3 DEF Still, Resting, Single
  <2>. QED
    BY <1>3, <1>7, <2>1, <2>3, <2>4
<1>. QED
  BY <1>3, <1>6, <1>7 DEF Frees

\* A thread that has begun goes on.
LEMMA WorkKeeps ==
  ASSUME ~Reread, PowerIInv, NEW t \in Threads, Work(t)
  PROVE  PowerIInv'
<1>1. Run(t) /\ UNCHANGED <<power, indices, sent>>
  BY DEF Work, powerVars, d0Vars
<1>2. PICK apart \in SUBSET Indices : apart = ToSend /\ WriteIInv(apart, {Power})
  BY DEF PowerIInv, WritesOK
<1>3. TypeOK
  BY DEF PowerIInv, StragglerOK, IInv
<1>4. /\ ~Resting(t) /\ Count' = Count
      /\ \A u \in Threads \ {t} : /\ pc'[u] = pc[u] /\ local'[u] = local[u]
                                  /\ stage'[u] = stage[u] /\ want'[u] = want[u]
  BY <1>1, <1>2, <1>3, RunEffects
<1>5. pc[Power] = "idle" /\ t # Power
  BY <1>2, <1>4, PowerConstants DEF WriteIInv, StageMatches, Resting
<1>6. /\ CountOK' /\ PowerInPool' /\ SentOK' /\ power' \in Powers
      /\ ToSend' = ToSend /\ (EntryFailed' <=> EntryFailed)
  BY <1>1, <1>4, <1>5, D0Stays, PowerConstants
<1>7. ~Still /\ ~OneFlies
  BY <1>4 DEF Still, OneFlies
<1>8. power \in {"on", "stopping", "exit"} \/ (power \in MaybeSent /\ sent = 1 /\ OneFreed)
  BY <1>7 DEF PowerIInv, Powers, CalmOK, MaybeSent
<1>9. ~EntryFailed => IInv' /\ WriteIInv(apart, {Power})'
  BY <1>1, <1>2, RunKeeps, RunStepsThePool, NextKeepsIInv DEF PowerIInv
<1>10. CASE power \in {"on", "stopping", "exit"}
  <2>1. ~EntryFailed
    BY <1>10 DEF EntryFailed
  <2>2. WritesOK'
    BY <1>2, <1>6, <1>9, <2>1 DEF WritesOK
  <2>3. CalmOK'
    <3>1. power = "exit" => t \notin Callers /\ \A c \in Callers : Resting(c)'
      BY <1>4, Constants DEF PowerIInv, CalmOK, Resting
    <3>. QED
      BY <1>1, <1>10, <3>1 DEF CalmOK, MaybeSent
  <2>4. ToSendOK' /\ StragglerOK'
    BY <1>1, <1>6, <1>10, <2>1 DEF ToSendOK, StragglerOK
  <2>. QED
    BY <1>6, <1>9, <2>1, <2>2, <2>3, <2>4 DEF PowerIInv
<1>11. CASE power \in MaybeSent /\ sent = 1 /\ OneFreed
  <2>1. /\ Frees(t) /\ UNCHANGED usb /\ \A u \in Threads : ~Single(u)'
        /\ \/ /\ Push(t) /\ Single(t) /\ OneFreed'
              /\ pc[t] = "push" /\ pc'[t] = "release" /\ \A u \in Threads \ {t} : Resting(u)'
              /\ FreePush(t, 1, Held(t)) /\ Held(t)[1] = local[t].i
              /\ outstanding' = outstanding \ {local[t].i}
           \/ /\ Release(t) /\ Still' /\ pc[t] = "release"
              /\ outstanding' = outstanding
    BY <1>1, <1>2, <1>3, <1>11, FreedStep
  <2>2. CalmOK'
    <3>1. Still' \/ OneFreed'
      BY <2>1
    <3>. QED
      BY <1>1, <1>11, <3>1 DEF CalmOK, MaybeSent
  <2>3. WriteIInv(apart, {Power})'
    BY <1>2, <1>3, <2>1, PushKeeps, ReleaseKeeps
  <2>4. WritesOK'
    BY <1>2, <1>6, <2>3 DEF WritesOK
  <2>5. ToSendOK'
    <3> SUFFICES ASSUME power \in {"send", "free"} PROVE ToSendOK'
      BY <1>1 DEF ToSendOK
    <3>1. indices \in [1..2 -> Indices] /\ indices[1] # indices[2]
      BY DEF PowerIInv, ToSendOK
    <3>2. ASSUME NEW i \in ToSend PROVE i \in outstanding' /\ ~usb'[i].inFlight
      <4>1. /\ i \in outstanding /\ ~usb[i].inFlight
            /\ Single(t) => local[t].i # i
        BY <3>2 DEF PowerIInv, ToSendOK
      <4>. QED
        BY <2>1, <4>1
    <3>. QED
      BY <1>1, <1>6, <2>1, <3>1, <3>2 DEF ToSendOK
  <2>6. StragglerOK'
    <3> SUFFICES ASSUME EntryFailed PROVE StragglerOK'
      BY <1>6 DEF StragglerOK
    <3>1. /\ (\E d \in Threads : pc[d] = "push") => FreeIndexEnd = 0 /\ Availabe < N
          /\ \A d \in Threads : pc[d] = "release" => Availabe + permits[d] <= N
      BY DEF PowerIInv, StragglerOK
    <3>2. Grounded'
      BY <1>11, <2>1 DEF OneFreed, Grounded
    <3>3. CASE FreePush(t, 1, Held(t)) /\ pc[t] = "push" /\ \A u \in Threads \ {t} : Resting(u)'
      <4>1. FreeIndexEnd = 0 /\ Availabe < N /\ Availabe \in Nat /\ N \in Nat /\ 0 < N
        BY <1>3, <3>1, <3>3, Constants DEF TypeOK
      <4>2. /\ FreeIndexEnd' = 1 /\ Availabe' = Availabe /\ permits'[t] = 1
            /\ permits' \in [Threads -> 0..MaxAlloc]
        BY <1>3, <3>3, <4>1, PowerConstants, Constants DEF FreePush, TypeOK
      <4>3. FreeIndices' \in [Indices -> Indices]
        <5>1. Held(t)[1] \in Indices
          <6>1. VarTypes
            BY <1>2 DEF WriteIInv
          <6>. QED
            BY <2>1, <3>3, <6>1, FieldTypes
        <5>2. FreeIndices' = [k \in Indices |->
                                IF k \in 0..0 THEN Held(t)[k - 0 + 1] ELSE FreeIndices[k]]
          BY <3>3, <4>1 DEF FreePush
        <5>3. \A k \in 0..0 : k - 0 + 1 = 1
          OBVIOUS
        <5>. QED
          BY <1>3, <5>1, <5>2, <5>3 DEF TypeOK
      <4>4. TypeOK'
        BY <1>3, <3>3, <4>1, <4>2, <4>3 DEF FreePush, TypeOK
      <4>5. \A d \in Threads : /\ pc'[d] # "push"
                               /\ pc'[d] = "release" => d = t
        BY <2>1, <3>3 DEF Resting
      <4>. QED
        BY <3>2, <4>1, <4>2, <4>4, <4>5 DEF StragglerOK, Grounded
    <3>4. CASE Release(t) /\ Still' /\ pc[t] = "release"
      <4>1. /\ Availabe' = Availabe + permits[t] /\ Availabe + permits[t] <= N
            /\ FreeRelease(t)
        BY <3>1, <3>4 DEF Release, FreeRelease
      <4>2. TypeOK'
        BY <1>3, <4>1, Constants DEF FreeRelease, TypeOK
      <4>3. \A d \in Threads : pc'[d] # "push" /\ pc'[d] # "release"
        BY <3>4 DEF Still, Resting
      <4>. QED
        BY <3>2, <4>2, <4>3 DEF StragglerOK, Grounded
    <3>. QED
      BY <2>1, <3>3, <3>4
  <2>. QED
    BY <1>6, <1>9, <2>2, <2>4, <2>5, <2>6 DEF PowerIInv
<1>. QED
  BY <1>8, <1>10, <1>11

\* A firmware request ends on a processor that was free.
LEMMA FirmwareCompletedKeeps ==
  ASSUME PowerIInv, NEW d \in Dpcs, NEW i \in Indices, NEW result, FirmwareCompleted(d, i, result)
  PROVE  PowerIInv'
<1>1. PICK apart \in SUBSET Indices : apart = ToSend /\ WriteIInv(apart, {Power})
  BY DEF PowerIInv, WritesOK
<1>2. /\ VarTypes /\ d \in Threads /\ d \notin Callers /\ d # Power /\ pc[d] = "idle"
      /\ stage[d] = "out" /\ pc[Power] = "idle" /\ Power \in Callers /\ Power \in Threads
      /\ \A h \in Headers : BatchOK(h)
      /\ PlacesOK /\ AllPlaced(apart)
  BY <1>1, PowerConstants DEF FirmwareCompleted, WriteIInv, StageMatches
<1>3. TypeOK
  BY DEF PowerIInv, StragglerOK, IInv
<1>4. /\ UNCHANGED <<power, indices, sent>> /\ UNCHANGED poolVars
      /\ UNCHANGED <<Count, outstanding, stage, want>>
      /\ UNCHANGED <<req, header, allocated, batchList, outcome, late>>
      /\ usb[i].inFlight /\ usb[i].ctx.r = Power
      /\ usb' = [usb EXCEPT ![i].inFlight = FALSE]
      /\ Goto(d, "push")
  BY DEF FirmwareCompleted, powerVars, d0Vars, poolVars
<1>5. PICK x : x = [NoWork EXCEPT !.r = Power, !.i = i]
  OBVIOUS
<1>6. x \in Locals /\ x.h = NoHeader /\ x.i = i
  <2>1. x = [r |-> Power, h |-> NoHeader, i |-> i, k |-> 0, ok |-> TRUE]
    BY <1>5 DEF NoWork
  <2>2. 0 \in 0..(MaxAlloc + 1)
    BY Constants
  <2>. QED
    BY <1>2, <2>1, <2>2 DEF Locals
<1>7. /\ pc' \in [Threads -> PCs] /\ pc'[d] = "push" /\ (\A u \in Threads \ {d} : pc'[u] = pc[u])
      /\ local' \in [Threads -> Locals] /\ local'[d] = x /\ (\A u \in Threads \ {d} : local'[u] = local[u])
  <2>1. "push" \in PCs
    BY DEF PCs
  <2>2. local' = [local EXCEPT ![d] = x]
    BY <1>5 DEF FirmwareCompleted
  <2>. QED
    BY <1>2, <1>4, <1>6, <2>1, <2>2, GotoParts, LocalParts
<1>8. /\ usb' \in [Indices -> Usbs] /\ ~usb'[i].inFlight
      /\ \A j \in Indices \ {i} : usb'[j] = usb[j]
  <2>1. usb \in [Indices -> Usbs]
    BY <1>2, TypeParts
  <2>. QED
    BY <1>4, <2>1 DEF Usbs
<1>9. Alone(i) /\ i \in outstanding
  <2>1. ASSUME usb[i].ctx.h # NoHeader PROVE FALSE
    <3>1. PICK g \in Headers : Flies(i, g)
      BY <1>2, <1>4, <2>1, FieldTypes DEF Flies
    <3>2. Filled(g) /\ header[g].Request = Power
      BY <1>1, <1>4, <3>1, WhenItFlies
    <3>. QED
      BY <1>2, <3>2 DEF BatchOK
  <2>2. Alone(i)
    BY <1>4, <2>1 DEF Alone
  <2>. QED
    BY <1>2, <2>2 DEF PlacesOK
<1>10. \A g \in Headers : NotOf(d, g) /\ NotOf(d, g)'
  BY <1>2, <1>6, <1>7, Constants DEF NotOf, Works, Begins, Sends, Loop, Counts, Ends
<1>11. /\ \A h \in Headers, k \in Positions : Has(h, k)' <=> Has(h, k)
       /\ \A u \in Threads : /\ Single(u)' <=> Single(u) \/ u = d
                             /\ Single(u) => u # d /\ local'[u].i = local[u].i /\ local[u].i # i
       /\ \A j \in Indices : Alone(j)' <=> Alone(j) /\ j # i
       /\ local'[d].i = i
  <2>1. \A h \in Headers, k \in Positions : Has(h, k)' <=> Has(h, k)
    <3>1. \A h \in Headers : /\ \A u \in Threads : /\ Begins(u, h)' <=> Begins(u, h)
                                                   /\ Ends(u, h)' <=> Ends(u, h)
                                                   /\ Ends(u, h) => pc'[u] = pc[u]
      <4>1. \A h \in Headers : ~Begins(d, h) /\ ~Ends(d, h) /\ ~Begins(d, h)' /\ ~Ends(d, h)'
        BY <1>10 DEF NotOf, Works
      <4>2. \A h \in Headers, u \in Threads \ {d} : /\ Begins(u, h)' <=> Begins(u, h)
                                                    /\ Ends(u, h)' <=> Ends(u, h)
        BY <1>7 DEF Begins, Ends
      <4>. QED
        BY <1>7, <4>1, <4>2
    <3>2. \A h \in Headers : (Taken(h)' <=> Taken(h)) /\ (Armed(h)' <=> Armed(h))
      BY <1>4, <3>1 DEF Taken, Filled, Armed
    <3>. QED
      BY <1>2, <1>4, <1>7, <3>2 DEF Has
  <2>2. \A u \in Threads : /\ Single(u)' <=> Single(u) \/ u = d
                           /\ Single(u) => u # d /\ local'[u].i = local[u].i
    BY <1>2, <1>6, <1>7 DEF Single
  <2>3. \A u \in Threads : Single(u) => local[u].i # i
    BY <1>2, <1>9 DEF PlacesOK
  <2>4. \A j \in Indices : Alone(j)' <=> Alone(j) /\ j # i
    BY <1>8 DEF Alone
  <2>. QED
    BY <1>6, <1>7, <2>1, <2>2, <2>3, <2>4
<1>12. PlacesOK'
  <2>1. \A g, h \in Headers, k, l \in Positions :
          Has(g, k)' /\ Has(h, l)' /\ header'[g].UsbRequestIndices[k] = header'[h].UsbRequestIndices[l] =>
            g = h /\ k = l
    BY <1>2, <1>4, <1>11 DEF PlacesOK
  <2>2. ASSUME NEW h \in Headers, NEW k \in Positions, Has(h, k)'
        PROVE  (LET j == header[h].UsbRequestIndices[k] IN
                /\ j \in outstanding /\ ~Alone(j)
                /\ \A t \in Threads : Single(t) => local[t].i # j)'
    <3>1. PICK j \in Indices : j = header[h].UsbRequestIndices[k]
      BY <1>2, <1>3, <1>11, <2>2 DEF PlacesOK, TypeOK
    <3>2. j \in outstanding /\ ~Alone(j) /\ \A t \in Threads : Single(t) => local[t].i # j
      BY <1>2, <1>11, <2>2, <3>1 DEF PlacesOK
    <3>3. j # i
      BY <1>9, <3>2
    <3>4. j \in outstanding' /\ ~Alone(j)' /\ \A t \in Threads : Single(t)' => local'[t].i # j
      BY <1>4, <1>11, <3>2, <3>3
    <3>5. header'[h].UsbRequestIndices[k] = j
      BY <1>4, <3>1
    <3>. QED
      BY <3>4, <3>5 DEF Alone
  <2>3. ASSUME NEW t \in Threads, Single(t)'
        PROVE  (/\ local[t].i \in outstanding /\ ~Alone(local[t].i)
                /\ \A u \in Threads : Single(u) /\ local[t].i = local[u].i => t = u)'
    <3>1. PICK j \in Indices : j = local'[t].i
      BY <1>2, <1>3, <1>11, <2>3 DEF PlacesOK, TypeOK
    <3>2. j \in outstanding' /\ ~Alone(j)'
      BY <1>2, <1>4, <1>9, <1>11, <2>3, <3>1 DEF PlacesOK
    <3>3. \A u \in Threads : Single(u)' /\ j = local'[u].i => t = u
      BY <1>2, <1>11, <2>3, <3>1 DEF PlacesOK
    <3>. QED
      BY <3>1, <3>2, <3>3 DEF Alone
  <2>4. \A j \in Indices : Alone(j)' => j \in outstanding'
    BY <1>2, <1>4, <1>11 DEF PlacesOK
  <2>. QED
    BY <2>1, <2>2, <2>3, <2>4 DEF PlacesOK
<1>13. AllPlaced(apart)'
  <2> SUFFICES ASSUME NEW j \in outstanding \ apart
               PROVE  \/ Alone(j)'
                      \/ \E t \in Threads : Single(t)' /\ local'[t].i = j
                      \/ \E h \in Headers, k \in Positions :
                            Has(h, k)' /\ header'[h].UsbRequestIndices[k] = j
    BY <1>4 DEF AllPlaced
  <2>1. CASE j = i
    BY <1>2, <1>11, <2>1
  <2>2. CASE j # i
    <3>1. j \in Indices
      BY <1>3 DEF TypeOK
    <3>. QED
      BY <1>2, <1>4, <1>11, <2>2, <3>1 DEF AllPlaced
  <2>. QED
    BY <2>1, <2>2
<1>14. WriteIInv(apart, {Power})'
  <2>1. OthersStay(d)
    BY <1>7 DEF OthersStay
  <2>2. VarTypes'
    BY <1>2, <1>4, <1>7, <1>8 DEF VarTypes
  <2>3. ThreadOK(d)' /\ StageMatches(d, {Power})'
    BY <1>2, <1>4, <1>6, <1>7 DEF ThreadOK, StageMatches, Loop
  <2>4. \A g \in Headers : SameRole(d, g)
    BY <1>10, NoRole
  <2>5. \A j \in Indices : \/ usb'[j] = usb[j]
                           \/ /\ usb[j].inFlight => Alone(j) /\ usb[j].ctx.r \in {Power}
                              /\ usb'[j].inFlight => Alone(j)' /\ usb'[j].ctx.r \in {Power}
    BY <1>4, <1>8, <1>9
  <2>6. \A j \in Indices : Alone(j) /\ usb[j].ctx.r = d /\ d \notin {Power} => FALSE
    BY <1>1, <1>2 DEF WriteIInv, AloneOK
  <2>7. \A g \in Headers : Filled(g) => header[g].Request # d
    BY <1>2 DEF BatchOK
  <2>8. \A u \in Callers \ {d} : req'[u] = req[u]
    BY <1>4
  <2>9. \A u \in Threads \ {d} : stage'[u] = stage[u] /\ want'[u] = want[u]
    BY <1>4
  <2>. QED
    BY <1>1, <1>2, <1>4, <1>10, <1>12, <1>13, <2>1, <2>2, <2>3, <2>4, <2>5, <2>6, <2>7, <2>8, <2>9, GuestStep
<1>15. /\ CountOK' /\ PowerInPool' /\ SentOK' /\ power' \in Powers
       /\ ToSend' = ToSend /\ (EntryFailed' <=> EntryFailed)
  BY <1>4, D0Stays
<1>16. WritesOK'
  BY <1>1, <1>14, <1>15 DEF WritesOK
<1>17. IInv => IInv'
  BY <1>4, NextKeepsIInv
<1>18. power \in {"on", "stopping", "exit"} \/ (power \in MaybeSent /\ sent = 1 /\ OneFlies)
  BY <1>4 DEF PowerIInv, Powers, CalmOK, MaybeSent, Still, OneFreed, Grounded
<1>19. CalmOK'
  <2>1. power = "exit" => \A c \in Callers : Resting(c)'
    BY <1>2, <1>7, Constants DEF PowerIInv, CalmOK, Resting
  <2>2. OneFlies => OneFreed'
    <3> SUFFICES ASSUME OneFlies PROVE OneFreed'
      OBVIOUS
    <3>1. Grounded'
      BY <1>4, <1>8 DEF OneFlies, Lone, Grounded
    <3>2. Frees(d)'
      BY <1>2, <1>6, <1>7 DEF Frees
    <3>3. \A u \in Threads \ {d} : Resting(u)'
      BY <1>7 DEF OneFlies, Resting
    <3>. QED
      BY <1>2, <3>1, <3>2, <3>3 DEF OneFreed
  <2>. QED
    BY <1>4, <1>18, <2>1, <2>2 DEF CalmOK, MaybeSent
<1>20. ToSendOK'
  <2> SUFFICES ASSUME power \in {"send", "free"} PROVE ToSendOK'
    BY <1>4 DEF ToSendOK
  <2>1. indices \in [1..2 -> Indices] /\ indices[1] # indices[2]
    BY DEF PowerIInv, ToSendOK
  <2>2. ASSUME NEW j \in ToSend
        PROVE  /\ j \in outstanding' /\ ~usb'[j].inFlight
               /\ \A t \in Threads : Single(t)' => local'[t].i # j
    <3>1. /\ j \in outstanding /\ ~usb[j].inFlight /\ j \in Indices
          /\ \A t \in Threads : Single(t) => local[t].i # j
      BY <1>3, <2>2 DEF PowerIInv, ToSendOK, TypeOK
    <3>2. j # i
      BY <1>4, <3>1
    <3>. QED
      BY <1>4, <1>8, <1>11, <3>1, <3>2
  <2>. QED
    BY <1>4, <1>15, <2>1, <2>2 DEF ToSendOK
<1>21. StragglerOK'
  <2> SUFFICES ASSUME EntryFailed PROVE StragglerOK'
    BY <1>15 DEF StragglerOK
  <2>1. /\ FreeIndexEnd = 0 /\ Availabe < N
        /\ \A u \in Threads : pc[u] = "release" => Availabe + permits[u] <= N
    BY <1>4 DEF PowerIInv, StragglerOK
  <2>2. UNCHANGED <<FreeIndexEnd, Availabe, permits>> /\ TypeOK'
    BY <1>3, <1>4 DEF poolVars, TypeOK
  <2>3. \A u \in Threads : pc'[u] = "release" => pc[u] = "release"
    BY <1>2, <1>7
  <2>. QED
    BY <2>1, <2>2, <2>3 DEF StragglerOK
<1>. QED
  BY <1>15, <1>16, <1>17, <1>19, <1>20, <1>21 DEF PowerIInv

\* A user's transfer ends.
LEMMA BusKeeps ==
  ASSUME PowerIInv, NEW i \in Indices, usb[i].ctx.r # Power, Bus(i), UNCHANGED powerVars
  PROVE  PowerIInv'
<1>1. PICK d \in Dpcs, result \in Results :
        UrbCompleted(d, i, result) \/ UrbCompletedInBatch(d, i, result)
  BY DEF Bus
<1>2. /\ usb[i].inFlight /\ UNCHANGED poolVars /\ UNCHANGED <<Count, stage, want>>
      /\ UNCHANGED <<power, indices, sent>>
      /\ pc' = [pc EXCEPT ![d] = pc'[d]]
  <2>1. UNCHANGED poolVars /\ usb[i].inFlight
    BY <1>1 DEF UrbCompleted, UrbCompletedInBatch
  <2>2. pc' = [pc EXCEPT ![d] = "push"] \/ pc' = [pc EXCEPT ![d] = "count"]
    BY <1>1 DEF UrbCompleted, UrbCompletedInBatch, Goto
  <2>3. pc \in [Threads -> PCs] /\ d \in Threads
    BY TypeParts, PowerConstants DEF PowerIInv, WritesOK, WriteIInv
  <2>. QED
    BY <2>1, <2>2, <2>3 DEF poolVars, powerVars, d0Vars
<1>3. ~Still /\ ~OneFlies /\ ~OneFreed
  BY <1>2 DEF Still, OneFlies, OneFreed, Grounded, Lone
<1>4. power \in {"on", "stopping", "exit"} /\ ~EntryFailed /\ ToSend = {}
  BY <1>3 DEF PowerIInv, Powers, CalmOK, MaybeSent, EntryFailed, ToSend
<1>5. IInv /\ TypeOK /\ WriteIInv({}, {Power})
  BY <1>4 DEF PowerIInv, WritesOK, IInv
<1>6. WriteIInv({}, {Power})' /\ IInv'
  BY <1>1, <1>2, <1>5, UrbCompletedKeeps, UrbCompletedInBatchKeeps, NextKeepsIInv
<1>7. /\ CountOK' /\ PowerInPool' /\ SentOK' /\ power' \in Powers
      /\ ToSend' = {} /\ ~EntryFailed'
  BY <1>2, <1>4, D0Stays
<1>8. WritesOK'
  <2>1. {} \in SUBSET Indices
    OBVIOUS
  <2>. QED
    BY <1>6, <1>7, <2>1 DEF WritesOK
<1>9. CalmOK'
  <2>1. pc \in [Threads -> PCs] /\ Callers \subseteq Threads
    BY <1>5, TypeParts, Constants DEF WriteIInv
  <2>2. \A c \in Callers : pc'[c] = pc[c]
    BY <1>2, <2>1, PowerConstants
  <2>. QED
    BY <1>2, <1>4, <2>2 DEF PowerIInv, CalmOK, MaybeSent, Resting
<1>10. ToSendOK' /\ StragglerOK'
  BY <1>2, <1>4, <1>7 DEF ToSendOK, StragglerOK
<1>. QED
  BY <1>6, <1>7, <1>8, <1>9, <1>10 DEF PowerIInv

\* The set-up and the waiting read touch none of it.
LEMMA QuietKeeps ==
  ASSUME PowerIInv, UNCHANGED allVars, UNCHANGED <<power, indices, sent>>
  PROVE  PowerIInv'
<1>1. ToSend' = ToSend /\ (EntryFailed' <=> EntryFailed)
  BY DEF ToSend, EntryFailed
<1>2. /\ IInv => IInv'
      /\ WritesOK'
      /\ Still' <=> Still
      /\ OneFlies' <=> OneFlies
      /\ OneFreed' <=> OneFreed
      /\ \A t \in Threads : Resting(t)' <=> Resting(t)
      /\ UNCHANGED <<Count, stage, want, sent>>
  BY <1>1, AllStays
<1>3. CalmOK' /\ CountOK' /\ PowerInPool' /\ SentOK' /\ power' \in Powers
  BY <1>2, Constants DEF PowerIInv, CalmOK, CountOK, PowerInPool, SentOK
<1>4. UNCHANGED <<outstanding, usb, pc, local>>
  BY DEF allVars, poolVars, writeVars
<1>5. ToSendOK'
  BY <1>1, <1>4 DEF PowerIInv, ToSendOK, Single
<1>6. StragglerOK'
  BY <1>1 DEF PowerIInv, StragglerOK, allVars, poolVars, writeVars, TypeOK
<1>. QED
  BY <1>1, <1>2, <1>3, <1>5, <1>6 DEF PowerIInv

-----------------------------------------------------------------------------
(* The invariant holds. *)

\* At first all is still.
LEMMA PowerInitOK == PowerInit => PowerIInv
<1> SUFFICES ASSUME PowerInit PROVE PowerIInv
  OBVIOUS
<1>1. WriteInit /\ power = "off" /\ sent = 0
  BY DEF PowerInit
<1>2. IInv /\ WriteIInv({}, {Power})
  <2>1. {Power} \in SUBSET Callers
    BY PowerConstants
  <2>. QED
    BY <1>1, <2>1, WriteInitOK
<1>3. Count = 0 /\ stage[Power] = "out" /\ Still
  BY <1>1, PowerConstants DEF WriteInit, Init, Still, Grounded, Resting
<1>4. WritesOK
  <2>1. ToSend = {} /\ {} \in SUBSET Indices
    BY <1>1 DEF ToSend
  <2>. QED
    BY <1>2, <2>1 DEF WritesOK
<1>5. CalmOK /\ CountOK /\ PowerInPool /\ SentOK /\ ToSendOK /\ StragglerOK /\ power \in Powers
  BY <1>1, <1>3 DEF CalmOK, CountOK, PowerInPool, SentOK, ToSendOK, StragglerOK, EntryFailed,
                    MaybeSent, Powers
<1>. QED
  BY <1>2, <1>4, <1>5 DEF PowerIInv

\* Every step keeps it.
LEMMA PowerNextKeeps ==
  ASSUME ~Reread, PowerIInv, [PowerNext]_deviceVars
  PROVE  PowerIInv'
<1>1. CASE \E success \in BOOLEAN : StartPipes(success)
  BY <1>1, StartPipesKeeps
<1>2. CASE PowerStep
  <2>1. ASSUME NEW success \in BOOLEAN, FirmwareSend(success) PROVE PowerIInv'
    BY <2>1, FirmwareSendKeeps
  <2>2. CASE CallD0Exit \/ StopPipes
    BY <2>2, FrameworkKeeps
  <2>. QED
    BY <1>2, <2>1, <2>2, CreateRequestsKeeps, FirmwareAllocKeeps, FirmwareFreeKeeps,
       FailUninitKeeps, ExitUninitKeeps DEF PowerStep
<1>3. CASE StopQueues
  BY <1>3, FrameworkKeeps
<1>4. CASE SetUp
  BY <1>4, QuietKeeps DEF SetUp, d0Vars
<1>5. CASE \E c \in Users : Dispatch(c)
  BY <1>5, DispatchKeeps
<1>6. CASE \E t \in Threads : Work(t)
  BY <1>6, WorkKeeps
<1>7. ASSUME NEW i \in Indices, Transfer(i) PROVE PowerIInv'
  BY <1>7, BusKeeps, FirmwareCompletedKeeps DEF Transfer
<1>8. CASE IoctlRead
  BY <1>8, QuietKeeps DEF IoctlRead
<1>9. CASE UNCHANGED deviceVars
  BY <1>9, QuietKeeps DEF deviceVars, powerVars, d0Vars
<1>. QED
  BY <1>1, <1>2, <1>3, <1>4, <1>5, <1>6, <1>7, <1>8, <1>9 DEF PowerNext

\* The pool's invariant, unless an entry failed with one firmware request sent, and the
\* writes', beside the power thread's requests, hold always.
THEOREM PowerInvariant ==
  ASSUME ~Reread
  PROVE  PowerSpec => []PowerIInv
<1>1. PowerIInv /\ [PowerNext]_deviceVars => PowerIInv'
  BY PowerNextKeeps
<1>. QED
  BY <1>1, PowerInitOK, PTL DEF PowerSpec

-----------------------------------------------------------------------------
(* The safety properties. *)

\* The types of what the set-up and the power thread have of their own.
SetupTypes ==
  /\ setup \in {"unloaded", "loaded", "buffers", "created", "starting", "configured",
                "prepared", "freeing", "failed"}
  /\ endpoints \subseteq {"in", "out"} /\ starts \in 0..MaxStarts /\ UsbDevice \in BOOLEAN
  /\ {BulkReadPipe, BulkWritePipe, reader} \subseteq 0..starts

D0Types ==
  /\ entries \in 0..MaxEntries
  /\ indices \in {<<>>} \cup [1..2 -> Indices] /\ sent \in 0..2
  /\ ioctlRead \in {"none", "pending", "completed"}

\* The set-up keeps its own.
LEMMA SetupKeepsTypes ==
  ASSUME SetupTypes, SetupStep
  PROVE  SetupTypes'
<1>0. MaxStarts \in Nat /\ starts \in Nat
  BY SetupAssumption DEF SetupTypes
<1>1. ASSUME NEW success \in BOOLEAN,
             DriverEntry(success) \/ AddBuffers(success) \/ CreateQueues(success)
      PROVE  SetupTypes'
  BY <1>1 DEF SetupTypes, DriverEntry, AddBuffers, CreateQueues, Advance, pipeVars
<1>2. ASSUME NEW success \in BOOLEAN, FindPipes(success)
      PROVE  SetupTypes'
  <2>1. /\ setup' \in {"configured", "failed"} /\ UNCHANGED <<endpoints, starts, reader>>
        /\ UsbDevice' \in {UsbDevice, TRUE}
        /\ BulkReadPipe' \in {BulkReadPipe, starts} /\ BulkWritePipe' \in {BulkWritePipe, starts}
    BY <1>2 DEF FindPipes, Found, Advance
  <2>2. UsbDevice' \in BOOLEAN
    BY <2>1 DEF SetupTypes
  <2>3. starts \in 0..starts
    BY <1>0
  <2>. QED
    BY <2>1, <2>2, <2>3 DEF SetupTypes
<1>3. ASSUME NEW success \in BOOLEAN, ConfigureReader(success)
      PROVE  SetupTypes'
  BY <1>3 DEF SetupTypes, ConfigureReader, Advance
<1>4. CASE Start
  BY <1>0, <1>4 DEF SetupTypes, Start, pipeVars
<1>5. CASE MessageBuffersFree
  BY <1>5 DEF SetupTypes, MessageBuffersFree, setupVars, pipeVars
<1>. QED
  BY <1>1, <1>2, <1>3, <1>4, <1>5 DEF SetupStep

\* And every step keeps both.
LEMMA OwnTypesKept ==
  ASSUME PowerIInv, PowerIInv', SetupTypes, D0Types, [PowerNext]_deviceVars
  PROVE  SetupTypes' /\ D0Types'
<1>1. UNCHANGED setupVars => SetupTypes'
  BY DEF SetupTypes, setupVars, pipeVars
<1>2. UNCHANGED d0Vars => D0Types'
  BY DEF D0Types, d0Vars
<1>3. CASE \E success \in BOOLEAN : StartPipes(success)
  <2>1. UNCHANGED setupVars /\ UNCHANGED <<indices, sent, ioctlRead>>
    BY <1>3 DEF StartPipes
  <2>2. entries' \in 0..MaxEntries
    BY <1>3, PowerAssumption DEF StartPipes, D0Types
  <2>. QED
    BY <1>1, <2>1, <2>2 DEF D0Types
<1>4. CASE PowerStep
  <2>1. UNCHANGED setupVars /\ UNCHANGED <<entries, ioctlRead>>
    BY <1>4 DEF PowerStep, CreateRequests, FirmwareAlloc, FirmwareSend, FirmwareFree, FailUninit,
                CallD0Exit, StopPipes, ExitUninit
  <2>2. \/ UNCHANGED <<indices, sent>>
        \/ power' = "send" /\ sent' = 0
        \/ UNCHANGED indices /\ sent \in {0, 1} /\ sent' = sent + 1
    <3>1. ASSUME NEW success \in BOOLEAN, FirmwareSend(success)
          PROVE  UNCHANGED indices /\ (UNCHANGED sent \/ (sent \in {0, 1} /\ sent' = sent + 1))
      BY <3>1 DEF FirmwareSend, PowerIInv, SentOK
    <3>. QED
      BY <1>4, <3>1 DEF PowerStep, CreateRequests, FirmwareAlloc, FirmwareFree, FailUninit,
                        CallD0Exit, StopPipes, ExitUninit
  <2>3. power' = "send" => indices' \in [1..2 -> Indices]
    BY DEF PowerIInv, ToSendOK
  <2>. QED
    BY <1>1, <2>1, <2>2, <2>3 DEF D0Types
<1>5. CASE SetUp
  BY <1>2, <1>5, SetupKeepsTypes DEF SetUp
<1>6. CASE StopQueues /\ UNCHANGED setupVars
  BY <1>1, <1>6 DEF StopQueues, D0Types
<1>7. CASE IoctlRead /\ UNCHANGED setupVars
  BY <1>1, <1>7 DEF IoctlRead, D0Types
<1>8. ASSUME \/ \E c \in Users : Dispatch(c)
             \/ \E t \in Threads : Work(t)
             \/ \E i \in Indices : Transfer(i)
             \/ UNCHANGED deviceVars
      PROVE  UNCHANGED powerVars
  BY <1>8 DEF Dispatch, Work, Transfer, FirmwareCompleted, deviceVars
<1>9. UNCHANGED powerVars => UNCHANGED setupVars /\ UNCHANGED d0Vars
  BY DEF powerVars
<1>. QED
  BY <1>1, <1>2, <1>3, <1>4, <1>5, <1>6, <1>7, <1>8, <1>9 DEF PowerNext

\* Every variable of the device has its type, through every entry into D0, failed or not,
\* and with a request that comes back to a pool that is gone.
THEOREM PowerTypeCorrect ==
  ASSUME ~Reread
  PROVE  PowerSpec => []PowerTypeOK
<1>1. PowerInit => SetupTypes /\ D0Types
  <2> SUFFICES ASSUME PowerInit PROVE SetupTypes /\ D0Types
    OBVIOUS
  <2>1. SetupTypes
    <3>1. /\ setup = "unloaded" /\ endpoints \subseteq {"in", "out"} /\ starts = 0
          /\ BulkReadPipe = 0 /\ BulkWritePipe = 0 /\ reader = 0
      BY DEF PowerInit, SetupInit
    <3>2. UsbDevice \in BOOLEAN
      BY DEF PowerInit, SetupInit
    <3>3. 0 \in 0..MaxStarts /\ 0 \in 0..0
      BY SetupAssumption
    <3>. QED
      BY <3>1, <3>2, <3>3 DEF SetupTypes
  <2>2. D0Types
    BY PowerAssumption DEF PowerInit, D0Types
  <2>. QED
    BY <2>1, <2>2
<1>2. PowerIInv /\ PowerIInv' /\ SetupTypes /\ D0Types /\ [PowerNext]_deviceVars =>
        SetupTypes' /\ D0Types'
  BY OwnTypesKept
<1>3. PowerIInv /\ SetupTypes /\ D0Types => PowerTypeOK
  <2> SUFFICES ASSUME PowerIInv, SetupTypes, D0Types PROVE PowerTypeOK
    OBVIOUS
  <2>1. TypeOK /\ VarTypes
    BY DEF PowerIInv, StragglerOK, IInv, WritesOK, WriteIInv
  <2>2. WriteTypeOK
    BY <2>1 DEF WriteTypeOK, VarTypes, PCs, Locals, Reqs, Hdrs, Ctxs, Usbs, Outcomes
  <2>. QED
    BY <2>2 DEF PowerTypeOK, PowerIInv, Powers, SetupTypes, D0Types
<1>. QED
  BY <1>1, <1>2, <1>3, PowerInvariant, PTL DEF PowerSpec

\* The requests outlive their use: on the way out of D0 always, and when an entry fails
\* unless it has sent one of the two firmware requests.
THEOREM PowerRequestsOutliveUse ==
  ASSUME ~Reread
  PROVE  PowerSpec => []RequestsOutliveUse
<1>1. PowerIInv => RequestsOutliveUse
  <2> SUFFICES ASSUME PowerIInv, ~EntryFailed, Count # N
               PROVE  /\ \A i \in Indices : ~usb[i].inFlight
                      /\ outstanding = {} /\ \A t \in Threads : stage[t] = "out"
    BY DEF RequestsOutliveUse
  <2>1. IInv
    BY DEF PowerIInv
  <2>2. outstanding = {} /\ \A t \in Threads : stage[t] = "out"
    BY <2>1 DEF IInv, TypeOK, OffIsQuiescent, Quiescent
  <2>3. PICK apart \in SUBSET Indices : WriteIInv(apart, {Power})
    BY DEF PowerIInv, WritesOK
  <2>4. ASSUME NEW i \in Indices, usb[i].inFlight PROVE FALSE
    <3>1. VarTypes /\ PlacesOK
      BY <2>3 DEF WriteIInv
    <3>2. CASE usb[i].ctx.h = NoHeader
      BY <2>2, <2>4, <3>1, <3>2 DEF PlacesOK, Alone
    <3>3. CASE usb[i].ctx.h # NoHeader
      <4>1. PICK g \in Headers : Flies(i, g)
        BY <2>4, <3>1, <3>3, FieldTypes DEF Flies
      <4>2. PICK k \in Positions : Has(g, k)
        BY <2>3, <4>1, WhenItFlies
      <4>. QED
        BY <2>2, <3>1, <4>2 DEF PlacesOK
    <3>. QED
      BY <3>2, <3>3
  <2>. QED
    BY <2>2, <2>4
<1>. QED
  BY <1>1, PowerInvariant, PTL

\* When D0Exit deletes the requests all of them and all permits are back, whatever writes
\* and firmware requests there were.
THEOREM PowerAllReturnedAtExit ==
  ASSUME ~Reread
  PROVE  PowerSpec => []AllReturnedAtExit
<1>1. PowerIInv => AllReturnedAtExit
  <2> SUFFICES ASSUME PowerIInv, power = "uninit"
               PROVE  FreeIndexEnd = N /\ Availabe = N /\ Quiescent
    BY DEF AllReturnedAtExit
  <2>1. IInv /\ TypeOK /\ StageOK /\ IndicesPartitioned /\ PermitsBackedByIndices /\ Still /\ Count = N
    BY DEF PowerIInv, EntryFailed, CalmOK, CountOK, IInv
  <2>2. Quiescent
    BY <2>1, StillIsQuiescent
  <2>3. FreeIndexEnd \in Int /\ Availabe \in Int /\ N \in Int
    BY <2>1, Constants DEF TypeOK
  <2>4. FreeIndexEnd = N
    <3>1. Cardinality(outstanding) = N - FreeIndexEnd
      BY <2>1, IndicesAddUp
    <3>2. Cardinality(outstanding) = 0
      BY <2>2, FS_EmptySet DEF Quiescent
    <3>. QED
      BY <2>3, <3>1, <3>2
  <2>5. Availabe = N
    <3>1. FreeIndexEnd = Availabe + Cardinality(Tokens)
      BY <2>1 DEF PermitsBackedByIndices
    <3>2. Cardinality(Tokens) = 0
      BY <2>1, <2>2, QuiescentNoTokens DEF Tokens
    <3>. QED
      BY <2>3, <2>4, <3>1, <3>2
  <2>. QED
    BY <2>2, <2>4, <2>5
<1>. QED
  BY <1>1, PowerInvariant, PTL

-----------------------------------------------------------------------------
(* What is true of the writes stays true beside the firmware requests and power. *)

\* At every moment, with the firmware's requests in flight, with the pool coming and going,
\* and also after an entry to D0 has failed, the writes' invariant holds.
LEMMA WritesBesidePower ==
  ASSUME PowerIInv
  PROVE  TypeOK /\ \E apart \in SUBSET Indices : WriteIInv(apart, {Power})
<1>1. TypeOK
  BY DEF PowerIInv, StragglerOK, IInv
<1>. QED
  BY <1>1 DEF PowerIInv, WritesOK

\* Neither a write's completion nor its dispatching thread gives back a USB request that
\* is in flight, be it a write's or the firmware's.
THEOREM PowerNoReuseInFlight ==
  ASSUME ~Reread
  PROVE  PowerSpec => []NoReuseInFlight
<1>1. PowerIInv => NoReuseInFlight
  BY WritesBesidePower, NothingHeldFlies
<1>. QED
  BY <1>1, PowerInvariant, PTL

\* A write is completed once everything it has sent has come back, also when its
\* transfers come back while the device is leaving D0.
THEOREM PowerCompletedWhenSettled ==
  ASSUME ~Reread
  PROVE  PowerSpec => []CompletedWhenSettled
<1>1. PowerIInv => CompletedWhenSettled
  BY WritesBesidePower, CompletedIsSettled
<1>. QED
  BY <1>1, PowerInvariant, PTL

\* What a batch is told it has sent, it has sent, unless a status was stored late: power
\* transitions add no other way to be told wrong.
THEOREM PowerReportIsTrueUnlessLate ==
  ASSUME ~Reread
  PROVE  PowerSpec => []ReportIsTrueUnlessLate
<1>1. PowerIInv => ReportIsTrueUnlessLate
  BY WritesBesidePower, ReportsAreTrue
<1>. QED
  BY <1>1, PowerInvariant, PTL

\* The batch headers, which power transitions never touch, have one user each.
THEOREM PowerHeadersExclusive ==
  ASSUME ~Reread
  PROVE  PowerSpec => []HeadersExclusive
<1>1. PowerIInv => HeadersExclusive
  BY WritesBesidePower, OneUserOfAHeader
<1>. QED
  BY <1>1, PowerInvariant, PTL

\* Who takes permits: the power thread on its way into D0 and nobody else, then users only.
LEMMA WhoTakesPermits ==
  ASSUME PowerIInv, NEW t \in Threads, stage[t] = "alloc"
  PROVE  /\ ~EntryFailed
         /\ IF power = "alloc" THEN t = Power ELSE power \in {"on", "stopping"}
<1>1. PICK apart \in SUBSET Indices : WriteIInv(apart, {Power})
  BY WritesBesidePower
<1>2. ASSUME t # Power PROVE ~Resting(t) /\ t \in Callers
  BY <1>1, <1>2 DEF WriteIInv, StageMatches, ThreadOK, Resting
<1>3. power # "alloc" => t # Power
  BY DEF PowerIInv, PowerInPool
<1>4. power = "alloc" => t = Power
  BY <1>2 DEF PowerIInv, CalmOK, Still
<1>5. ASSUME t # Power PROVE power \in {"on", "stopping"}
  <2>1. ~Still
    BY <1>2, <1>5 DEF Still
  <2>2. ~OneFlies
    BY <1>2, <1>5 DEF OneFlies
  <2>3. ~OneFreed
    BY <1>2, <1>5 DEF OneFreed, Frees
  <2>4. power # "exit"
    BY <1>2, <1>5 DEF PowerIInv, CalmOK
  <2>. QED
    BY <2>1, <2>2, <2>3, <2>4 DEF PowerIInv, CalmOK, Powers, MaybeSent
<1>6. ~EntryFailed
  BY <1>3, <1>5 DEF EntryFailed
<1>. QED
  BY <1>3, <1>4, <1>5, <1>6

\* The power thread never waits for requests that others have: alone it asks for fewer
\* than the pool has and one more.  Writes that wait for each other ask for more.
THEOREM PowerDeadlockOnlyOfWrites ==
  ASSUME ~Reread
  PROVE  PowerSpec => []DeadlockOnlyOfWrites
<1>1. ASSUME PowerIInv, HoldAndWait
      PROVE  power \in {"on", "stopping"} /\ Cardinality(Demand) >= N
  <2>1. PICK t \in Callers : stage[t] = "alloc"
    BY <1>1 DEF HoldAndWait
  <2>2. ~EntryFailed
    BY <1>1, <2>1, WhoTakesPermits, Constants
  <2>3. IInv
    BY <1>1, <2>2 DEF PowerIInv
  <2>4. Cardinality(Demand) >= N
    BY <1>1, <2>3, DeadlockHoldsAll DEF DeadlockNeedsDemand
  <2>5. ASSUME power = "alloc" PROVE FALSE
    <3>1. want[Power] = 2 /\ \A u \in Threads : stage[u] = "alloc" => u = Power
      BY <1>1, <2>5, WhoTakesPermits DEF PowerIInv, PowerInPool
    <3>2. Demand \in SUBSET {<<Power, 1>>}
      <4> SUFFICES ASSUME NEW c \in Demand PROVE c = <<Power, 1>>
        OBVIOUS
      <4>1. /\ c = <<c[1], c[2]>> /\ c[1] \in Callers /\ c[2] \in 1..MaxAlloc
            /\ stage[c[1]] = "alloc" /\ c[2] < want[c[1]]
        BY DEF Demand
      <4>2. c[1] = Power
        BY <3>1, <4>1, Constants
      <4>3. c[2] = 1
        BY <3>1, <4>1, <4>2, PoolAssumption, SMT
      <4>. QED
        BY <4>1, <4>2, <4>3
    <3>3. IsFiniteSet({<<Power, 1>>}) /\ Cardinality({<<Power, 1>>}) = 1
      BY FS_Singleton
    <3>4. Cardinality(Demand) <= 1 /\ Cardinality(Demand) \in Nat
      BY <3>2, <3>3, FS_Subset, FS_CardinalityType
    <3>5. N >= 2 /\ N \in Nat
      BY PowerAssumption, PoolAssumption, SMT
    <3>. QED
      BY <2>4, <3>4, <3>5, SMT
  <2>6. power \in {"on", "stopping"}
    BY <1>1, <2>1, <2>5, WhoTakesPermits, Constants
  <2>. QED
    BY <2>4, <2>6
<1>2. PowerIInv => DeadlockOnlyOfWrites
  BY <1>1 DEF DeadlockOnlyOfWrites
<1>. QED
  BY <1>2, PowerInvariant, PTL
=============================================================================
