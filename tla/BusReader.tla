----------------------------- MODULE BusReader ------------------------------
(***************************************************************************)
(* McbaUsbReaderCompletionRoutine: the messages of each transfer are dealt *)
(* with in their order, and a frame goes to all OpenFiles.  FilesLock is   *)
(* taken at the first frame of a transfer and kept to its end.  Two        *)
(* transfers may be handled at the same time (BULK_READ_PIPE_REQUESTS).    *)
(***************************************************************************)
EXTENDS OpenFiles

CONSTANTS
  Readers,       \* The processors on which transfers complete.
  MaxTransfers,  \* Bound: transfers that complete.
  MaxMessages    \* Messages in a transfer (MCBA_USB_RX_BUFF_SIZE).

ASSUME BusAssumption ==
  /\ IsFiniteSet(Readers) /\ User \notin Readers /\ Nobody \notin Readers
  /\ MaxTransfers \in Nat /\ MaxMessages \in Nat \ {0}

\* cmd_id, as far as it makes a difference.
Commands == {"RECEIVE_MESSAGE", "other"}

VARIABLES
  transfer,       \* The transfer each reader handles: its number (0 when the reader is
                  \* idle), which message it is at, that message's command ("end"
                  \* after the last), and how far its frame has been broadcast along
                  \* FilesList.
  filesAvailable, \* Its local variable: was the list not empty when it was locked?
  transfers,      \* How many transfers have completed.
  sent            \* History: the frames broadcast, as <<transfer, message>>.

readerVars == <<transfer, filesAvailable, transfers, sent>>
busVars == <<fileVars, readerVars>>

Idle == [id |-> 0, at |-> 0, cmd |-> "end", walked |-> 0]

BusInit ==
  /\ FilesInit
  /\ transfer = [r \in Readers |-> Idle]
  /\ filesAvailable = [r \in Readers |-> FALSE]
  /\ transfers = 0 /\ sent = <<>>

Handles(r, cmd) == transfer[r].cmd = cmd

\* What may come after message at of a transfer.
CommandsAfter(at) == IF at < MaxMessages THEN Commands \cup {"end"} ELSE {"end"}

\* A transfer completes on reader r, with at least one whole message.  (With none,
\* the routine returns at once.)
Completion(r) ==
  /\ transfer[r] = Idle /\ transfers < MaxTransfers
  /\ transfers' = transfers + 1
  /\ \E cmd \in Commands :
       transfer' = [transfer EXCEPT ![r] = [id |-> transfers', at |-> 1, cmd |-> cmd, walked |-> 0]]
  /\ UNCHANGED <<fileVars, filesAvailable, sent>>

NextMessage(r) ==
  \E cmd \in CommandsAfter(transfer[r].at) :
    transfer' = [transfer EXCEPT ![r].at = @ + 1, ![r].cmd = cmd, ![r].walked = 0]

-----------------------------------------------------------------------------
(* Frames. *)

\* Fault: FilesLock is not waited for.
TakenAnyway(r) == FilesLock # r

\* filesLocked is FALSE, and the lock can be had.
NotYetLocked(r) == FilesLock = Nobody

\* At the first frame of a transfer.
LockFiles(r) ==
  /\ Handles(r, "RECEIVE_MESSAGE") /\ NotYetLocked(r)
  /\ FilesLock' = r
  /\ filesAvailable' = [filesAvailable EXCEPT ![r] = FilesList # <<>>]
  /\ UNCHANGED <<file, FilesList, lockVars, queueVars, pending, calling, log, torn,
                 transfer, transfers, sent>>

\* Reader r broadcasts, and f is the next file.
AtFile(r, f) ==
  /\ Handles(r, "RECEIVE_MESSAGE") /\ FilesLock = r /\ filesAvailable[r]
  /\ transfer[r].walked < Len(FilesList)
  /\ f = FilesList[transfer[r].walked + 1]

Enter(r, f) ==
  /\ AtFile(r, f) /\ r \notin inside[f]
  /\ EnterFile(r, f)
  /\ UNCHANGED readerVars

Leave(r, f) ==
  /\ AtFile(r, f) /\ r \in inside[f]
  /\ LeaveFile(r, f, <<transfer[r].id, transfer[r].at>>)
  /\ sent' = IF transfer[r].walked = 0 THEN Append(sent, <<transfer[r].id, transfer[r].at>>) ELSE sent
  /\ transfer' = [transfer EXCEPT ![r].walked = @ + 1]
  /\ UNCHANGED <<filesAvailable, transfers>>

\* Fault: FilesLock is released after each frame.
ReleasedEachTime == FilesLock' = Nobody

\* FilesLock is kept for the frames that follow.
KeptForNext == UNCHANGED FilesLock

\* Every file has the frame.
EndOfList(r) ==
  /\ Handles(r, "RECEIVE_MESSAGE") /\ FilesLock = r
  /\ filesAvailable[r] => transfer[r].walked = Len(FilesList)
  /\ NextMessage(r)
  /\ KeptForNext
  /\ UNCHANGED <<file, FilesList, lockVars, queueVars, pending, calling, log, torn,
                 filesAvailable, transfers, sent>>

-----------------------------------------------------------------------------
\* What else there is: keep-alive messages, which DeviceStatus is about, and those
\* that are ignored.
NoFrame(r) ==
  /\ Handles(r, "other")
  /\ NextMessage(r)
  /\ UNCHANGED <<fileVars, filesAvailable, transfers, sent>>

-----------------------------------------------------------------------------
\* Fault: FilesLock is not released.
StillLocked(r) == UNCHANGED FilesLock

\* if (filesLocked) KeReleaseSpinLock.
ReleasedIfLocked(r) == FilesLock' = IF FilesLock = r THEN Nobody ELSE FilesLock

Return(r) ==
  /\ transfer[r] # Idle /\ Handles(r, "end")
  /\ ReleasedIfLocked(r)
  /\ transfer' = [transfer EXCEPT ![r] = Idle]
  /\ filesAvailable' = [filesAvailable EXCEPT ![r] = FALSE]
  /\ UNCHANGED <<file, FilesList, lockVars, queueVars, pending, calling, log, torn,
                 transfers, sent>>

ReaderStep(r) ==
  \/ LockFiles(r) \/ (\E f \in Files : Enter(r, f) \/ Leave(r, f)) \/ EndOfList(r)
  \/ NoFrame(r)
  \/ Return(r)

FileStep(f) == FileNext(f) /\ UNCHANGED readerVars

BusNext ==
  \/ \E r \in Readers : Completion(r) \/ ReaderStep(r)
  \/ \E f \in Files : FileStep(f)

BusSpec == BusInit /\ [][BusNext]_busVars

-----------------------------------------------------------------------------
(* Correctness. *)

\* Types.
BusTypeOK ==
  /\ file \in [Files -> {"new", "listed", "open", "cleanup", "removed", "gone"}]
  /\ FilesList \in Seq(Files) /\ FilesLock \in Readers \cup {Nobody}
  /\ ReadLock \in [Files -> BOOLEAN] /\ inside \in [Files -> SUBSET (Readers \cup {User})]
  /\ ReadBuffersQueued \in [Files -> 0..MaxQueued]
  /\ pending \in [Files -> {"none", "waiting", "answered", "twice"}]
  /\ available \in Nat /\ pages \in 1..MaxPages
  /\ calling \subseteq Files /\ torn \subseteq Files
  /\ filesAvailable \in [Readers -> BOOLEAN] /\ transfers \in 0..MaxTransfers

\* At most one thread is between acquiring and releasing a file's ReadLock, unless
\* the lock was initialized under the first (Device.c 725 and 727).
ReadLockExcludes == \A f \in Files \ torn : Cardinality(inside[f]) <= 1

\* The walk meets only files whose context exists and whose cleanup has not yet
\* taken their queue apart, so that what a read pending at the close can suffer
\* from a frame ends with the file's removal from the list.
WalkMeetsListed ==
  \A r \in Readers, f \in Files :
    r \in inside[f] => f \in {FilesList[i] : i \in 1..Len(FilesList)}
                       /\ file[f] \in {"listed", "open", "cleanup"}

\* Frames of different transfers do not mix, and each file gets all frames of a
\* transfer or none: its log is the piece of what was sent from one border between
\* transfers to another, or up to the frame that is being broadcast.
BroadcastWhole ==
  LET Border(i) == i = 0 \/ i = Len(sent) \/ sent[i][1] # sent[i + 1][1]
      Walking == \E r \in Readers : transfer[r].walked > 0
  IN
  /\ \A i, k \in 1..Len(sent) : i < k /\ sent[i][1] = sent[k][1] =>
       \A j \in i..k : sent[j][1] = sent[i][1]
  /\ \A f \in Files : \E i, k \in 0..Len(sent) :
       /\ log[f] = SubSeq(sent, i + 1, k)
       /\ Border(i) /\ (Border(k) \/ (Walking /\ k = Len(sent) - 1))

\* The items in the queues of the files.
Items == {x \in Files \X (1..MaxQueued) : file[x[1]] # "gone" /\ x[2] <= ReadBuffersQueued[x[1]]}

\* Closing a file leaves nothing behind, if no call was under way: every queue item
\* is free or in the queue of one file that is open, and no read waits in a file
\* that has gone.  (What becomes of a queue two threads change at once is undefined.)
NothingLeftBehind ==
  torn = {} =>
    /\ available + Cardinality(Items) = pages * PageItems
    /\ \A f \in Files : file[f] = "gone" => pending[f] # "waiting"

\* NT_ASSERT(!pFileContext->PendingReadRequest) of McbaEvtFileCleanup (Device.c 752):
\* the last handle is closed only when no read waits.
NoReadAtCleanup ==
  [][ \A f \in Files : file[f] = "open" /\ file'[f] = "cleanup" => ~HasPending(f) ]_busVars

\* No lock outlives its holder, and FilesLock is always taken first: a reader waits
\* for a ReadLock only while a program's short section, or a reader that holds both,
\* is under way, so that nobody waits for ever.
LocksHaveHolders ==
  /\ FilesLock # Nobody => transfer[FilesLock] # Idle
  /\ \A f \in Files \ torn : ReadLock[f] => inside[f] # {}
  /\ \A r \in Readers, f \in Files : r \in inside[f] => FilesLock = r
=============================================================================
