----------------------------- MODULE OpenFiles ------------------------------
(***************************************************************************)
(* The files programs have open: creation (McbaEvtDeviceFileCreate),       *)
(* reading, and cleanup (McbaEvtFileCleanup), and the walk by which a      *)
(* reader's completion routine gives each frame to every file.  FilesLock  *)
(* protects the list, and each file's ReadLock its queue, of which only    *)
(* the length is kept here: ReadQueue has the rest.                        *)
(***************************************************************************)
EXTENDS Integers, Sequences, FiniteSets

CONSTANTS
  Files,      \* The files programs open.
  User,       \* A file's own thread, as a holder of its ReadLock.
  Nobody,     \* Holds FilesLock.
  MaxQueued,  \* MCBA_MAX_READ_BUFFERS_QUEUED.
  PageItems,  \* Queue items in a page of memory.
  MaxPages    \* Bound: pages of memory there are.

ASSUME FilesAssumption ==
  /\ IsFiniteSet(Files)
  /\ MaxQueued \in Nat \ {0} /\ PageItems \in Nat \ {0} /\ MaxPages \in Nat \ {0}

VARIABLES
  file,              \* Where each file is: "new", "listed" (create is under way),
                     \* "open", in "cleanup", "removed" from the list, or "gone".
  FilesList,         \* The list of files, in the order they were opened.
  FilesLock,         \* The reader that holds it.  (Others do for one step only.)
  ReadLock,          \* Is the spin lock of each file taken ...
  inside,            \* ... and who believes to hold it?
  ReadBuffersQueued, \* How many frames wait in each file.
  pending,           \* Its PendingReadRequest: "none", "waiting", or "answered" if
                     \* cleanup has completed the request and left it there; "twice"
                     \* if it is gone from there by being completed once more.
  calling,           \* The files whose program is in a call of McbaRead.
  available,         \* Free queue items (MessageBuffersAvailable) ...
  pages,             \* ... and the pages they were cut from.
  log,               \* History: the frames each file was given, in order.
  torn               \* History: the files with a read under way when they were closed,
                     \* and those whose ReadLock was initialized while a reader held it.

listVars == <<file, FilesList, FilesLock>>
lockVars == <<ReadLock, inside>>
queueVars == <<ReadBuffersQueued, available, pages>>
fileVars == <<listVars, lockVars, queueVars, pending, calling, log, torn>>

\* The framework zeroes a context; McbaCreateDevice adds a page.
FilesInit ==
  /\ file = [f \in Files |-> "new"]
  /\ FilesList = <<>> /\ FilesLock = Nobody
  /\ ReadLock = [f \in Files |-> FALSE]
  /\ inside = [f \in Files |-> {}]
  /\ ReadBuffersQueued = [f \in Files |-> 0]
  /\ pending = [f \in Files |-> "none"]
  /\ available = PageItems /\ pages = 1
  /\ log = [f \in Files |-> <<>>]
  /\ calling = {} /\ torn = {}

-----------------------------------------------------------------------------
(* Locks. *)

\* KeAcquireSpinLock and KeReleaseSpinLock of f's ReadLock by t.
Acquire(f, t) ==
  /\ ~ReadLock[f]
  /\ ReadLock' = [ReadLock EXCEPT ![f] = TRUE]
  /\ inside' = [inside EXCEPT ![f] = @ \cup {t}]

Unlock(f, t) ==
  /\ ReadLock' = [ReadLock EXCEPT ![f] = FALSE]
  /\ inside' = [inside EXCEPT ![f] = @ \ {t}]

\* Fault: the list is changed without FilesLock.
Unguarded == TRUE

\* FilesLock can be taken for the one step that changes the list.
FilesFree == FilesLock = Nobody

-----------------------------------------------------------------------------
(* McbaEvtDeviceFileCreate. *)

\* ExInterlockedInsertTailList puts the file on the list ...
Insert(f) ==
  /\ file[f] = "new" /\ FilesFree
  /\ file' = [file EXCEPT ![f] = "listed"]
  /\ FilesList' = Append(FilesList, f)
  /\ UNCHANGED <<FilesLock, lockVars, queueVars, pending, calling, log, torn>>

\* ... before KeInitializeSpinLock sets its ReadLock free, taken or not, and the
\* create request is completed.
InitLock(f) ==
  /\ file[f] = "listed"
  /\ file' = [file EXCEPT ![f] = "open"]
  /\ ReadLock' = [ReadLock EXCEPT ![f] = FALSE]
  /\ torn' = IF inside[f] \ {User} # {} THEN torn \cup {f} ELSE torn
  /\ UNCHANGED <<FilesList, FilesLock, inside, queueVars, pending, calling, log>>

\* Fault: create is completed before the lock is initialized.
OpenedEarly(f) == file[f] \in {"listed", "open"}

\* The program has its handle.
Opened(f) == file[f] = "open"

-----------------------------------------------------------------------------
(* McbaRead and McbaCancelPendingReadRequest, as ReadQueue has them in full. *)

\* if (pFileContext->PendingReadRequest).
HasPending(f) == pending[f] \in {"waiting", "answered"}

ReadCall(f) ==
  /\ Opened(f) /\ f \notin calling
  /\ calling' = calling \cup {f}
  /\ UNCHANGED <<listVars, lockVars, queueVars, pending, log, torn>>

ReadBegin(f) ==
  /\ f \in calling /\ User \notin inside[f]
  /\ Acquire(f, User)
  /\ UNCHANGED <<listVars, queueVars, pending, calling, log, torn>>

\* Up to n frames are taken, or the read waits, unless it must not or another does.
ReadEnd(f, n) ==
  /\ User \in inside[f]
  /\ n <= ReadBuffersQueued[f]
  /\ Unlock(f, User)
  /\ calling' = calling \ {f}
  /\ ReadBuffersQueued' = [ReadBuffersQueued EXCEPT ![f] = @ - n]
  /\ available' = available + n
  /\ \/ UNCHANGED pending
     \/ /\ n = ReadBuffersQueued[f] /\ ~HasPending(f)
        /\ pending' = [pending EXCEPT ![f] = "waiting"]
  /\ UNCHANGED <<listVars, pages, log, torn>>

\* A request that cleanup has completed is still marked: as long as there is a
\* context its callback may be called, too, and completes it again.
CancelRead(f) ==
  /\ HasPending(f) /\ ~ReadLock[f]
  /\ pending[f] = "answered" => file[f] # "gone"
  /\ pending' = [pending EXCEPT ![f] = IF @ = "answered" THEN "twice" ELSE "none"]
  /\ UNCHANGED <<listVars, lockVars, queueVars, calling, log, torn>>

-----------------------------------------------------------------------------
(* McbaEvtFileCleanup: the last handle is closed.  A read may wait, and        *)
(* another thread may even be in a call.                                       *)

\* A read that waits is completed, without ReadLock, and stays the pending one.
Cleanup(f) ==
  /\ file[f] = "open"
  /\ file' = [file EXCEPT ![f] = "cleanup"]
  /\ pending' = [pending EXCEPT ![f] = IF @ = "waiting" THEN "answered" ELSE @]
  /\ torn' = IF f \in calling THEN torn \cup {f} ELSE torn
  /\ UNCHANGED <<FilesList, FilesLock, lockVars, queueVars, calling, log>>

\* RemoveEntryList of the i-th entry.
Without(i) == SubSeq(FilesList, 1, i - 1) \o SubSeq(FilesList, i + 1, Len(FilesList))

\* It is done under FilesLock.
Remove(f) ==
  /\ file[f] = "cleanup" /\ FilesFree
  /\ file' = [file EXCEPT ![f] = "removed"]
  /\ \E i \in 1..Len(FilesList) : FilesList[i] = f /\ FilesList' = Without(i)
  /\ UNCHANGED <<FilesLock, lockVars, queueVars, pending, calling, log, torn>>

\* Fault: the loop leaves the last item behind.
ReturnedButOne(f) == IF ReadBuffersQueued[f] = 0 THEN 0 ELSE ReadBuffersQueued[f] - 1

\* What the loop over ReadBuffersList returns to the free list.
Returned(f) == ReadBuffersQueued[f]

\* Then the file's context is freed.
Drain(f) ==
  /\ file[f] = "removed"
  /\ file' = [file EXCEPT ![f] = "gone"]
  /\ available' = available + Returned(f)
  /\ UNCHANGED <<FilesList, FilesLock, lockVars, ReadBuffersQueued, pages, pending, calling, log,
                 torn>>

-----------------------------------------------------------------------------
(* McbaOnCanMsgReceived and McbaAddCanMessageToFileReadQueue, by reader r.     *)

\* Reader r takes the ReadLock of the file it has come to ...
EnterFile(r, f) ==
  /\ Acquire(f, r)
  /\ UNCHANGED <<listVars, queueVars, pending, calling, log, torn>>

\* Fault: the limit is exceeded by one.
RoomForOneMore(f) == ReadBuffersQueued[f] <= MaxQueued

HasRoom(f) == ReadBuffersQueued[f] < MaxQueued

\* What may become of a read a frame is given to.  One that waits has all its frames
\* (or turns out to be cancelled), or is marked again and waits for more.  What the
\* framework says of marks of a request that is completed is undefined, so that one
\* is completed again, dropped, or kept.
AfterFrame(read) == IF read = "waiting" THEN {"none", "waiting"} ELSE {"none", "answered", "twice"}

\* ... and adds the frame: it goes to the read that waits, or is queued, in place of
\* the oldest, in a free item, or in one of a new page, or is lost.
AddToFile(f) ==
  \/ /\ HasPending(f)
     /\ \E read \in AfterFrame(pending[f]) : pending' = [pending EXCEPT ![f] = read]
     /\ UNCHANGED queueVars
  \/ /\ ~HasPending(f)
     /\ \/ /\ ~HasRoom(f)
           /\ UNCHANGED queueVars
        \/ /\ HasRoom(f) /\ available > 0
           /\ ReadBuffersQueued' = [ReadBuffersQueued EXCEPT ![f] = @ + 1]
           /\ available' = available - 1
           /\ UNCHANGED pages
        \/ /\ HasRoom(f) /\ available = 0 /\ pages < MaxPages
           /\ ReadBuffersQueued' = [ReadBuffersQueued EXCEPT ![f] = @ + 1]
           /\ available' = available + PageItems - 1
           /\ pages' = pages + 1
        \/ /\ HasRoom(f) /\ available = 0
           /\ UNCHANGED queueVars
     /\ UNCHANGED pending

LeaveFile(r, f, frame) ==
  /\ AddToFile(f)
  /\ Unlock(f, r)
  /\ log' = [log EXCEPT ![f] = Append(@, frame)]
  /\ UNCHANGED <<listVars, calling, torn>>

-----------------------------------------------------------------------------
\* The steps of a file's program and of the thread that closes it.
FileNext(f) ==
  \/ Insert(f) \/ InitLock(f)
  \/ ReadCall(f) \/ ReadBegin(f) \/ (\E n \in 0..MaxQueued : ReadEnd(f, n)) \/ CancelRead(f)
  \/ Cleanup(f) \/ Remove(f) \/ Drain(f)
=============================================================================
