--------------------------- MODULE UsbRequestPool ---------------------------
(***************************************************************************)
(* The pool of preallocated USB write requests of one device               *)
(* (MCBA_DEVICE_USB_REQUEST_DATA, Device.h): a stack of free indices under *)
(* a spin lock, and a counting semaphore a caller must take one permit     *)
(* from for each index before it may pop.  McbaUsbRequestsAlloc and        *)
(* McbaUsbRequestsFree do the two halves at different moments, so permits  *)
(* and indices disagree while a caller is between them.                    *)
(*                                                                         *)
(* The module states what the pool promises to callers that free exactly   *)
(* what they were given, once, and that start and stop the pool only while *)
(* nobody uses it.  The modules that call the pool are checked to keep     *)
(* that contract.                                                          *)
(***************************************************************************)
EXTENDS Integers, FiniteSets

CONSTANTS
  N,          \* Requests in the pool: _countof(Requests), MCBA_MAX_WRITES.
  MaxAlloc,   \* Largest Count passed to McbaUsbRequestsAlloc.
  Callers,    \* Threads that allocate: one per request being dispatched.
  Threads     \* The callers, and the contexts completion routines run in.

ASSUME PoolAssumption ==
  /\ N \in Nat \ {0}
  /\ MaxAlloc \in 1..N
  /\ IsFiniteSet(Threads)
  /\ Callers \subseteq Threads

Indices == 0..(N - 1)

VARIABLES
  Count,         \* Requests that exist: 0 outside of D0, N in D0.
  FreeIndices,   \* The stack of free indices ...
  FreeIndexEnd,  \* ... and its height.
  Availabe,      \* The semaphore's count (the source's spelling).
  outstanding,   \* Indices handed out by Alloc and not yet given to Free.
  stage,         \* Per thread: "out" of the pool, in "alloc", or in "free"
                 \* between the push and the semaphore's release.
  want,          \* Per thread in Alloc: the number of indices asked for.
  permits        \* Per thread: permits taken and not yet turned into indices
                 \* (Alloc), or pushed and not yet released (Free).

poolVars == <<Count, FreeIndices, FreeIndexEnd, Availabe, outstanding,
              stage, want, permits>>

Init ==
  /\ Count = 0
  /\ FreeIndices = [k \in Indices |-> 0]
  /\ FreeIndexEnd = 0
  /\ Availabe = 0
  /\ outstanding = {}
  /\ stage = [t \in Threads |-> "out"]
  /\ want = [t \in Threads |-> 0]
  /\ permits = [t \in Threads |-> 0]

-----------------------------------------------------------------------------
(* Starting and stopping the pool: D0Entry and D0Exit. *)

Quiescent == outstanding = {} /\ \A t \in Threads : stage[t] = "out"

\* Fault: the semaphore is not initialized again.
PoolInitKeepsPermits ==
  /\ Count = 0
  /\ Count' = N
  /\ FreeIndices' = [k \in Indices |-> k]
  /\ FreeIndexEnd' = N
  /\ UNCHANGED <<Availabe, outstanding, stage, want, permits>>

\* McbaUsbRequestsInit creates all N requests ...
PoolInit ==
  /\ Count = 0
  /\ Count' = N
  /\ FreeIndices' = [k \in Indices |-> k]
  /\ FreeIndexEnd' = N
  /\ Availabe' = N
  /\ UNCHANGED <<outstanding, stage, want, permits>>

\* ... or fails at request i and deletes the ones it had made.
PoolInitFails(i) ==
  /\ Count = 0
  /\ FreeIndices' = [k \in Indices |-> IF k < i THEN k ELSE FreeIndices[k]]
  /\ FreeIndexEnd' = 0
  /\ UNCHANGED <<Count, Availabe, outstanding, stage, want, permits>>

\* McbaUsbRequestsUninit: the semaphore and the array keep their old contents.
PoolUninit ==
  /\ Count # 0
  /\ Count' = 0
  /\ FreeIndexEnd' = 0
  /\ UNCHANGED <<FreeIndices, Availabe, outstanding, stage, want, permits>>

-----------------------------------------------------------------------------
(* McbaUsbRequestsAlloc. *)

\* Entry: a Count the pool can never satisfy is refused with
\* STATUS_INSUFFICIENT_RESOURCES, and nothing has changed ...
AllocRefused(t, n) ==
  /\ stage[t] = "out"
  /\ n > Count
  /\ UNCHANGED poolVars

\* ... and any other is waited for.
AllocBegin(t, n) ==
  /\ stage[t] = "out"
  /\ n <= Count
  /\ stage' = [stage EXCEPT ![t] = "alloc"]
  /\ want' = [want EXCEPT ![t] = n]
  /\ UNCHANGED <<Count, FreeIndices, FreeIndexEnd, Availabe, outstanding, permits>>

\* Fault: a wait that fails counts as a permit.
AllocWaitUnchecked(t) ==
  /\ stage[t] = "alloc"
  /\ permits[t] < want[t]
  /\ Availabe' = IF Availabe > 0 THEN Availabe - 1 ELSE 0
  /\ permits' = [permits EXCEPT ![t] = @ + 1]
  /\ UNCHANGED <<Count, FreeIndices, FreeIndexEnd, outstanding, stage, want>>

\* Fault: the semaphore is looked at and not taken.
AllocWaitPeeks(t) ==
  /\ stage[t] = "alloc"
  /\ permits[t] < want[t]
  /\ Availabe > 0
  /\ permits' = [permits EXCEPT ![t] = @ + 1]
  /\ UNCHANGED <<Count, FreeIndices, FreeIndexEnd, Availabe, outstanding, stage, want>>

\* One KeWaitForSingleObject of the loop; blocks while the semaphore is 0 and
\* keeps the permits already taken.
AllocWait(t) ==
  /\ stage[t] = "alloc"
  /\ permits[t] < want[t]
  /\ Availabe > 0
  /\ Availabe' = Availabe - 1
  /\ permits' = [permits EXCEPT ![t] = @ + 1]
  /\ UNCHANGED <<Count, FreeIndices, FreeIndexEnd, outstanding, stage, want>>

\* Fault: the copy starts at the bottom of the stack.
PoppedFromBottom(n) == [k \in 1..n |-> FreeIndices[k - 1]]

\* The indices the next pop of n returns, in the order they are copied out.
Popped(n) == [k \in 1..n |-> FreeIndices[FreeIndexEnd - n + k - 1]]

\* The locked section.
AllocPop(t) ==
  /\ stage[t] = "alloc"
  /\ permits[t] = want[t]
  /\ FreeIndexEnd' = FreeIndexEnd - want[t]
  /\ outstanding' = outstanding \cup {Popped(want[t])[k] : k \in 1..want[t]}
  /\ stage' = [stage EXCEPT ![t] = "out"]
  /\ want' = [want EXCEPT ![t] = 0]
  /\ permits' = [permits EXCEPT ![t] = 0]
  /\ UNCHANGED <<Count, FreeIndices, Availabe>>

-----------------------------------------------------------------------------
(* McbaUsbRequestsFree(Count = n, Indices = idx). *)

\* The locked section.
FreePush(t, n, idx) ==
  /\ stage[t] = "out"
  /\ FreeIndices' = [k \in Indices |->
                       IF k \in FreeIndexEnd..(FreeIndexEnd + n - 1)
                       THEN idx[k - FreeIndexEnd + 1] ELSE FreeIndices[k]]
  /\ FreeIndexEnd' = FreeIndexEnd + n
  /\ outstanding' = outstanding \ {idx[k] : k \in 1..n}
  /\ stage' = [stage EXCEPT ![t] = "free"]
  /\ permits' = [permits EXCEPT ![t] = n]
  /\ UNCHANGED <<Count, Availabe, want>>

\* Fault: the semaphore is released by one, whatever Count is.
FreeReleaseOne(t) ==
  /\ stage[t] = "free"
  /\ Availabe' = Availabe + 1
  /\ stage' = [stage EXCEPT ![t] = "out"]
  /\ permits' = [permits EXCEPT ![t] = 0]
  /\ UNCHANGED <<Count, FreeIndices, FreeIndexEnd, outstanding, want>>

\* KeReleaseSemaphore, after the lock is dropped.
FreeRelease(t) ==
  /\ stage[t] = "free"
  /\ Availabe' = Availabe + permits[t]
  /\ stage' = [stage EXCEPT ![t] = "out"]
  /\ permits' = [permits EXCEPT ![t] = 0]
  /\ UNCHANGED <<Count, FreeIndices, FreeIndexEnd, outstanding, want>>

\* What a caller may free: n different indices out of those handed out.
Returnable(n) ==
  {idx \in [1..n -> outstanding] :
     \A i, j \in 1..n : idx[i] = idx[j] => i = j}

-----------------------------------------------------------------------------
Next ==
  \/ Quiescent /\ PoolInit
  \/ Quiescent /\ \E i \in Indices : PoolInitFails(i)
  \/ Quiescent /\ PoolUninit
  \/ \E t \in Callers, n \in 1..MaxAlloc : AllocRefused(t, n)
  \/ \E t \in Callers, n \in 1..MaxAlloc : AllocBegin(t, n)
  \/ \E t \in Callers : AllocWait(t)
  \/ \E t \in Callers : AllocPop(t)
  \/ \E t \in Threads, n \in 1..MaxAlloc :
       \E idx \in Returnable(n) : FreePush(t, n, idx)
  \/ \E t \in Threads : FreeRelease(t)

PoolSpec == Init /\ [][Next]_poolVars

-----------------------------------------------------------------------------
(* Correctness. *)

FreeSet == {FreeIndices[k] : k \in 0..(FreeIndexEnd - 1)}

\* Every variable has its type; a thread holds no more permits than it asked
\* for, and the stack's height stays inside the array (Device.c 1613).
TypeOK ==
  /\ Count \in {0, N}
  /\ FreeIndices \in [Indices -> Indices]
  /\ FreeIndexEnd \in 0..N
  /\ Availabe \in 0..N
  /\ outstanding \subseteq Indices
  /\ stage \in [Threads -> {"out", "alloc", "free"}]
  /\ want \in [Threads -> 0..MaxAlloc]
  /\ permits \in [Threads -> 0..MaxAlloc]

\* While the pool exists no index is on the stack twice (what the debug build's
\* McbaCheckUsbRequestIndices looks for), none is both free and handed out, and
\* none is lost.
IndicesPartitioned ==
  Count = N =>
    /\ \A i, j \in 0..(FreeIndexEnd - 1) :
         FreeIndices[i] = FreeIndices[j] => i = j
    /\ FreeSet \cap outstanding = {}
    /\ FreeSet \cup outstanding = Indices

\* One token for each permit that some thread holds.
TokensOf(p) == {c \in Threads \X (1..N) : c[2] <= p[c[1]]}
Tokens == TokensOf(permits)

\* The semaphore and the stack agree once the permits in threads' hands are
\* counted: each free index is backed by exactly one permit, either in the
\* semaphore, or with a caller that has not popped yet, or with a thread that
\* has pushed and not released yet.
PermitsBackedByIndices ==
  Count = N => FreeIndexEnd = Availabe + Cardinality(Tokens)

\* A caller that has all its permits finds as many indices on the stack: the
\* assertion at Device.c 1581, without which FreeIndexEnd would wrap.
PopWithinStack ==
  \A t \in Threads :
    stage[t] = "alloc" /\ permits[t] = want[t] => want[t] <= FreeIndexEnd

\* KeReleaseSemaphore never exceeds the limit given to KeInitializeSemaphore,
\* which would raise STATUS_SEMAPHORE_LIMIT_EXCEEDED.
ReleaseWithinLimit ==
  \A t \in Threads : stage[t] = "free" => Availabe + permits[t] <= N

\* Every permit is with a caller that waits for one more, and no index is out
\* whose return could free one: nobody will ever move again.
HoldAndWait ==
  /\ \E t \in Callers : stage[t] = "alloc"
  /\ outstanding = {}
  /\ Availabe = 0
  /\ \A t \in Threads :
       /\ stage[t] # "free"
       /\ stage[t] = "alloc" => permits[t] < want[t]

\* The permits that the callers now allocating may take and yet wait for one
\* more: all but the last of each.
Demand == {c \in Callers \X (1..MaxAlloc) : stage[c[1]] = "alloc" /\ c[2] < want[c[1]]}

\* Callers take their permits one at a time (Device.c 1572-1577) and keep them
\* while they wait for the next.  They all wait for each other only if together
\* they ask for as many requests as the pool has and one more for each of them:
\* a caller alone never does, nor do the largest write and one of a single
\* message, or two writes of half the pool.
DeadlockNeedsDemand == HoldAndWait => Cardinality(Demand) >= N

\* Callers never wait for each other.  (With writes as large as the pool, as
\* the driver has them, they do.)
NoHoldAndWait == ~HoldAndWait
=============================================================================
