-------------------------- MODULE WritePathProofs --------------------------
(***************************************************************************)
(* Proofs of the safety properties of WritePath, and that it uses the pool *)
(* as UsbRequestPool demands, for any callers, processors, headers and     *)
(* sizes, if the compiled code keeps a send's status in a register         *)
(* (~Reread).                                                              *)
(***************************************************************************)
EXTENDS WritePath, UsbRequestPoolProofs, SequenceTheorems, WellFoundedInduction

-----------------------------------------------------------------------------
(* Who works with a header. *)

\* The loop of McbaStartBatchWrite, and how many of its messages are sent.
Loop == {"send", "store", "check", "settle"}
Sent(c) == IF pc[c] \in {"store", "check"} /\ local[c].ok THEN local[c].k ELSE local[c].k - 1

\* A caller that prepares a batch, and one that has not yet sent all of it.  (Once it
\* has, the batch may end, and its header serve another, before the caller notices.)
Begins(t, h) == local[t].h = h /\ pc[t] \in {"alloc", "fill"}
Sends(t, h) == local[t].h = h /\ pc[t] \in Loop /\ Sent(t) < req[t].n

\* A completion routine that has still to count down, and a thread that ends the batch.
Counts(t, h) == local[t].h = h /\ pc[t] = "count"
Ends(t, h) == local[t].h = h /\ pc[t] \in {"finalize", "push", "release", "recycle"}

\* There is one of these at most.
Works(t, h) == Begins(t, h) \/ Sends(t, h) \/ Ends(t, h)

\* Transfer i belongs to the batch.
Flies(i, h) == usb[i].inFlight /\ usb[i].ctx.h = h

\* The transfers whose end has still to be counted.
Flying(h) == {i \in Indices : Flies(i, h)}
Counting(h) == {t \in Threads : Counts(t, h)}
Coming(h) == Cardinality(Flying(h)) + Cardinality(Counting(h))

\* The header is in use; it has its request; the request is not yet completed; and it
\* has the indices.
Taken(h) == h \in allocated /\ \A j \in 1..Len(batchList) : batchList[j] # h
Filled(h) == Taken(h) /\ \A t \in Threads : ~Begins(t, h)
Live(h) == Filled(h) /\ \A t \in Threads : Ends(t, h) => pc[t] = "finalize"
Armed(h) == Filled(h) /\ \A t \in Threads : Ends(t, h) => pc[t] \in {"finalize", "push"}

-----------------------------------------------------------------------------
(* Types. *)

PCs == {"idle", "alloc", "fill", "send", "store", "check", "settle", "count", "finalize",
        "push", "release", "recycle", "returned"}
Locals == [r : Callers \cup {NoHeader}, h : Headers \cup {NoHeader}, i : Indices,
           k : 0..(MaxAlloc + 1), ok : BOOLEAN]
Reqs == [n : 0..MaxAlloc, completions : 0..1, ok : BOOLEAN, info : 0..MaxAlloc]
Hdrs == [Request : Callers \cup {NoHeader}, Count : 0..MaxAlloc, Pending : 0..MaxAlloc,
         UsbRequestStatuses : [Positions -> BOOLEAN],
         UsbRequestIndices : [Positions -> Indices]]
Ctxs == [h : Headers \cup {NoHeader}, k : 0..MaxAlloc, r : Callers \cup {NoHeader}]
Usbs == [inFlight : BOOLEAN, ctx : Ctxs]
Outcomes == {"none", "sent", "ok", "short", "failed"}

\* What WriteTypeOK says of the variables that the pool has not.
VarTypes ==
  /\ pc \in [Threads -> PCs] /\ local \in [Threads -> Locals] /\ req \in [Callers -> Reqs]
  /\ header \in [Headers -> Hdrs] /\ allocated \subseteq Headers /\ batchList \in Seq(allocated)
  /\ usb \in [Indices -> Usbs] /\ outcome \in [Callers -> [Positions -> Outcomes]]
  /\ late \in BOOLEAN

-----------------------------------------------------------------------------
(* The inductive invariant. *)

\* So that the whole can be used where others use the pool as well, it has two
\* parameters: the indices that somebody else has (apart), and the callers whose time in
\* the pool, and whose transfers, are not a write's (guests).

\* What each thread is doing, and with what.
ThreadOK(t) ==
  /\ pc[t] = "count" => t \notin Callers
  /\ pc[t] \in {"alloc", "fill", "returned"} \cup Loop => t \in Callers
  /\ pc[t] \in {"idle", "returned"} => local[t] = NoWork
  /\ pc[t] \in {"fill", "store", "check", "settle", "count", "finalize", "recycle"} =>
       local[t].h # NoHeader
  /\ pc[t] \in {"alloc", "fill"} \cup Loop =>
       /\ 1 <= req[t].n
       /\ req[t].n = 1 <=> local[t].h = NoHeader
       /\ 1 <= local[t].k
       /\ IF pc[t] = "settle" THEN local[t].k <= req[t].n + 1 ELSE local[t].k <= req[t].n
  /\ pc[t] \in {"alloc", "fill"} => local[t].k = 1
  /\ t \in Callers /\ pc[t] \in {"idle", "alloc", "fill"} =>
       req[t].completions = 0 /\ \A k \in Positions : outcome[t][k] = "none"
  /\ t \in Callers /\ pc[t] = "idle" => req[t].n = 0
  /\ t \in Callers /\ pc[t] \in {"send", "push", "release"} /\ local[t].h = NoHeader =>
       req[t].completions = 0 /\ req[t].n = 1

\* Where it is in the pool.
StageMatches(t, guests) ==
  IF t \in guests
  THEN pc[t] = "idle"
  ELSE /\ pc[t] = "alloc" => stage[t] = "alloc" /\ want[t] = req[t].n
       /\ pc[t] = "release" => stage[t] = "free"
       /\ pc[t] \notin {"alloc", "release"} => stage[t] = "out"

\* A header in use has somebody or something that will see to it; only one thread
\* works on it, and alone when it begins or ends.
UseOK(h) ==
  /\ Taken(h) => \/ \E t \in Threads : Works(t, h) \/ Counts(t, h)
                 \/ \E i \in Indices : Flies(i, h)
  /\ \A t \in Threads : Works(t, h) \/ Counts(t, h) => Taken(h)
  /\ \A i \in Indices : Flies(i, h) => Taken(h)
  /\ \A t, u \in Threads : Works(t, h) /\ Works(u, h) => t = u
  /\ \A t \in Threads : Begins(t, h) \/ Ends(t, h) => Flying(h) = {} /\ Counting(h) = {}

\* Pending is what is still to come, and what the caller has still to send.
PendingOK(h) ==
  /\ \A t \in Threads : Sends(t, h) =>
       /\ header[h].Pending = (req[t].n - Sent(t)) + Coming(h)
       /\ header[h].Pending <= req[t].n
  /\ Taken(h) /\ (\A t \in Threads : ~Works(t, h)) => header[h].Pending = Coming(h)

\* The header says whose the batch is, and how large.
BatchOK(h) ==
  /\ Filled(h) =>
       /\ header[h].Request \in Callers
       /\ pc[header[h].Request] \notin {"idle", "alloc", "fill"}
       /\ 2 <= header[h].Count /\ header[h].Count = req[header[h].Request].n
  /\ Live(h) =>
       /\ req[header[h].Request].completions = 0
       /\ pc[header[h].Request] \in Loop => local[header[h].Request].h = h
  /\ \A t \in Threads : Sends(t, h) => header[h].Request = t

\* The index at position k is h's.
Has(h, k) ==
  \/ Armed(h) /\ k \in 1..header[h].Count
  \/ \E t \in Threads : local[t].h = h /\ pc[t] = "fill" /\ k \in 1..req[t].n

\* What flies is at its position, and was sent.
FlightOK(h) ==
  \A i \in Indices : Flies(i, h) =>
    /\ usb[i].ctx.r = header[h].Request
    /\ usb[i].ctx.k \in 1..header[h].Count
    /\ header[h].UsbRequestIndices[usb[i].ctx.k] = i
    /\ outcome[usb[i].ctx.r][usb[i].ctx.k] = "sent"
    /\ \A t \in Threads : Sends(t, h) => usb[i].ctx.k <= Sent(t)

\* Different live batches are of different requests.
RequestsOK ==
  \A g, h \in Headers : Live(g) /\ Live(h) /\ header[g].Request = header[h].Request => g = h

\* A standalone write: its thread, or its transfer, has the index.
Single(t) == local[t].h = NoHeader /\ pc[t] \in {"send", "push"}
Alone(i) == usb[i].inFlight /\ usb[i].ctx.h = NoHeader

AloneOK(guests) ==
  \A i \in Indices : Alone(i) /\ usb[i].ctx.r \notin guests =>
    /\ usb[i].ctx.k = 1 /\ usb[i].ctx.r \in Callers
    /\ pc[usb[i].ctx.r] = "returned"
    /\ req[usb[i].ctx.r].n = 1 /\ req[usb[i].ctx.r].completions = 0
    /\ \A j \in Indices : Alone(j) /\ usb[j].ctx.r = usb[i].ctx.r => i = j

\* Each index that is out of the pool is at one place.
PlacesOK ==
  /\ \A g, h \in Headers, k, l \in Positions :
       Has(g, k) /\ Has(h, l) /\ header[g].UsbRequestIndices[k] = header[h].UsbRequestIndices[l] =>
         g = h /\ k = l
  /\ \A h \in Headers, k \in Positions : Has(h, k) =>
       LET i == header[h].UsbRequestIndices[k] IN
       /\ i \in outstanding /\ ~Alone(i)
       /\ \A t \in Threads : Single(t) => local[t].i # i
  /\ \A t \in Threads : Single(t) =>
       /\ local[t].i \in outstanding /\ ~Alone(local[t].i)
       /\ \A u \in Threads : Single(u) /\ local[t].i = local[u].i => t = u
  /\ \A i \in Indices : Alone(i) => i \in outstanding

\* And it is nowhere else.
AllPlaced(apart) ==
  \A i \in outstanding \ apart :
    \/ Alone(i)
    \/ \E t \in Threads : Single(t) /\ local[t].i = i
    \/ \E h \in Headers, k \in Positions : Has(h, k) /\ header[h].UsbRequestIndices[k] = i

\* What was sent and has not ended is in flight.
SentFlies ==
  \A c \in Callers, k \in Positions : outcome[c][k] = "sent" =>
    \E i \in Indices : usb[i].inFlight /\ usb[i].ctx.r = c /\ usb[i].ctx.k = k

\* A message that has not gone out comes behind one that could not be sent.
Ended == {"ok", "short", "failed"}
Gone(c, k) == outcome[c][k] # "none" \/ \E j \in 1..(k - 1) : outcome[c][j] = "failed"

\* Statuses tell the truth about what has ended, but for a send that has failed and is
\* still to be stored.
StatusOK(h) ==
  Live(h) =>
    LET c == header[h].Request IN
    /\ \A k \in 1..header[h].Count :
         /\ (\A t \in Threads : ~Sends(t, h)) => Gone(c, k)
         /\ outcome[c][k] \in Ended /\ ~(Sends(c, h) /\ pc[c] = "store" /\ ~local[c].ok /\ k = local[c].k) =>
              (header[h].UsbRequestStatuses[k] <=> outcome[c][k] = "ok")
    /\ Sends(c, h) =>
         /\ \A k \in 1..Sent(c) : outcome[c][k] # "none"
         /\ pc[c] = "settle" \/ (pc[c] # "send" /\ ~local[c].ok) => outcome[c][Sent(c) + 1] = "failed"

\* What was reported stays true.
ReportOK(c) ==
  req[c].completions > 0 /\ req[c].n > 1 =>
    /\ \A k \in 1..req[c].info : outcome[c][k] = "ok"
    /\ IF req[c].ok THEN req[c].info = req[c].n
                    ELSE /\ req[c].info < req[c].n
                         /\ outcome[c][req[c].info + 1] \in {"short", "failed"}

\* The list has a header once.
ListOK == \A i, j \in 1..Len(batchList) : batchList[i] = batchList[j] => i = j

\* With the pool's own, IInv.
WriteIInv(apart, guests) ==
  /\ VarTypes /\ guests \subseteq Callers
  /\ \A t \in Threads : ThreadOK(t) /\ StageMatches(t, guests)
  /\ ListOK
  /\ \A h \in Headers : UseOK(h) /\ PendingOK(h) /\ BatchOK(h) /\ FlightOK(h)
  /\ RequestsOK /\ AloneOK(guests) /\ PlacesOK /\ AllPlaced(apart)
  /\ SentFlies
  /\ ~late => (\A h \in Headers : StatusOK(h)) /\ \A c \in Callers : ReportOK(c)

-----------------------------------------------------------------------------
(* What does not change. *)

\* The constants' ranges.
LEMMA Constants ==
  /\ N \in Nat \ {0} /\ MaxAlloc \in Nat /\ 1 <= MaxAlloc /\ MaxAlloc <= N
  /\ Positions \subseteq Nat /\ 0 \in Indices /\ Indices \subseteq Nat
  /\ IsFiniteSet(Threads) /\ Callers \subseteq Threads /\ NoHeader \notin Headers
  /\ IsFiniteSet(Indices)
<1>1. N \in Nat \ {0} /\ MaxAlloc \in 1..N /\ IsFiniteSet(Threads) /\ Callers \subseteq Threads
  BY PoolAssumption
<1>2. NoHeader \notin Headers
  BY WriteAssumption
<1>3. 0 \in Int /\ N - 1 \in Int
  BY <1>1
<1>4. IsFiniteSet(Indices)
  BY <1>3, FS_Interval DEF Indices
<1>. QED
  BY <1>1, <1>2, <1>4 DEF Positions, Indices

\* The types, one by one.
LEMMA TypeParts ==
  ASSUME VarTypes
  PROVE  /\ pc \in [Threads -> PCs] /\ local \in [Threads -> Locals] /\ req \in [Callers -> Reqs]
         /\ header \in [Headers -> Hdrs] /\ allocated \subseteq Headers
         /\ batchList \in Seq(allocated) /\ Len(batchList) \in Nat
         /\ \A j \in 1..Len(batchList) : batchList[j] \in allocated
         /\ usb \in [Indices -> Usbs] /\ outcome \in [Callers -> [Positions -> Outcomes]]
         /\ late \in BOOLEAN
<1>1. batchList \in Seq(allocated)
  BY DEF VarTypes
<1>2. Len(batchList) \in Nat /\ \A j \in 1..Len(batchList) : batchList[j] \in allocated
  BY <1>1, LenProperties, ElementOfSeq
<1>. QED
  BY <1>1, <1>2, Zenon DEF VarTypes

\* The fields.
LEMMA FieldTypes ==
  ASSUME VarTypes
  PROVE  /\ \A t \in Threads :
              /\ local[t].r \in Callers \cup {NoHeader} /\ local[t].h \in Headers \cup {NoHeader}
              /\ local[t].i \in Indices /\ local[t].k \in Nat /\ local[t].k <= MaxAlloc + 1
              /\ local[t].ok \in BOOLEAN
         /\ \A c \in Callers :
              /\ req[c].n \in Nat /\ req[c].n <= MaxAlloc /\ req[c].completions \in {0, 1}
              /\ req[c].ok \in BOOLEAN /\ req[c].info \in Nat /\ req[c].info <= MaxAlloc
         /\ \A h \in Headers :
              /\ header[h].Request \in Callers \cup {NoHeader}
              /\ header[h].Count \in Nat /\ header[h].Count <= MaxAlloc
              /\ header[h].Pending \in Nat /\ header[h].Pending <= MaxAlloc
              /\ header[h].UsbRequestStatuses \in [Positions -> BOOLEAN]
              /\ header[h].UsbRequestIndices \in [Positions -> Indices]
         /\ \A i \in Indices :
              /\ usb[i].inFlight \in BOOLEAN /\ usb[i].ctx.h \in Headers \cup {NoHeader}
              /\ usb[i].ctx.k \in Nat /\ usb[i].ctx.r \in Callers \cup {NoHeader}
<1>0. MaxAlloc \in Nat
  BY Constants
<1>1. \A t \in Threads : local[t] \in Locals
  BY TypeParts
<1>2. \A c \in Callers : req[c] \in Reqs
  BY TypeParts
<1>3. \A h \in Headers : header[h] \in Hdrs
  BY TypeParts
<1>4. \A i \in Indices : usb[i] \in Usbs
  BY TypeParts
<1>5. \A t \in Threads :
        /\ local[t].r \in Callers \cup {NoHeader} /\ local[t].h \in Headers \cup {NoHeader}
        /\ local[t].i \in Indices /\ local[t].k \in Nat /\ local[t].k <= MaxAlloc + 1
        /\ local[t].ok \in BOOLEAN
  BY <1>0, <1>1 DEF Locals
<1>6. \A c \in Callers :
        /\ req[c].n \in Nat /\ req[c].n <= MaxAlloc /\ req[c].completions \in {0, 1}
        /\ req[c].ok \in BOOLEAN /\ req[c].info \in Nat /\ req[c].info <= MaxAlloc
  BY <1>0, <1>2 DEF Reqs
<1>7. \A h \in Headers :
        /\ header[h].Request \in Callers \cup {NoHeader}
        /\ header[h].Count \in Nat /\ header[h].Count <= MaxAlloc
        /\ header[h].Pending \in Nat /\ header[h].Pending <= MaxAlloc
        /\ header[h].UsbRequestStatuses \in [Positions -> BOOLEAN]
        /\ header[h].UsbRequestIndices \in [Positions -> Indices]
  BY <1>0, <1>3 DEF Hdrs
<1>8. \A i \in Indices :
        /\ usb[i].inFlight \in BOOLEAN /\ usb[i].ctx.h \in Headers \cup {NoHeader}
        /\ usb[i].ctx.k \in Nat /\ usb[i].ctx.r \in Callers \cup {NoHeader}
  <2>1. \A i \in Indices : usb[i].inFlight \in BOOLEAN /\ usb[i].ctx \in Ctxs
    BY <1>4 DEF Usbs
  <2>. QED
    BY <1>0, <2>1 DEF Ctxs
<1>. QED
  BY <1>5, <1>6, <1>7, <1>8

\* Every thread but t is where it was.
OthersStay(t) == \A u \in Threads \ {t} : pc'[u] = pc[u] /\ local'[u] = local[u]

\* Header g is none of t's business, neither before a step nor after it.
NotOf(t, g) == ~Works(t, g) /\ ~Counts(t, g)

\* Thread t has the part in g after a step that it had before.
SameRole(t, g) ==
  /\ Begins(t, g)' <=> Begins(t, g)
  /\ Begins(t, g) => (pc'[t] = "fill" <=> pc[t] = "fill")
  /\ Sends(t, g)' <=> Sends(t, g)
  /\ Sends(t, g) => Sent(t)' = Sent(t)
  /\ Begins(t, g) \/ Sends(t, g) => req'[t].n = req[t].n
  /\ Counts(t, g)' <=> Counts(t, g)
  /\ Ends(t, g)' <=> Ends(t, g)
  /\ Ends(t, g) => /\ pc'[t] = "finalize" <=> pc[t] = "finalize"
                   /\ pc'[t] = "push" <=> pc[t] = "push"

\* To have none is one of them.
LEMMA NoRole ==
  ASSUME NEW t, NEW g, NotOf(t, g), NotOf(t, g)'
  PROVE  SameRole(t, g)
BY DEF NotOf, SameRole, Works

\* Then g has the part it had.
LEMMA RolesKept ==
  ASSUME NEW t \in Threads, NEW g \in Headers, OthersStay(t), SameRole(t, g),
         \A u \in Callers \ {t} : req'[u].n = req[u].n,
         \A u \in Threads : ThreadOK(u),
         Taken(g)' <=> Taken(g),
         \A i \in Indices : Flies(i, g)' <=> Flies(i, g)
  PROVE  /\ \A u \in Threads :
              /\ Begins(u, g)' <=> Begins(u, g)
              /\ Sends(u, g)' <=> Sends(u, g)
              /\ Counts(u, g)' <=> Counts(u, g)
              /\ Ends(u, g)' <=> Ends(u, g)
              /\ Works(u, g)' <=> Works(u, g)
              /\ Sends(u, g) => Sent(u)' = Sent(u) /\ req'[u].n = req[u].n /\ u \in Callers
         /\ Flying(g)' = Flying(g) /\ Counting(g)' = Counting(g) /\ Coming(g)' = Coming(g)
         /\ Filled(g)' <=> Filled(g)
         /\ Live(g)' <=> Live(g)
         /\ Armed(g)' <=> Armed(g)
         /\ header'[g].Count = header[g].Count => \A k \in Positions : Has(g, k)' <=> Has(g, k)
<1>1. ASSUME NEW u \in Threads
      PROVE  /\ Begins(u, g)' <=> Begins(u, g)
             /\ Begins(u, g) => /\ pc'[u] = "fill" <=> pc[u] = "fill"
                                /\ req'[u].n = req[u].n
             /\ Sends(u, g)' <=> Sends(u, g)
             /\ Counts(u, g)' <=> Counts(u, g)
             /\ Ends(u, g)' <=> Ends(u, g)
             /\ Ends(u, g) => /\ pc'[u] = "finalize" <=> pc[u] = "finalize"
                              /\ pc'[u] = "push" <=> pc[u] = "push"
             /\ Works(u, g)' <=> Works(u, g)
             /\ Sends(u, g) => Sent(u)' = Sent(u) /\ req'[u].n = req[u].n /\ u \in Callers
  <2>0. Sends(u, g) => u \in Callers
    BY DEF ThreadOK, Sends
  <2>1. CASE u = t
    BY <2>0, <2>1 DEF SameRole, Works
  <2>2. CASE u # t
    <3>1. pc'[u] = pc[u] /\ local'[u] = local[u]
      BY <2>2 DEF OthersStay
    <3>2. pc[u] \in Loop \cup {"alloc", "fill"} => u \in Callers /\ req'[u].n = req[u].n
      BY <2>2 DEF ThreadOK
    <3>. QED
      BY <2>2, <3>1, <3>2 DEF Begins, Sends, Counts, Ends, Works, Sent
  <2>. QED
    BY <2>1, <2>2
<1>2. Flying(g)' = Flying(g) /\ Counting(g)' = Counting(g)
  BY <1>1 DEF Flying, Counting
<1>3. Coming(g)' = Coming(g)
  BY <1>2 DEF Coming
<1>4. Filled(g)' <=> Filled(g)
  BY <1>1 DEF Filled
<1>5. /\ Live(g)' <=> Live(g)
      /\ Armed(g)' <=> Armed(g)
  BY <1>1, <1>4 DEF Live, Armed
<1>6. ASSUME header'[g].Count = header[g].Count, NEW k \in Positions PROVE Has(g, k)' <=> Has(g, k)
  <2>1. \A u \in Threads : (local'[u].h = g /\ pc'[u] = "fill") <=> (local[u].h = g /\ pc[u] = "fill")
    BY <1>1 DEF Begins
  <2>2. \A u \in Threads : local[u].h = g /\ pc[u] = "fill" => req'[u].n = req[u].n
    BY <1>1 DEF Begins
  <2>. QED
    BY <1>5, <1>6, <2>1, <2>2 DEF Has
<1>. QED
  BY <1>1, <1>2, <1>3, <1>4, <1>5, <1>6

\* And what the invariant says of g alone holds still.
LEMMA HeaderKept ==
  ASSUME NEW apart, NEW guests, WriteIInv(apart, guests), NEW t \in Threads, NEW g \in Headers, OthersStay(t), SameRole(t, g),
         \A u \in Callers \ {t} : req'[u].n = req[u].n,
         Taken(g)' <=> Taken(g),
         \A i \in Indices : Flies(i, g)' <=> Flies(i, g),
         \A i \in Indices : Flies(i, g) =>
           /\ usb'[i] = usb[i]
           /\ outcome'[usb[i].ctx.r][usb[i].ctx.k] = outcome[usb[i].ctx.r][usb[i].ctx.k],
         header'[g].Request = header[g].Request, header'[g].Count = header[g].Count,
         header'[g].Pending = header[g].Pending,
         header'[g].UsbRequestIndices = header[g].UsbRequestIndices,
         Filled(g) => /\ req'[header[g].Request].n = req[header[g].Request].n
                      /\ pc'[header[g].Request] \notin {"idle", "alloc", "fill"},
         Live(g) => /\ req'[header[g].Request].completions = req[header[g].Request].completions
                    /\ pc'[header[g].Request] \in Loop => local'[header[g].Request].h = g
  PROVE  UseOK(g)' /\ PendingOK(g)' /\ BatchOK(g)' /\ FlightOK(g)'
<1>1. \A u \in Threads : ThreadOK(u)
  BY DEF WriteIInv
<1>2. /\ \A u \in Threads :
           /\ Begins(u, g)' <=> Begins(u, g)
           /\ Sends(u, g)' <=> Sends(u, g)
           /\ Counts(u, g)' <=> Counts(u, g)
           /\ Ends(u, g)' <=> Ends(u, g)
           /\ Works(u, g)' <=> Works(u, g)
           /\ Sends(u, g) => Sent(u)' = Sent(u) /\ req'[u].n = req[u].n
      /\ Flying(g)' = Flying(g) /\ Counting(g)' = Counting(g) /\ Coming(g)' = Coming(g)
      /\ Filled(g)' <=> Filled(g)
      /\ Live(g)' <=> Live(g)
  BY <1>1, RolesKept
<1>3. UseOK(g) /\ PendingOK(g) /\ BatchOK(g) /\ FlightOK(g)
  BY DEF WriteIInv
<1>4. UseOK(g)'
  BY <1>2, <1>3 DEF UseOK
<1>5. PendingOK(g)'
  BY <1>2, <1>3 DEF PendingOK
<1>6. BatchOK(g)'
  BY <1>2, <1>3 DEF BatchOK
<1>7. FlightOK(g)'
  BY <1>2, <1>3 DEF FlightOK
<1>. QED
  BY <1>4, <1>5, <1>6, <1>7

\* A caller whose request may be completed, or a message of it end, by another thread.
Busy(u) == /\ pc[u] \notin {"idle", "alloc", "fill"}
           /\ ~(pc[u] \in {"send", "push", "release"} /\ local[u].h = NoHeader)

\* The other threads are where they were.
LEMMA ThreadsKept ==
  ASSUME NEW apart, NEW guests, WriteIInv(apart, guests), NEW t \in Threads, OthersStay(t),
         \A u \in Callers \ {t} :
           /\ req'[u].n = req[u].n
           /\ Busy(u) \/ (req'[u].completions = req[u].completions /\ outcome'[u] = outcome[u]),
         \A u \in Threads \ {t} : stage'[u] = stage[u] /\ want'[u] = want[u]
  PROVE  \A u \in Threads \ {t} : ThreadOK(u)' /\ StageMatches(u, guests)'
<1> SUFFICES ASSUME NEW u \in Threads \ {t} PROVE ThreadOK(u)' /\ StageMatches(u, guests)'
  OBVIOUS
<1>1. pc'[u] = pc[u] /\ local'[u] = local[u] /\ stage'[u] = stage[u] /\ want'[u] = want[u]
  BY DEF OthersStay
<1>2. ThreadOK(u) /\ StageMatches(u, guests)
  BY DEF WriteIInv
<1>3. u \in Callers => req'[u].n = req[u].n
  OBVIOUS
<1>4. pc[u] = "alloc" => u \in Callers
  BY <1>2 DEF ThreadOK
<1>5. StageMatches(u, guests)'
  BY <1>1, <1>2, <1>3, <1>4 DEF StageMatches
<1>6. u \in Callers => Busy(u) \/ (req'[u].completions = req[u].completions /\ outcome'[u] = outcome[u])
  OBVIOUS
<1>7. ThreadOK(u)'
  BY <1>1, <1>2, <1>3, <1>6 DEF ThreadOK, Busy, Loop
<1>. QED
  BY <1>5, <1>7

\* The statuses of a header are as true as they were.
LEMMA StatusKept ==
  ASSUME NEW apart, NEW guests, WriteIInv(apart, guests), NEW t \in Threads, NEW g \in Headers, OthersStay(t), NotOf(t, g), NotOf(t, g)',
         \A u \in Callers \ {t} : req'[u].n = req[u].n,
         Taken(g)' <=> Taken(g),
         \A i \in Indices : Flies(i, g)' <=> Flies(i, g),
         header'[g].Request = header[g].Request, header'[g].Count = header[g].Count,
         header'[g].UsbRequestStatuses = header[g].UsbRequestStatuses,
         Live(g) => outcome'[header[g].Request] = outcome[header[g].Request],
         StatusOK(g)
  PROVE  StatusOK(g)'
<1> DEFINE c == header[g].Request
<1>1. \A u \in Threads : ThreadOK(u)
  BY DEF WriteIInv
<1>2. /\ \A u \in Threads :
           /\ Sends(u, g)' <=> Sends(u, g)
           /\ Works(u, g) => pc'[u] = pc[u] /\ local'[u] = local[u]
           /\ Sends(u, g) => Sent(u)' = Sent(u)
      /\ Live(g)' <=> Live(g)
  <2>1. SameRole(t, g)
    BY NoRole
  <2>2. \A u \in Threads : Works(u, g) => u # t /\ pc'[u] = pc[u] /\ local'[u] = local[u]
    BY DEF NotOf, OthersStay
  <2>. QED
    BY <1>1, <2>1, <2>2, RolesKept
<1>3. Live(g) => c \in Threads
  BY Constants DEF WriteIInv, BatchOK, Live
<1>4. Sends(c, g) => Works(c, g)
  BY DEF Works
<1> SUFFICES ASSUME Live(g)' PROVE StatusOK(g)'
  BY DEF StatusOK
<1>5. /\ Live(g) /\ c \in Threads /\ c' = c /\ outcome'[c] = outcome[c]
      /\ header'[g].Count = header[g].Count
      /\ header'[g].UsbRequestStatuses = header[g].UsbRequestStatuses
  BY <1>2, <1>3
<1>6. /\ Sends(c, g)' <=> Sends(c, g)
      /\ Sends(c, g) => pc'[c] = pc[c] /\ local'[c] = local[c] /\ Sent(c)' = Sent(c)
      /\ (\A u \in Threads : ~Sends(u, g))' <=> (\A u \in Threads : ~Sends(u, g))
  BY <1>2, <1>4, <1>5
<1>7. ASSUME NEW k \in 1..header[g].Count
      PROVE  /\ (\A u \in Threads : ~Sends(u, g)) => Gone(c, k)
             /\ outcome[c][k] \in Ended /\ ~(Sends(c, g) /\ pc[c] = "store" /\ ~local[c].ok /\ k = local[c].k) =>
                  (header[g].UsbRequestStatuses[k] <=> outcome[c][k] = "ok")
  BY <1>5 DEF StatusOK
<1>8. Sends(c, g) =>
        /\ \A k \in 1..Sent(c) : outcome[c][k] # "none"
        /\ pc[c] = "settle" \/ (pc[c] # "send" /\ ~local[c].ok) => outcome[c][Sent(c) + 1] = "failed"
  BY <1>5 DEF StatusOK
<1> DEFINE d == header'[g].Request
<1>9. d = c
  OBVIOUS
<1>10. ASSUME NEW k \in 1..header'[g].Count
       PROVE  /\ (\A u \in Threads : ~Sends(u, g))' => Gone(c, k)'
              /\ outcome'[c][k] \in Ended /\ ~((Sends(c, g))' /\ pc'[c] = "store" /\ ~local'[c].ok /\ k = local'[c].k) =>
                   (header'[g].UsbRequestStatuses[k] <=> outcome'[c][k] = "ok")
  <2>1. k \in 1..header[g].Count
    BY <1>5
  <2>2. Gone(c, k)' <=> Gone(c, k)
    BY <1>5 DEF Gone
  <2>. QED
    BY <1>5, <1>6, <1>7, <2>1, <2>2
<1>11. Sends(c, g)' =>
        /\ \A k \in 1..Sent(c)' : outcome'[c][k] # "none"
        /\ pc'[c] = "settle" \/ (pc'[c] # "send" /\ ~local'[c].ok) => outcome'[c][Sent(c)' + 1] = "failed"
  BY <1>5, <1>6, <1>8
<1>. QED
  BY <1>5, <1>9, <1>10, <1>11 DEF StatusOK, Gone

\* What was reported is as true as it was.
LEMMA ReportsKept ==
  ASSUME NEW c \in Callers, ReportOK(c), req'[c] = req[c],
         req[c].completions > 0 /\ req[c].n > 1 => outcome'[c] = outcome[c]
  PROVE  ReportOK(c)'
BY DEF ReportOK

\* The indices are where they were.
LEMMA PlacesKept ==
  ASSUME NEW apart, PlacesOK, AllPlaced(apart), outstanding' = outstanding,
         \A h \in Headers, k \in Positions :
           /\ Has(h, k)' <=> Has(h, k)
           /\ Has(h, k) => header'[h].UsbRequestIndices[k] = header[h].UsbRequestIndices[k],
         \A t \in Threads : /\ Single(t)' <=> Single(t)
                            /\ Single(t) => local'[t].i = local[t].i,
         \A i \in Indices : Alone(i)' <=> Alone(i),
         outstanding \subseteq Indices
  PROVE  PlacesOK' /\ AllPlaced(apart)'
<1>1. \A g, h \in Headers, k, l \in Positions :
        Has(g, k)' /\ Has(h, l)' /\ header'[g].UsbRequestIndices[k] = header'[h].UsbRequestIndices[l] =>
          g = h /\ k = l
  BY DEF PlacesOK
<1>2. ASSUME NEW h \in Headers, NEW k \in Positions, Has(h, k)'
      PROVE  \E i \in Indices : /\ header'[h].UsbRequestIndices[k] = i
                                /\ i \in outstanding' /\ ~Alone(i)'
                                /\ \A t \in Threads : Single(t)' => local'[t].i # i
  <2>1. Has(h, k) /\ header'[h].UsbRequestIndices[k] = header[h].UsbRequestIndices[k]
    BY <1>2
  <2>2. /\ header[h].UsbRequestIndices[k] \in outstanding
        /\ ~Alone(header[h].UsbRequestIndices[k])
        /\ \A t \in Threads : Single(t) => local[t].i # header[h].UsbRequestIndices[k]
    BY <2>1 DEF PlacesOK
  <2>3. header[h].UsbRequestIndices[k] \in Indices
    BY <2>2
  <2>4. PICK i \in Indices : i = header[h].UsbRequestIndices[k]
    BY <2>3
  <2>5. i \in outstanding' /\ ~Alone(i)' /\ \A t \in Threads : Single(t)' => local'[t].i # i
    BY <2>2, <2>4
  <2>. QED
    BY <2>1, <2>4, <2>5
<1>3. ASSUME NEW t \in Threads, Single(t)'
      PROVE  /\ local'[t].i \in outstanding' /\ ~Alone(local[t].i)'
             /\ \A u \in Threads : Single(u)' /\ local'[t].i = local'[u].i => t = u
  BY <1>3 DEF PlacesOK
<1>4. \A i \in Indices : Alone(i)' => i \in outstanding'
  BY DEF PlacesOK
<1>5. PlacesOK'
  <2>1. ASSUME NEW h \in Headers, NEW k \in Positions, Has(h, k)'
        PROVE  (LET i == header[h].UsbRequestIndices[k] IN
                /\ i \in outstanding /\ ~Alone(i)
                /\ \A t \in Threads : Single(t) => local[t].i # i)'
    <3>1. PICK i \in Indices : /\ header'[h].UsbRequestIndices[k] = i
                               /\ i \in outstanding' /\ ~Alone(i)'
                               /\ \A t \in Threads : Single(t)' => local'[t].i # i
      BY <1>2, <2>1
    <3>. QED
      BY <3>1 DEF Alone
  <2>. QED
    BY <1>1, <1>3, <1>4, <2>1 DEF PlacesOK
<1>6. AllPlaced(apart)'
  BY DEF AllPlaced
<1>. QED
  BY <1>5, <1>6

\* The standalone transfers are as they were.
LEMMA AloneKept ==
  ASSUME NEW guests, AloneOK(guests),
         \A i \in Indices : Alone(i)' /\ usb'[i].ctx.r \notin guests =>
           Alone(i) /\ usb'[i].ctx = usb[i].ctx,
         \A i \in Indices : Alone(i)' /\ usb'[i].ctx.r \notin guests =>
           /\ pc'[usb[i].ctx.r] = "returned"
           /\ req'[usb[i].ctx.r] = req[usb[i].ctx.r]
  PROVE  AloneOK(guests)'
<1> SUFFICES ASSUME NEW i \in Indices, Alone(i)', usb'[i].ctx.r \notin guests
             PROVE  /\ usb'[i].ctx.k = 1 /\ usb'[i].ctx.r \in Callers
                    /\ pc'[usb'[i].ctx.r] = "returned"
                    /\ req'[usb'[i].ctx.r].n = 1 /\ req'[usb'[i].ctx.r].completions = 0
                    /\ \A j \in Indices : Alone(j)' /\ usb'[j].ctx.r = usb'[i].ctx.r => i = j
  BY DEF AloneOK
<1>1. Alone(i) /\ usb'[i].ctx = usb[i].ctx
  OBVIOUS
<1>2. /\ usb[i].ctx.k = 1 /\ usb[i].ctx.r \in Callers
      /\ req[usb[i].ctx.r].n = 1 /\ req[usb[i].ctx.r].completions = 0
      /\ \A j \in Indices : Alone(j) /\ usb[j].ctx.r = usb[i].ctx.r => i = j
  BY <1>1 DEF AloneOK
<1>. QED
  BY <1>1, <1>2

\* Live headers have the requests they had.
LEMMA RequestsKept ==
  ASSUME RequestsOK,
         \A g \in Headers : Live(g)' => Live(g) /\ header'[g].Request = header[g].Request
  PROVE  RequestsOK'
BY DEF RequestsOK

\* What was sent flies still.
LEMMA SentKept ==
  ASSUME SentFlies,
         \A c \in Callers, k \in Positions : outcome'[c][k] = "sent" => outcome[c][k] = "sent",
         \A i \in Indices : usb[i].inFlight /\ usb'[i] # usb[i] =>
           \A c \in Callers, k \in Positions :
              usb[i].ctx.r = c /\ usb[i].ctx.k = k => outcome'[c][k] # "sent"
  PROVE  SentFlies'
<1> SUFFICES ASSUME NEW c \in Callers, NEW k \in Positions, outcome'[c][k] = "sent"
             PROVE  \E i \in Indices : usb'[i].inFlight /\ usb'[i].ctx.r = c /\ usb'[i].ctx.k = k
  BY DEF SentFlies
<1>1. PICK i \in Indices : usb[i].inFlight /\ usb[i].ctx.r = c /\ usb[i].ctx.k = k
  BY DEF SentFlies
<1>2. usb'[i] = usb[i]
  BY <1>1
<1>. QED
  BY <1>1, <1>2

\* A step that leaves the writes alone keeps all that is said of them.
LEMMA NothingChanges ==
  ASSUME NEW apart, NEW guests, WriteIInv(apart, guests), UNCHANGED writeVars, UNCHANGED <<outstanding, stage, want>>
  PROVE  WriteIInv(apart, guests)'
<1> USE DEF writeVars
<1>1. VarTypes'
  BY DEF WriteIInv, VarTypes
<1>2. \A t \in Threads : ThreadOK(t)' /\ StageMatches(t, guests)'
  BY DEF WriteIInv, ThreadOK, StageMatches
<1>3. ListOK'
  BY DEF WriteIInv, ListOK
<1>4. \A h : Taken(h)' <=> Taken(h)
  BY DEF Taken
<1>5. \A t, h : /\ Begins(t, h)' <=> Begins(t, h)
                /\ Sends(t, h)' <=> Sends(t, h)
                /\ Counts(t, h)' <=> Counts(t, h)
                /\ Ends(t, h)' <=> Ends(t, h)
                /\ Works(t, h)' <=> Works(t, h)
  BY DEF Begins, Sends, Counts, Ends, Works, Sent
<1>6. \A i, h : Flies(i, h)' <=> Flies(i, h)
  BY DEF Flies
<1>7. \A h : Flying(h)' = Flying(h) /\ Counting(h)' = Counting(h) /\ Coming(h)' = Coming(h)
  BY <1>5, <1>6 DEF Flying, Counting, Coming
<1>8. \A h : /\ Filled(h)' <=> Filled(h)
             /\ Live(h)' <=> Live(h)
             /\ Armed(h)' <=> Armed(h)
  BY <1>4, <1>5 DEF Filled, Live, Armed
<1>9. \A t : Sent(t)' = Sent(t)
  BY DEF Sent
<1>10. ASSUME NEW h \in Headers
       PROVE  UseOK(h)' /\ PendingOK(h)' /\ BatchOK(h)' /\ FlightOK(h)'
  <2>1. UseOK(h) /\ PendingOK(h) /\ BatchOK(h) /\ FlightOK(h)
    BY DEF WriteIInv
  <2>2. UseOK(h)'
    BY <1>4, <1>5, <1>6, <1>7, <2>1 DEF UseOK
  <2>3. PendingOK(h)'
    BY <1>4, <1>5, <1>7, <1>9, <2>1 DEF PendingOK
  <2>4. BatchOK(h)'
    BY <1>5, <1>8, <2>1 DEF BatchOK
  <2>5. FlightOK(h)'
    BY <1>5, <1>6, <1>9, <2>1 DEF FlightOK
  <2>. QED
    BY <2>2, <2>3, <2>4, <2>5
<1>11. RequestsOK' /\ AloneOK(guests)'
  BY <1>8 DEF WriteIInv, RequestsOK, AloneOK, Alone
<1>12. \A h, k : Has(h, k)' <=> Has(h, k)
  BY <1>8 DEF Has
<1>13. \A t, i : (Single(t)' <=> Single(t)) /\ (Alone(i)' <=> Alone(i))
  BY DEF Single, Alone
<1>14. PlacesOK' /\ AllPlaced(apart)'
  <2>1. PlacesOK /\ AllPlaced(apart)
    BY DEF WriteIInv
  <2>2. PlacesOK'
    BY <1>12, <1>13, <2>1 DEF PlacesOK
  <2>3. AllPlaced(apart)'
    BY <1>12, <1>13, <2>1 DEF AllPlaced
  <2>. QED
    BY <2>2, <2>3
<1>15. SentFlies'
  BY DEF WriteIInv, SentFlies
<1>16. late' = late /\ (~late => (\A h \in Headers : StatusOK(h)) /\ \A c \in Callers : ReportOK(c))
  BY DEF WriteIInv
<1>17. ASSUME ~late' PROVE (\A h \in Headers : StatusOK(h)') /\ \A c \in Callers : ReportOK(c)'
  <2>1. \A h : StatusOK(h)' <=> StatusOK(h)
    BY <1>5, <1>8, <1>9 DEF StatusOK, Gone
  <2>2. \A c : ReportOK(c)' <=> ReportOK(c)
    BY DEF ReportOK
  <2>. QED
    BY <1>16, <1>17, <2>1, <2>2
<1>. QED
  BY <1>1, <1>2, <1>3, <1>10, <1>11, <1>14, <1>15, <1>17 DEF WriteIInv

-----------------------------------------------------------------------------
(* What a state says of a header in use. *)

\* A message of the batch is in flight.
LEMMA WhenItFlies ==
  ASSUME NEW apart, NEW guests, WriteIInv(apart, guests), NEW g \in Headers, NEW i \in Indices, Flies(i, g)
  PROVE  /\ Taken(g) /\ Filled(g) /\ Live(g) /\ Armed(g)
         /\ \A t \in Threads : ~Begins(t, g) /\ ~Ends(t, g)
         /\ usb[i].ctx.r = header[g].Request /\ header[g].Request \in Callers
         /\ usb[i].ctx.k \in 1..header[g].Count /\ usb[i].ctx.k \in Positions
         /\ header[g].UsbRequestIndices[usb[i].ctx.k] = i
         /\ Has(g, usb[i].ctx.k)
         /\ outcome[usb[i].ctx.r][usb[i].ctx.k] = "sent"
<1>1. UseOK(g) /\ BatchOK(g) /\ FlightOK(g)
  BY DEF WriteIInv
<1>2. i \in Flying(g)
  BY DEF Flying
<1>3. \A t \in Threads : ~Begins(t, g) /\ ~Ends(t, g)
  BY <1>1, <1>2 DEF UseOK
<1>4. Taken(g) /\ Filled(g) /\ Live(g) /\ Armed(g)
  BY <1>1, <1>3 DEF UseOK, Filled, Live, Armed
<1>5. /\ usb[i].ctx.r = header[g].Request /\ usb[i].ctx.k \in 1..header[g].Count
      /\ header[g].UsbRequestIndices[usb[i].ctx.k] = i
      /\ outcome[usb[i].ctx.r][usb[i].ctx.k] = "sent"
  BY <1>1 DEF FlightOK
<1>6. header[g].Request \in Callers
  BY <1>1, <1>4 DEF BatchOK
<1>7. header[g].Count \in Nat /\ header[g].Count <= MaxAlloc
  BY FieldTypes DEF WriteIInv
<1>8. usb[i].ctx.k \in Positions
  BY <1>5, <1>7, Constants DEF Positions
<1>9. Has(g, usb[i].ctx.k)
  BY <1>4, <1>5 DEF Has
<1>. QED
  BY <1>3, <1>4, <1>5, <1>6, <1>8, <1>9

\* A caller is sending the batch.
LEMMA WhenItSends ==
  ASSUME NEW apart, NEW guests, WriteIInv(apart, guests), NEW g \in Headers, NEW t \in Threads, Sends(t, g)
  PROVE  /\ Taken(g) /\ Filled(g) /\ Live(g) /\ Armed(g)
         /\ header[g].Request = t /\ t \in Callers
         /\ 2 <= req[t].n /\ header[g].Count = req[t].n
         /\ req[t].completions = 0
         /\ \A u \in Threads : Works(u, g) => u = t
         /\ \A u \in Threads : ~Begins(u, g) /\ ~Ends(u, g)
         /\ header[g].Pending = (req[t].n - Sent(t)) + Coming(g)
         /\ header[g].Pending <= req[t].n
         /\ \A k \in 1..req[t].n : k \in Positions /\ Has(g, k)
<1>1. UseOK(g) /\ BatchOK(g) /\ PendingOK(g)
  BY DEF WriteIInv
<1>2. \A u \in Threads : Works(u, g) => u = t
  BY <1>1 DEF UseOK, Works
<1>3. \A u \in Threads : ~Begins(u, g) /\ ~Ends(u, g)
  BY <1>2 DEF Works, Begins, Ends, Sends, Loop
<1>4. Taken(g) /\ Filled(g) /\ Live(g) /\ Armed(g)
  BY <1>1, <1>3 DEF UseOK, Filled, Live, Armed, Works
<1>5. header[g].Request = t
  BY <1>1 DEF BatchOK
<1>6. /\ t \in Callers /\ 2 <= req[t].n /\ header[g].Count = req[t].n
      /\ req[t].completions = 0
  BY <1>1, <1>4, <1>5 DEF BatchOK
<1>7. /\ header[g].Pending = (req[t].n - Sent(t)) + Coming(g)
      /\ header[g].Pending <= req[t].n
  BY <1>1 DEF PendingOK
<1>8. req[t].n \in Nat /\ req[t].n <= MaxAlloc
  BY <1>6, FieldTypes DEF WriteIInv
<1>9. \A k \in 1..req[t].n : k \in Positions /\ Has(g, k)
  BY <1>4, <1>6, <1>8, Constants DEF Has, Positions
<1>. QED
  BY <1>2, <1>3, <1>4, <1>5, <1>6, <1>7, <1>9

\* A thread begins the batch, or ends it.
LEMMA WhenItBeginsOrEnds ==
  ASSUME NEW apart, NEW guests, WriteIInv(apart, guests), NEW g \in Headers, NEW t \in Threads, Begins(t, g) \/ Ends(t, g)
  PROVE  /\ Taken(g)
         /\ \A u \in Threads : (Works(u, g) => u = t) /\ ~Counts(u, g) /\ ~Sends(u, g)
         /\ \A i \in Indices : ~Flies(i, g)
         /\ Flying(g) = {} /\ Counting(g) = {}
<1>1. UseOK(g)
  BY DEF WriteIInv
<1>2. Flying(g) = {} /\ Counting(g) = {} /\ Taken(g)
  BY <1>1 DEF UseOK, Works
<1>3. \A u \in Threads : (Works(u, g) => u = t) /\ ~Counts(u, g)
  BY <1>1, <1>2 DEF UseOK, Works, Counting
<1>4. \A i \in Indices : ~Flies(i, g)
  BY <1>2 DEF Flying
<1>5. \A u \in Threads : ~Sends(u, g)
  BY <1>3 DEF Works, Sends, Loop, Begins, Ends
<1>. QED
  BY <1>2, <1>3, <1>4, <1>5

\* And in particular.
LEMMA WhenItEnds ==
  ASSUME NEW apart, NEW guests, WriteIInv(apart, guests), NEW g \in Headers, NEW t \in Threads, Ends(t, g)
  PROVE  /\ Filled(g) /\ header[g].Request \in Callers
         /\ pc[header[g].Request] \notin {"idle", "alloc", "fill"}
         /\ 2 <= header[g].Count /\ header[g].Count = req[header[g].Request].n
         /\ header[g].Count <= MaxAlloc
         /\ Live(g) <=> pc[t] = "finalize"
         /\ Armed(g) <=> pc[t] \in {"finalize", "push"}
<1>1. /\ Taken(g)
      /\ \A u \in Threads : Works(u, g) => u = t
  BY WhenItBeginsOrEnds
<1>2. \A u \in Threads : ~Begins(u, g) /\ (Ends(u, g) => u = t)
  BY <1>1 DEF Works, Begins, Ends
<1>3. Filled(g)
  BY <1>1, <1>2 DEF Filled
<1>4. BatchOK(g)
  BY DEF WriteIInv
<1>5. header[g].Count <= MaxAlloc
  BY FieldTypes DEF WriteIInv
<1>6. /\ Live(g) <=> pc[t] = "finalize"
      /\ Armed(g) <=> pc[t] \in {"finalize", "push"}
  BY <1>2, <1>3 DEF Live, Armed
<1>. QED
  BY <1>3, <1>4, <1>5, <1>6 DEF BatchOK

\* A completion routine has to count down.
LEMMA WhenItCounts ==
  ASSUME NEW apart, NEW guests, WriteIInv(apart, guests), NEW g \in Headers, NEW t \in Threads, Counts(t, g)
  PROVE  /\ Taken(g) /\ Filled(g) /\ Live(g) /\ Armed(g)
         /\ \A u \in Threads : ~Begins(u, g) /\ ~Ends(u, g)
         /\ t \notin Callers /\ ~Works(t, g)
<1>1. UseOK(g) /\ ThreadOK(t)
  BY DEF WriteIInv
<1>2. t \in Counting(g)
  BY DEF Counting
<1>3. \A u \in Threads : ~Begins(u, g) /\ ~Ends(u, g)
  BY <1>1, <1>2 DEF UseOK
<1>4. Taken(g) /\ Filled(g) /\ Live(g) /\ Armed(g)
  BY <1>1, <1>3 DEF UseOK, Filled, Live, Armed
<1>. QED
  BY <1>1, <1>3, <1>4 DEF Counts, ThreadOK, Works, Sends, Loop

\* A step of thread t that writes neither headers nor history and changes its part in no
\* batch, and of the transfers only those of guests.
LEMMA GuestStep ==
  ASSUME NEW apart, NEW guests, WriteIInv(apart, guests), NEW t \in Threads,
         OthersStay(t), VarTypes', ThreadOK(t)', StageMatches(t, guests)',
         \A g \in Headers : SameRole(t, g),
         \A u \in Callers \ {t} : req'[u] = req[u],
         \A u \in Threads \ {t} : stage'[u] = stage[u] /\ want'[u] = want[u],
         UNCHANGED <<header, allocated, batchList, outcome, late>>,
         \A i \in Indices : \/ usb'[i] = usb[i]
                            \/ /\ usb[i].inFlight => Alone(i) /\ usb[i].ctx.r \in guests
                               /\ usb'[i].inFlight => Alone(i)' /\ usb'[i].ctx.r \in guests,
         \A i \in Indices : Alone(i) /\ usb[i].ctx.r = t /\ t \notin guests =>
            pc'[t] = "returned" /\ req'[t] = req[t],
         \A g \in Headers : Filled(g) /\ header[g].Request = t =>
            /\ req'[t].n = req[t].n
            /\ pc'[t] \notin {"idle", "alloc", "fill"}
            /\ Live(g) => /\ req'[t].completions = req[t].completions
                          /\ pc'[t] \in Loop => local'[t].h = g,
         t \in Callers /\ ~late => ReportOK(t)',
         \A g \in Headers : \/ NotOf(t, g) /\ NotOf(t, g)'
                            \/ ~late => StatusOK(g)',
         NEW there, PlacesOK', AllPlaced(there)'
  PROVE  WriteIInv(there, guests)'
<1>1. \A u \in Threads : ThreadOK(u)' /\ StageMatches(u, guests)'
  BY ThreadsKept
<1>2. /\ VarTypes /\ guests \subseteq Callers
      /\ \A u \in Threads : ThreadOK(u) /\ StageMatches(u, guests)
      /\ \A g \in Headers : Taken(g)' <=> Taken(g)
  BY DEF WriteIInv, Taken
<1>3. ASSUME NEW i \in Indices, NEW g \in Headers
      PROVE  /\ Flies(i, g)' <=> Flies(i, g)
             /\ Flies(i, g) => usb'[i] = usb[i]
  BY Constants DEF Flies, Alone
<1>4. ASSUME NEW g \in Headers
      PROVE  Live(g)' <=> Live(g)
  BY <1>2, <1>3, RolesKept
<1>5. ASSUME NEW g \in Headers, Filled(g)
      PROVE  /\ header[g].Request \in Callers
             /\ pc[header[g].Request] \notin {"idle", "alloc", "fill"}
             /\ Live(g) => /\ pc[header[g].Request] \in Loop => local[header[g].Request].h = g
  BY <1>5 DEF WriteIInv, BatchOK
<1>6. ASSUME NEW g \in Headers
      PROVE  UseOK(g)' /\ PendingOK(g)' /\ BatchOK(g)' /\ FlightOK(g)'
  <2>1. Filled(g) => /\ req'[header[g].Request].n = req[header[g].Request].n
                     /\ pc'[header[g].Request] \notin {"idle", "alloc", "fill"}
    BY <1>5, Constants DEF OthersStay
  <2>2. Live(g) => /\ req'[header[g].Request].completions = req[header[g].Request].completions
                   /\ pc'[header[g].Request] \in Loop => local'[header[g].Request].h = g
    BY <1>5, Constants DEF OthersStay, Live
  <2>3. \A i \in Indices : Flies(i, g) =>
           /\ usb'[i] = usb[i]
           /\ outcome'[usb[i].ctx.r][usb[i].ctx.k] = outcome[usb[i].ctx.r][usb[i].ctx.k]
    BY <1>3
  <2>. QED
    BY <1>2, <1>3, <2>1, <2>2, <2>3, HeaderKept
<1>7. ListOK'
  BY DEF WriteIInv, ListOK
<1>8. RequestsOK'
  BY <1>4, RequestsKept DEF WriteIInv
<1>9. AloneOK(guests)'
  <2>1. \A i \in Indices : Alone(i) /\ usb[i].ctx.r \notin guests =>
           usb[i].ctx.r \in Callers /\ pc[usb[i].ctx.r] = "returned"
    BY DEF WriteIInv, AloneOK
  <2>2. \A i \in Indices : Alone(i) /\ usb[i].ctx.r \notin guests =>
           /\ pc'[usb[i].ctx.r] = "returned"
           /\ req'[usb[i].ctx.r] = req[usb[i].ctx.r]
    BY <2>1, Constants DEF OthersStay
  <2>3. \A i \in Indices : Alone(i)' /\ usb'[i].ctx.r \notin guests => Alone(i) /\ usb'[i] = usb[i]
    BY DEF Alone
  <2>4. AloneOK(guests)
    BY DEF WriteIInv
  <2>. QED
    BY <2>2, <2>3, <2>4, AloneKept
<1>10. SentFlies'
  <2>1. ASSUME NEW c \in Callers, NEW k \in Positions, outcome[c][k] = "sent"
        PROVE  \E i \in Indices : usb'[i].inFlight /\ usb'[i].ctx.r = c /\ usb'[i].ctx.k = k
    <3>1. c \notin guests
      BY <1>2, <2>1, Constants DEF ThreadOK, StageMatches
    <3>2. PICK i \in Indices : usb[i].inFlight /\ usb[i].ctx.r = c /\ usb[i].ctx.k = k
      BY <2>1 DEF WriteIInv, SentFlies
    <3>. QED
      BY <3>1, <3>2
  <2>. QED
    BY <2>1 DEF SentFlies
<1>11. ASSUME ~late', NEW g \in Headers PROVE StatusOK(g)'
  <2>1. CASE NotOf(t, g) /\ NotOf(t, g)'
    <3>1. StatusOK(g)
      BY <1>11 DEF WriteIInv
    <3>. QED
      BY <1>2, <1>3, <2>1, <3>1, StatusKept
  <2>. QED
    BY <1>11, <2>1
<1>12. ASSUME ~late', NEW c \in Callers PROVE ReportOK(c)'
  <2>1. CASE c # t
    <3>1. ReportOK(c)
      BY <1>12 DEF WriteIInv
    <3>. QED
      BY <2>1, <3>1, ReportsKept
  <2>. QED
    BY <1>12, <2>1
<1>. QED
  BY <1>1, <1>2, <1>6, <1>7, <1>8, <1>9, <1>10, <1>11, <1>12 DEF WriteIInv

\* And one that leaves the transfers and the indices alone.
LEMMA QuietStep ==
  ASSUME NEW apart, NEW guests, WriteIInv(apart, guests), NEW t \in Threads,
         OthersStay(t), VarTypes', ThreadOK(t)', StageMatches(t, guests)',
         \A g \in Headers : SameRole(t, g),
         \A u \in Callers \ {t} : req'[u] = req[u],
         \A u \in Threads \ {t} : stage'[u] = stage[u] /\ want'[u] = want[u],
         UNCHANGED <<header, allocated, batchList, usb, outcome, late, outstanding>>,
         outstanding \subseteq Indices,
         Single(t)' <=> Single(t), Single(t) => local'[t].i = local[t].i,
         \A i \in Indices : Alone(i) /\ usb[i].ctx.r = t /\ t \notin guests =>
            pc'[t] = "returned" /\ req'[t] = req[t],
         \A g \in Headers : Filled(g) /\ header[g].Request = t =>
            /\ req'[t].n = req[t].n
            /\ pc'[t] \notin {"idle", "alloc", "fill"}
            /\ Live(g) => /\ req'[t].completions = req[t].completions
                          /\ pc'[t] \in Loop => local'[t].h = g,
         t \in Callers /\ ~late => ReportOK(t)',
         \A g \in Headers : \/ NotOf(t, g) /\ NotOf(t, g)'
                            \/ ~late => StatusOK(g)'
  PROVE  WriteIInv(apart, guests)'
<1>1. /\ \A u \in Threads : ThreadOK(u)
      /\ \A g \in Headers : Taken(g)' <=> Taken(g)
      /\ \A i \in Indices, g \in Headers : Flies(i, g)' <=> Flies(i, g)
  BY DEF WriteIInv, Taken, Flies
<1>2. \A g \in Headers, k \in Positions : Has(g, k)' <=> Has(g, k)
  BY <1>1, RolesKept
<1>3. \A i \in Indices : Alone(i)' <=> Alone(i)
  BY DEF Alone
<1>4. PlacesOK' /\ AllPlaced(apart)'
  <2>1. \A u \in Threads : /\ Single(u)' <=> Single(u)
                           /\ Single(u) => local'[u].i = local[u].i
    BY DEF Single, OthersStay
  <2>2. PlacesOK /\ AllPlaced(apart)
    BY DEF WriteIInv
  <2>3. outstanding' = outstanding /\ header' = header
    OBVIOUS
  <2>. QED
    BY <1>2, <1>3, <2>1, <2>2, <2>3, PlacesKept
<1>. QED
  BY <1>4, GuestStep

\* Who is not idle is no guest.
LEMMA NoGuest ==
  ASSUME NEW apart, NEW guests, WriteIInv(apart, guests), NEW t \in Threads, pc[t] # "idle"
  PROVE  t \notin guests
BY DEF WriteIInv, StageMatches

-----------------------------------------------------------------------------
(* What the helpers do. *)

\* Going elsewhere.
LEMMA GotoParts ==
  ASSUME VarTypes, NEW t \in Threads, NEW l \in PCs, Goto(t, l)
  PROVE  pc' \in [Threads -> PCs] /\ pc'[t] = l /\ \A u \in Threads \ {t} : pc'[u] = pc[u]
BY TypeParts DEF Goto

\* New locals.
LEMMA LocalParts ==
  ASSUME VarTypes, NEW t \in Threads, NEW x \in Locals, local' = [local EXCEPT ![t] = x]
  PROVE  /\ local' \in [Threads -> Locals] /\ local'[t] = x
         /\ \A u \in Threads \ {t} : local'[u] = local[u]
BY TypeParts

\* Returning from the dispatch, or from the completion routine.
LEMMA ReturnParts ==
  ASSUME NEW guests, VarTypes, NEW t \in Threads, Return(t)
  PROVE  /\ pc' \in [Threads -> PCs] /\ local' \in [Threads -> Locals]
         /\ pc'[t] = AtRest(t) /\ pc'[t] \in {"idle", "returned"} /\ local'[t] = NoWork
         /\ OthersStay(t)
         /\ \A g \in Headers : NotOf(t, g)'
         /\ ~Single(t)'
         /\ stage'[t] = "out" /\ t \notin guests => StageMatches(t, guests)'
         /\ (pc'[t] = "idle" => t \notin Callers)
         /\ ThreadOK(t)'
<1>1. NoWork \in Locals
  BY Constants DEF NoWork, Locals
<1>2. AtRest(t) \in {"idle", "returned"} /\ AtRest(t) \in PCs
  BY DEF AtRest, PCs
<1>3. Goto(t, AtRest(t)) /\ local' = [local EXCEPT ![t] = NoWork]
  BY DEF Return
<1>4. pc' \in [Threads -> PCs] /\ pc'[t] = AtRest(t) /\ \A u \in Threads \ {t} : pc'[u] = pc[u]
  BY <1>2, <1>3, GotoParts
<1>5. /\ local' \in [Threads -> Locals] /\ local'[t] = NoWork
      /\ \A u \in Threads \ {t} : local'[u] = local[u]
  BY <1>1, <1>3, LocalParts
<1>6. NoWork.h = NoHeader
  BY DEF NoWork
<1>7. \A g \in Headers : NotOf(t, g)'
  BY <1>5, <1>6, Constants DEF NotOf, Works, Begins, Sends, Ends, Counts
<1>8. ~Single(t)'
  BY <1>2, <1>4 DEF Single
<1>9. stage'[t] = "out" /\ t \notin guests => StageMatches(t, guests)'
  BY <1>2, <1>4 DEF StageMatches
<1>10. /\ pc'[t] = "idle" => t \notin Callers
       /\ pc'[t] = "returned" => t \in Callers
  BY <1>4 DEF AtRest
<1>11. ThreadOK(t)'
  BY <1>2, <1>4, <1>5, <1>10 DEF ThreadOK, Loop
<1>. QED
  BY <1>2, <1>4, <1>5, <1>7, <1>8, <1>9, <1>10, <1>11 DEF OthersStay

\* Completing a request.
LEMMA CompleteParts ==
  ASSUME VarTypes, NEW c \in Callers, NEW s \in BOOLEAN, NEW m \in 0..MaxAlloc,
         Complete(c, s, m), req[c].completions = 0
  PROVE  /\ req' \in [Callers -> Reqs]
         /\ req'[c].completions = 1 /\ req'[c].ok = s /\ req'[c].info = m /\ req'[c].n = req[c].n
         /\ \A u \in Callers \ {c} : req'[u] = req[u]
<1> DEFINE a == [req EXCEPT ![c].completions = 1]
           b == [a EXCEPT ![c].ok = s]
           d == [b EXCEPT ![c].info = m]
<1>1. req \in [Callers -> Reqs] /\ req[c] \in Reqs
  BY TypeParts
<1>2. req' = d
  BY <1>1 DEF Complete
<1>3. /\ a \in [Callers -> Reqs] /\ a[c].completions = 1 /\ a[c].n = req[c].n
      /\ \A u \in Callers \ {c} : a[u] = req[u]
  BY <1>1 DEF Reqs
<1> HIDE DEF a
<1>4. /\ b \in [Callers -> Reqs] /\ b[c].completions = 1 /\ b[c].n = req[c].n /\ b[c].ok = s
      /\ \A u \in Callers \ {c} : b[u] = req[u]
  BY <1>3 DEF Reqs
<1> HIDE DEF b
<1>5. /\ d \in [Callers -> Reqs] /\ d[c].completions = 1 /\ d[c].n = req[c].n /\ d[c].ok = s
      /\ d[c].info = m
      /\ \A u \in Callers \ {c} : d[u] = req[u]
  BY <1>4 DEF Reqs
<1> HIDE DEF d
<1>. QED
  BY <1>2, <1>5

-----------------------------------------------------------------------------
(* Each action keeps the invariant. *)

\* Starting the pool, and taking a permit.
LEMMA PoolOnlyKeeps ==
  ASSUME NEW apart, NEW guests, WriteIInv(apart, guests), PowerUp \/ \E c \in Callers : Wait(c)
  PROVE  WriteIInv(apart, guests)'
<1>1. UNCHANGED writeVars
  BY DEF PowerUp, Wait
<1>2. UNCHANGED <<outstanding, stage, want>>
  BY DEF PowerUp, PoolInit, Wait, AllocWait
<1>. QED
  BY <1>1, <1>2, NothingChanges

\* Completing a request at once.
LEMMA RefuseKeeps ==
  ASSUME NEW apart, NEW guests, TypeOK, WriteIInv(apart, guests), NEW c \in Callers \ guests, NEW s \in BOOLEAN,
         pc[c] = "idle", Complete(c, s, 0), Goto(c, "returned"),
         UNCHANGED <<poolVars, local, header, allocated, batchList, usb, outcome, late>>
  PROVE  WriteIInv(apart, guests)'
<1>1. VarTypes /\ ThreadOK(c) /\ StageMatches(c, guests) /\ c \in Threads
  BY Constants DEF WriteIInv
<1>2. local[c] = NoWork /\ req[c].completions = 0 /\ req[c].n = 0 /\ stage[c] = "out"
  BY <1>1 DEF ThreadOK, StageMatches
<1>3. "returned" \in PCs /\ 0 \in 0..MaxAlloc
  BY Constants DEF PCs
<1>4. pc' \in [Threads -> PCs] /\ pc'[c] = "returned" /\ \A u \in Threads \ {c} : pc'[u] = pc[u]
  BY <1>1, <1>3, GotoParts
<1>5. /\ req' \in [Callers -> Reqs]
      /\ req'[c].completions = 1 /\ req'[c].n = req[c].n
      /\ \A u \in Callers \ {c} : req'[u] = req[u]
  BY <1>1, <1>2, <1>3, CompleteParts
<1>6. VarTypes'
  BY <1>1, <1>4, <1>5 DEF VarTypes
<1>7. OthersStay(c)
  BY <1>4 DEF OthersStay
<1>8. UNCHANGED <<local, header, allocated, batchList, usb, outcome, late, outstanding, stage, want>>
  BY DEF poolVars
<1>9. local'[c] = NoWork
  BY <1>2, <1>8
<1>10. ThreadOK(c)' /\ StageMatches(c, guests)'
  BY <1>2, <1>4, <1>5, <1>8, <1>9 DEF ThreadOK, StageMatches, Loop
<1>11. NoWork.h = NoHeader
  BY DEF NoWork
<1>12. \A g \in Headers : NotOf(c, g) /\ NotOf(c, g)'
  BY <1>2, <1>9, <1>11, Constants DEF NotOf, Works, Begins, Sends, Ends, Counts
<1>13. ~Single(c) /\ ~Single(c)'
  BY <1>4 DEF Single
<1>14. \A i \in Indices : ~(Alone(i) /\ usb[i].ctx.r = c)
  BY DEF WriteIInv, AloneOK
<1>15. \A g \in Headers : ~(Filled(g) /\ header[g].Request = c)
  BY DEF WriteIInv, BatchOK
<1>16. ReportOK(c)'
  BY <1>2, <1>5 DEF ReportOK
<1>17. \A g \in Headers : SameRole(c, g)
  BY <1>12, NoRole
<1>18. outstanding \subseteq Indices
  BY DEF TypeOK
<1>. QED
  BY <1>1, <1>5, <1>6, <1>7, <1>8, <1>10, <1>12, <1>13, <1>14, <1>15, <1>16, <1>17, <1>18, QuietStep

\* A standalone write begins.
LEMMA StartStandaloneKeeps ==
  ASSUME NEW apart, NEW guests, TypeOK, WriteIInv(apart, guests), NEW c \in Callers \ guests, StartStandalone(c)
  PROVE  WriteIInv(apart, guests)'
<1>1. VarTypes /\ ThreadOK(c) /\ StageMatches(c, guests) /\ c \in Threads
  BY Constants DEF WriteIInv
<1>2. /\ pc[c] = "idle" /\ local[c] = NoWork /\ req[c].completions = 0 /\ stage[c] = "out"
      /\ \A k \in Positions : outcome[c][k] = "none"
  BY <1>1 DEF ThreadOK, StageMatches, StartStandalone
<1>3. PICK x : x = [NoWork EXCEPT !.r = c, !.k = 1]
  OBVIOUS
<1>4. x \in Locals /\ x.h = NoHeader /\ x.k = 1
  <2>1. x = [r |-> c, h |-> NoHeader, i |-> 0, k |-> 1, ok |-> TRUE]
    BY <1>3 DEF NoWork
  <2>2. 1 \in 0..(MaxAlloc + 1) /\ 0 \in Indices
    BY Constants
  <2>. QED
    BY <2>1, <2>2 DEF Locals
<1>5. /\ local' \in [Threads -> Locals] /\ local'[c] = x
      /\ \A u \in Threads \ {c} : local'[u] = local[u]
  <2>1. local' = [local EXCEPT ![c] = x]
    BY <1>3 DEF StartStandalone
  <2>. QED
    BY <1>1, <1>4, <2>1, LocalParts
<1>6. pc' \in [Threads -> PCs] /\ pc'[c] = "alloc" /\ \A u \in Threads \ {c} : pc'[u] = pc[u]
  <2>1. "alloc" \in PCs /\ Goto(c, "alloc")
    BY DEF PCs, StartStandalone
  <2>. QED
    BY <1>1, <2>1, GotoParts
<1>7. /\ req' \in [Callers -> Reqs]
      /\ req'[c].completions = 0 /\ req'[c].n = 1
      /\ \A u \in Callers \ {c} : req'[u] = req[u]
  <2>1. req \in [Callers -> Reqs] /\ req' = [req EXCEPT ![c].n = 1] /\ 1 \in 0..MaxAlloc
    BY <1>1, TypeParts, Constants DEF StartStandalone
  <2>. QED
    BY <1>2, <2>1 DEF Reqs
<1>8. UNCHANGED <<header, allocated, batchList, usb, outcome, late, outstanding>>
  BY DEF StartStandalone, AllocBegin
<1>9. /\ stage'[c] = "alloc" /\ want'[c] = 1
      /\ \A u \in Threads \ {c} : stage'[u] = stage[u] /\ want'[u] = want[u]
  <2>1. /\ stage' = [stage EXCEPT ![c] = "alloc"] /\ want' = [want EXCEPT ![c] = 1]
        /\ DOMAIN stage = Threads /\ DOMAIN want = Threads
    BY DEF StartStandalone, AllocBegin, TypeOK
  <2>. QED
    BY <1>1, <2>1
<1>10. VarTypes'
  BY <1>1, <1>5, <1>6, <1>7, <1>8 DEF VarTypes
<1>11. OthersStay(c)
  BY <1>5, <1>6 DEF OthersStay
<1>12. ThreadOK(c)' /\ StageMatches(c, guests)'
  BY <1>2, <1>4, <1>5, <1>6, <1>7, <1>8, <1>9 DEF ThreadOK, StageMatches, Loop
<1>13. NoWork.h = NoHeader
  BY DEF NoWork
<1>14. \A g \in Headers : NotOf(c, g) /\ NotOf(c, g)'
  BY <1>2, <1>4, <1>5, <1>13, Constants DEF NotOf, Works, Begins, Sends, Ends, Counts
<1>15. ~Single(c) /\ ~Single(c)'
  BY <1>2, <1>6 DEF Single
<1>16. \A i \in Indices : ~(Alone(i) /\ usb[i].ctx.r = c)
  BY <1>2 DEF WriteIInv, AloneOK
<1>17. \A g \in Headers : ~(Filled(g) /\ header[g].Request = c)
  BY <1>2 DEF WriteIInv, BatchOK
<1>18. ReportOK(c)'
  BY <1>7 DEF ReportOK
<1>19. \A g \in Headers : SameRole(c, g)
  BY <1>14, NoRole
<1>20. outstanding \subseteq Indices
  BY DEF TypeOK
<1>. QED
  BY <1>1, <1>7, <1>8, <1>9, <1>10, <1>11, <1>12, <1>14, <1>15, <1>16, <1>17, <1>18, <1>19, <1>20,
     QuietStep

\* Going on with the next message, or leaving the loop.
LEMMA CheckKeeps ==
  ASSUME NEW apart, NEW guests, TypeOK, WriteIInv(apart, guests), ~Reread, NEW c \in Callers, Check(c)
  PROVE  WriteIInv(apart, guests)'
<1> DEFINE good == local[c].ok
           sent == IF good THEN local[c].k ELSE local[c].k - 1
           next == IF good /\ sent < req[c].n THEN "send" ELSE "settle"
           h == local[c].h
<1>1. VarTypes /\ ThreadOK(c) /\ StageMatches(c, guests) /\ c \in Threads
  BY Constants DEF WriteIInv
<1>2. pc[c] = "check" /\ local' = [local EXCEPT ![c].k = sent + 1] /\ Goto(c, next)
  BY DEF Check
<1>3. /\ h # NoHeader /\ h \in Headers /\ 2 <= req[c].n /\ req[c].n <= MaxAlloc /\ req[c].n \in Nat
      /\ local[c].k \in Nat /\ 1 <= local[c].k /\ local[c].k <= req[c].n /\ good \in BOOLEAN
      /\ stage[c] = "out"
  <2>1. /\ h # NoHeader /\ 1 <= req[c].n /\ (req[c].n = 1 <=> local[c].h = NoHeader)
        /\ 1 <= local[c].k /\ local[c].k <= req[c].n /\ stage[c] = "out"
    BY <1>1, <1>2 DEF ThreadOK, StageMatches, Loop
  <2>2. /\ h \in Headers \cup {NoHeader} /\ req[c].n \in Nat /\ req[c].n <= MaxAlloc
        /\ local[c].k \in Nat /\ good \in BOOLEAN
    BY <1>1, FieldTypes
  <2>. QED
    BY <2>1, <2>2
<1>4. sent \in Nat /\ sent <= req[c].n /\ Sent(c) = sent
  BY <1>2, <1>3 DEF Sent
<1>5. next \in {"send", "settle"} /\ (next = "send" => sent < req[c].n)
  OBVIOUS
<1> HIDE DEF next
<1>6. pc' \in [Threads -> PCs] /\ pc'[c] = next /\ \A u \in Threads \ {c} : pc'[u] = pc[u]
  <2>1. next \in PCs
    BY <1>5 DEF PCs
  <2>. QED
    BY <1>1, <1>2, <2>1, GotoParts
<1>7. /\ local' \in [Threads -> Locals]
      /\ local'[c].k = sent + 1 /\ local'[c].h = h /\ local'[c].i = local[c].i
      /\ \A u \in Threads \ {c} : local'[u] = local[u]
  <2>1. sent + 1 \in 0..(MaxAlloc + 1)
    BY <1>3, <1>4, Constants
  <2>2. local \in [Threads -> Locals]
    BY <1>1, TypeParts
  <2>. QED
    BY <1>1, <1>2, <2>1, <2>2 DEF Locals
<1>8. UNCHANGED <<req, header, allocated, batchList, usb, outcome, late, outstanding, stage, want>>
  BY DEF Check, poolVars
<1>9. VarTypes'
  BY <1>1, <1>6, <1>7, <1>8 DEF VarTypes
<1>10. OthersStay(c)
  BY <1>6, <1>7 DEF OthersStay
<1>11. Sent(c)' = sent
  BY <1>4, <1>5, <1>6, <1>7 DEF Sent
<1>12. ThreadOK(c)'
  <2>1. /\ 1 <= sent + 1 /\ sent + 1 <= req[c].n + 1
        /\ next = "send" => sent + 1 <= req[c].n
    BY <1>3, <1>4, <1>5
  <2>2. req'[c].n = req[c].n /\ (req[c].n = 1 <=> h = NoHeader) /\ 1 <= req[c].n
    BY <1>3, <1>8
  <2>. QED
    BY <1>3, <1>5, <1>6, <1>7, <2>1, <2>2 DEF ThreadOK, Loop
<1>13. StageMatches(c, guests)'
  BY <1>1, <1>2, <1>3, <1>5, <1>6, <1>8 DEF StageMatches
<1>14. ASSUME NEW g \in Headers
       PROVE  /\ SameRole(c, g)
              /\ Sends(c, g) <=> g = h /\ sent < req[c].n
              /\ ~Sends(c, g) => NotOf(c, g) /\ NotOf(c, g)'
  <2>1. req'[c].n = req[c].n
    BY <1>8
  <2>2. /\ ~Begins(c, g) /\ ~Begins(c, g)' /\ ~Ends(c, g) /\ ~Ends(c, g)'
        /\ ~Counts(c, g) /\ ~Counts(c, g)'
    BY <1>2, <1>5, <1>6 DEF Begins, Ends, Counts
  <2>3. /\ Sends(c, g) <=> g = h /\ sent < req[c].n
        /\ Sends(c, g)' <=> g = h /\ sent < req[c].n
    BY <1>2, <1>4, <1>5, <1>6, <1>7, <1>11, <2>1 DEF Sends, Loop
  <2>. QED
    BY <1>4, <1>11, <2>1, <2>2, <2>3 DEF SameRole, NotOf, Works
<1>15. ~Single(c) /\ ~Single(c)'
  BY <1>3, <1>7 DEF Single
<1>16. \A i \in Indices : ~(Alone(i) /\ usb[i].ctx.r = c)
  BY <1>1, <1>2, NoGuest DEF WriteIInv, AloneOK
<1>17. \A g \in Headers : Filled(g) /\ header[g].Request = c =>
          /\ req'[c].n = req[c].n
          /\ pc'[c] \notin {"idle", "alloc", "fill"}
          /\ Live(g) => /\ req'[c].completions = req[c].completions
                        /\ pc'[c] \in Loop => local'[c].h = g
  BY <1>2, <1>5, <1>6, <1>7, <1>8 DEF WriteIInv, BatchOK, Loop
<1>18. ~late => ReportOK(c)'
  BY <1>8 DEF WriteIInv, ReportOK
<1>19. ASSUME NEW g \in Headers, ~late, Sends(c, g) PROVE StatusOK(g)'
  <2>1. g = h /\ sent < req[c].n
    BY <1>14, <1>19
  <2>2. Live(g) /\ header[g].Request = c /\ header[g].Count = req[c].n
    BY <1>1, <1>19, WhenItSends
  <2>3. StatusOK(g)
    BY <1>19 DEF WriteIInv
  <2>4. Sends(c, g)'
    BY <1>14, <1>19 DEF SameRole
  <2>5. ASSUME NEW k \in 1..header[g].Count, outcome[c][k] \in Ended
        PROVE  header[g].UsbRequestStatuses[k] <=> outcome[c][k] = "ok"
    BY <1>2, <2>2, <2>3, <2>5 DEF StatusOK
  <2>6. \A k \in 1..sent : outcome[c][k] # "none"
    BY <1>4, <1>19, <2>2, <2>3 DEF StatusOK
  <2>7. next = "settle" => outcome[c][sent + 1] = "failed"
    <3>1. next = "settle" => ~good
      BY <2>1 DEF next
    <3>. QED
      BY <1>2, <1>4, <1>19, <2>2, <2>3, <3>1 DEF StatusOK
  <2>8. next # "settle" => next = "send"
    BY <1>5
  <2>. QED
    BY <1>1, <1>6, <1>8, <1>11, <2>2, <2>4, <2>5, <2>6, <2>7, <2>8 DEF StatusOK
<1>20. outstanding \subseteq Indices
  BY DEF TypeOK
<1>21. /\ \A g \in Headers : SameRole(c, g)
       /\ \A g \in Headers : \/ NotOf(c, g) /\ NotOf(c, g)'
                             \/ ~late => StatusOK(g)'
  BY <1>14, <1>19
<1>. QED
  BY <1>1, <1>8, <1>9, <1>10, <1>12, <1>13, <1>15, <1>16, <1>17, <1>18, <1>20, <1>21, QuietStep

\* Releasing the semaphore.
LEMMA ReleaseKeeps ==
  ASSUME NEW apart, NEW guests, TypeOK, WriteIInv(apart, guests), NEW t \in Threads, Release(t)
  PROVE  WriteIInv(apart, guests)'
<1>1. VarTypes /\ ThreadOK(t) /\ StageMatches(t, guests)
  BY DEF WriteIInv
<1>2. pc[t] = "release" /\ stage[t] = "free" /\ local[t].h \in Headers \cup {NoHeader}
  BY <1>1, FieldTypes DEF Release, FreeRelease
<1>3. /\ stage'[t] = "out" /\ want' = want
      /\ \A u \in Threads \ {t} : stage'[u] = stage[u]
  BY DEF Release, FreeRelease, TypeOK
<1>4. UNCHANGED <<header, allocated, batchList, usb, outcome, late, outstanding>>
  BY DEF Release, FreeRelease
<1>5. outstanding \subseteq Indices
  BY DEF TypeOK
<1>6. ~Single(t)
  BY <1>2 DEF Single
<1>7. \A i \in Indices : ~(Alone(i) /\ usb[i].ctx.r = t)
  BY <1>1, <1>2, NoGuest DEF WriteIInv, AloneOK
<1>8. CASE IsBatch(t)
  <2>1. local' = local /\ req' = req /\ Goto(t, "recycle")
    BY <1>8 DEF Release
  <2>2. pc' \in [Threads -> PCs] /\ pc'[t] = "recycle" /\ \A u \in Threads \ {t} : pc'[u] = pc[u]
    <3>1. "recycle" \in PCs
      BY DEF PCs
    <3>. QED
      BY <1>1, <2>1, <3>1, GotoParts
  <2>3. VarTypes'
    BY <1>1, <1>4, <2>1, <2>2 DEF VarTypes
  <2>4. OthersStay(t)
    BY <2>1, <2>2 DEF OthersStay
  <2>5. ThreadOK(t)' /\ StageMatches(t, guests)'
    BY <1>1, <1>2, <1>3, <1>8, <2>1, <2>2 DEF ThreadOK, StageMatches, Loop, IsBatch
  <2>6. \A g \in Headers : /\ SameRole(t, g)
                           /\ Ends(t, g) <=> local[t].h = g
                           /\ ~Ends(t, g) => NotOf(t, g) /\ NotOf(t, g)'
    BY <1>2, <2>1, <2>2 DEF SameRole, Begins, Sends, Counts, Ends, NotOf, Works, Loop
  <2>7. ~Single(t)'
    BY <2>2 DEF Single
  <2>8. \A g \in Headers : Filled(g) /\ header[g].Request = t =>
            /\ req'[t].n = req[t].n
            /\ pc'[t] \notin {"idle", "alloc", "fill"}
            /\ Live(g) => /\ req'[t].completions = req[t].completions
                          /\ pc'[t] \in Loop => local'[t].h = g
    BY <2>1, <2>2 DEF Loop
  <2>9. t \in Callers /\ ~late => ReportOK(t)'
    BY <1>4, <2>1 DEF WriteIInv, ReportOK
  <2>10. ASSUME NEW g \in Headers, Ends(t, g) PROVE StatusOK(g)'
    <3>1. ~Live(g)'
      BY <2>2, <2>6, <2>10 DEF Live, SameRole
    <3>. QED
      BY <3>1 DEF StatusOK
  <2>11. /\ \A g \in Headers : SameRole(t, g)
         /\ \A g \in Headers : \/ NotOf(t, g) /\ NotOf(t, g)'
                               \/ ~late => StatusOK(g)'
    BY <2>6, <2>10
  <2>. QED
    BY <1>3, <1>4, <1>5, <1>6, <1>7, <2>1, <2>3, <2>4, <2>5, <2>7, <2>8, <2>9, <2>11, QuietStep
<1>9. CASE ~IsBatch(t)
  <2>1. Return(t) /\ (IF t \in Callers THEN Complete(t, FALSE, 0) ELSE req' = req)
    BY <1>9 DEF Release
  <2>2. /\ pc' \in [Threads -> PCs] /\ local' \in [Threads -> Locals]
        /\ pc'[t] \in {"idle", "returned"} /\ pc'[t] = AtRest(t)
        /\ OthersStay(t) /\ (\A g \in Headers : NotOf(t, g)') /\ ~Single(t)'
        /\ StageMatches(t, guests)' /\ ThreadOK(t)'
    BY <1>1, <1>2, <1>3, <2>1, ReturnParts, NoGuest
  <2>3. local[t].h = NoHeader
    BY <1>9 DEF IsBatch
  <2>4. t \in Callers => req[t].completions = 0 /\ req[t].n = 1
    BY <1>1, <1>2, <2>3 DEF ThreadOK
  <2>5. /\ req' \in [Callers -> Reqs]
        /\ \A u \in Callers \ {t} : req'[u] = req[u]
        /\ t \in Callers => req'[t].n = 1
    <3>1. CASE t \in Callers
      <4>1. FALSE \in BOOLEAN /\ 0 \in 0..MaxAlloc
        BY Constants
      <4>. QED
        BY <1>1, <2>1, <2>4, <3>1, <4>1, CompleteParts
    <3>2. CASE t \notin Callers
      BY <1>1, <2>1, <3>2, TypeParts
    <3>. QED
      BY <3>1, <3>2
  <2>6. VarTypes'
    BY <1>1, <1>4, <2>2, <2>5 DEF VarTypes
  <2>7. \A g \in Headers : NotOf(t, g)
    BY <1>2, <2>3, Constants DEF NotOf, Works, Begins, Sends, Ends, Counts
  <2>8. \A g \in Headers : SameRole(t, g)
    BY <2>2, <2>7, NoRole
  <2>9. \A g \in Headers : ~(Filled(g) /\ header[g].Request = t)
    <3> SUFFICES ASSUME NEW g \in Headers, Filled(g), header[g].Request = t PROVE FALSE
      OBVIOUS
    <3>1. t \in Callers /\ 2 <= header[g].Count /\ header[g].Count = req[t].n
      BY DEF WriteIInv, BatchOK
    <3>. QED
      BY <2>4, <3>1
  <2>10. t \in Callers => ReportOK(t)'
    BY <2>5 DEF ReportOK
  <2>. QED
    BY <1>3, <1>4, <1>5, <1>6, <1>7, <2>2, <2>5, <2>6, <2>7, <2>8, <2>9, <2>10, QuietStep
<1>. QED
  BY <1>8, <1>9

\* A step of thread t on header h leaves header g as it was.
LEMMA OtherHeader ==
  ASSUME NEW apart, NEW guests, WriteIInv(apart, guests), NEW t \in Threads, NEW g \in Headers, OthersStay(t),
         NotOf(t, g), NotOf(t, g)',
         Taken(g)' <=> Taken(g), header'[g] = header[g],
         \A u \in Callers \ {t} : req'[u].n = req[u].n,
         \A i \in Indices : Flies(i, g)' <=> Flies(i, g),
         \A i \in Indices : Flies(i, g) => usb'[i] = usb[i],
         Filled(g) /\ header[g].Request = t =>
            req'[t].n = req[t].n /\ pc'[t] \notin {"idle", "alloc", "fill"},
         Live(g) /\ header[g].Request = t => (pc'[t] \in Loop => local'[t].h = g),
         Live(g) => /\ req'[header[g].Request].completions = req[header[g].Request].completions
                    /\ outcome'[header[g].Request] = outcome[header[g].Request]
  PROVE  /\ UseOK(g)' /\ PendingOK(g)' /\ BatchOK(g)' /\ FlightOK(g)'
         /\ StatusOK(g) => StatusOK(g)'
         /\ Live(g)' <=> Live(g)
         /\ \A k \in Positions : Has(g, k)' <=> Has(g, k)
<1>1. SameRole(t, g)
  BY NoRole
<1>2. \A u \in Threads : ThreadOK(u)
  BY DEF WriteIInv
<1>3. /\ Live(g)' <=> Live(g)
      /\ \A k \in Positions : Has(g, k)' <=> Has(g, k)
  BY <1>1, <1>2, RolesKept
<1>4. ASSUME Filled(g)
      PROVE  /\ header[g].Request \in Callers
             /\ pc[header[g].Request] \notin {"idle", "alloc", "fill"}
             /\ Live(g) => /\ pc[header[g].Request] \in Loop => local[header[g].Request].h = g
  BY <1>4 DEF WriteIInv, BatchOK
<1>5. Filled(g) => /\ req'[header[g].Request].n = req[header[g].Request].n
                   /\ pc'[header[g].Request] \notin {"idle", "alloc", "fill"}
  BY <1>4, Constants DEF OthersStay
<1>6. Live(g) => /\ req'[header[g].Request].completions = req[header[g].Request].completions
                 /\ pc'[header[g].Request] \in Loop => local'[header[g].Request].h = g
  BY <1>4, Constants DEF OthersStay, Live
<1>7. \A i \in Indices : Flies(i, g) =>
         /\ usb'[i] = usb[i]
         /\ outcome'[usb[i].ctx.r][usb[i].ctx.k] = outcome[usb[i].ctx.r][usb[i].ctx.k]
  BY WhenItFlies
<1>8. UseOK(g)' /\ PendingOK(g)' /\ BatchOK(g)' /\ FlightOK(g)'
  BY <1>1, <1>5, <1>6, <1>7, HeaderKept
<1>9. StatusOK(g) => StatusOK(g)'
  BY StatusKept
<1>. QED
  BY <1>3, <1>8, <1>9

\* The others' parts.
LEMMA OthersRoles ==
  ASSUME NEW apart, NEW guests, WriteIInv(apart, guests), NEW t \in Threads, OthersStay(t),
         \A u \in Callers \ {t} : req'[u].n = req[u].n
  PROVE  \A u \in Threads \ {t}, h \in Headers :
           /\ Begins(u, h)' <=> Begins(u, h)
           /\ Sends(u, h)' <=> Sends(u, h)
           /\ Counts(u, h)' <=> Counts(u, h)
           /\ Ends(u, h)' <=> Ends(u, h)
           /\ Works(u, h)' <=> Works(u, h)
           /\ Sends(u, h) => Sent(u)' = Sent(u) /\ req'[u].n = req[u].n
<1> SUFFICES ASSUME NEW u \in Threads \ {t}, NEW h \in Headers
             PROVE  /\ Begins(u, h)' <=> Begins(u, h)
                    /\ Sends(u, h)' <=> Sends(u, h)
                    /\ Counts(u, h)' <=> Counts(u, h)
                    /\ Ends(u, h)' <=> Ends(u, h)
                    /\ Works(u, h)' <=> Works(u, h)
                    /\ Sends(u, h) => Sent(u)' = Sent(u) /\ req'[u].n = req[u].n
  OBVIOUS
<1>1. pc'[u] = pc[u] /\ local'[u] = local[u]
  BY DEF OthersStay
<1>2. pc[u] \in Loop => u \in Callers
  BY DEF WriteIInv, ThreadOK
<1>3. pc[u] \in Loop => req'[u].n = req[u].n
  BY <1>2
<1>. QED
  BY <1>1, <1>3 DEF Begins, Sends, Counts, Ends, Works, Sent

\* The positions of header h, if t neither is nor comes to be filling it.
LEMMA PositionsKept ==
  ASSUME NEW apart, NEW guests, WriteIInv(apart, guests), NEW t \in Threads, NEW h \in Headers, OthersStay(t),
         \A u \in Callers \ {t} : req'[u].n = req[u].n,
         pc[t] # "fill", pc'[t] # "fill",
         Armed(h)' <=> Armed(h), header'[h].Count = header[h].Count
  PROVE  \A k \in Positions : Has(h, k)' <=> Has(h, k)
<1>1. \A u \in Threads : pc[u] = "fill" => u \in Callers \ {t}
  BY DEF WriteIInv, ThreadOK
<1>2. \A u \in Threads : (local'[u].h = h /\ pc'[u] = "fill") <=> (local[u].h = h /\ pc[u] = "fill")
  BY DEF OthersStay
<1>. QED
  BY <1>1, <1>2 DEF Has

\* A batch that is ending goes on ending.
LEMMA StillEnding ==
  ASSUME NEW apart, NEW guests, WriteIInv(apart, guests), NEW t \in Threads, NEW h \in Headers, OthersStay(t),
         Ends(t, h), Ends(t, h)', pc'[t] # "finalize",
         UNCHANGED <<allocated, batchList, usb>>,
         header'[h].Request = header[h].Request, header'[h].Count = header[h].Count,
         \A u \in Callers : req'[u].n = req[u].n
  PROVE  /\ UseOK(h)' /\ PendingOK(h)' /\ BatchOK(h)' /\ FlightOK(h)' /\ StatusOK(h)'
         /\ ~Live(h)' /\ (Armed(h)' <=> pc'[t] = "push")
<1>1. /\ Taken(h)
      /\ \A u \in Threads : (Works(u, h) => u = t) /\ ~Counts(u, h) /\ ~Sends(u, h)
      /\ \A i \in Indices : ~Flies(i, h)
  BY WhenItBeginsOrEnds
<1>2. /\ Filled(h) /\ header[h].Request \in Callers
      /\ pc[header[h].Request] \notin {"idle", "alloc", "fill"}
      /\ 2 <= header[h].Count /\ header[h].Count = req[header[h].Request].n
  BY WhenItEnds
<1>3. ~Begins(t, h)' /\ ~Sends(t, h)' /\ ~Counts(t, h)' /\ Works(t, h)'
  BY DEF Begins, Sends, Counts, Ends, Works, Loop
<1>4. \A u \in Threads : /\ Works(u, h)' => u = t
                         /\ ~Counts(u, h)' /\ ~Sends(u, h)' /\ ~Begins(u, h)'
  <2>1. \A u \in Threads \ {t} :
           /\ Begins(u, h)' <=> Begins(u, h)
           /\ Sends(u, h)' <=> Sends(u, h)
           /\ Counts(u, h)' <=> Counts(u, h)
           /\ Works(u, h)' <=> Works(u, h)
    BY OthersRoles
  <2>. QED
    BY <1>1, <1>3, <2>1 DEF Works
<1>5. \A u \in Threads : Ends(u, h)' => u = t
  BY <1>4 DEF Works
<1>6. Taken(h)' /\ Filled(h)'
  BY <1>1, <1>4 DEF Taken, Filled
<1>7. ~Live(h)'
  BY DEF Live
<1>8. Armed(h)' <=> pc'[t] = "push"
  BY <1>5, <1>6 DEF Armed
<1>9. \A i \in Indices : ~Flies(i, h)'
  BY <1>1 DEF Flies
<1>10. Flying(h)' = {} /\ Counting(h)' = {}
  BY <1>4, <1>9 DEF Flying, Counting
<1>11. UseOK(h)'
  BY <1>3, <1>4, <1>6, <1>9, <1>10 DEF UseOK
<1>12. PendingOK(h)'
  BY <1>3, <1>4 DEF PendingOK
<1>13. BatchOK(h)'
  <2>1. header'[h].Request \in Callers /\ 2 <= header'[h].Count
    BY <1>2
  <2>2. header'[h].Count = req'[header'[h].Request].n
    BY <1>2
  <2>3. pc'[header'[h].Request] \notin {"idle", "alloc", "fill"}
    BY <1>2, Constants DEF OthersStay, Ends
  <2>. QED
    BY <1>4, <1>7, <2>1, <2>2, <2>3 DEF BatchOK
<1>14. FlightOK(h)'
  BY <1>9 DEF FlightOK
<1>15. StatusOK(h)'
  BY <1>7 DEF StatusOK
<1>. QED
  BY <1>7, <1>8, <1>11, <1>12, <1>13, <1>14, <1>15

\* A set of numbers that is not empty has a least one.
LEMMA Least ==
  ASSUME NEW S \in SUBSET Nat, S # {}
  PROVE  \E m \in S : \A k \in S : m <= k
<1>1. \E m \in S : \A k \in S : <<k, m>> \notin OpToRel(<, Nat)
  BY NatLessThanWellFounded, WFMin
<1>2. PICK m \in S : \A k \in S : <<k, m>> \notin OpToRel(<, Nat)
  BY <1>1
<1>3. \A k \in S : ~(k < m)
  BY <1>2 DEF OpToRel
<1>. QED
  BY <1>3

\* Good counts the messages before the first that failed.
LEMMA GoodParts ==
  ASSUME NEW n \in Nat, NEW s
  PROVE  /\ Good(s, n) \in 0..n
         /\ \A k \in 1..Good(s, n) : s[k]
         /\ Good(s, n) # n => Good(s, n) + 1 \in 1..n /\ ~s[Good(s, n) + 1]
<1> DEFINE bad == {k \in 1..n : ~s[k]}
           m == CHOOSE k \in bad : \A j \in bad : k <= j
<1>1. CASE bad = {}
  BY <1>1 DEF Good
<1>2. CASE bad # {}
  <2>1. bad \in SUBSET Nat
    OBVIOUS
  <2>2. \E k \in bad : \A j \in bad : k <= j
    BY <1>2, <2>1, Least
  <2>3. m \in bad /\ \A j \in bad : m <= j
    BY <2>2
  <2>4. Good(s, n) = m - 1
    BY <1>2 DEF Good
  <2> HIDE DEF m
  <2>5. m \in 1..n /\ ~s[m]
    BY <2>3
  <2>6. \A k \in 1..(m - 1) : s[k]
    <3> SUFFICES ASSUME NEW k \in 1..(m - 1), ~s[k] PROVE FALSE
      OBVIOUS
    <3>1. k \in bad
      BY <2>5
    <3>. QED
      BY <2>3, <2>5, <3>1
  <2>. QED
    BY <2>4, <2>5, <2>6
<1>. QED
  BY <1>1, <1>2

\* What the statuses of a batch that has ended say is true.
LEMMA TrueReport ==
  ASSUME NEW apart, NEW guests, WriteIInv(apart, guests), ~late, NEW t \in Threads, NEW h \in Headers, Ends(t, h), pc[t] = "finalize"
  PROVE  LET c == header[h].Request
             n == header[h].Count
             good == Good(header[h].UsbRequestStatuses, n)
         IN /\ \A k \in 1..good : outcome[c][k] = "ok"
            /\ good # n => outcome[c][good + 1] \in {"short", "failed"}
<1> DEFINE c == header[h].Request
           n == header[h].Count
           s == header[h].UsbRequestStatuses
           good == Good(s, n)
<1>1. Live(h) /\ c \in Callers /\ n = req[c].n /\ 2 <= n /\ n <= MaxAlloc /\ n \in Nat
  BY WhenItEnds, FieldTypes DEF WriteIInv
<1>2. /\ \A u \in Threads : ~Sends(u, h)
      /\ \A i \in Indices : ~Flies(i, h)
  BY WhenItBeginsOrEnds
<1>3. 1..n \subseteq Positions
  BY <1>1, Constants DEF Positions
<1>4. ASSUME NEW k \in 1..n
      PROVE  outcome[c][k] # "sent" /\ outcome[c][k] \in Outcomes
  <2>0. c \notin guests
    BY WhenItEnds, NoGuest, Constants
  <2>1. k \in Positions
    BY <1>3
  <2>2. outcome[c][k] \in Outcomes
    BY <1>1, <2>1, TypeParts DEF WriteIInv
  <2>3. SUFFICES ASSUME outcome[c][k] = "sent" PROVE FALSE
    BY <2>2
  <2>4. PICK i \in Indices : usb[i].inFlight /\ usb[i].ctx.r = c /\ usb[i].ctx.k = k
    BY <1>1, <2>1, <2>3 DEF WriteIInv, SentFlies
  <2>5. CASE usb[i].ctx.h = NoHeader
    <3>1. req[c].n = 1
      BY <2>4, <2>5, <2>0 DEF WriteIInv, AloneOK, Alone
    <3>. QED
      BY <1>1, <3>1
  <2>6. CASE usb[i].ctx.h # NoHeader
    <3>1. PICK g \in Headers : g = usb[i].ctx.h
      BY <2>6, FieldTypes DEF WriteIInv
    <3>2. Flies(i, g)
      BY <2>4, <3>1 DEF Flies
    <3>3. Live(g) /\ header[g].Request = c
      BY <2>4, <3>2, WhenItFlies
    <3>4. g = h
      BY <1>1, <3>3 DEF WriteIInv, RequestsOK
    <3>. QED
      BY <1>2, <3>2, <3>4
  <2>. QED
    BY <2>5, <2>6
<1>5. ASSUME NEW k \in 1..n PROVE outcome[c][k] = "none" \/ outcome[c][k] \in Ended
  BY <1>4 DEF Outcomes, Ended
<1>6. StatusOK(h) /\ c \in Threads
  BY <1>1, Constants DEF WriteIInv
<1>7. ASSUME NEW k \in 1..n
      PROVE  /\ outcome[c][k] \in Ended => (s[k] <=> outcome[c][k] = "ok")
             /\ outcome[c][k] = "none" => \E j \in 1..(k - 1) : outcome[c][j] = "failed"
  <2>1. ~Sends(c, h)
    BY <1>2, <1>6
  <2>. QED
    BY <1>1, <1>2, <1>6, <2>1 DEF StatusOK, Gone
<1> HIDE DEF s
<1>8. /\ good \in 0..n
      /\ \A k \in 1..good : s[k]
      /\ good # n => good + 1 \in 1..n /\ ~s[good + 1]
  BY <1>1, GoodParts
<1> HIDE DEF good
<1>9. ASSUME NEW k \in 1..n, \A j \in 1..(k - 1) : s[j] PROVE outcome[c][k] \in Ended
  <2>1. SUFFICES ASSUME outcome[c][k] = "none" PROVE FALSE
    BY <1>5
  <2>2. PICK j \in 1..(k - 1) : outcome[c][j] = "failed"
    BY <1>7, <2>1
  <2>3. j \in 1..n
    BY <1>1
  <2>. QED
    BY <1>7, <1>9, <2>2, <2>3 DEF Ended
<1>10. ASSUME NEW k \in 1..good PROVE outcome[c][k] = "ok"
  <2>1. k \in 1..n /\ s[k] /\ \A j \in 1..(k - 1) : s[j]
    BY <1>1, <1>8
  <2>. QED
    BY <1>7, <1>9, <2>1
<1>11. ASSUME good # n PROVE outcome[c][good + 1] \in {"short", "failed"}
  <2>1. good + 1 \in 1..n /\ ~s[good + 1] /\ \A j \in 1..((good + 1) - 1) : s[j]
    BY <1>8, <1>11
  <2>. QED
    BY <1>7, <1>9, <2>1 DEF Ended
<1>. QED
  BY <1>10, <1>11 DEF good, s

\* Completing the user's request at the end of a batch.
LEMMA FinalizeKeeps ==
  ASSUME NEW apart, NEW guests, TypeOK, WriteIInv(apart, guests), NEW t \in Threads, Finalize(t)
  PROVE  WriteIInv(apart, guests)'
<1> DEFINE h == local[t].h
           c == header[h].Request
           n == header[h].Count
           good == Good(header[h].UsbRequestStatuses, n)
<1>1. VarTypes /\ ThreadOK(t) /\ StageMatches(t, guests)
  BY DEF WriteIInv
<1>2. /\ pc[t] = "finalize" /\ h \in Headers /\ stage[t] = "out"
      /\ h \in Headers \cup {NoHeader} /\ h # NoHeader
  BY <1>1, FieldTypes DEF Finalize, ThreadOK, StageMatches
<1>3. Ends(t, h)
  BY <1>2 DEF Ends
<1>4. /\ Live(h) /\ Filled(h) /\ Armed(h) /\ c \in Callers /\ c \in Threads
      /\ pc[c] \notin {"idle", "alloc", "fill"}
      /\ 2 <= n /\ n = req[c].n /\ n <= MaxAlloc /\ n \in Nat
      /\ req[c].completions = 0
      /\ pc[c] \in Loop => local[c].h = h
  <2>1. Live(h) /\ c \in Callers /\ n \in Nat
    BY <1>1, <1>2, <1>3, WhenItEnds, FieldTypes
  <2>. QED
    BY <1>2, <1>3, <2>1, WhenItEnds, Constants DEF WriteIInv, BatchOK
<1>5. good \in 0..n
  BY <1>4, GoodParts
<1>6. good \in 0..MaxAlloc /\ (good = n) \in BOOLEAN
  BY <1>4, <1>5, Constants
<1>7. /\ Complete(c, good = n, good) /\ Goto(t, "push")
      /\ UNCHANGED <<poolVars, local, header, allocated, batchList, usb, outcome, late>>
  BY DEF Finalize, Hdr
<1> HIDE DEF good
<1>8. /\ req' \in [Callers -> Reqs]
      /\ req'[c].completions = 1 /\ req'[c].ok = (good = n) /\ req'[c].info = good
      /\ req'[c].n = req[c].n
      /\ \A u \in Callers \ {c} : req'[u] = req[u]
  BY <1>1, <1>4, <1>6, <1>7, CompleteParts
<1>9. pc' \in [Threads -> PCs] /\ pc'[t] = "push" /\ \A u \in Threads \ {t} : pc'[u] = pc[u]
  <2>1. "push" \in PCs
    BY DEF PCs
  <2>. QED
    BY <1>1, <1>7, <2>1, GotoParts
<1>10. UNCHANGED <<local, header, allocated, batchList, usb, outcome, late, outstanding, stage, want>>
  BY <1>7 DEF poolVars
<1>11. VarTypes'
  BY <1>1, <1>8, <1>9, <1>10 DEF VarTypes
<1>12. OthersStay(t)
  BY <1>9, <1>10 DEF OthersStay
<1>13. \A u \in Callers : req'[u].n = req[u].n
  BY <1>8
<1>14. \A u \in Threads : ThreadOK(u)' /\ StageMatches(u, guests)'
  <2>1. ThreadOK(t)' /\ StageMatches(t, guests)'
    BY <1>1, <1>2, <1>9, <1>10 DEF ThreadOK, StageMatches, Loop
  <2>2. Busy(c)
    <3>1. pc[c] \in {"push", "release"} /\ local[c].h = NoHeader => req[c].n = 1
      BY <1>4 DEF WriteIInv, ThreadOK
    <3>. QED
      BY <1>2, <1>4, <3>1, Constants DEF Busy, Loop
  <2>. QED
    BY <1>8, <1>10, <1>12, <1>13, <2>1, <2>2, ThreadsKept
<1>15. ASSUME NEW g \in Headers \ {h}
       PROVE  /\ UseOK(g)' /\ PendingOK(g)' /\ BatchOK(g)' /\ FlightOK(g)'
              /\ StatusOK(g) => StatusOK(g)'
              /\ Live(g)' <=> Live(g)
              /\ \A k \in Positions : Has(g, k)' <=> Has(g, k)
  <2>1. NotOf(t, g) /\ NotOf(t, g)'
    BY <1>2, <1>9, <1>10 DEF NotOf, Works, Begins, Sends, Ends, Counts
  <2>2. Live(g) => header[g].Request # c /\ header[g].Request \in Callers
    BY <1>2, <1>4 DEF WriteIInv, RequestsOK, BatchOK, Live
  <2>3. Taken(g)' <=> Taken(g)
    BY <1>10 DEF Taken
  <2>4. \A i \in Indices : Flies(i, g)' <=> Flies(i, g)
    BY <1>10 DEF Flies
  <2>5. Live(g) => /\ req'[header[g].Request].completions = req[header[g].Request].completions
                   /\ outcome'[header[g].Request] = outcome[header[g].Request]
    BY <1>8, <1>10, <2>2
  <2>6. Filled(g) /\ header[g].Request = t => req'[t].n = req[t].n /\ pc'[t] \notin {"idle", "alloc", "fill"}
    BY <1>9, <1>13 DEF WriteIInv, BatchOK
  <2>7. pc'[t] \notin Loop
    BY <1>9 DEF Loop
  <2>. QED
    BY <1>10, <1>12, <1>13, <2>1, <2>3, <2>4, <2>5, <2>6, <2>7, OtherHeader
<1>16. /\ UseOK(h)' /\ PendingOK(h)' /\ BatchOK(h)' /\ FlightOK(h)' /\ StatusOK(h)'
       /\ ~Live(h)' /\ (Armed(h)' <=> pc'[t] = "push")
  <2>1. Ends(t, h)' /\ pc'[t] # "finalize"
    BY <1>9, <1>10 DEF Ends
  <2>. QED
    BY <1>2, <1>3, <1>10, <1>12, <1>13, <2>1, StillEnding
<1>17. ListOK'
  BY <1>10 DEF WriteIInv, ListOK
<1>18. RequestsOK'
  <2>1. \A g \in Headers : Live(g)' => Live(g) /\ header'[g].Request = header[g].Request
    BY <1>10, <1>15, <1>16
  <2>. QED
    BY <2>1, RequestsKept DEF WriteIInv
<1>19. \A i \in Indices : Alone(i)' <=> Alone(i)
  BY <1>10 DEF Alone
<1>20. AloneOK(guests)'
  <2>1. \A i \in Indices : Alone(i) /\ usb[i].ctx.r \notin guests =>
           usb[i].ctx.r \in Callers \ {c} /\ pc[usb[i].ctx.r] = "returned"
    BY <1>4 DEF WriteIInv, AloneOK
  <2>2. \A i \in Indices : Alone(i) /\ usb[i].ctx.r \notin guests =>
           /\ pc'[usb[i].ctx.r] = "returned"
           /\ req'[usb[i].ctx.r] = req[usb[i].ctx.r]
    BY <1>2, <1>8, <1>9, <2>1, Constants
  <2>. QED
    BY <1>10, <1>19, <2>2, AloneKept DEF WriteIInv
<1>21. PlacesOK' /\ AllPlaced(apart)'
  <2>1. \A k \in Positions : Has(h, k)' <=> Has(h, k)
    BY <1>2, <1>4, <1>9, <1>10, <1>12, <1>13, <1>16, PositionsKept
  <2>2. \A u \in Threads : /\ Single(u)' <=> Single(u)
                           /\ Single(u) => local'[u].i = local[u].i
    BY <1>2, <1>9, <1>10 DEF Single
  <2>3. PlacesOK /\ AllPlaced(apart) /\ outstanding' = outstanding /\ outstanding \subseteq Indices
    BY <1>10 DEF WriteIInv, TypeOK
  <2>. QED
    BY <1>10, <1>15, <1>19, <2>1, <2>2, <2>3, PlacesKept
<1>22. SentFlies'
  BY <1>10 DEF WriteIInv, SentFlies
<1>23. ASSUME ~late', NEW g \in Headers PROVE StatusOK(g)'
  BY <1>10, <1>15, <1>16, <1>23 DEF WriteIInv
<1>24. ASSUME ~late', NEW u \in Callers PROVE ReportOK(u)'
  <2>1. CASE u # c
    <3>1. ReportOK(u) /\ req'[u] = req[u] /\ outcome' = outcome
      BY <1>8, <1>10, <1>24, <2>1 DEF WriteIInv
    <3>. QED
      BY <3>1, ReportsKept
  <2>2. CASE u = c
    <3>1. /\ \A k \in 1..good : outcome[c][k] = "ok"
          /\ good # n => outcome[c][good + 1] \in {"short", "failed"}
      BY <1>2, <1>3, <1>10, <1>24, TrueReport DEF good
    <3>2. good # n => good < n
      BY <1>4, <1>5
    <3>. QED
      BY <1>4, <1>8, <1>10, <2>2, <3>1, <3>2 DEF ReportOK
  <2>. QED
    BY <2>1, <2>2
<1>25. \A g \in Headers : UseOK(g)' /\ PendingOK(g)' /\ BatchOK(g)' /\ FlightOK(g)'
  <2>1. h' = h
    BY <1>10
  <2>. QED
    BY <1>2, <1>15, <1>16, <2>1
<1>. QED
  BY <1>11, <1>14, <1>17, <1>18, <1>20, <1>21, <1>22, <1>23, <1>24, <1>25 DEF WriteIInv

\* Some indices leave their places, and the rest are where they were.
LEMMA PlacesShrink ==
  ASSUME NEW apart, PlacesOK, AllPlaced(apart), outstanding \subseteq Indices, NEW X, outstanding' = outstanding \ X,
         \A h \in Headers, k \in Positions :
           /\ Has(h, k)' <=> Has(h, k) /\ header[h].UsbRequestIndices[k] \notin X
           /\ Has(h, k)' => header'[h].UsbRequestIndices[k] = header[h].UsbRequestIndices[k],
         \A t \in Threads : /\ Single(t)' <=> Single(t) /\ local[t].i \notin X
                            /\ Single(t)' => local'[t].i = local[t].i,
         \A i \in Indices : (Alone(i)' <=> Alone(i)) /\ (Alone(i) => i \notin X)
  PROVE  PlacesOK' /\ AllPlaced(apart)'
<1>1. \A g, h \in Headers, k, l \in Positions :
        Has(g, k)' /\ Has(h, l)' /\ header'[g].UsbRequestIndices[k] = header'[h].UsbRequestIndices[l] =>
          g = h /\ k = l
  BY DEF PlacesOK
<1>2. ASSUME NEW h \in Headers, NEW k \in Positions, Has(h, k)'
      PROVE  (LET i == header[h].UsbRequestIndices[k] IN
              /\ i \in outstanding /\ ~Alone(i)
              /\ \A t \in Threads : Single(t) => local[t].i # i)'
  <2>1. /\ Has(h, k) /\ header'[h].UsbRequestIndices[k] = header[h].UsbRequestIndices[k]
        /\ header[h].UsbRequestIndices[k] \notin X
    BY <1>2
  <2>2. /\ header[h].UsbRequestIndices[k] \in outstanding
        /\ ~Alone(header[h].UsbRequestIndices[k])
        /\ \A t \in Threads : Single(t) => local[t].i # header[h].UsbRequestIndices[k]
    BY <2>1 DEF PlacesOK
  <2>3. PICK i \in Indices : i = header[h].UsbRequestIndices[k]
    BY <2>2
  <2>4. i \in outstanding' /\ ~Alone(i)' /\ \A t \in Threads : Single(t)' => local'[t].i # i
    BY <2>1, <2>2, <2>3
  <2>. QED
    BY <2>1, <2>3, <2>4 DEF Alone
<1>3. ASSUME NEW t \in Threads, Single(t)'
      PROVE  (/\ local[t].i \in outstanding /\ ~Alone(local[t].i)
              /\ \A u \in Threads : Single(u) /\ local[t].i = local[u].i => t = u)'
  <2>1. Single(t) /\ local'[t].i = local[t].i /\ local[t].i \notin X
    BY <1>3
  <2>2. /\ local[t].i \in outstanding /\ ~Alone(local[t].i)
        /\ \A u \in Threads : Single(u) /\ local[t].i = local[u].i => t = u
    BY <2>1 DEF PlacesOK
  <2>3. PICK i \in Indices : i = local[t].i
    BY <2>2
  <2>4. i \in outstanding' /\ ~Alone(i)' /\ \A u \in Threads : Single(u)' /\ i = local'[u].i => t = u
    BY <2>1, <2>2, <2>3
  <2>. QED
    BY <2>1, <2>3, <2>4 DEF Alone
<1>4. \A i \in Indices : Alone(i)' => i \in outstanding'
  BY DEF PlacesOK
<1>5. PlacesOK'
  BY <1>1, <1>2, <1>3, <1>4 DEF PlacesOK
<1>6. AllPlaced(apart)'
  <2> SUFFICES ASSUME NEW i \in outstanding' \ apart
               PROVE  \/ Alone(i)'
                      \/ \E t \in Threads : Single(t)' /\ local'[t].i = i
                      \/ \E h \in Headers, k \in Positions :
                            Has(h, k)' /\ header'[h].UsbRequestIndices[k] = i
    BY DEF AllPlaced
  <2>1. i \in outstanding \ apart /\ i \notin X /\ i \in Indices
    OBVIOUS
  <2>. QED
    BY <2>1 DEF AllPlaced
<1>. QED
  BY <1>5, <1>6

\* What a thread gives back it was given.
LEMMA HeldParts ==
  ASSUME NEW apart, NEW guests, TypeOK, WriteIInv(apart, guests), NEW t \in Threads, pc[t] = "push"
  PROVE  /\ Held(t) \in Returnable(Len(Held(t))) /\ Len(Held(t)) \in 1..MaxAlloc
         /\ IsBatch(t) =>
              LET h == local[t].h IN
              /\ h \in Headers /\ Ends(t, h) /\ Len(Held(t)) = header[h].Count
              /\ \A k \in 1..header[h].Count : /\ Held(t)[k] = header[h].UsbRequestIndices[k]
                                               /\ k \in Positions /\ Has(h, k)
         /\ ~IsBatch(t) => Len(Held(t)) = 1 /\ Held(t)[1] = local[t].i /\ Single(t)
<1>1. VarTypes /\ PlacesOK
  BY DEF WriteIInv
<1>2. CASE IsBatch(t)
  <2>1. PICK h : h = local[t].h
    OBVIOUS
  <2>2. h \in Headers /\ Ends(t, h)
    BY <1>1, <1>2, <2>1, FieldTypes DEF IsBatch, Ends
  <2>3. PICK n : n = header[h].Count
    OBVIOUS
  <2>4. n \in Nat /\ 2 <= n /\ n <= MaxAlloc /\ Armed(h)
    BY <1>1, <2>2, <2>3, WhenItEnds, FieldTypes
  <2>5. \A k \in 1..n : k \in Positions /\ Has(h, k)
    BY <2>3, <2>4, Constants DEF Positions, Has
  <2>6. Held(t) = [k \in 1..n |-> header[h].UsbRequestIndices[k]]
    BY <1>2, <2>1, <2>3 DEF Held, Hdr
  <2>7. \A k \in 1..n : Held(t)[k] = header[h].UsbRequestIndices[k]
    BY <2>6
  <2>8. \A k \in 1..n : header[h].UsbRequestIndices[k] \in outstanding
    BY <1>1, <2>2, <2>5 DEF PlacesOK
  <2>9. \A k, l \in 1..n : Held(t)[k] = Held(t)[l] => k = l
    BY <1>1, <2>2, <2>5, <2>7 DEF PlacesOK
  <2>10. Held(t) \in [1..n -> outstanding]
    BY <2>6, <2>8
  <2>11. Len(Held(t)) = n
    BY <2>4, <2>6
  <2>12. Held(t) \in Returnable(n)
    BY <2>9, <2>10 DEF Returnable
  <2>13. n \in 1..MaxAlloc
    BY <2>4
  <2>. QED
    BY <1>2, <2>1, <2>2, <2>3, <2>5, <2>7, <2>11, <2>12, <2>13
<1>3. CASE ~IsBatch(t)
  <2>1. Single(t)
    BY <1>3 DEF IsBatch, Single
  <2>2. local[t].i \in outstanding
    BY <1>1, <2>1 DEF PlacesOK
  <2>3. PICK x : x = local[t].i
    OBVIOUS
  <2>4. Held(t) = <<x>>
    BY <1>3, <2>3 DEF Held
  <2>5. Len(Held(t)) = 1 /\ Held(t)[1] = x
    BY <2>4
  <2>6. Held(t) \in [1..1 -> outstanding]
    BY <2>2, <2>3, <2>4
  <2>7. Held(t) \in Returnable(1)
    BY <2>6 DEF Returnable
  <2>8. 1 \in 1..MaxAlloc
    BY Constants
  <2>. QED
    BY <1>3, <2>1, <2>3, <2>5, <2>7, <2>8
<1>. QED
  BY <1>2, <1>3

\* Pushing the indices back.
LEMMA PushKeeps ==
  ASSUME NEW apart, NEW guests, TypeOK, WriteIInv(apart, guests), NEW t \in Threads, Push(t)
  PROVE  WriteIInv(apart, guests)'
<1>0. PICK h : h = local[t].h
  OBVIOUS
<1>1. VarTypes /\ ThreadOK(t) /\ StageMatches(t, guests) /\ h \in Headers \cup {NoHeader}
  BY <1>0, FieldTypes DEF WriteIInv
<1>2. pc[t] = "push" /\ Goto(t, "release") /\ stage[t] = "out"
  BY <1>1 DEF Push, StageMatches
<1>3. pc' \in [Threads -> PCs] /\ pc'[t] = "release" /\ \A u \in Threads \ {t} : pc'[u] = pc[u]
  <2>1. "release" \in PCs
    BY DEF PCs
  <2>. QED
    BY <1>1, <1>2, <2>1, GotoParts
<1>4. /\ UNCHANGED <<local, req, header, allocated, batchList, usb, outcome, late, want>>
      /\ stage'[t] = "free" /\ \A u \in Threads \ {t} : stage'[u] = stage[u]
      /\ outstanding' = outstanding \ {Held(t)[k] : k \in 1..Len(Held(t))}
  BY DEF Push, FreePush, TypeOK
<1>5. VarTypes'
  BY <1>1, <1>3, <1>4 DEF VarTypes
<1>6. OthersStay(t)
  BY <1>3, <1>4 DEF OthersStay
<1>7. \A u \in Threads : ThreadOK(u)' /\ StageMatches(u, guests)'
  <2>1. ThreadOK(t)' /\ StageMatches(t, guests)'
    BY <1>1, <1>2, <1>3, <1>4 DEF ThreadOK, StageMatches, Loop
  <2>. QED
    BY <1>4, <1>6, <2>1, ThreadsKept
<1>8. ASSUME NEW g \in Headers, g # h
      PROVE  /\ UseOK(g)' /\ PendingOK(g)' /\ BatchOK(g)' /\ FlightOK(g)'
             /\ StatusOK(g) => StatusOK(g)'
             /\ Live(g)' <=> Live(g)
             /\ \A k \in Positions : Has(g, k)' <=> Has(g, k)
  <2>1. NotOf(t, g) /\ NotOf(t, g)'
    BY <1>0, <1>4, <1>8 DEF NotOf, Works, Begins, Sends, Ends, Counts
  <2>2. Taken(g)' <=> Taken(g)
    BY <1>4 DEF Taken
  <2>3. \A i \in Indices : Flies(i, g)' <=> Flies(i, g)
    BY <1>4 DEF Flies
  <2>4. pc'[t] \notin Loop \cup {"idle", "alloc", "fill"}
    BY <1>3 DEF Loop
  <2>. QED
    BY <1>4, <1>6, <2>1, <2>2, <2>3, <2>4, OtherHeader
<1>9. ASSUME h # NoHeader
      PROVE  /\ h \in Headers
             /\ UseOK(h)' /\ PendingOK(h)' /\ BatchOK(h)' /\ FlightOK(h)' /\ StatusOK(h)'
             /\ ~Live(h)' /\ ~Armed(h)'
  <2>1. h \in Headers
    BY <1>1, <1>9
  <2>2. Ends(t, h) /\ Ends(t, h)' /\ pc'[t] # "finalize" /\ pc'[t] # "push"
    BY <1>0, <1>2, <1>3, <1>4 DEF Ends
  <2>. QED
    BY <1>4, <1>6, <2>1, <2>2, StillEnding
<1>10. /\ \A g \in Headers : UseOK(g)' /\ PendingOK(g)' /\ BatchOK(g)' /\ FlightOK(g)'
       /\ \A g \in Headers : StatusOK(g) => StatusOK(g)'
       /\ \A g \in Headers : Live(g)' => Live(g)
  BY <1>8, <1>9, Constants
<1>11. ListOK'
  BY <1>4 DEF WriteIInv, ListOK
<1>12. RequestsOK'
  BY <1>4, <1>10, RequestsKept DEF WriteIInv
<1>13. \A i \in Indices : Alone(i)' <=> Alone(i)
  BY <1>4 DEF Alone
<1>14. AloneOK(guests)'
  <2>1. \A i \in Indices : Alone(i) /\ usb[i].ctx.r \notin guests =>
           usb[i].ctx.r \in Threads \ {t} /\ pc[usb[i].ctx.r] = "returned"
    BY <1>2, Constants DEF WriteIInv, AloneOK
  <2>2. \A i \in Indices : Alone(i) /\ usb[i].ctx.r \notin guests =>
           /\ pc'[usb[i].ctx.r] = "returned"
           /\ req'[usb[i].ctx.r] = req[usb[i].ctx.r]
    BY <1>3, <1>4, <2>1
  <2>. QED
    BY <1>4, <1>13, <2>2, AloneKept DEF WriteIInv
<1>15. PICK X : X = {Held(t)[k] : k \in 1..Len(Held(t))}
  OBVIOUS
<1>16. PlacesOK /\ AllPlaced(apart) /\ outstanding \subseteq Indices /\ outstanding' = outstanding \ X
  BY <1>4, <1>15 DEF WriteIInv, TypeOK
<1>17. \A u \in Threads \ {t} : /\ Single(u)' <=> Single(u)
                                /\ local'[u].i = local[u].i
  BY <1>3, <1>4 DEF Single
<1>18. ~Single(t)'
  BY <1>3 DEF Single
<1>19. ASSUME IsBatch(t) PROVE PlacesOK' /\ AllPlaced(apart)'
  <2>1. PICK n : n = header[h].Count
    OBVIOUS
  <2>2. /\ h \in Headers /\ Ends(t, h) /\ Len(Held(t)) = n
        /\ \A k \in 1..n : /\ Held(t)[k] = header[h].UsbRequestIndices[k]
                           /\ k \in Positions /\ Has(h, k)
    BY <1>0, <1>2, <1>19, <2>1, HeldParts
  <2>3. X = {header[h].UsbRequestIndices[k] : k \in 1..n}
    BY <1>15, <2>2
  <2>4. \A k \in Positions : (Has(h, k) => k \in 1..n) /\ ~Has(h, k)'
    <3>1. \A u \in Threads : ~Begins(u, h) /\ ~Begins(u, h)'
      <4>1. \A u \in Threads : Works(u, h) => u = t
        BY <2>2, WhenItBeginsOrEnds
      <4>2. \A u \in Threads : ~Begins(u, h)
        BY <1>2, <4>1 DEF Begins, Works
      <4>. QED
        BY <1>3, <1>4, <4>2 DEF Begins
    <3>. QED
      BY <1>9, <1>19, <1>0, <2>1, <3>1 DEF Has, Begins, IsBatch
  <2>5. ~Single(t)
    BY <1>0, <1>19 DEF IsBatch, Single
  <2>6. \A g \in Headers, k \in Positions : Has(g, k)' <=> Has(g, k) /\ header[g].UsbRequestIndices[k] \notin X
    <3> SUFFICES ASSUME NEW g \in Headers, NEW k \in Positions
                 PROVE  Has(g, k)' <=> Has(g, k) /\ header[g].UsbRequestIndices[k] \notin X
      OBVIOUS
    <3>1. CASE g = h
      BY <2>3, <2>4, <3>1
    <3>2. CASE g # h
      <4>1. Has(g, k) => header[g].UsbRequestIndices[k] \notin X
        BY <1>16, <2>2, <2>3, <3>2 DEF PlacesOK
      <4>. QED
        BY <1>8, <3>2, <4>1
    <3>. QED
      BY <3>1, <3>2
  <2>7. \A u \in Threads : Single(u) => local[u].i \notin X
    BY <1>16, <2>2, <2>3 DEF PlacesOK
  <2>8. \A i \in Indices : Alone(i) => i \notin X
    BY <1>16, <2>2, <2>3 DEF PlacesOK
  <2>9. \A u \in Threads : /\ Single(u)' <=> Single(u) /\ local[u].i \notin X
                           /\ Single(u)' => local'[u].i = local[u].i
    BY <1>17, <1>18, <2>5, <2>7
  <2>10. PlacesOK' /\ AllPlaced(apart)'
    BY <1>4, <1>13, <1>16, <2>6, <2>8, <2>9, PlacesShrink
  <2>. QED
    BY <2>10
<1>20. ASSUME ~IsBatch(t) PROVE PlacesOK' /\ AllPlaced(apart)'
  <2>1. Len(Held(t)) = 1 /\ Held(t)[1] = local[t].i /\ Single(t) /\ h = NoHeader
    BY <1>0, <1>2, <1>20, HeldParts DEF Single
  <2>2. X = {local[t].i}
    BY <1>15, <2>1
  <2>3. \A g \in Headers, k \in Positions : Has(g, k)' <=> Has(g, k) /\ header[g].UsbRequestIndices[k] \notin X
    <3>1. \A g \in Headers, k \in Positions : Has(g, k)' <=> Has(g, k)
      BY <1>8, <2>1, Constants
    <3>. QED
      BY <1>16, <2>1, <2>2, <3>1 DEF PlacesOK
  <2>4. \A i \in Indices : Alone(i) => i \notin X
    BY <1>16, <2>1, <2>2 DEF PlacesOK
  <2>5. \A u \in Threads : /\ Single(u)' <=> Single(u) /\ local[u].i \notin X
                           /\ Single(u)' => local'[u].i = local[u].i
    BY <1>16, <1>17, <1>18, <2>1, <2>2 DEF PlacesOK
  <2>6. PlacesOK' /\ AllPlaced(apart)'
    BY <1>4, <1>13, <1>16, <2>3, <2>4, <2>5, PlacesShrink
  <2>. QED
    BY <2>6
<1>21. SentFlies'
  BY <1>4 DEF WriteIInv, SentFlies
<1>22. ASSUME ~late' PROVE (\A g \in Headers : StatusOK(g)') /\ \A u \in Callers : ReportOK(u)'
  BY <1>4, <1>10, <1>22 DEF WriteIInv, ReportOK
<1>. QED
  BY <1>5, <1>7, <1>10, <1>11, <1>12, <1>14, <1>19, <1>20, <1>21, <1>22 DEF WriteIInv

\* Giving the header back.
LEMMA RecycleKeeps ==
  ASSUME NEW apart, NEW guests, TypeOK, WriteIInv(apart, guests), NEW t \in Threads, Recycle(t)
  PROVE  WriteIInv(apart, guests)'
<1>1. VarTypes /\ ThreadOK(t) /\ StageMatches(t, guests)
  BY DEF WriteIInv
<1>2. pc[t] = "recycle" /\ Return(t) /\ stage[t] = "out" /\ local[t].h \in Headers
  BY <1>1, FieldTypes DEF Recycle, ThreadOK, StageMatches
<1>3. PICK h \in Headers : h = local[t].h
  BY <1>2
<1>4. /\ UNCHANGED <<req, header, allocated, usb, outcome, late, outstanding, stage, want>>
      /\ batchList' = <<h>> \o batchList
  BY <1>3 DEF Recycle, poolVars
<1>5. /\ pc' \in [Threads -> PCs] /\ local' \in [Threads -> Locals]
      /\ pc'[t] \in {"idle", "returned"}
      /\ OthersStay(t) /\ (\A g \in Headers : NotOf(t, g)') /\ ~Single(t)'
      /\ StageMatches(t, guests)' /\ ThreadOK(t)'
  BY <1>1, <1>2, <1>4, ReturnParts, NoGuest
<1>6. Ends(t, h)
  BY <1>2, <1>3 DEF Ends
<1>7. /\ Taken(h)
      /\ \A u \in Threads : (Works(u, h) => u = t) /\ ~Counts(u, h) /\ ~Sends(u, h)
      /\ \A i \in Indices : ~Flies(i, h)
      /\ ~Live(h) /\ ~Armed(h)
  BY <1>2, <1>6, WhenItBeginsOrEnds, WhenItEnds
<1>8. batchList \in Seq(allocated) /\ Len(batchList) \in Nat /\ h \in allocated
  BY <1>1, <1>7, TypeParts DEF Taken
<1>9. /\ Len(batchList') = Len(batchList) + 1
      /\ batchList'[1] = h
      /\ \A j \in 1..Len(batchList) : batchList'[j + 1] = batchList[j]
      /\ batchList' \in Seq(allocated)
  BY <1>4, <1>8
<1>10. VarTypes'
  BY <1>1, <1>4, <1>5, <1>9 DEF VarTypes
<1>11. \A u \in Threads : ThreadOK(u)' /\ StageMatches(u, guests)'
  BY <1>4, <1>5, ThreadsKept
<1>12. \A j \in 2..Len(batchList') : j - 1 \in 1..Len(batchList) /\ batchList'[j] = batchList[j - 1]
  <2> SUFFICES ASSUME NEW j \in 2..Len(batchList')
               PROVE  j - 1 \in 1..Len(batchList) /\ batchList'[j] = batchList[j - 1]
    OBVIOUS
  <2>1. j - 1 \in 1..Len(batchList) /\ (j - 1) + 1 = j
    BY <1>8, <1>9
  <2>. QED
    BY <1>9, <2>1
<1>13. \A g \in Headers : Taken(g)' <=> Taken(g) /\ g # h
  <2>1. ~Taken(h)'
    BY <1>8, <1>9 DEF Taken
  <2>2. ASSUME NEW g \in Headers, g # h
        PROVE  Taken(g)' <=> Taken(g)
    <3>1. ASSUME NEW j \in 1..Len(batchList'), batchList'[j] = g
          PROVE  \E l \in 1..Len(batchList) : batchList[l] = g
      <4>1. j \in 2..Len(batchList')
        BY <1>8, <1>9, <2>2, <3>1
      <4>. QED
        BY <1>12, <3>1, <4>1
    <3>2. ASSUME NEW j \in 1..Len(batchList), batchList[j] = g
          PROVE  \E l \in 1..Len(batchList') : batchList'[l] = g
      <4>1. j + 1 \in 1..Len(batchList')
        BY <1>8, <1>9
      <4>. QED
        BY <1>9, <3>2, <4>1
    <3>. QED
      BY <1>4, <3>1, <3>2 DEF Taken
  <2>. QED
    BY <2>1, <2>2
<1>14. ListOK'
  <2> SUFFICES ASSUME NEW i \in 1..Len(batchList'), NEW j \in 1..Len(batchList'),
                      batchList'[i] = batchList'[j]
               PROVE  i = j
    BY DEF ListOK
  <2>1. \A l \in 1..Len(batchList) : batchList[l] # h
    BY <1>7 DEF Taken
  <2>2. /\ i = 1 \/ i \in 2..Len(batchList')
        /\ j = 1 \/ j \in 2..Len(batchList')
    BY <1>8, <1>9
  <2>3. i = 1 <=> j = 1
    BY <1>9, <1>12, <2>1, <2>2
  <2>4. ASSUME i \in 2..Len(batchList'), j \in 2..Len(batchList') PROVE i = j
    <3>1. batchList[i - 1] = batchList[j - 1] /\ i - 1 \in 1..Len(batchList) /\ j - 1 \in 1..Len(batchList)
      BY <1>12, <2>4
    <3>2. i - 1 = j - 1
      BY <3>1 DEF WriteIInv, ListOK
    <3>. QED
      BY <2>4, <3>2
  <2>. QED
    BY <2>2, <2>3, <2>4
<1>15. ASSUME NEW g \in Headers, g # h
       PROVE  /\ UseOK(g)' /\ PendingOK(g)' /\ BatchOK(g)' /\ FlightOK(g)'
              /\ StatusOK(g) => StatusOK(g)'
              /\ Live(g)' <=> Live(g)
              /\ \A k \in Positions : Has(g, k)' <=> Has(g, k)
  <2>1. NotOf(t, g) /\ NotOf(t, g)'
    BY <1>3, <1>5, <1>15 DEF NotOf, Works, Begins, Sends, Ends, Counts
  <2>2. Taken(g)' <=> Taken(g)
    BY <1>13, <1>15
  <2>3. \A i \in Indices : Flies(i, g)' <=> Flies(i, g)
    BY <1>4 DEF Flies
  <2>4. pc'[t] \notin Loop
    BY <1>5 DEF Loop
  <2>5. Filled(g) /\ header[g].Request = t => req'[t].n = req[t].n /\ pc'[t] \notin {"idle", "alloc", "fill"}
    <3>1. pc'[t] = AtRest(t)
      BY <1>1, <1>2, ReturnParts
    <3>2. Filled(g) /\ header[g].Request = t => t \in Callers
      BY DEF WriteIInv, BatchOK
    <3>. QED
      BY <1>4, <3>1, <3>2 DEF AtRest
  <2>. QED
    BY <1>4, <1>5, <2>1, <2>2, <2>3, <2>4, <2>5, OtherHeader
<1>16. /\ UseOK(h)' /\ PendingOK(h)' /\ BatchOK(h)' /\ FlightOK(h)' /\ StatusOK(h)'
       /\ ~Live(h)' /\ ~Armed(h)'
  <2>1. ~Taken(h)' /\ ~Filled(h)' /\ ~Live(h)' /\ ~Armed(h)'
    BY <1>13 DEF Filled, Live, Armed
  <2>2. \A u \in Threads : ~Works(u, h)' /\ ~Counts(u, h)' /\ ~Sends(u, h)' /\ ~Begins(u, h)' /\ ~Ends(u, h)'
    <3>1. \A u \in Threads \ {t} : ~Works(u, h)' /\ ~Counts(u, h)'
      <4>1. \A u \in Threads \ {t} : (Works(u, h)' <=> Works(u, h)) /\ (Counts(u, h)' <=> Counts(u, h))
        BY <1>4, <1>5, OthersRoles
      <4>. QED
        BY <1>7, <4>1
    <3>2. \A u \in Threads : ~Works(u, h)' /\ ~Counts(u, h)'
      BY <1>5, <3>1 DEF NotOf
    <3>. QED
      BY <3>2 DEF Works
  <2>3. \A i \in Indices : ~Flies(i, h)'
    BY <1>4, <1>7 DEF Flies
  <2>4. UseOK(h)'
    BY <2>1, <2>2, <2>3 DEF UseOK
  <2>5. PendingOK(h)'
    BY <2>1, <2>2 DEF PendingOK
  <2>6. BatchOK(h)'
    BY <2>1, <2>2 DEF BatchOK
  <2>7. FlightOK(h)'
    BY <2>3 DEF FlightOK
  <2>8. StatusOK(h)'
    BY <2>1 DEF StatusOK
  <2>. QED
    BY <2>1, <2>4, <2>5, <2>6, <2>7, <2>8
<1>17. /\ \A g \in Headers : UseOK(g)' /\ PendingOK(g)' /\ BatchOK(g)' /\ FlightOK(g)'
       /\ \A g \in Headers : StatusOK(g) => StatusOK(g)'
       /\ \A g \in Headers : Live(g)' => Live(g)
  BY <1>15, <1>16
<1>18. RequestsOK'
  BY <1>4, <1>17, RequestsKept DEF WriteIInv
<1>19. \A i \in Indices : Alone(i)' <=> Alone(i)
  BY <1>4 DEF Alone
<1>20. AloneOK(guests)'
  <2>1. \A i \in Indices : Alone(i) /\ usb[i].ctx.r \notin guests =>
           usb[i].ctx.r \in Threads \ {t} /\ pc[usb[i].ctx.r] = "returned"
    BY <1>2, Constants DEF WriteIInv, AloneOK
  <2>2. \A i \in Indices : Alone(i) /\ usb[i].ctx.r \notin guests =>
           /\ pc'[usb[i].ctx.r] = "returned"
           /\ req'[usb[i].ctx.r] = req[usb[i].ctx.r]
    BY <1>4, <1>5, <2>1 DEF OthersStay
  <2>. QED
    BY <1>4, <1>19, <2>2, AloneKept DEF WriteIInv
<1>21. PlacesOK' /\ AllPlaced(apart)'
  <2>1. \A k \in Positions : Has(h, k)' <=> Has(h, k)
    BY <1>2, <1>4, <1>5, <1>7, <1>16, PositionsKept
  <2>2. \A u \in Threads : /\ Single(u)' <=> Single(u)
                           /\ Single(u) => local'[u].i = local[u].i
    BY <1>2, <1>5 DEF Single, OthersStay
  <2>3. PlacesOK /\ AllPlaced(apart) /\ outstanding' = outstanding /\ outstanding \subseteq Indices
    BY <1>4 DEF WriteIInv, TypeOK
  <2>. QED
    BY <1>4, <1>15, <1>19, <2>1, <2>2, <2>3, PlacesKept
<1>22. SentFlies'
  BY <1>4 DEF WriteIInv, SentFlies
<1>23. ASSUME ~late' PROVE (\A g \in Headers : StatusOK(g)') /\ \A u \in Callers : ReportOK(u)'
  BY <1>4, <1>17, <1>23 DEF WriteIInv, ReportOK
<1>. QED
  BY <1>10, <1>11, <1>14, <1>17, <1>18, <1>20, <1>21, <1>22, <1>23 DEF WriteIInv

\* A message that was sent and has not ended flies with its batch.
LEMMA SentInBatch ==
  ASSUME NEW apart, NEW guests, WriteIInv(apart, guests), NEW c \in Callers, NEW k \in Positions, outcome[c][k] = "sent",
         pc[c] # "returned" \/ req[c].n # 1
  PROVE  \E i \in Indices, g \in Headers :
           /\ Flies(i, g) /\ usb[i].ctx.k = k /\ Live(g) /\ header[g].Request = c
           /\ pc[c] \in Loop => local[c].h = g
<1>1. PICK i \in Indices : usb[i].inFlight /\ usb[i].ctx.r = c /\ usb[i].ctx.k = k
  BY DEF WriteIInv, SentFlies
<1>2. usb[i].ctx.h # NoHeader
  <2>1. c \notin guests
    BY Constants DEF WriteIInv, ThreadOK, StageMatches
  <2>. QED
    BY <1>1, <2>1 DEF WriteIInv, AloneOK, Alone
<1>3. PICK g \in Headers : g = usb[i].ctx.h
  BY <1>2, FieldTypes DEF WriteIInv
<1>4. Flies(i, g)
  BY <1>1, <1>3 DEF Flies
<1>5. Live(g) /\ header[g].Request = c
  BY <1>1, <1>4, WhenItFlies
<1>6. pc[c] \in Loop => local[c].h = g
  BY <1>5 DEF WriteIInv, BatchOK
<1>. QED
  BY <1>1, <1>4, <1>5, <1>6

\* Storing a send's status.
LEMMA StoreKeeps ==
  ASSUME NEW apart, NEW guests, TypeOK, WriteIInv(apart, guests), NEW c \in Callers, Store(c)
  PROVE  WriteIInv(apart, guests)'
<1>1. VarTypes /\ ThreadOK(c) /\ StageMatches(c, guests) /\ c \in Threads
  BY Constants DEF WriteIInv
<1>2. pc[c] = "store" /\ Goto(c, "check") /\ stage[c] = "out"
  BY <1>1 DEF Store, StageMatches
<1>3. PICK h \in Headers : h = local[c].h
  BY <1>1, <1>2, FieldTypes DEF ThreadOK
<1>4. PICK k : k = local[c].k
  OBVIOUS
<1>5. PICK n : n = req[c].n
  OBVIOUS
<1>6. PICK ok \in BOOLEAN : ok = local[c].ok
  BY <1>1, FieldTypes
<1>7. n \in Nat /\ n <= MaxAlloc /\ 2 <= n /\ k \in Nat /\ 1 <= k /\ k <= n /\ k \in Positions
  <2>1. n \in Nat /\ n <= MaxAlloc /\ k \in Nat
    BY <1>1, <1>4, <1>5, FieldTypes
  <2>2. 1 <= n /\ n # 1 /\ 1 <= k /\ k <= n
    BY <1>1, <1>2, <1>3, <1>4, <1>5, Constants DEF ThreadOK, Loop
  <2>. QED
    BY <2>1, <2>2, Constants DEF Positions
<1>8. /\ UNCHANGED <<local, req, allocated, batchList, usb, outcome, outstanding, stage, want>>
      /\ header' = [header EXCEPT ![h].UsbRequestStatuses[k] = ok]
      /\ late' = (late \/ (ok /\ outcome[c][k] # "sent"))
  BY <1>3, <1>4, <1>6 DEF Store, poolVars
<1>9. pc' \in [Threads -> PCs] /\ pc'[c] = "check" /\ \A u \in Threads \ {c} : pc'[u] = pc[u]
  <2>1. "check" \in PCs
    BY DEF PCs
  <2>. QED
    BY <1>1, <1>2, <2>1, GotoParts
<1>10. /\ header' \in [Headers -> Hdrs]
       /\ \A g \in Headers \ {h} : header'[g] = header[g]
       /\ header'[h].Request = header[h].Request /\ header'[h].Count = header[h].Count
       /\ header'[h].Pending = header[h].Pending
       /\ header'[h].UsbRequestIndices = header[h].UsbRequestIndices
       /\ header'[h].UsbRequestStatuses[k] = ok
       /\ \A j \in Positions \ {k} : header'[h].UsbRequestStatuses[j] = header[h].UsbRequestStatuses[j]
  <2>1. header \in [Headers -> Hdrs]
    BY <1>1, TypeParts
  <2>. QED
    BY <1>7, <1>8, <2>1 DEF Hdrs
<1>11. late' \in BOOLEAN
  BY <1>8
<1>12. VarTypes'
  BY <1>1, <1>8, <1>9, <1>10, <1>11 DEF VarTypes
<1>13. OthersStay(c)
  BY <1>8, <1>9 DEF OthersStay
<1>14. \A u \in Threads : ThreadOK(u)' /\ StageMatches(u, guests)'
  <2>1. ThreadOK(c)' /\ StageMatches(c, guests)'
    BY <1>1, <1>2, <1>8, <1>9 DEF ThreadOK, StageMatches, Loop
  <2>. QED
    BY <1>1, <1>8, <1>13, <2>1, ThreadsKept
<1>15. Sent(c)' = Sent(c) /\ Sent(c) = IF ok THEN k ELSE k - 1
  BY <1>2, <1>4, <1>6, <1>8, <1>9 DEF Sent
<1>16. ASSUME NEW g \in Headers
       PROVE  /\ SameRole(c, g)
              /\ Sends(c, g) <=> g = h /\ Sent(c) < n
              /\ ~Sends(c, g) => NotOf(c, g) /\ NotOf(c, g)'
  <2>1. /\ ~Begins(c, g) /\ ~Begins(c, g)' /\ ~Ends(c, g) /\ ~Ends(c, g)'
        /\ ~Counts(c, g) /\ ~Counts(c, g)'
    BY <1>2, <1>9 DEF Begins, Ends, Counts
  <2>2. /\ Sends(c, g) <=> g = h /\ Sent(c) < n
        /\ Sends(c, g)' <=> g = h /\ Sent(c) < n
    BY <1>2, <1>3, <1>5, <1>8, <1>9, <1>15 DEF Sends, Loop
  <2>. QED
    BY <1>8, <1>15, <2>1, <2>2 DEF SameRole, NotOf, Works
<1>17. /\ \A u \in Threads : ThreadOK(u)
       /\ \A g \in Headers : Taken(g)' <=> Taken(g)
       /\ \A i \in Indices, g \in Headers : Flies(i, g)' <=> Flies(i, g)
  BY <1>8 DEF WriteIInv, Taken, Flies
<1>18. ASSUME NEW g \in Headers
       PROVE  /\ header'[g].Request = header[g].Request /\ header'[g].Count = header[g].Count
              /\ header'[g].Pending = header[g].Pending
              /\ header'[g].UsbRequestIndices = header[g].UsbRequestIndices
  BY <1>10
<1>19. ASSUME NEW g \in Headers
       PROVE  /\ Live(g)' <=> Live(g)
              /\ \A j \in Positions : Has(g, j)' <=> Has(g, j)
              /\ \A u \in Threads : Sends(u, g)' <=> Sends(u, g)
  BY <1>1, <1>8, <1>13, <1>16, <1>17, <1>18, RolesKept
<1>20. ASSUME NEW g \in Headers
       PROVE  UseOK(g)' /\ PendingOK(g)' /\ BatchOK(g)' /\ FlightOK(g)'
  <2>1. BatchOK(g)
    BY DEF WriteIInv
  <2>2. Filled(g) => header[g].Request \in Threads
    BY <2>1, Constants DEF BatchOK
  <2>3. Filled(g) => /\ req'[header[g].Request].n = req[header[g].Request].n
                     /\ pc'[header[g].Request] \notin {"idle", "alloc", "fill"}
    BY <1>8, <1>9, <2>1, <2>2 DEF BatchOK
  <2>4. Live(g) => /\ req'[header[g].Request].completions = req[header[g].Request].completions
                   /\ pc'[header[g].Request] \in Loop => local'[header[g].Request].h = g
    BY <1>2, <1>8, <1>9, <2>1, <2>2 DEF BatchOK, Live, Loop
  <2>5. \A i \in Indices : Flies(i, g) =>
           /\ usb'[i] = usb[i]
           /\ outcome'[usb[i].ctx.r][usb[i].ctx.k] = outcome[usb[i].ctx.r][usb[i].ctx.k]
    BY <1>8
  <2>. QED
    BY <1>1, <1>8, <1>13, <1>16, <1>17, <1>18, <2>3, <2>4, <2>5, HeaderKept
<1>21. ListOK'
  BY <1>8 DEF WriteIInv, ListOK
<1>22. RequestsOK'
  BY <1>18, <1>19, RequestsKept DEF WriteIInv
<1>23. \A i \in Indices : Alone(i)' <=> Alone(i)
  BY <1>8 DEF Alone
<1>24. AloneOK(guests)'
  <2>1. \A i \in Indices : Alone(i) /\ usb[i].ctx.r \notin guests =>
           usb[i].ctx.r \in Threads \ {c} /\ pc[usb[i].ctx.r] = "returned"
    BY <1>2, Constants DEF WriteIInv, AloneOK
  <2>2. \A i \in Indices : Alone(i) /\ usb[i].ctx.r \notin guests =>
           /\ pc'[usb[i].ctx.r] = "returned"
           /\ req'[usb[i].ctx.r] = req[usb[i].ctx.r]
    BY <1>8, <1>9, <2>1
  <2>. QED
    BY <1>8, <1>23, <2>2, AloneKept DEF WriteIInv
<1>25. PlacesOK' /\ AllPlaced(apart)'
  <2>1. \A u \in Threads : /\ Single(u)' <=> Single(u)
                           /\ Single(u) => local'[u].i = local[u].i
    BY <1>2, <1>8, <1>9 DEF Single
  <2>2. PlacesOK /\ AllPlaced(apart) /\ outstanding' = outstanding /\ outstanding \subseteq Indices
    BY <1>8 DEF WriteIInv, TypeOK
  <2>. QED
    BY <1>18, <1>19, <1>23, <2>1, <2>2, PlacesKept
<1>26. SentFlies'
  BY <1>8 DEF WriteIInv, SentFlies
<1>27. ASSUME ~late', NEW g \in Headers PROVE StatusOK(g)'
  <2>1. ~late /\ (ok => outcome[c][k] = "sent") /\ StatusOK(g)
    BY <1>8, <1>27 DEF WriteIInv
  <2>2. CASE g # h
    <3>1. NotOf(c, g) /\ NotOf(c, g)'
      BY <1>16, <2>2
    <3>. QED
      BY <1>1, <1>8, <1>10, <1>13, <1>17, <2>1, <2>2, <3>1, StatusKept
  <2>3. CASE g = h
    <3> SUFFICES ASSUME Live(h)' PROVE StatusOK(h)'
      BY <2>3 DEF StatusOK
    <3>1. Live(h)
      BY <1>19
    <3>2. header[h].Request = c /\ header[h].Count = n
      <4>1. CASE Sends(c, h)
        BY <1>1, <1>5, <4>1, WhenItSends
      <4>2. CASE ~Sends(c, h)
        <5>1. Sent(c) = n /\ ok
          BY <1>7, <1>15, <1>16, <4>2
        <5>2. PICK i \in Indices, f \in Headers :
                /\ Live(f) /\ header[f].Request = c
                /\ pc[c] \in Loop => local[c].h = f
          BY <1>2, <1>7, <2>1, <5>1, SentInBatch
        <5>3. f = h
          BY <1>2, <1>3, <5>2 DEF Loop
        <5>. QED
          BY <1>5, <3>1, <5>2, <5>3 DEF WriteIInv, BatchOK, Live
      <4>. QED
        BY <4>1, <4>2
    <3>3. ASSUME NEW j \in 1..n
          PROVE  /\ (\A u \in Threads : ~Sends(u, h)) => Gone(c, j)
                 /\ outcome[c][j] \in Ended /\ j # k =>
                      (header[h].UsbRequestStatuses[j] <=> outcome[c][j] = "ok")
      BY <1>4, <2>1, <2>3, <3>1, <3>2 DEF StatusOK
    <3>4. Sends(c, h) =>
            /\ \A j \in 1..Sent(c) : outcome[c][j] # "none"
            /\ ~ok => outcome[c][Sent(c) + 1] = "failed"
      BY <1>2, <1>6, <2>1, <2>3, <3>1, <3>2 DEF StatusOK
    <3>5. ASSUME NEW j \in 1..n, outcome[c][j] \in Ended
          PROVE  header'[h].UsbRequestStatuses[j] <=> outcome[c][j] = "ok"
      <4>1. CASE j # k
        <5>1. j \in Positions
          BY <1>7, Constants DEF Positions
        <5>. QED
          BY <1>10, <3>3, <3>5, <4>1, <5>1
      <4>2. CASE j = k /\ ok
        BY <2>1, <3>5, <4>2 DEF Ended
      <4>3. CASE j = k /\ ~ok
        <5>1. Sends(c, h) /\ Sent(c) + 1 = k
          BY <1>7, <1>15, <1>16, <4>3
        <5>2. outcome[c][k] = "failed"
          BY <3>4, <4>3, <5>1
        <5>. QED
          BY <1>10, <4>3, <5>2
      <4>. QED
        BY <4>1, <4>2, <4>3
    <3>6. /\ header'[h].Request = c /\ header'[h].Count = n
          /\ outcome' = outcome /\ Sent(c)' = Sent(c) /\ local'[c].ok = ok
          /\ Sends(c, h)' <=> Sends(c, h)
          /\ (\A u \in Threads : ~Sends(u, h))' <=> (\A u \in Threads : ~Sends(u, h))
      BY <1>1, <1>6, <1>8, <1>10, <1>15, <1>19, <3>2
    <3>7. \A j \in 1..n : (\A u \in Threads : ~Sends(u, h))' => Gone(c, j)'
      BY <3>3, <3>6 DEF Gone
    <3>8. Sends(c, h)' =>
            /\ \A j \in 1..Sent(c)' : outcome'[c][j] # "none"
            /\ pc'[c] = "settle" \/ (pc'[c] # "send" /\ ~local'[c].ok) => outcome'[c][Sent(c)' + 1] = "failed"
      BY <1>9, <3>4, <3>6
    <3>. QED
      BY <3>5, <3>6, <3>7, <3>8 DEF StatusOK
  <2>. QED
    BY <2>2, <2>3
<1>28. ASSUME ~late', NEW u \in Callers PROVE ReportOK(u)'
  BY <1>8, <1>28 DEF WriteIInv, ReportOK
<1>. QED
  BY <1>12, <1>14, <1>20, <1>21, <1>22, <1>24, <1>25, <1>26, <1>27, <1>28 DEF WriteIInv

\* How many are still to come.
LEMMA ComingParts ==
  ASSUME NEW h \in Headers
  PROVE  /\ IsFiniteSet(Flying(h)) /\ IsFiniteSet(Counting(h))
         /\ Cardinality(Flying(h)) \in Nat /\ Cardinality(Counting(h)) \in Nat
         /\ Coming(h) \in Nat
         /\ Coming(h) = 0 <=> Flying(h) = {} /\ Counting(h) = {}
<1>1. Flying(h) \in SUBSET Indices /\ Counting(h) \in SUBSET Threads
  BY DEF Flying, Counting
<1>2. IsFiniteSet(Flying(h)) /\ IsFiniteSet(Counting(h))
  BY <1>1, Constants, FS_Subset
<1>3. Cardinality(Flying(h)) \in Nat /\ Cardinality(Counting(h)) \in Nat
  BY <1>2, FS_CardinalityType
<1>4. /\ Cardinality(Flying(h)) = 0 <=> Flying(h) = {}
      /\ Cardinality(Counting(h)) = 0 <=> Counting(h) = {}
  BY <1>2, FS_EmptySet
<1>. QED
  BY <1>2, <1>3, <1>4 DEF Coming

\* One less, when a completion routine counts down.
LEMMA ComingLess ==
  ASSUME NEW h \in Headers, NEW t, t \in Counting(h),
         Flying(h)' = Flying(h), Counting(h)' = Counting(h) \ {t}
  PROVE  Coming(h)' = Coming(h) - 1
<1>1. Cardinality(Counting(h) \ {t}) = Cardinality(Counting(h)) - 1
  BY ComingParts, FS_RemoveElement
<1>2. Cardinality(Flying(h)) \in Nat /\ Cardinality(Counting(h)) \in Nat
  BY ComingParts
<1>3. Coming(h)' = Cardinality(Flying(h)) + Cardinality(Counting(h) \ {t})
  BY DEF Coming
<1>. QED
  BY <1>1, <1>2, <1>3 DEF Coming

\* The last thread that works for a batch begins to end it.
LEMMA StartsEnding ==
  ASSUME NEW apart, NEW guests, WriteIInv(apart, guests), NEW t \in Threads, NEW h \in Headers, OthersStay(t),
         (Sends(t, h) /\ pc[t] = "settle") \/ Counts(t, h),
         \A u \in Threads \ {t} : ~Works(u, h) /\ ~Counts(u, h),
         Flying(h) = {}, local'[t].h = h, pc'[t] = "finalize",
         UNCHANGED <<req, allocated, batchList, usb, outcome>>,
         header'[h].Request = header[h].Request, header'[h].Count = header[h].Count,
         header'[h].UsbRequestStatuses = header[h].UsbRequestStatuses
  PROVE  /\ UseOK(h)' /\ PendingOK(h)' /\ BatchOK(h)' /\ FlightOK(h)'
         /\ StatusOK(h) => StatusOK(h)'
         /\ Live(h) /\ Live(h)' /\ Armed(h) /\ Armed(h)'
<1> DEFINE c == header[h].Request
           n == header[h].Count
<1>1. Taken(h) /\ Live(h) /\ Filled(h) /\ Armed(h)
  BY WhenItSends, WhenItCounts
<1>2. ~Begins(t, h)' /\ ~Sends(t, h)' /\ ~Counts(t, h)' /\ Ends(t, h)' /\ Works(t, h)'
  BY DEF Begins, Sends, Counts, Ends, Works, Loop
<1>3. \A u \in Threads \ {t} : ~Works(u, h)' /\ ~Counts(u, h)'
  BY OthersRoles
<1>4. \A u \in Threads : /\ Works(u, h)' => u = t
                         /\ ~Begins(u, h)' /\ ~Sends(u, h)' /\ ~Counts(u, h)'
                         /\ Ends(u, h)' => u = t
  BY <1>2, <1>3 DEF Works
<1>5. \A i \in Indices : ~Flies(i, h) /\ ~Flies(i, h)'
  BY DEF Flying, Flies
<1>6. Flying(h)' = {} /\ Counting(h)' = {}
  BY <1>4, <1>5 DEF Flying, Counting
<1>7. Taken(h)' /\ Filled(h)' /\ Live(h)' /\ Armed(h)'
  BY <1>1, <1>4 DEF Taken, Filled, Live, Armed
<1>8. UseOK(h)'
  BY <1>2, <1>4, <1>5, <1>6, <1>7 DEF UseOK
<1>9. PendingOK(h)'
  BY <1>2, <1>4 DEF PendingOK
<1>10. /\ c \in Callers /\ c \in Threads /\ pc[c] \notin {"idle", "alloc", "fill"}
       /\ 2 <= n /\ n = req[c].n /\ req[c].completions = 0
       /\ pc[c] \in Loop => local[c].h = h
  BY <1>1, Constants DEF WriteIInv, BatchOK
<1>11. BatchOK(h)'
  <2>1. pc'[c] \notin {"idle", "alloc", "fill"} /\ (pc'[c] \in Loop => local'[c].h = h)
    BY <1>10 DEF OthersStay
  <2>. QED
    BY <1>4, <1>10, <2>1 DEF BatchOK
<1>12. FlightOK(h)'
  BY <1>5 DEF FlightOK
<1>13. ASSUME StatusOK(h) PROVE StatusOK(h)'
  <2>1. ASSUME NEW k \in 1..n
        PROVE  /\ (\A u \in Threads : ~Sends(u, h)) => Gone(c, k)
               /\ outcome[c][k] \in Ended /\ ~(Sends(c, h) /\ pc[c] = "store") =>
                    (header[h].UsbRequestStatuses[k] <=> outcome[c][k] = "ok")
    BY <1>1, <1>13 DEF StatusOK
  <2>2. Sends(c, h) =>
          /\ \A k \in 1..Sent(c) : outcome[c][k] # "none"
          /\ pc[c] = "settle" => outcome[c][Sent(c) + 1] = "failed"
    BY <1>1, <1>13 DEF StatusOK
  <2>3. \A u \in Threads : Sends(u, h) => u = t /\ pc[u] = "settle"
    BY DEF Works, Counts, Sends, Loop
  <2>4. ASSUME NEW k \in 1..n PROVE Gone(c, k)
    <3>1. CASE \A u \in Threads : ~Sends(u, h)
      BY <2>1, <3>1
    <3>2. CASE \E u \in Threads : Sends(u, h)
      <4>1. Sends(t, h) /\ pc[t] = "settle"
        BY <2>3, <3>2
      <4>2. c = t
        BY <4>1, WhenItSends
      <4>3. /\ \A j \in 1..Sent(c) : outcome[c][j] # "none"
            /\ outcome[c][Sent(c) + 1] = "failed"
        BY <2>2, <4>1, <4>2
      <4>4. Sent(c) \in Nat /\ n \in Nat
        <5>1. local[c].k \in Nat /\ 1 <= local[c].k /\ n \in Nat
          BY <1>10, <4>1, <4>2, FieldTypes DEF WriteIInv, ThreadOK, Loop
        <5>. QED
          BY <4>1, <4>2, <5>1 DEF Sent
      <4>5. k <= Sent(c) \/ k = Sent(c) + 1 \/ Sent(c) + 1 \in 1..(k - 1)
        BY <4>4
      <4>6. CASE k <= Sent(c)
        BY <4>3, <4>4, <4>6 DEF Gone
      <4>7. CASE k = Sent(c) + 1
        BY <4>3, <4>7 DEF Gone
      <4>8. CASE Sent(c) + 1 \in 1..(k - 1)
        BY <4>3, <4>8 DEF Gone
      <4>. QED
        BY <4>5, <4>6, <4>7, <4>8
    <3>. QED
      BY <3>1, <3>2
  <2>5. ASSUME NEW k \in 1..n, outcome[c][k] \in Ended
        PROVE  header[h].UsbRequestStatuses[k] <=> outcome[c][k] = "ok"
    BY <1>10, <2>1, <2>3, <2>5
  <2>6. ~Sends(c, h)'
    BY <1>4, <1>10
  <2>. QED
    BY <2>4, <2>5, <2>6 DEF StatusOK, Gone
<1>. QED
  BY <1>1, <1>7, <1>8, <1>9, <1>11, <1>12, <1>13

\* Another will end the batch.
LEMMA LeavesBatch ==
  ASSUME NEW apart, NEW guests, WriteIInv(apart, guests), NEW t \in Threads, NEW h \in Headers, OthersStay(t),
         (Sends(t, h) /\ pc[t] = "settle") \/ Counts(t, h),
         NotOf(t, h)', pc'[t] \in {"idle", "returned"}, pc'[t] = "idle" => t \notin Callers,
         UNCHANGED <<req, allocated, batchList, usb, outcome>>,
         header'[h].Request = header[h].Request, header'[h].Count = header[h].Count,
         header'[h].UsbRequestStatuses = header[h].UsbRequestStatuses,
         header'[h].UsbRequestIndices = header[h].UsbRequestIndices,
         header'[h].Pending # 0,
         Sends(t, h) => header'[h].Pending = Coming(h),
         Counts(t, h) => header'[h].Pending = header[h].Pending - 1
  PROVE  /\ UseOK(h)' /\ PendingOK(h)' /\ BatchOK(h)' /\ FlightOK(h)'
         /\ StatusOK(h) => StatusOK(h)'
         /\ Live(h) /\ Live(h)' /\ Armed(h) /\ Armed(h)'
<1> DEFINE c == header[h].Request
           n == header[h].Count
<1>1. /\ Taken(h) /\ Live(h) /\ Filled(h) /\ Armed(h)
      /\ \A u \in Threads : ~Begins(u, h) /\ ~Ends(u, h)
  BY WhenItSends, WhenItCounts
<1>2. \A u \in Threads \ {t} :
         /\ Begins(u, h)' <=> Begins(u, h)
         /\ Sends(u, h)' <=> Sends(u, h)
         /\ Counts(u, h)' <=> Counts(u, h)
         /\ Ends(u, h)' <=> Ends(u, h)
         /\ Works(u, h)' <=> Works(u, h)
         /\ Sends(u, h) => Sent(u)' = Sent(u) /\ req'[u].n = req[u].n
  BY OthersRoles
<1>3. ~Begins(t, h)' /\ ~Sends(t, h)' /\ ~Counts(t, h)' /\ ~Ends(t, h)' /\ ~Works(t, h)'
  BY DEF NotOf, Works
<1>4. \A u \in Threads : /\ ~Begins(u, h)' /\ ~Ends(u, h)'
                         /\ Works(u, h)' => Works(u, h) /\ u # t
                         /\ Counts(u, h)' <=> Counts(u, h) /\ u # t
                         /\ Sends(u, h)' => Sends(u, h) /\ u # t
  BY <1>1, <1>2, <1>3
<1>5. Flying(h)' = Flying(h) /\ Counting(h)' = Counting(h) \ {t}
      /\ \A i \in Indices : Flies(i, h)' <=> Flies(i, h)
  BY <1>4 DEF Flying, Counting, Flies
<1>6. Taken(h)' /\ Filled(h)' /\ Live(h)' /\ Armed(h)'
  BY <1>1, <1>4 DEF Taken, Filled, Live, Armed
<1>7. UseOK(h) /\ PendingOK(h) /\ BatchOK(h) /\ FlightOK(h)
  BY DEF WriteIInv
<1>8. PendingOK(h)' /\ ((\A u \in Threads : ~Works(u, h)') => header'[h].Pending = Coming(h)')
  <2>1. CASE Sends(t, h)
    <3>1. \A u \in Threads : ~Works(u, h)'
      BY <1>4, <2>1, WhenItSends
    <3>2. ~Counts(t, h)
      BY <2>1 DEF Sends, Counts, Loop
    <3>3. Counting(h)' = Counting(h)
      BY <1>5, <3>2 DEF Counting
    <3>4. header'[h].Pending = Coming(h)'
      BY <1>5, <2>1, <3>3 DEF Coming
    <3>. QED
      BY <3>1, <3>4 DEF PendingOK, Works
  <2>2. CASE Counts(t, h)
    <3>1. t \in Counting(h)
      BY <2>2 DEF Counting
    <3>2. Coming(h)' = Coming(h) - 1 /\ Coming(h) \in Nat
      BY <1>5, <3>1, ComingLess, ComingParts
    <3>3. header'[h].Pending = header[h].Pending - 1 /\ header[h].Pending \in Nat
      BY <2>2, FieldTypes DEF WriteIInv
    <3>4. ASSUME NEW u \in Threads, Sends(u, h)'
          PROVE  /\ header'[h].Pending = (req'[u].n - Sent(u)') + Coming(h)'
                 /\ header'[h].Pending <= req'[u].n
      <4>1. Sends(u, h) /\ u # t /\ Sent(u)' = Sent(u) /\ req'[u].n = req[u].n
        BY <1>2, <1>4, <3>4
      <4>2. /\ header[h].Pending = (req[u].n - Sent(u)) + Coming(h)
            /\ header[h].Pending <= req[u].n /\ u \in Callers
        BY <4>1, WhenItSends
      <4>3. req[u].n \in Int /\ Sent(u) \in Int
        BY <4>2, FieldTypes DEF WriteIInv, Sent
      <4>. QED
        BY <3>2, <3>3, <4>1, <4>2, <4>3
    <3>5. ASSUME \A u \in Threads : ~Works(u, h)' PROVE header'[h].Pending = Coming(h)'
      <4>1. ~Works(t, h)
        BY <2>2, WhenItCounts
      <4>2. \A u \in Threads : ~Works(u, h)
        BY <1>2, <3>5, <4>1
      <4>. QED
        BY <1>1, <1>7, <3>2, <3>3, <4>2 DEF PendingOK
    <3>. QED
      BY <3>4, <3>5 DEF PendingOK
  <2>. QED
    BY <2>1, <2>2
<1>9. UseOK(h)'
  <2>1. (\E u \in Threads : Works(u, h)' \/ Counts(u, h)') \/ \E i \in Indices : Flies(i, h)'
    <3> SUFFICES ASSUME \A u \in Threads : ~Works(u, h)', \A u \in Threads : ~Counts(u, h)'
                 PROVE  \E i \in Indices : Flies(i, h)'
      OBVIOUS
    <3>1. Coming(h)' # 0
      BY <1>8
    <3>2. Counting(h)' = {}
      BY DEF Counting
    <3>3. Coming(h)' = Cardinality(Flying(h)') + Cardinality(Counting(h)')
      BY DEF Coming
    <3>4. Cardinality({}) = 0
      BY FS_EmptySet
    <3>5. Flying(h)' # {}
      BY <3>1, <3>2, <3>3, <3>4
    <3>. QED
      BY <3>5 DEF Flying
  <2>. QED
    BY <1>4, <1>6, <1>7, <2>1 DEF UseOK
<1>10. BatchOK(h)'
  <2>1. /\ c \in Callers /\ c \in Threads /\ pc[c] \notin {"idle", "alloc", "fill"}
        /\ 2 <= n /\ n = req[c].n /\ req[c].completions = 0
        /\ pc[c] \in Loop => local[c].h = h
    BY <1>1, <1>7, Constants DEF BatchOK
  <2>2. pc'[c] \notin {"idle", "alloc", "fill"} /\ (pc'[c] \in Loop => local'[c].h = h)
    BY <2>1 DEF OthersStay, Loop
  <2>3. \A u \in Threads : Sends(u, h)' => c = u
    BY <1>4, <1>7 DEF BatchOK
  <2>. QED
    BY <2>1, <2>2, <2>3 DEF BatchOK
<1>11. FlightOK(h)'
  <2>1. \A u \in Threads : Sends(u, h)' => Sends(u, h) /\ Sent(u)' = Sent(u)
    BY <1>2, <1>4
  <2>. QED
    BY <1>5, <1>7, <2>1 DEF FlightOK
<1>12. ASSUME StatusOK(h) PROVE StatusOK(h)'
  <2>1. ASSUME NEW k \in 1..n
        PROVE  /\ (\A u \in Threads : ~Sends(u, h)) => Gone(c, k)
               /\ outcome[c][k] \in Ended /\ ~(Sends(c, h) /\ pc[c] = "store" /\ ~local[c].ok /\ k = local[c].k) =>
                    (header[h].UsbRequestStatuses[k] <=> outcome[c][k] = "ok")
    BY <1>1, <1>12 DEF StatusOK
  <2>2. Sends(c, h) =>
          /\ \A k \in 1..Sent(c) : outcome[c][k] # "none"
          /\ pc[c] = "settle" \/ (pc[c] # "send" /\ ~local[c].ok) => outcome[c][Sent(c) + 1] = "failed"
    BY <1>1, <1>12 DEF StatusOK
  <2>3. c \in Threads
    BY <1>1, <1>7, Constants DEF BatchOK
  <2>4. CASE Sends(t, h)
    <3>1. c = t /\ \A u \in Threads : Sends(u, h) => u = t /\ pc[u] = "settle"
      <4>1. pc[t] = "settle"
        BY <2>4 DEF Sends, Counts, Loop
      <4>2. c = t /\ \A u \in Threads : Works(u, h) => u = t
        BY <2>4, WhenItSends
      <4>. QED
        BY <4>1, <4>2 DEF Works
    <3>2. \A u \in Threads : ~Sends(u, h)'
      BY <1>4, <3>1
    <3>3. ASSUME NEW k \in 1..n PROVE Gone(c, k)
      <4>1. /\ \A j \in 1..Sent(c) : outcome[c][j] # "none"
            /\ outcome[c][Sent(c) + 1] = "failed"
        BY <2>2, <2>4, <3>1
      <4>2. Sent(c) \in Nat /\ n \in Nat
        <5>1. local[c].k \in Nat /\ 1 <= local[c].k /\ n \in Nat
          <6>1. req[c].n = n /\ ThreadOK(c)
            BY <2>3, <2>4, <3>1, WhenItSends DEF WriteIInv
          <6>. QED
            BY <2>3, <2>4, <3>1, <6>1, FieldTypes DEF WriteIInv, ThreadOK, Sends
        <5>. QED
          BY <2>4, <3>1, <5>1 DEF Sent
      <4>3. k <= Sent(c) \/ k = Sent(c) + 1 \/ Sent(c) + 1 \in 1..(k - 1)
        BY <4>2
      <4>4. CASE k <= Sent(c)
        BY <4>1, <4>2, <4>4 DEF Gone
      <4>5. CASE k = Sent(c) + 1
        BY <4>1, <4>5 DEF Gone
      <4>6. CASE Sent(c) + 1 \in 1..(k - 1)
        BY <4>1, <4>6 DEF Gone
      <4>. QED
        BY <4>3, <4>4, <4>5, <4>6
    <3>4. ASSUME NEW k \in 1..n, outcome[c][k] \in Ended
          PROVE  header[h].UsbRequestStatuses[k] <=> outcome[c][k] = "ok"
      BY <2>1, <2>4, <3>1, <3>4
    <3>. QED
      BY <2>3, <3>2, <3>3, <3>4 DEF StatusOK, Gone
  <2>5. CASE Counts(t, h)
    <3>1. \A u \in Threads : Sends(u, h)' <=> Sends(u, h)
      BY <1>2, <1>3, <2>5, WhenItCounts DEF Works
    <3>2. Sends(c, h) => /\ pc'[c] = pc[c] /\ local'[c] = local[c] /\ Sent(c)' = Sent(c)
      BY <1>2, <2>3, <2>5 DEF OthersStay, Sends, Counts, Loop
    <3>3. ASSUME NEW k \in 1..n
          PROVE  /\ (\A u \in Threads : ~Sends(u, h)') => Gone(c, k)
                 /\ outcome[c][k] \in Ended /\ ~(Sends(c, h) /\ pc'[c] = "store" /\ ~local'[c].ok /\ k = local'[c].k) =>
                      (header[h].UsbRequestStatuses[k] <=> outcome[c][k] = "ok")
      BY <2>1, <3>1, <3>2
    <3>4. Sends(c, h) =>
            /\ \A k \in 1..Sent(c)' : outcome[c][k] # "none"
            /\ pc'[c] = "settle" \/ (pc'[c] # "send" /\ ~local'[c].ok) => outcome[c][Sent(c)' + 1] = "failed"
      BY <2>2, <3>2
    <3>5. Sends(c, h)' <=> Sends(c, h)
      BY <2>3, <3>1
    <3>. QED
      BY <3>3, <3>4, <3>5 DEF StatusOK, Gone
  <2>. QED
    BY <2>4, <2>5
<1>. QED
  BY <1>1, <1>6, <1>8, <1>9, <1>10, <1>11, <1>12

\* A thread takes something off Pending and leaves the batch to others, or ends it.
LEMMA LeaveOrEnd ==
  ASSUME NEW apart, NEW guests, TypeOK, WriteIInv(apart, guests), NEW t \in Threads, NEW h \in Headers, h = local[t].h,
         (Sends(t, h) /\ pc[t] = "settle") \/ Counts(t, h),
         header' \in [Headers -> Hdrs], \A g \in Headers \ {h} : header'[g] = header[g],
         header'[h].Request = header[h].Request, header'[h].Count = header[h].Count,
         header'[h].UsbRequestStatuses = header[h].UsbRequestStatuses,
         header'[h].UsbRequestIndices = header[h].UsbRequestIndices,
         UNCHANGED <<poolVars, req, allocated, batchList, usb, outcome, late>>,
         \/ /\ Goto(t, "finalize") /\ local' = local
            /\ Flying(h) = {} /\ \A u \in Threads \ {t} : ~Works(u, h) /\ ~Counts(u, h)
         \/ /\ Return(t) /\ header'[h].Pending # 0
            /\ Sends(t, h) => header'[h].Pending = Coming(h)
            /\ Counts(t, h) => header'[h].Pending = header[h].Pending - 1
  PROVE  WriteIInv(apart, guests)'
<1>1. VarTypes /\ ThreadOK(t) /\ StageMatches(t, guests) /\ h # NoHeader
  BY Constants DEF WriteIInv
<1>2. pc[t] \in {"settle", "count"} /\ stage[t] = "out"
  BY <1>1 DEF Counts, StageMatches
<1>3. /\ pc' \in [Threads -> PCs] /\ local' \in [Threads -> Locals]
      /\ OthersStay(t) /\ ThreadOK(t)'
      /\ pc'[t] \in {"finalize", "idle", "returned"}
      /\ pc'[t] = "idle" => t \notin Callers
      /\ (\A g \in Headers \ {h} : NotOf(t, g)') /\ ~Single(t)'
      /\ pc'[t] = "finalize" => local'[t].h = h
      /\ Goto(t, "finalize") => pc'[t] = "finalize"
      /\ Return(t) => pc'[t] \in {"idle", "returned"} /\ NotOf(t, h)'
  <2>1. CASE Return(t)
    <3>1. /\ pc' \in [Threads -> PCs] /\ local' \in [Threads -> Locals]
          /\ OthersStay(t) /\ ThreadOK(t)'
          /\ pc'[t] \in {"idle", "returned"}
          /\ pc'[t] = "idle" => t \notin Callers
          /\ (\A g \in Headers : NotOf(t, g)') /\ ~Single(t)'
      BY <1>1, <2>1, ReturnParts
    <3>2. Goto(t, "finalize") => pc'[t] = "finalize"
      <4>1. "finalize" \in PCs
        BY DEF PCs
      <4>. QED
        BY <1>1, <4>1, GotoParts
    <3>. QED
      BY <3>1, <3>2
  <2>2. CASE ~Return(t)
    <3>1. "finalize" \in PCs /\ Goto(t, "finalize") /\ local' = local
      BY <2>2 DEF PCs
    <3>2. pc' \in [Threads -> PCs] /\ pc'[t] = "finalize" /\ \A u \in Threads \ {t} : pc'[u] = pc[u]
      BY <1>1, <3>1, GotoParts
    <3>3. OthersStay(t)
      BY <3>1, <3>2 DEF OthersStay
    <3>4. ThreadOK(t)'
      BY <1>1, <3>1, <3>2 DEF ThreadOK, Loop
    <3>5. \A g \in Headers \ {h} : NotOf(t, g)'
      BY <3>1 DEF NotOf, Works, Begins, Sends, Counts, Ends
    <3>6. ~Single(t)'
      BY <3>2 DEF Single
    <3>7. local' \in [Threads -> Locals]
      BY <1>1, <3>1, TypeParts
    <3>. QED
      BY <2>2, <3>1, <3>2, <3>3, <3>4, <3>5, <3>6, <3>7
  <2>. QED
    BY <2>1, <2>2
<1>4. UNCHANGED <<outstanding, stage, want>>
  BY DEF poolVars
<1>5. VarTypes'
  BY <1>1, <1>3 DEF VarTypes
<1>6. \A u \in Threads : ThreadOK(u)' /\ StageMatches(u, guests)'
  <2>1. StageMatches(t, guests)'
    BY <1>1, <1>2, <1>3, <1>4 DEF StageMatches
  <2>. QED
    BY <1>3, <1>4, <2>1, ThreadsKept
<1>7. ASSUME NEW g \in Headers, g # h
      PROVE  /\ UseOK(g)' /\ PendingOK(g)' /\ BatchOK(g)' /\ FlightOK(g)'
             /\ StatusOK(g) => StatusOK(g)'
             /\ Live(g)' <=> Live(g)
             /\ \A k \in Positions : Has(g, k)' <=> Has(g, k)
  <2>1. NotOf(t, g) /\ NotOf(t, g)'
    BY <1>3, <1>7 DEF NotOf, Works, Begins, Sends, Ends, Counts
  <2>2. Taken(g)' <=> Taken(g)
    BY DEF Taken
  <2>3. \A i \in Indices : Flies(i, g)' <=> Flies(i, g)
    BY DEF Flies
  <2>4. Filled(g) /\ header[g].Request = t =>
           req'[t].n = req[t].n /\ pc'[t] \notin {"idle", "alloc", "fill"}
    BY <1>3 DEF WriteIInv, BatchOK
  <2>5. pc'[t] \notin Loop
    BY <1>3 DEF Loop
  <2>. QED
    BY <1>3, <1>7, <2>1, <2>2, <2>3, <2>4, <2>5, OtherHeader
<1>8. /\ UseOK(h)' /\ PendingOK(h)' /\ BatchOK(h)' /\ FlightOK(h)'
      /\ StatusOK(h) => StatusOK(h)'
      /\ Live(h) /\ Live(h)' /\ Armed(h) /\ Armed(h)'
  <2>1. CASE Return(t) /\ header'[h].Pending # 0
             /\ (Sends(t, h) => header'[h].Pending = Coming(h))
             /\ (Counts(t, h) => header'[h].Pending = header[h].Pending - 1)
    BY <1>3, <2>1, LeavesBatch
  <2>2. CASE Goto(t, "finalize") /\ Flying(h) = {}
             /\ \A u \in Threads \ {t} : ~Works(u, h) /\ ~Counts(u, h)
    BY <1>3, <2>2, StartsEnding
  <2>. QED
    BY <2>1, <2>2
<1>9. /\ \A g \in Headers : UseOK(g)' /\ PendingOK(g)' /\ BatchOK(g)' /\ FlightOK(g)'
      /\ \A g \in Headers : StatusOK(g) => StatusOK(g)'
      /\ \A g \in Headers : Live(g)' => Live(g)
      /\ \A g \in Headers : header'[g].Request = header[g].Request
  BY <1>7, <1>8
<1>10. ListOK'
  BY DEF WriteIInv, ListOK
<1>11. RequestsOK'
  BY <1>9, RequestsKept DEF WriteIInv
<1>12. \A i \in Indices : Alone(i)' <=> Alone(i)
  BY DEF Alone
<1>13. AloneOK(guests)'
  <2>1. \A i \in Indices : Alone(i) /\ usb[i].ctx.r \notin guests =>
           usb[i].ctx.r \in Threads \ {t} /\ pc[usb[i].ctx.r] = "returned"
    BY <1>2, Constants DEF WriteIInv, AloneOK
  <2>2. \A i \in Indices : Alone(i) /\ usb[i].ctx.r \notin guests =>
           /\ pc'[usb[i].ctx.r] = "returned"
           /\ req'[usb[i].ctx.r] = req[usb[i].ctx.r]
    BY <1>3, <2>1 DEF OthersStay
  <2>. QED
    BY <1>12, <2>2, AloneKept DEF WriteIInv
<1>14. PlacesOK' /\ AllPlaced(apart)'
  <2>1. \A k \in Positions : Has(h, k)' <=> Has(h, k)
    BY <1>2, <1>3, <1>8, PositionsKept
  <2>2. \A u \in Threads : /\ Single(u)' <=> Single(u)
                           /\ Single(u) => local'[u].i = local[u].i
    BY <1>2, <1>3 DEF Single, OthersStay
  <2>3. PlacesOK /\ AllPlaced(apart) /\ outstanding' = outstanding /\ outstanding \subseteq Indices
    BY <1>4 DEF WriteIInv, TypeOK
  <2>4. \A g \in Headers : header'[g].UsbRequestIndices = header[g].UsbRequestIndices
    OBVIOUS
  <2>. QED
    BY <1>7, <1>12, <2>1, <2>2, <2>3, <2>4, PlacesKept
<1>15. SentFlies'
  BY DEF WriteIInv, SentFlies
<1>16. ASSUME ~late' PROVE (\A g \in Headers : StatusOK(g)') /\ \A u \in Callers : ReportOK(u)'
  BY <1>9, <1>16 DEF WriteIInv, ReportOK
<1>. QED
  BY <1>5, <1>6, <1>9, <1>10, <1>11, <1>13, <1>14, <1>15, <1>16 DEF WriteIInv

\* One header gets another count.
LEMMA PendingParts ==
  ASSUME VarTypes, NEW h \in Headers, NEW left \in 0..MaxAlloc,
         header' = [header EXCEPT ![h].Pending = left]
  PROVE  /\ header' \in [Headers -> Hdrs] /\ \A g \in Headers \ {h} : header'[g] = header[g]
         /\ header'[h].Request = header[h].Request /\ header'[h].Count = header[h].Count
         /\ header'[h].UsbRequestStatuses = header[h].UsbRequestStatuses
         /\ header'[h].UsbRequestIndices = header[h].UsbRequestIndices
         /\ header'[h].Pending = left
BY TypeParts DEF Hdrs

\* Counting down.
LEMMA CountDownKeeps ==
  ASSUME NEW apart, NEW guests, TypeOK, WriteIInv(apart, guests), NEW t \in Threads, CountDown(t)
  PROVE  WriteIInv(apart, guests)'
<1>1. VarTypes /\ ThreadOK(t) /\ pc[t] = "count"
  BY DEF WriteIInv, CountDown
<1>2. PICK h \in Headers : h = local[t].h
  BY <1>1, FieldTypes DEF ThreadOK
<1>3. Counts(t, h) /\ t \in Counting(h)
  BY <1>1, <1>2 DEF Counts, Counting
<1>4. PICK left : left = header[h].Pending - 1
  OBVIOUS
<1>5. /\ header' = [header EXCEPT ![h].Pending = left]
      /\ (left = 0 /\ Goto(t, "finalize") /\ local' = local) \/ (left # 0 /\ Return(t))
      /\ UNCHANGED <<poolVars, req, allocated, batchList, usb, outcome, late>>
  BY <1>2, <1>4 DEF CountDown, Last, Hdr
<1>6. /\ \A u \in Threads : ~Begins(u, h) /\ ~Ends(u, h)
      /\ Taken(h) /\ PendingOK(h) /\ ~Works(t, h)
  BY <1>3, WhenItCounts DEF WriteIInv
<1>7. header[h].Pending \in Nat /\ header[h].Pending <= MaxAlloc
  BY <1>1, FieldTypes
<1>8. Coming(h) \in Nat /\ Cardinality(Flying(h)) \in Nat /\ Cardinality(Counting(h)) \in Nat
      /\ IsFiniteSet(Counting(h)) /\ Coming(h) # 0
  BY <1>3, ComingParts
<1>9. header[h].Pending >= Coming(h) /\ (header[h].Pending = Coming(h) => \A u \in Threads : ~Works(u, h))
  <2>1. CASE \E u \in Threads : Works(u, h)
    <3>1. PICK u \in Threads : Sends(u, h)
      BY <1>6, <2>1 DEF Works
    <3>2. header[h].Pending = (req[u].n - Sent(u)) + Coming(h) /\ u \in Callers
      BY <3>1, WhenItSends
    <3>3. req[u].n \in Int /\ Sent(u) \in Int /\ Sent(u) < req[u].n
      BY <1>1, <3>1, <3>2, FieldTypes DEF Sends, Sent
    <3>. QED
      BY <1>8, <3>2, <3>3
  <2>2. CASE \A u \in Threads : ~Works(u, h)
    BY <1>6, <1>8, <2>2 DEF PendingOK
  <2>. QED
    BY <2>1, <2>2
<1>10. left \in 0..MaxAlloc
  BY <1>4, <1>7, <1>8, <1>9, Constants
<1>11. ASSUME left = 0
       PROVE  Flying(h) = {} /\ \A u \in Threads \ {t} : ~Works(u, h) /\ ~Counts(u, h)
  <2>1. header[h].Pending = 1 /\ Coming(h) = 1
    BY <1>4, <1>7, <1>8, <1>9, <1>11
  <2>2. Cardinality(Counting(h)) # 0
    BY <1>3, <1>8, FS_EmptySet
  <2>3. Cardinality(Counting(h)) = 1 /\ Cardinality(Flying(h)) = 0
    BY <1>8, <2>1, <2>2 DEF Coming
  <2>4. Flying(h) = {}
    BY <2>3, ComingParts, FS_EmptySet
  <2>5. PICK x : Counting(h) = {x}
    BY <1>8, <2>3, FS_Singleton
  <2>6. \A u \in Threads \ {t} : ~Counts(u, h)
    BY <1>3, <2>5 DEF Counting
  <2>. QED
    BY <1>9, <2>1, <2>4, <2>6
<1>12. ~Sends(t, h)
  BY <1>1 DEF Sends, Loop
<1>13. /\ header' \in [Headers -> Hdrs] /\ \A g \in Headers \ {h} : header'[g] = header[g]
       /\ header'[h].Request = header[h].Request /\ header'[h].Count = header[h].Count
       /\ header'[h].UsbRequestStatuses = header[h].UsbRequestStatuses
       /\ header'[h].UsbRequestIndices = header[h].UsbRequestIndices
       /\ header'[h].Pending = left
  BY <1>1, <1>5, <1>10, PendingParts
<1>14. header'[h].Pending = header[h].Pending - 1
  BY <1>4, <1>13
<1>. QED
  BY <1>2, <1>3, <1>5, <1>11, <1>12, <1>13, <1>14, LeaveOrEnd

\* Taking off what was not sent.
LEMMA SettleKeeps ==
  ASSUME NEW apart, NEW guests, TypeOK, WriteIInv(apart, guests), NEW c \in Callers, Settle(c)
  PROVE  WriteIInv(apart, guests)'
<1>1. VarTypes /\ ThreadOK(c) /\ StageMatches(c, guests) /\ c \in Threads /\ pc[c] = "settle"
  BY Constants DEF WriteIInv, Settle
<1>2. PICK h \in Headers : h = local[c].h
  BY <1>1, FieldTypes DEF ThreadOK
<1>3. PICK n : n = req[c].n
  OBVIOUS
<1>4. PICK sent : sent = local[c].k - 1
  OBVIOUS
<1>5. n \in Nat /\ n <= MaxAlloc /\ 1 <= n /\ sent \in Nat /\ sent <= n /\ Sent(c) = sent
  <2>1. n \in Nat /\ n <= MaxAlloc /\ local[c].k \in Nat
    BY <1>1, <1>3, FieldTypes
  <2>2. 1 <= n /\ 1 <= local[c].k /\ local[c].k <= n + 1
    BY <1>1, <1>3 DEF ThreadOK, Loop
  <2>3. Sent(c) = sent
    BY <1>1, <1>4 DEF Sent
  <2>. QED
    BY <1>4, <2>1, <2>2, <2>3
<1>6. UNCHANGED <<poolVars, req, allocated, batchList, usb, outcome, late>>
  BY DEF Settle
<1>7. PICK left : left = header[h].Pending + (sent - n)
  OBVIOUS
<1>8. \/ sent = n /\ Return(c) /\ header' = header
      \/ /\ sent \in 1..(n - 1)
         /\ header' = [header EXCEPT ![h].Pending = left]
         /\ (left = 0 /\ Goto(c, "finalize") /\ local' = local) \/ (left # 0 /\ Return(c))
      \/ sent = 0 /\ Goto(c, "finalize") /\ header' = header /\ local' = local
  BY <1>2, <1>3, <1>4, <1>7 DEF Settle, Hdr, Last, Unsent
<1>9. CASE sent = n /\ Return(c) /\ header' = header
  <2>1. /\ pc' \in [Threads -> PCs] /\ local' \in [Threads -> Locals]
        /\ pc'[c] \in {"idle", "returned"} /\ pc'[c] = AtRest(c)
        /\ OthersStay(c) /\ (\A g \in Headers : NotOf(c, g)') /\ ~Single(c)'
        /\ ThreadOK(c)' /\ (stage'[c] = "out" => StageMatches(c, guests)')
    BY <1>1, <1>9, ReturnParts, NoGuest
  <2>2. pc'[c] = "returned"
    BY <2>1 DEF AtRest
  <2>3. UNCHANGED <<stage, want, outstanding>>
    BY <1>6 DEF poolVars
  <2>4. StageMatches(c, guests)'
    BY <1>1, <2>1, <2>3 DEF StageMatches
  <2>5. VarTypes'
    BY <1>1, <1>6, <1>9, <2>1 DEF VarTypes
  <2>6. \A g \in Headers : NotOf(c, g)
    BY <1>1, <1>3, <1>5, <1>9 DEF NotOf, Works, Begins, Sends, Ends, Counts
  <2>7. \A g \in Headers : SameRole(c, g)
    BY <2>1, <2>6, NoRole
  <2>8. ~Single(c)
    BY <1>1 DEF Single
  <2>9. \A i \in Indices : ~(Alone(i) /\ usb[i].ctx.r = c)
    BY <1>1, NoGuest DEF WriteIInv, AloneOK
  <2>10. \A g \in Headers : Filled(g) /\ header[g].Request = c =>
            /\ req'[c].n = req[c].n
            /\ pc'[c] \notin {"idle", "alloc", "fill"}
            /\ Live(g) => /\ req'[c].completions = req[c].completions
                          /\ pc'[c] \in Loop => local'[c].h = g
    BY <1>6, <2>2 DEF Loop
  <2>11. ~late => ReportOK(c)'
    BY <1>6 DEF WriteIInv, ReportOK
  <2>12. outstanding \subseteq Indices
    BY DEF TypeOK
  <2>. QED
    BY <1>1, <1>6, <1>9, <2>1, <2>3, <2>4, <2>5, <2>6, <2>7, <2>8, <2>9, <2>10, <2>11, <2>12, QuietStep
<1>10. ASSUME sent < n
       PROVE  /\ Sends(c, h) /\ ~Counts(c, h) /\ left = Coming(h)
              /\ left \in 0..MaxAlloc
              /\ \A u \in Threads \ {c} : ~Works(u, h)
              /\ header[h].Pending = (n - sent) + Coming(h) /\ header[h].Pending <= n
              /\ Coming(h) \in Nat
  <2>1. Sends(c, h) /\ ~Counts(c, h)
    BY <1>1, <1>2, <1>3, <1>5, <1>10 DEF Sends, Counts, Loop
  <2>2. /\ header[h].Pending = (n - sent) + Coming(h) /\ header[h].Pending <= n
        /\ \A u \in Threads \ {c} : ~Works(u, h)
    BY <1>1, <1>3, <1>5, <2>1, WhenItSends
  <2>3. Coming(h) \in Nat
    BY ComingParts
  <2>4. left = Coming(h)
    BY <1>5, <1>7, <2>2, <2>3
  <2>5. left \in 0..MaxAlloc
    BY <1>5, <1>10, <2>2, <2>3, <2>4, Constants
  <2>. QED
    BY <2>1, <2>2, <2>3, <2>4, <2>5
<1>11. ASSUME Coming(h) = 0 PROVE Flying(h) = {} /\ \A u \in Threads : ~Counts(u, h)
  BY <1>11, ComingParts DEF Counting
<1>12. CASE /\ sent \in 1..(n - 1)
            /\ header' = [header EXCEPT ![h].Pending = left]
            /\ (left = 0 /\ Goto(c, "finalize") /\ local' = local) \/ (left # 0 /\ Return(c))
  <2>1. sent < n
    BY <1>5, <1>12
  <2>2. /\ header' \in [Headers -> Hdrs] /\ \A g \in Headers \ {h} : header'[g] = header[g]
        /\ header'[h].Request = header[h].Request /\ header'[h].Count = header[h].Count
        /\ header'[h].UsbRequestStatuses = header[h].UsbRequestStatuses
        /\ header'[h].UsbRequestIndices = header[h].UsbRequestIndices
        /\ header'[h].Pending = left
    BY <1>1, <1>10, <1>12, <2>1, PendingParts
  <2>. QED
    BY <1>1, <1>2, <1>6, <1>10, <1>11, <1>12, <2>1, <2>2, LeaveOrEnd
<1>13. CASE sent = 0 /\ Goto(c, "finalize") /\ header' = header /\ local' = local
  <2>1. sent < n
    BY <1>5, <1>13
  <2>2. Coming(h) = 0
    BY <1>5, <1>10, <1>13, <2>1
  <2>3. header' \in [Headers -> Hdrs]
    BY <1>1, <1>13, TypeParts
  <2>. QED
    BY <1>1, <1>2, <1>6, <1>10, <1>11, <1>13, <2>1, <2>2, <2>3, LeaveOrEnd
<1>. QED
  BY <1>8, <1>9, <1>12, <1>13

\* A standalone transfer ends.
LEMMA UrbCompletedKeeps ==
  ASSUME NEW apart, NEW guests, TypeOK, WriteIInv(apart, guests), NEW d \in Dpcs, NEW i \in Indices, NEW result \in Results,
         UrbCompleted(d, i, result), usb[i].ctx.r \notin guests
  PROVE  WriteIInv(apart, guests)'
<1>1. VarTypes /\ d \in Threads /\ d \notin Callers /\ ThreadOK(d) /\ StageMatches(d, guests) /\ pc[d] = "idle"
      /\ d \notin guests
  BY DEF WriteIInv, Dpcs, UrbCompleted
<1>2. local[d] = NoWork /\ stage[d] = "out" /\ NoWork.h = NoHeader
  BY <1>1 DEF ThreadOK, StageMatches, NoWork
<1>3. PICK r : r = usb[i].ctx.r
  OBVIOUS
<1>4. /\ Alone(i) /\ usb[i].ctx.k = 1 /\ r \in Callers /\ r \in Threads /\ pc[r] = "returned"
      /\ req[r].n = 1 /\ req[r].completions = 0
      /\ \A j \in Indices : Alone(j) /\ usb[j].ctx.r = r => i = j
  BY <1>3, Constants DEF UrbCompleted, Alone, WriteIInv, AloneOK
<1>5. PICK x : x = [NoWork EXCEPT !.r = r, !.i = i]
  OBVIOUS
<1>6. x \in Locals /\ x.h = NoHeader /\ x.i = i
  <2>1. x = [r |-> r, h |-> NoHeader, i |-> i, k |-> 0, ok |-> TRUE]
    BY <1>5 DEF NoWork
  <2>2. 0 \in 0..(MaxAlloc + 1)
    BY Constants
  <2>. QED
    BY <1>4, <2>1, <2>2 DEF Locals
<1>7. /\ usb' = [usb EXCEPT ![i].inFlight = FALSE]
      /\ outcome' = [outcome EXCEPT ![r][1] = result]
      /\ Complete(r, result # "failed", 0)
      /\ local' = [local EXCEPT ![d] = x]
      /\ Goto(d, "push")
      /\ UNCHANGED <<poolVars, header, allocated, batchList, late>>
  BY <1>3, <1>5 DEF UrbCompleted
<1>8. UNCHANGED <<stage, want, outstanding>>
  BY <1>7 DEF poolVars
<1>9. /\ pc' \in [Threads -> PCs] /\ pc'[d] = "push" /\ (\A u \in Threads \ {d} : pc'[u] = pc[u])
      /\ local' \in [Threads -> Locals] /\ local'[d] = x /\ (\A u \in Threads \ {d} : local'[u] = local[u])
  <2>1. "push" \in PCs
    BY DEF PCs
  <2>. QED
    BY <1>1, <1>6, <1>7, <2>1, GotoParts, LocalParts
<1>10. /\ req' \in [Callers -> Reqs] /\ req'[r].n = 1
       /\ \A u \in Callers \ {r} : req'[u] = req[u]
  <2>1. (result # "failed") \in BOOLEAN /\ 0 \in 0..MaxAlloc
    BY Constants
  <2>. QED
    BY <1>1, <1>4, <1>7, <2>1, CompleteParts
<1>11. /\ usb' \in [Indices -> Usbs] /\ \A j \in Indices \ {i} : usb'[j] = usb[j]
       /\ ~usb'[i].inFlight
  <2>1. usb \in [Indices -> Usbs]
    BY <1>1, TypeParts
  <2>. QED
    BY <1>7, <2>1 DEF Usbs
<1>12. /\ outcome' \in [Callers -> [Positions -> Outcomes]] /\ outcome'[r][1] = result
       /\ \A u \in Callers \ {r} : outcome'[u] = outcome[u]
       /\ \A k \in Positions \ {1} : outcome'[r][k] = outcome[r][k]
       /\ result # "sent"
  <2>1. outcome \in [Callers -> [Positions -> Outcomes]] /\ 1 \in Positions
    BY <1>1, TypeParts, Constants DEF Positions
  <2>. QED
    BY <1>4, <1>7, <2>1, WriteAssumption DEF Outcomes
<1>13. VarTypes'
  BY <1>1, <1>7, <1>9, <1>10, <1>11, <1>12 DEF VarTypes
<1>14. OthersStay(d)
  BY <1>9 DEF OthersStay
<1>15. \A u \in Callers : req'[u].n = req[u].n
  BY <1>4, <1>10
<1>16. \A u \in Threads : ThreadOK(u)' /\ StageMatches(u, guests)'
  <2>1. ThreadOK(d)' /\ StageMatches(d, guests)'
    BY <1>1, <1>2, <1>8, <1>9 DEF ThreadOK, StageMatches, Loop
  <2>2. Busy(r)
    BY <1>4 DEF Busy
  <2>3. \A u \in Callers \ {d} :
           /\ req'[u].n = req[u].n
           /\ Busy(u) \/ (req'[u].completions = req[u].completions /\ outcome'[u] = outcome[u])
    BY <1>10, <1>12, <1>15, <2>2
  <2>. QED
    BY <1>1, <1>8, <1>14, <2>1, <2>3, ThreadsKept
<1>17. ASSUME NEW g \in Headers
       PROVE  /\ UseOK(g)' /\ PendingOK(g)' /\ BatchOK(g)' /\ FlightOK(g)'
              /\ StatusOK(g) => StatusOK(g)'
              /\ Live(g)' <=> Live(g)
              /\ \A k \in Positions : Has(g, k)' <=> Has(g, k)
  <2>1. NotOf(d, g) /\ NotOf(d, g)'
    BY <1>2, <1>6, <1>9, Constants DEF NotOf, Works, Begins, Sends, Ends, Counts
  <2>2. Taken(g)' <=> Taken(g)
    BY <1>7 DEF Taken
  <2>3. Flies(i, g) => FALSE
    BY <1>4, Constants DEF Flies, Alone
  <2>4. /\ \A j \in Indices : Flies(j, g)' <=> Flies(j, g)
        /\ \A j \in Indices : Flies(j, g) => usb'[j] = usb[j]
    BY <1>11, <2>3 DEF Flies
  <2>5. Live(g) => header[g].Request \in Callers \ {r}
    <3>1. Live(g) => /\ header[g].Request \in Callers
                     /\ 2 <= header[g].Count /\ header[g].Count = req[header[g].Request].n
      BY DEF WriteIInv, BatchOK, Live
    <3>. QED
      BY <1>4, <3>1
  <2>6. Filled(g) => header[g].Request \in Callers
    BY DEF WriteIInv, BatchOK
  <2>. QED
    BY <1>1, <1>7, <1>10, <1>12, <1>14, <1>15, <2>1, <2>2, <2>4, <2>5, <2>6, OtherHeader DEF Live
<1>18. ListOK'
  BY <1>7 DEF WriteIInv, ListOK
<1>19. RequestsOK'
  BY <1>7, <1>17, RequestsKept DEF WriteIInv
<1>20. \A j \in Indices : Alone(j)' <=> Alone(j) /\ j # i
  BY <1>11 DEF Alone
<1>21. AloneOK(guests)'
  <2>1. \A j \in Indices : Alone(j)' /\ usb[j].ctx.r \notin guests =>
           usb[j].ctx.r \in Callers \ {r} /\ pc[usb[j].ctx.r] = "returned"
    BY <1>4, <1>20 DEF WriteIInv, AloneOK
  <2>2. \A j \in Indices : Alone(j)' /\ usb[j].ctx.r \notin guests =>
           /\ pc'[usb[j].ctx.r] = "returned"
           /\ req'[usb[j].ctx.r] = req[usb[j].ctx.r]
    BY <1>1, <1>9, <1>10, <2>1, Constants
  <2>3. \A j \in Indices : Alone(j)' => Alone(j) /\ usb'[j] = usb[j]
    BY <1>11, <1>20
  <2>. QED
    BY <2>2, <2>3, AloneKept DEF WriteIInv
<1>22. PlacesOK' /\ AllPlaced(apart)'
  <2>1. PlacesOK /\ AllPlaced(apart) /\ outstanding' = outstanding /\ outstanding \subseteq Indices
        /\ i \in outstanding
    BY <1>4, <1>8 DEF WriteIInv, TypeOK, PlacesOK
  <2>2. \A g \in Headers, k \in Positions :
          /\ Has(g, k)' <=> Has(g, k)
          /\ header'[g].UsbRequestIndices[k] = header[g].UsbRequestIndices[k]
          /\ Has(g, k) => header[g].UsbRequestIndices[k] # i
    BY <1>4, <1>7, <1>17, <2>1 DEF PlacesOK
  <2>3. \A u \in Threads : /\ Single(u)' <=> Single(u) \/ u = d
                           /\ Single(u) => u # d /\ local'[u].i = local[u].i /\ local[u].i # i
    BY <1>1, <1>4, <1>6, <1>9, <2>1 DEF PlacesOK, Single
  <2>4. local'[d].i = i
    BY <1>6, <1>9
  <2>5. ASSUME NEW h \in Headers, NEW k \in Positions, Has(h, k)'
        PROVE  (LET j == header[h].UsbRequestIndices[k] IN
                /\ j \in outstanding /\ ~Alone(j)
                /\ \A t \in Threads : Single(t) => local[t].i # j)'
    <3>1. PICK j \in Indices : j = header[h].UsbRequestIndices[k]
      BY <2>1, <2>2, <2>5 DEF PlacesOK
    <3>2. j \in outstanding /\ ~Alone(j) /\ \A t \in Threads : Single(t) => local[t].i # j
      BY <2>1, <2>2, <2>5, <3>1 DEF PlacesOK
    <3>3. j \in outstanding' /\ ~Alone(j)' /\ \A t \in Threads : Single(t)' => local'[t].i # j
      BY <1>20, <2>1, <2>2, <2>3, <2>4, <2>5, <3>1, <3>2
    <3>4. header'[h].UsbRequestIndices[k] = j
      BY <2>2, <3>1
    <3>. QED
      BY <3>3, <3>4 DEF Alone
  <2>6. ASSUME NEW t \in Threads, Single(t)'
        PROVE  (/\ local[t].i \in outstanding /\ ~Alone(local[t].i)
                /\ \A u \in Threads : Single(u) /\ local[t].i = local[u].i => t = u)'
    <3>1. PICK j \in Indices : j = local'[t].i
      BY <2>1, <2>3, <2>4, <2>6 DEF PlacesOK
    <3>2. j \in outstanding' /\ ~Alone(j)'
      BY <1>20, <2>1, <2>3, <2>4, <2>6, <3>1 DEF PlacesOK
    <3>3. \A u \in Threads : Single(u)' /\ j = local'[u].i => t = u
      BY <2>1, <2>3, <2>4, <2>6, <3>1 DEF PlacesOK
    <3>. QED
      BY <3>1, <3>2, <3>3 DEF Alone
  <2>7. \A g, h \in Headers, k, l \in Positions :
          Has(g, k)' /\ Has(h, l)' /\ header'[g].UsbRequestIndices[k] = header'[h].UsbRequestIndices[l] =>
            g = h /\ k = l
    BY <2>1, <2>2 DEF PlacesOK
  <2>8. PlacesOK'
    BY <1>20, <2>1, <2>5, <2>6, <2>7 DEF PlacesOK
  <2>9. AllPlaced(apart)'
    <3> SUFFICES ASSUME NEW j \in outstanding \ apart
                 PROVE  \/ Alone(j)'
                        \/ \E t \in Threads : Single(t)' /\ local'[t].i = j
                        \/ \E h \in Headers, k \in Positions :
                              Has(h, k)' /\ header'[h].UsbRequestIndices[k] = j
      BY <2>1 DEF AllPlaced
    <3>1. CASE j = i
      BY <1>1, <2>3, <2>4, <3>1
    <3>2. CASE j # i
      BY <1>20, <2>1, <2>2, <2>3, <3>2 DEF AllPlaced
    <3>. QED
      BY <3>1, <3>2
  <2>. QED
    BY <2>8, <2>9
<1>23. SentFlies'
  <2>1. \A c \in Callers, k \in Positions : outcome'[c][k] = "sent" => outcome[c][k] = "sent"
    BY <1>12
  <2>2. \A j \in Indices : usb[j].inFlight /\ usb'[j] # usb[j] =>
           \A c \in Callers, k \in Positions :
              usb[j].ctx.r = c /\ usb[j].ctx.k = k => outcome'[c][k] # "sent"
    BY <1>3, <1>4, <1>11, <1>12
  <2>. QED
    BY <2>1, <2>2, SentKept DEF WriteIInv
<1>24. ASSUME ~late', NEW g \in Headers PROVE StatusOK(g)'
  BY <1>7, <1>17, <1>24 DEF WriteIInv
<1>25. ASSUME ~late', NEW u \in Callers PROVE ReportOK(u)'
  <2>1. CASE u # r
    <3>1. ReportOK(u) /\ req'[u] = req[u] /\ outcome'[u] = outcome[u]
      BY <1>7, <1>10, <1>12, <1>25, <2>1 DEF WriteIInv
    <3>. QED
      BY <3>1, ReportsKept
  <2>2. CASE u = r
    BY <1>10, <2>2 DEF ReportOK
  <2>. QED
    BY <2>1, <2>2
<1>26. \A g \in Headers : UseOK(g)' /\ PendingOK(g)' /\ BatchOK(g)' /\ FlightOK(g)'
  BY <1>17
<1>. QED
  BY <1>13, <1>16, <1>18, <1>19, <1>21, <1>22, <1>23, <1>24, <1>25, <1>26 DEF WriteIInv

\* A transfer of a batch has ended and is to be counted.
LEMMA ComingSame ==
  ASSUME NEW h \in Headers, NEW t, NEW i, t \notin Counting(h), i \in Flying(h),
         Flying(h)' = Flying(h) \ {i}, Counting(h)' = Counting(h) \cup {t}
  PROVE  Coming(h)' = Coming(h)
<1>1. Cardinality(Counting(h) \cup {t}) = Cardinality(Counting(h)) + 1
  BY ComingParts, FS_AddElement
<1>2. Cardinality(Flying(h) \ {i}) = Cardinality(Flying(h)) - 1
  BY ComingParts, FS_RemoveElement
<1>3. Cardinality(Flying(h)) \in Nat /\ Cardinality(Counting(h)) \in Nat
  BY ComingParts
<1>4. Coming(h)' = Cardinality(Flying(h) \ {i}) + Cardinality(Counting(h) \cup {t})
  BY DEF Coming
<1>. QED
  BY <1>1, <1>2, <1>3, <1>4 DEF Coming

\* A transfer of a batch ends.
LEMMA UrbCompletedInBatchKeeps ==
  ASSUME NEW apart, NEW guests, TypeOK, WriteIInv(apart, guests), NEW d \in Dpcs, NEW i \in Indices, NEW result \in Results,
         UrbCompletedInBatch(d, i, result)
  PROVE  WriteIInv(apart, guests)'
<1>1. VarTypes /\ d \in Threads /\ d \notin Callers /\ ThreadOK(d) /\ StageMatches(d, guests) /\ pc[d] = "idle"
      /\ d \notin guests
  BY DEF WriteIInv, Dpcs, UrbCompletedInBatch
<1>2. local[d] = NoWork /\ stage[d] = "out" /\ NoWork.h = NoHeader
  BY <1>1 DEF ThreadOK, StageMatches, NoWork
<1>3. PICK h \in Headers : h = usb[i].ctx.h
  BY <1>1, FieldTypes DEF UrbCompletedInBatch
<1>4. PICK k : k = usb[i].ctx.k
  OBVIOUS
<1>5. PICK r : r = usb[i].ctx.r
  OBVIOUS
<1>6. PICK n : n = header[h].Count
  OBVIOUS
<1>7. Flies(i, h)
  BY <1>3 DEF UrbCompletedInBatch, Flies
<1>8. /\ Taken(h) /\ Filled(h) /\ Live(h) /\ Armed(h)
      /\ \A t \in Threads : ~Begins(t, h) /\ ~Ends(t, h)
      /\ r = header[h].Request /\ r \in Callers /\ r \in Threads
      /\ k \in 1..n /\ k \in Positions /\ header[h].UsbRequestIndices[k] = i
      /\ outcome[r][k] = "sent"
  BY <1>4, <1>5, <1>6, <1>7, WhenItFlies, Constants
<1>9. /\ n = req[r].n /\ 2 <= n /\ n \in Nat /\ n <= MaxAlloc /\ req[r].completions = 0
      /\ pc[r] \notin {"idle", "alloc", "fill"} /\ (pc[r] \in Loop => local[r].h = h)
      /\ 1..n \subseteq Positions
  <2>1. n \in Nat /\ n <= MaxAlloc
    BY <1>1, <1>6, FieldTypes
  <2>2. 1..n \subseteq Positions
    BY <2>1, Constants DEF Positions
  <2>. QED
    BY <1>6, <1>8, <2>1, <2>2 DEF WriteIInv, BatchOK
<1>10. PICK x : x = [NoWork EXCEPT !.h = h]
  OBVIOUS
<1>11. x \in Locals /\ x.h = h
  <2>1. x = [r |-> NoHeader, h |-> h, i |-> 0, k |-> 0, ok |-> TRUE]
    BY <1>10 DEF NoWork
  <2>2. 0 \in 0..(MaxAlloc + 1) /\ 0 \in Indices
    BY Constants
  <2>. QED
    BY <2>1, <2>2 DEF Locals
<1>12. PICK good \in BOOLEAN : good = (result = "ok")
  OBVIOUS
<1>13. /\ usb' = [usb EXCEPT ![i].inFlight = FALSE]
       /\ outcome' = [outcome EXCEPT ![r][k] = result]
       /\ header' = [header EXCEPT ![h].UsbRequestStatuses[k] = good]
       /\ local' = [local EXCEPT ![d] = x]
       /\ Goto(d, "count")
       /\ UNCHANGED <<poolVars, req, allocated, batchList, late>>
  BY <1>3, <1>4, <1>5, <1>10, <1>12 DEF UrbCompletedInBatch
<1>14. UNCHANGED <<stage, want, outstanding>>
  BY <1>13 DEF poolVars
<1>15. /\ pc' \in [Threads -> PCs] /\ pc'[d] = "count" /\ (\A u \in Threads \ {d} : pc'[u] = pc[u])
       /\ local' \in [Threads -> Locals] /\ local'[d] = x /\ (\A u \in Threads \ {d} : local'[u] = local[u])
  <2>1. "count" \in PCs
    BY DEF PCs
  <2>. QED
    BY <1>1, <1>11, <1>13, <2>1, GotoParts, LocalParts
<1>16. /\ usb' \in [Indices -> Usbs] /\ \A j \in Indices \ {i} : usb'[j] = usb[j]
       /\ ~usb'[i].inFlight
  <2>1. usb \in [Indices -> Usbs]
    BY <1>1, TypeParts
  <2>. QED
    BY <1>13, <2>1 DEF Usbs
<1>17. /\ outcome' \in [Callers -> [Positions -> Outcomes]] /\ outcome'[r][k] = result
       /\ \A u \in Callers \ {r} : outcome'[u] = outcome[u]
       /\ \A j \in Positions \ {k} : outcome'[r][j] = outcome[r][j]
       /\ result # "sent" /\ result # "none"
  <2>1. outcome \in [Callers -> [Positions -> Outcomes]]
    BY <1>1, TypeParts
  <2>. QED
    BY <1>8, <1>13, <2>1, WriteAssumption DEF Outcomes
<1>18. /\ header' \in [Headers -> Hdrs]
       /\ \A g \in Headers \ {h} : header'[g] = header[g]
       /\ header'[h].Request = header[h].Request /\ header'[h].Count = header[h].Count
       /\ header'[h].Pending = header[h].Pending
       /\ header'[h].UsbRequestIndices = header[h].UsbRequestIndices
       /\ header'[h].UsbRequestStatuses[k] = good
       /\ \A j \in Positions \ {k} : header'[h].UsbRequestStatuses[j] = header[h].UsbRequestStatuses[j]
  <2>1. header \in [Headers -> Hdrs]
    BY <1>1, TypeParts
  <2>. QED
    BY <1>8, <1>13, <2>1 DEF Hdrs
<1>19. VarTypes'
  BY <1>1, <1>13, <1>15, <1>16, <1>17, <1>18 DEF VarTypes
<1>20. OthersStay(d)
  BY <1>15 DEF OthersStay
<1>21. \A u \in Threads : ThreadOK(u)' /\ StageMatches(u, guests)'
  <2>1. ThreadOK(d)' /\ StageMatches(d, guests)'
    BY <1>1, <1>2, <1>11, <1>14, <1>15, Constants DEF ThreadOK, StageMatches, Loop
  <2>2. Busy(r)
    <3>1. pc[r] \in {"push", "release"} /\ local[r].h = NoHeader => req[r].n = 1
      BY <1>8 DEF WriteIInv, ThreadOK
    <3>. QED
      BY <1>9, <3>1, Constants DEF Busy, Loop
  <2>3. \A u \in Callers \ {d} :
           /\ req'[u].n = req[u].n
           /\ Busy(u) \/ (req'[u].completions = req[u].completions /\ outcome'[u] = outcome[u])
    BY <1>13, <1>17, <2>2
  <2>. QED
    BY <1>1, <1>14, <1>20, <2>1, <2>3, ThreadsKept
<1>22. ASSUME NEW g \in Headers, g # h
       PROVE  /\ UseOK(g)' /\ PendingOK(g)' /\ BatchOK(g)' /\ FlightOK(g)'
              /\ StatusOK(g) => StatusOK(g)'
              /\ Live(g)' <=> Live(g)
              /\ \A j \in Positions : Has(g, j)' <=> Has(g, j)
  <2>1. NotOf(d, g) /\ NotOf(d, g)'
    BY <1>2, <1>11, <1>15, <1>22, Constants DEF NotOf, Works, Begins, Sends, Ends, Counts
  <2>2. Taken(g)' <=> Taken(g)
    BY <1>13 DEF Taken
  <2>3. ~Flies(i, g)
    BY <1>3, <1>22 DEF Flies
  <2>4. /\ \A j \in Indices : Flies(j, g)' <=> Flies(j, g)
        /\ \A j \in Indices : Flies(j, g) => usb'[j] = usb[j]
    BY <1>16, <2>3 DEF Flies
  <2>5. Live(g) => header[g].Request \in Callers \ {r}
    BY <1>8, <1>22 DEF WriteIInv, BatchOK, RequestsOK, Live
  <2>6. Filled(g) => header[g].Request \in Callers
    BY DEF WriteIInv, BatchOK
  <2>7. header'[g] = header[g] /\ req' = req
    BY <1>13, <1>18, <1>22
  <2>. QED
    BY <1>1, <1>17, <1>20, <2>1, <2>2, <2>4, <2>5, <2>6, <2>7, OtherHeader DEF Live
<1>23. /\ \A u \in Threads : /\ Begins(u, h)' <=> Begins(u, h)
                             /\ Sends(u, h)' <=> Sends(u, h)
                             /\ Counts(u, h)' <=> Counts(u, h) \/ u = d
                             /\ Ends(u, h)' <=> Ends(u, h)
                             /\ Works(u, h)' <=> Works(u, h)
                             /\ Sends(u, h) => u # d /\ Sent(u)' = Sent(u)
       /\ ~Counts(d, h)
  <2>1. \A u \in Threads \ {d} :
           /\ Begins(u, h)' <=> Begins(u, h)
           /\ Sends(u, h)' <=> Sends(u, h)
           /\ Counts(u, h)' <=> Counts(u, h)
           /\ Ends(u, h)' <=> Ends(u, h)
           /\ Works(u, h)' <=> Works(u, h)
           /\ Sends(u, h) => Sent(u)' = Sent(u) /\ req'[u].n = req[u].n
    BY <1>1, <1>13, <1>20, OthersRoles
  <2>2. /\ ~Begins(d, h) /\ ~Begins(d, h)' /\ ~Sends(d, h) /\ ~Sends(d, h)'
        /\ ~Ends(d, h) /\ ~Ends(d, h)' /\ ~Counts(d, h) /\ Counts(d, h)'
    BY <1>1, <1>11, <1>15 DEF Begins, Sends, Ends, Counts, Loop
  <2>. QED
    BY <2>1, <2>2 DEF Works
<1>24. /\ Taken(h)' /\ Filled(h)' /\ Live(h)' /\ Armed(h)'
  BY <1>8, <1>13, <1>23 DEF Taken, Filled, Live, Armed
<1>25. \A j \in Indices : Flies(j, h)' <=> Flies(j, h) /\ j # i
  BY <1>16 DEF Flies
<1>26. Coming(h)' = Coming(h)
  <2>1. Flying(h)' = Flying(h) \ {i} /\ Counting(h)' = Counting(h) \cup {d}
    BY <1>1, <1>23, <1>25 DEF Flying, Counting
  <2>2. i \in Flying(h) /\ d \notin Counting(h)
    BY <1>7, <1>23 DEF Flying, Counting
  <2>. QED
    BY <2>1, <2>2, ComingSame
<1>27. UseOK(h)' /\ PendingOK(h)' /\ BatchOK(h)' /\ FlightOK(h)'
  <2>1. UseOK(h) /\ PendingOK(h) /\ BatchOK(h) /\ FlightOK(h)
    BY DEF WriteIInv
  <2>2. UseOK(h)'
    BY <1>1, <1>8, <1>23, <1>24, <2>1 DEF UseOK
  <2>3. PendingOK(h)'
    BY <1>13, <1>18, <1>23, <1>24, <1>8, <1>26, <2>1 DEF PendingOK
  <2>4. BatchOK(h)'
    <3>1. pc'[r] = pc[r] /\ local'[r] = local[r]
      BY <1>1, <1>8, <1>15
    <3>2. \A u \in Threads : Sends(u, h)' => header[h].Request = u
      BY <1>23, <2>1 DEF BatchOK
    <3>. QED
      BY <1>6, <1>8, <1>9, <1>13, <1>18, <3>1, <3>2 DEF BatchOK
  <2>5. FlightOK(h)'
    <3> SUFFICES ASSUME NEW j \in Indices, Flies(j, h)'
                 PROVE  /\ usb'[j].ctx.r = header'[h].Request
                        /\ usb'[j].ctx.k \in 1..header'[h].Count
                        /\ header'[h].UsbRequestIndices[usb'[j].ctx.k] = j
                        /\ outcome'[usb'[j].ctx.r][usb'[j].ctx.k] = "sent"
                        /\ \A t \in Threads : Sends(t, h)' => usb'[j].ctx.k <= Sent(t)'
      BY DEF FlightOK
    <3>1. Flies(j, h) /\ j # i /\ usb'[j] = usb[j]
      BY <1>16, <1>25
    <3>2. PICK l : l = usb[j].ctx.k
      OBVIOUS
    <3>3. /\ usb[j].ctx.r = r /\ l \in 1..n /\ header[h].UsbRequestIndices[l] = j
          /\ outcome[r][l] = "sent"
          /\ \A t \in Threads : Sends(t, h) => l <= Sent(t)
      BY <1>6, <1>8, <2>1, <3>1, <3>2 DEF FlightOK
    <3>4. l # k /\ l \in Positions
      BY <1>8, <1>9, <3>1, <3>3
    <3>5. outcome'[r][l] = "sent"
      BY <1>17, <3>3, <3>4
    <3>. QED
      BY <1>6, <1>8, <1>18, <1>23, <3>1, <3>2, <3>3, <3>5
  <2>. QED
    BY <2>2, <2>3, <2>4, <2>5
<1>28. ListOK'
  BY <1>13 DEF WriteIInv, ListOK
<1>29. RequestsOK'
  <2>1. \A g \in Headers : Live(g)' => Live(g) /\ header'[g].Request = header[g].Request
    BY <1>8, <1>18, <1>22
  <2>. QED
    BY <2>1, RequestsKept DEF WriteIInv
<1>30. \A j \in Indices : Alone(j)' <=> Alone(j)
  BY <1>3, <1>16, Constants DEF Alone
<1>31. AloneOK(guests)'
  <2>1. \A j \in Indices : Alone(j) /\ usb[j].ctx.r \notin guests =>
           usb[j].ctx.r \in Threads \ {d} /\ pc[usb[j].ctx.r] = "returned"
    BY <1>1, <1>3, <1>16, Constants DEF WriteIInv, AloneOK, Alone
  <2>2. \A j \in Indices : Alone(j) /\ usb[j].ctx.r \notin guests =>
           /\ pc'[usb[j].ctx.r] = "returned"
           /\ req'[usb[j].ctx.r] = req[usb[j].ctx.r]
    BY <1>13, <1>15, <2>1
  <2>3. \A j \in Indices : Alone(j)' => Alone(j) /\ usb'[j] = usb[j]
    BY <1>30, <1>3, <1>16, Constants DEF Alone
  <2>. QED
    BY <2>2, <2>3, AloneKept DEF WriteIInv
<1>32. PlacesOK' /\ AllPlaced(apart)'
  <2>1. \A j \in Positions : Has(h, j)' <=> Has(h, j)
    BY <1>1, <1>8, <1>13, <1>15, <1>18, <1>20, <1>24, PositionsKept
  <2>2. \A u \in Threads : /\ Single(u)' <=> Single(u)
                           /\ Single(u) => local'[u].i = local[u].i
    BY <1>1, <1>15 DEF Single
  <2>3. PlacesOK /\ AllPlaced(apart) /\ outstanding' = outstanding /\ outstanding \subseteq Indices
    BY <1>14 DEF WriteIInv, TypeOK
  <2>4. \A g \in Headers : header'[g].UsbRequestIndices = header[g].UsbRequestIndices
    BY <1>18
  <2>. QED
    BY <1>22, <1>30, <2>1, <2>2, <2>3, <2>4, PlacesKept
<1>33. SentFlies'
  <2>1. \A c \in Callers, l \in Positions : outcome'[c][l] = "sent" => outcome[c][l] = "sent"
    BY <1>17
  <2>2. \A j \in Indices : usb[j].inFlight /\ usb'[j] # usb[j] =>
           \A c \in Callers, l \in Positions :
              usb[j].ctx.r = c /\ usb[j].ctx.k = l => outcome'[c][l] # "sent"
    BY <1>4, <1>5, <1>16, <1>17
  <2>. QED
    BY <2>1, <2>2, SentKept DEF WriteIInv
<1>34. ASSUME StatusOK(h) PROVE StatusOK(h)'
  <2>1. ASSUME NEW j \in 1..n
        PROVE  /\ (\A u \in Threads : ~Sends(u, h)) => Gone(r, j)
               /\ outcome[r][j] \in Ended /\ ~(Sends(r, h) /\ pc[r] = "store" /\ ~local[r].ok /\ j = local[r].k) =>
                    (header[h].UsbRequestStatuses[j] <=> outcome[r][j] = "ok")
    BY <1>6, <1>8, <1>34 DEF StatusOK
  <2>2. Sends(r, h) =>
          /\ \A j \in 1..Sent(r) : outcome[r][j] # "none"
          /\ pc[r] = "settle" \/ (pc[r] # "send" /\ ~local[r].ok) => outcome[r][Sent(r) + 1] = "failed"
    BY <1>8, <1>34 DEF StatusOK
  <2>3. pc'[r] = pc[r] /\ local'[r] = local[r]
    BY <1>1, <1>8, <1>15
  <2>4. Sends(r, h) => Sent(r)' = Sent(r) /\ Sent(r) \in Int /\ Sent(r) < n
    <3>1. Sends(r, h) => Sent(r)' = Sent(r) /\ Sent(r) < n
      BY <1>8, <1>9, <1>23 DEF Sends
    <3>2. Sent(r) \in Int
      BY <1>1, <1>8, FieldTypes DEF Sent
    <3>. QED
      BY <3>1, <3>2
  <2>5. ASSUME NEW j \in 1..n, Gone(r, j) PROVE Gone(r, j)'
    <3>1. CASE outcome[r][j] # "none"
      <4>1. outcome'[r][j] # "none"
        BY <1>9, <1>17, <3>1
      <4>. QED
        BY <4>1 DEF Gone
    <3>2. CASE \E l \in 1..(j - 1) : outcome[r][l] = "failed"
      <4>1. PICK l \in 1..(j - 1) : outcome[r][l] = "failed"
        BY <3>2
      <4>2. l \in 1..n /\ l \in Positions /\ l # k
        BY <1>8, <1>9, <4>1
      <4>3. outcome'[r][l] = "failed"
        BY <1>17, <4>1, <4>2
      <4>. QED
        BY <4>1, <4>3 DEF Gone
    <3>. QED
      BY <2>5, <3>1, <3>2 DEF Gone
  <2>6. ASSUME NEW j \in 1..n, outcome'[r][j] \in Ended,
               ~(Sends(r, h) /\ pc[r] = "store" /\ ~local[r].ok /\ j = local[r].k)
        PROVE  header'[h].UsbRequestStatuses[j] <=> outcome'[r][j] = "ok"
    <3>1. CASE j = k
      BY <1>12, <1>17, <1>18, <3>1
    <3>2. CASE j # k
      <4>1. j \in Positions \ {k}
        BY <1>9, <3>2
      <4>2. outcome'[r][j] = outcome[r][j] /\ header'[h].UsbRequestStatuses[j] = header[h].UsbRequestStatuses[j]
        BY <1>17, <1>18, <4>1
      <4>. QED
        BY <2>1, <2>6, <4>2
    <3>. QED
      BY <3>1, <3>2
  <2>7. ASSUME Sends(r, h)
        PROVE  /\ \A j \in 1..Sent(r) : outcome'[r][j] # "none"
               /\ pc[r] = "settle" \/ (pc[r] # "send" /\ ~local[r].ok) => outcome'[r][Sent(r) + 1] = "failed"
    <3>1. ASSUME NEW j \in 1..Sent(r) PROVE outcome'[r][j] # "none"
      <4>1. j \in Positions
        BY <1>9, <2>4, <2>7
      <4>. QED
        BY <1>17, <2>2, <2>7, <4>1
    <3>2. ASSUME outcome[r][Sent(r) + 1] = "failed", Sent(r) + 1 \in Positions
          PROVE  outcome'[r][Sent(r) + 1] = "failed"
      BY <1>8, <1>17, <3>2
    <3>3. Sent(r) + 1 \in Positions
      <4>1. 0 <= Sent(r)
        <5>1. 1 <= local[r].k /\ local[r].k \in Nat
          BY <1>1, <1>8, <2>7, FieldTypes DEF WriteIInv, ThreadOK, Sends
        <5>. QED
          BY <5>1 DEF Sent
      <4>. QED
        BY <1>9, <2>4, <2>7, <4>1
    <3>. QED
      BY <2>2, <2>7, <3>1, <3>2, <3>3
  <2>8. /\ header'[h].Request = r /\ header'[h].Count = n
        /\ Sends(r, h)' <=> Sends(r, h)
        /\ (\A u \in Threads : ~Sends(u, h))' <=> (\A u \in Threads : ~Sends(u, h))
    BY <1>6, <1>8, <1>18, <1>23
  <2>9. ASSUME NEW j \in 1..n PROVE (\A u \in Threads : ~Sends(u, h))' => Gone(r, j)'
    BY <2>1, <2>5, <2>8
  <2>10. ASSUME NEW j \in 1..n, outcome'[r][j] \in Ended,
               ~(Sends(r, h)' /\ pc'[r] = "store" /\ ~local'[r].ok /\ j = local'[r].k)
        PROVE  header'[h].UsbRequestStatuses[j] <=> outcome'[r][j] = "ok"
    BY <2>3, <2>6, <2>8, <2>10
  <2>11. Sends(r, h)' =>
          /\ \A j \in 1..Sent(r)' : outcome'[r][j] # "none"
          /\ pc'[r] = "settle" \/ (pc'[r] # "send" /\ ~local'[r].ok) => outcome'[r][Sent(r)' + 1] = "failed"
    BY <2>3, <2>4, <2>7, <2>8
  <2>. QED
    BY <2>8, <2>9, <2>10, <2>11 DEF StatusOK
<1>35. ASSUME ~late', NEW g \in Headers PROVE StatusOK(g)'
  <2>1. StatusOK(g)
    BY <1>13, <1>35 DEF WriteIInv
  <2>. QED
    BY <1>22, <1>34, <2>1
<1>36. ASSUME ~late', NEW u \in Callers PROVE ReportOK(u)'
  <2>1. CASE u # r
    <3>1. ReportOK(u) /\ req'[u] = req[u] /\ outcome'[u] = outcome[u]
      BY <1>13, <1>17, <1>36, <2>1 DEF WriteIInv
    <3>. QED
      BY <3>1, ReportsKept
  <2>2. CASE u = r
    BY <1>9, <1>13, <2>2 DEF ReportOK
  <2>. QED
    BY <2>1, <2>2
<1>37. \A g \in Headers : UseOK(g)' /\ PendingOK(g)' /\ BatchOK(g)' /\ FlightOK(g)'
  BY <1>22, <1>27
<1>. QED
  BY <1>19, <1>21, <1>28, <1>29, <1>31, <1>32, <1>33, <1>35, <1>36, <1>37 DEF WriteIInv

\* A standalone message is sent, or not.
LEMMA SendAloneKeeps ==
  ASSUME NEW apart, NEW guests, TypeOK, WriteIInv(apart, guests), NEW c \in Callers, NEW success \in BOOLEAN, Send(c, success), ~IsBatch(c)
  PROVE  WriteIInv(apart, guests)'
<1>1. VarTypes /\ ThreadOK(c) /\ StageMatches(c, guests) /\ c \in Threads /\ pc[c] = "send"
  BY Constants DEF WriteIInv, Send
<1>2. local[c].h = NoHeader /\ stage[c] = "out"
  BY <1>1 DEF IsBatch, StageMatches
<1>3. PICK i \in Indices : i = local[c].i
  BY <1>1, FieldTypes
<1>4. /\ req[c].n = 1 /\ req[c].completions = 0 /\ local[c].k = 1
      /\ Single(c) /\ i \in outstanding /\ ~Alone(i)
  <2>1. req[c].n = 1 /\ req[c].completions = 0 /\ Single(c)
    BY <1>1, <1>2 DEF ThreadOK, Single
  <2>2. local[c].k \in Nat /\ 1 <= local[c].k /\ local[c].k <= 1
    BY <1>1, <2>1, FieldTypes DEF ThreadOK, Loop
  <2>3. i \in outstanding /\ ~Alone(i)
    <3>1. local[c].i \in outstanding /\ ~Alone(local[c].i)
      BY <1>1, <2>1 DEF WriteIInv, PlacesOK
    <3>. QED
      BY <1>3, <3>1
  <2>4. local[c].k = 1
    BY <2>2
  <2>. QED
    BY <2>1, <2>3, <2>4
<1>5. \A g \in Headers : ~Flies(i, g)
  <2> SUFFICES ASSUME NEW g \in Headers, Flies(i, g) PROVE FALSE
    OBVIOUS
  <2>1. PICK k \in Positions : k = usb[i].ctx.k /\ Has(g, k) /\ header[g].UsbRequestIndices[k] = i
    BY WhenItFlies
  <2>. QED
    BY <1>1, <1>3, <1>4, <2>1 DEF WriteIInv, PlacesOK
<1>6. ~usb[i].inFlight
  <2>1. usb[i].ctx.h \in Headers \cup {NoHeader}
    BY <1>1, FieldTypes
  <2>. QED
    BY <1>4, <1>5, <2>1 DEF Alone, Flies
<1>7. PICK x : x = [inFlight |-> success, ctx |-> [h |-> NoHeader, k |-> 1, r |-> c]]
  OBVIOUS
<1>8. PICK o : o = IF success THEN "sent" ELSE "failed"
  OBVIOUS
<1>9. /\ usb' = [usb EXCEPT ![i] = x]
      /\ outcome' = [outcome EXCEPT ![c][1] = o]
      /\ IF success THEN Return(c) ELSE Goto(c, "push") /\ local' = [local EXCEPT ![c].ok = FALSE]
      /\ UNCHANGED <<poolVars, req, header, allocated, batchList, late>>
  BY <1>2, <1>3, <1>4, <1>7, <1>8 DEF Send, IsBatch
<1>10. UNCHANGED <<stage, want, outstanding>>
  BY <1>9 DEF poolVars
<1>11. /\ usb' \in [Indices -> Usbs] /\ \A j \in Indices \ {i} : usb'[j] = usb[j]
       /\ usb'[i].inFlight = success /\ usb'[i].ctx.h = NoHeader /\ usb'[i].ctx.k = 1 /\ usb'[i].ctx.r = c
  <2>1. usb \in [Indices -> Usbs] /\ 1 \in 0..MaxAlloc
    BY <1>1, TypeParts, Constants
  <2>2. x \in Usbs
    BY <1>7, <2>1 DEF Usbs, Ctxs
  <2>. QED
    BY <1>7, <1>9, <2>1, <2>2
<1>12. /\ outcome' \in [Callers -> [Positions -> Outcomes]] /\ outcome'[c][1] = o
       /\ \A u \in Callers \ {c} : outcome'[u] = outcome[u]
       /\ \A k \in Positions \ {1} : outcome'[c][k] = outcome[c][k]
  <2>1. outcome \in [Callers -> [Positions -> Outcomes]] /\ 1 \in Positions /\ o \in Outcomes
    BY <1>1, <1>8, TypeParts, Constants DEF Positions, Outcomes
  <2>. QED
    BY <1>9, <2>1
<1>13. /\ pc' \in [Threads -> PCs] /\ local' \in [Threads -> Locals] /\ OthersStay(c)
       /\ ThreadOK(c)' /\ StageMatches(c, guests)'
       /\ local'[c].h = NoHeader /\ pc'[c] \notin {"idle", "alloc", "fill"} \cup Loop
       /\ success => pc'[c] = "returned" /\ ~Single(c)'
       /\ ~success => Single(c)' /\ local'[c].i = i
  <2>1. CASE success
    <3>1. Return(c)
      BY <1>9, <2>1
    <3>2. local'[c].h = NoHeader /\ pc'[c] = "returned" /\ ~Single(c)'
      BY <1>1, <3>1, ReturnParts DEF NoWork, AtRest
    <3>. QED
      BY <1>1, <1>2, <1>10, <2>1, <3>1, <3>2, ReturnParts, NoGuest DEF Loop
  <2>2. CASE ~success
    <3>1. PICK y : y = [local[c] EXCEPT !.ok = FALSE]
      OBVIOUS
    <3>2. local[c] \in Locals
      BY <1>1, TypeParts
    <3>3. y \in Locals /\ y.h = NoHeader /\ y.i = i
      BY <1>2, <1>3, <3>1, <3>2 DEF Locals
    <3>4. local' = [local EXCEPT ![c] = y]
      BY <1>1, <1>9, <2>2, <3>1, TypeParts
    <3>5. "push" \in PCs /\ Goto(c, "push")
      BY <1>9, <2>2 DEF PCs
    <3>6. /\ pc' \in [Threads -> PCs] /\ pc'[c] = "push" /\ (\A u \in Threads \ {c} : pc'[u] = pc[u])
          /\ local' \in [Threads -> Locals] /\ local'[c] = y
          /\ (\A u \in Threads \ {c} : local'[u] = local[u])
      BY <1>1, <3>3, <3>4, <3>5, GotoParts, LocalParts
    <3>7. OthersStay(c)
      BY <3>6 DEF OthersStay
    <3>8. ThreadOK(c)' /\ StageMatches(c, guests)'
      BY <1>1, <1>2, <1>4, <1>9, <1>10, <3>3, <3>6 DEF ThreadOK, StageMatches, Loop
    <3>9. Single(c)'
      BY <3>3, <3>6 DEF Single
    <3>. QED
      BY <2>2, <3>3, <3>6, <3>7, <3>8, <3>9 DEF Loop
  <2>. QED
    BY <2>1, <2>2
<1>14. VarTypes'
  BY <1>1, <1>9, <1>11, <1>12, <1>13 DEF VarTypes
<1>15. \A u \in Threads : ThreadOK(u)' /\ StageMatches(u, guests)'
  <2>1. \A u \in Callers \ {c} :
           /\ req'[u].n = req[u].n
           /\ Busy(u) \/ (req'[u].completions = req[u].completions /\ outcome'[u] = outcome[u])
    BY <1>9, <1>12
  <2>. QED
    BY <1>1, <1>10, <1>13, <2>1, ThreadsKept
<1>16. ASSUME NEW g \in Headers
       PROVE  /\ UseOK(g)' /\ PendingOK(g)' /\ BatchOK(g)' /\ FlightOK(g)'
              /\ StatusOK(g) => StatusOK(g)'
              /\ Live(g)' <=> Live(g)
              /\ \A k \in Positions : Has(g, k)' <=> Has(g, k)
  <2>1. NotOf(c, g) /\ NotOf(c, g)'
    BY <1>2, <1>13, Constants DEF NotOf, Works, Begins, Sends, Ends, Counts
  <2>2. Taken(g)' <=> Taken(g)
    BY <1>9 DEF Taken
  <2>3. /\ \A j \in Indices : Flies(j, g)' <=> Flies(j, g)
        /\ \A j \in Indices : Flies(j, g) => usb'[j] = usb[j]
    <3>1. ~Flies(i, g) /\ ~Flies(i, g)'
      BY <1>5, <1>11, Constants DEF Flies
    <3>. QED
      BY <1>11, <3>1 DEF Flies
  <2>4. Filled(g) => header[g].Request \in Callers \ {c}
    <3>1. Filled(g) => /\ header[g].Request \in Callers
                       /\ 2 <= header[g].Count /\ header[g].Count = req[header[g].Request].n
      BY DEF WriteIInv, BatchOK
    <3>. QED
      BY <1>4, <3>1
  <2>5. header'[g] = header[g] /\ req' = req
    BY <1>9
  <2>. QED
    BY <1>1, <1>12, <1>13, <2>1, <2>2, <2>3, <2>4, <2>5, OtherHeader DEF Live
<1>17. ListOK'
  BY <1>9 DEF WriteIInv, ListOK
<1>18. RequestsOK'
  BY <1>9, <1>16, RequestsKept DEF WriteIInv
<1>19. \A j \in Indices : Alone(j)' <=> Alone(j) \/ (j = i /\ success)
  BY <1>4, <1>11 DEF Alone
<1>20. AloneOK(guests)'
  <2>0. c \notin guests /\ \A j \in Indices : Alone(j) => j # i /\ usb'[j] = usb[j]
    BY <1>1, <1>4, <1>11, NoGuest
  <2>1. \A j \in Indices : Alone(j) /\ usb[j].ctx.r \notin guests =>
          /\ usb[j].ctx.k = 1 /\ usb[j].ctx.r \in Callers \ {c}
          /\ pc'[usb[j].ctx.r] = "returned" /\ req'[usb[j].ctx.r] = req[usb[j].ctx.r]
          /\ req[usb[j].ctx.r].n = 1 /\ req[usb[j].ctx.r].completions = 0
    BY <1>1, <1>4, <1>9, <1>11, <1>13, Constants DEF WriteIInv, AloneOK, OthersStay
  <2>2. ASSUME NEW j \in Indices, Alone(j)', usb'[j].ctx.r \notin guests
        PROVE  /\ usb'[j].ctx.k = 1 /\ usb'[j].ctx.r \in Callers
               /\ pc'[usb'[j].ctx.r] = "returned"
               /\ req'[usb'[j].ctx.r].n = 1 /\ req'[usb'[j].ctx.r].completions = 0
               /\ \A l \in Indices : Alone(l)' /\ usb'[l].ctx.r = usb'[j].ctx.r => j = l
    <3>1. CASE Alone(j)
      <4>1. /\ usb'[j] = usb[j] /\ usb[j].ctx.r \notin guests /\ usb[j].ctx.r # c
            /\ \A l \in Indices : Alone(l) /\ usb[l].ctx.r = usb[j].ctx.r => j = l
        BY <2>0, <2>1, <2>2, <3>1 DEF WriteIInv, AloneOK
      <4>2. ASSUME NEW l \in Indices, Alone(l)', usb'[l].ctx.r = usb'[j].ctx.r PROVE j = l
        BY <1>11, <1>19, <2>0, <2>1, <4>1, <4>2
      <4>. QED
        BY <2>1, <3>1, <4>1, <4>2
    <3>2. CASE j = i /\ success
      <4>1. ASSUME NEW l \in Indices, Alone(l)', usb'[l].ctx.r = c PROVE l = i
        BY <1>19, <2>0, <2>1, <4>1
      <4>. QED
        BY <1>4, <1>9, <1>11, <1>13, <3>2, <4>1
    <3>. QED
      BY <1>19, <2>2, <3>1, <3>2
  <2>. QED
    BY <2>2 DEF AloneOK
<1>21. PlacesOK' /\ AllPlaced(apart)'
  <2>1. PlacesOK /\ AllPlaced(apart) /\ outstanding' = outstanding /\ outstanding \subseteq Indices
    BY <1>10 DEF WriteIInv, TypeOK
  <2>2. \A g \in Headers, k \in Positions :
          /\ Has(g, k)' <=> Has(g, k)
          /\ header'[g].UsbRequestIndices[k] = header[g].UsbRequestIndices[k]
          /\ Has(g, k) => header[g].UsbRequestIndices[k] # i
    BY <1>1, <1>3, <1>4, <1>9, <1>16, <2>1 DEF PlacesOK
  <2>3. \A u \in Threads : /\ Single(u)' <=> Single(u) /\ (u # c \/ ~success)
                           /\ Single(u)' => local'[u].i = local[u].i
                           /\ Single(u) /\ u # c => local[u].i # i
    <3>1. \A u \in Threads \ {c} : /\ Single(u)' <=> Single(u)
                                   /\ local'[u].i = local[u].i
      BY <1>13 DEF Single, OthersStay
    <3>2. \A u \in Threads : Single(u) /\ u # c => local[u].i # i
      BY <1>1, <1>3, <1>4, <2>1 DEF PlacesOK
    <3>. QED
      BY <1>3, <1>4, <1>13, <3>1, <3>2
  <2>4. ASSUME NEW h \in Headers, NEW k \in Positions, Has(h, k)'
        PROVE  (LET j == header[h].UsbRequestIndices[k] IN
                /\ j \in outstanding /\ ~Alone(j)
                /\ \A t \in Threads : Single(t) => local[t].i # j)'
    <3>1. PICK j \in Indices : j = header[h].UsbRequestIndices[k]
      BY <2>1, <2>2, <2>4 DEF PlacesOK
    <3>2. j # i /\ j \in outstanding /\ ~Alone(j) /\ \A t \in Threads : Single(t) => local[t].i # j
      BY <2>1, <2>2, <2>4, <3>1 DEF PlacesOK
    <3>3. j \in outstanding' /\ ~Alone(j)' /\ \A t \in Threads : Single(t)' => local'[t].i # j
      BY <1>19, <2>1, <2>3, <3>2
    <3>4. header'[h].UsbRequestIndices[k] = j
      BY <2>2, <3>1
    <3>. QED
      BY <3>3, <3>4 DEF Alone
  <2>5. ASSUME NEW t \in Threads, Single(t)'
        PROVE  (/\ local[t].i \in outstanding /\ ~Alone(local[t].i)
                /\ \A u \in Threads : Single(u) /\ local[t].i = local[u].i => t = u)'
    <3>1. PICK j \in Indices : j = local'[t].i /\ j = local[t].i
      BY <2>1, <2>3, <2>5 DEF PlacesOK
    <3>2. Single(t) /\ j \in outstanding /\ ~Alone(j)
      BY <2>1, <2>3, <2>5, <3>1 DEF PlacesOK
    <3>3. j \in outstanding' /\ ~Alone(j)'
      BY <1>19, <2>1, <2>3, <2>5, <3>1, <3>2
    <3>4. \A u \in Threads : Single(u)' /\ j = local'[u].i => t = u
      BY <2>1, <2>3, <3>1, <3>2 DEF PlacesOK
    <3>. QED
      BY <3>1, <3>3, <3>4 DEF Alone
  <2>6. \A g, h \in Headers, k, l \in Positions :
          Has(g, k)' /\ Has(h, l)' /\ header'[g].UsbRequestIndices[k] = header'[h].UsbRequestIndices[l] =>
            g = h /\ k = l
    BY <2>1, <2>2 DEF PlacesOK
  <2>7. \A j \in Indices : Alone(j)' => j \in outstanding'
    BY <1>4, <1>19, <2>1 DEF PlacesOK
  <2>8. PlacesOK'
    BY <2>4, <2>5, <2>6, <2>7 DEF PlacesOK
  <2>9. AllPlaced(apart)'
    <3> SUFFICES ASSUME NEW j \in outstanding \ apart
                 PROVE  \/ Alone(j)'
                        \/ \E t \in Threads : Single(t)' /\ local'[t].i = j
                        \/ \E h \in Headers, k \in Positions :
                              Has(h, k)' /\ header'[h].UsbRequestIndices[k] = j
      BY <2>1 DEF AllPlaced
    <3>1. CASE j = i
      BY <1>1, <1>13, <1>19, <3>1
    <3>2. CASE j # i
      BY <1>3, <1>19, <2>1, <2>2, <2>3, <3>2 DEF AllPlaced
    <3>. QED
      BY <3>1, <3>2
  <2>. QED
    BY <2>8, <2>9
<1>22. SentFlies'
  <2> SUFFICES ASSUME NEW u \in Callers, NEW k \in Positions, outcome'[u][k] = "sent"
               PROVE  \E j \in Indices : usb'[j].inFlight /\ usb'[j].ctx.r = u /\ usb'[j].ctx.k = k
    BY DEF SentFlies
  <2>1. CASE u = c /\ k = 1
    BY <1>8, <1>11, <1>12, <2>1
  <2>2. CASE ~(u = c /\ k = 1)
    <3>1. outcome[u][k] = "sent"
      BY <1>12, <2>2
    <3>2. PICK j \in Indices : usb[j].inFlight /\ usb[j].ctx.r = u /\ usb[j].ctx.k = k
      BY <3>1 DEF WriteIInv, SentFlies
    <3>. QED
      BY <1>6, <1>11, <3>2
  <2>. QED
    BY <2>1, <2>2
<1>23. ASSUME ~late', NEW g \in Headers PROVE StatusOK(g)'
  BY <1>9, <1>16, <1>23 DEF WriteIInv
<1>24. ASSUME ~late', NEW u \in Callers PROVE ReportOK(u)'
  <2>1. CASE u # c
    <3>1. ReportOK(u) /\ req'[u] = req[u] /\ outcome'[u] = outcome[u]
      BY <1>9, <1>12, <1>24, <2>1 DEF WriteIInv
    <3>. QED
      BY <3>1, ReportsKept
  <2>2. CASE u = c
    BY <1>4, <1>9, <2>2 DEF ReportOK
  <2>. QED
    BY <2>1, <2>2
<1>25. \A g \in Headers : UseOK(g)' /\ PendingOK(g)' /\ BatchOK(g)' /\ FlightOK(g)'
  BY <1>16
<1>. QED
  BY <1>14, <1>15, <1>17, <1>18, <1>20, <1>21, <1>22, <1>23, <1>24, <1>25 DEF WriteIInv

\* One more, when a transfer starts.
LEMMA ComingMore ==
  ASSUME NEW h \in Headers, NEW i, i \notin Flying(h),
         Flying(h)' = Flying(h) \cup {i}, Counting(h)' = Counting(h)
  PROVE  Coming(h)' = Coming(h) + 1
<1>1. Cardinality(Flying(h) \cup {i}) = Cardinality(Flying(h)) + 1
  BY ComingParts, FS_AddElement
<1>2. Cardinality(Flying(h)) \in Nat /\ Cardinality(Counting(h)) \in Nat
  BY ComingParts
<1>3. Coming(h)' = Cardinality(Flying(h) \cup {i}) + Cardinality(Counting(h))
  BY DEF Coming
<1>. QED
  BY <1>1, <1>2, <1>3 DEF Coming

\* A message of a batch is sent, or not.
LEMMA SendInBatchKeeps ==
  ASSUME NEW apart, NEW guests, TypeOK, WriteIInv(apart, guests), NEW c \in Callers, NEW success \in BOOLEAN, Send(c, success), IsBatch(c)
  PROVE  WriteIInv(apart, guests)'
<1>1. VarTypes /\ ThreadOK(c) /\ StageMatches(c, guests) /\ c \in Threads /\ pc[c] = "send"
  BY Constants DEF WriteIInv, Send
<1>2. PICK h \in Headers : h = local[c].h
  BY <1>1, FieldTypes DEF IsBatch
<1>3. PICK k : k = local[c].k
  OBVIOUS
<1>4. PICK n : n = req[c].n
  OBVIOUS
<1>5. n \in Nat /\ n <= MaxAlloc /\ k \in Nat /\ 1 <= k /\ k <= n /\ stage[c] = "out"
  <2>1. n \in Nat /\ n <= MaxAlloc /\ k \in Nat
    BY <1>1, <1>3, <1>4, FieldTypes
  <2>2. 1 <= k /\ k <= n /\ stage[c] = "out"
    BY <1>1, <1>3, <1>4 DEF ThreadOK, StageMatches, Loop
  <2>. QED
    BY <2>1, <2>2
<1>6. Sent(c) = k - 1 /\ Sends(c, h)
  <2>1. Sent(c) = k - 1
    BY <1>1, <1>3 DEF Sent
  <2>. QED
    BY <1>1, <1>2, <1>4, <1>5, <2>1 DEF Sends, Loop
<1>7. /\ Taken(h) /\ Filled(h) /\ Live(h) /\ Armed(h)
      /\ header[h].Request = c /\ 2 <= n /\ header[h].Count = n /\ req[c].completions = 0
      /\ \A u \in Threads : Works(u, h) => u = c
      /\ \A u \in Threads : ~Begins(u, h) /\ ~Ends(u, h)
      /\ header[h].Pending = (n - (k - 1)) + Coming(h) /\ header[h].Pending <= n
      /\ k \in Positions /\ Has(h, k)
  <2>1. k \in 1..n
    BY <1>5
  <2>. QED
    BY <1>1, <1>4, <1>6, <2>1, WhenItSends
<1>8. PICK i \in Indices : i = header[h].UsbRequestIndices[k]
  BY <1>1, <1>7, FieldTypes
<1>9. i \in outstanding /\ ~Alone(i)
  BY <1>7, <1>8 DEF WriteIInv, PlacesOK
<1>10. \A g \in Headers : ~Flies(i, g)
  <2> SUFFICES ASSUME NEW g \in Headers, Flies(i, g) PROVE FALSE
    OBVIOUS
  <2>1. PICK l \in Positions : l = usb[i].ctx.k /\ Has(g, l) /\ header[g].UsbRequestIndices[l] = i
    BY WhenItFlies
  <2>2. g = h /\ l = k
    BY <1>7, <1>8, <2>1 DEF WriteIInv, PlacesOK
  <2>3. l <= k - 1
    BY <1>1, <1>6, <2>1, <2>2 DEF WriteIInv, FlightOK
  <2>. QED
    BY <1>5, <2>2, <2>3
<1>11. ~usb[i].inFlight
  <2>1. usb[i].ctx.h \in Headers \cup {NoHeader}
    BY <1>1, FieldTypes
  <2>. QED
    BY <1>9, <1>10, <2>1 DEF Alone, Flies
<1>12. PICK x : x = [inFlight |-> success, ctx |-> [h |-> h, k |-> k, r |-> c]]
  OBVIOUS
<1>13. PICK o : o = IF success THEN "sent" ELSE "failed"
  OBVIOUS
<1>14. PICK y : y = [local[c] EXCEPT !.ok = success]
  OBVIOUS
<1>15. /\ usb' = [usb EXCEPT ![i] = x]
       /\ outcome' = [outcome EXCEPT ![c][k] = o]
       /\ Goto(c, "store") /\ local' = [local EXCEPT ![c] = y]
       /\ UNCHANGED <<poolVars, req, header, allocated, batchList, late>>
  <2>1. /\ usb' = [usb EXCEPT ![i] = x]
        /\ outcome' = [outcome EXCEPT ![c][k] = o]
        /\ Goto(c, "store") /\ local' = [local EXCEPT ![c].ok = success]
        /\ UNCHANGED <<poolVars, req, header, allocated, batchList, late>>
    BY <1>2, <1>3, <1>8, <1>12, <1>13 DEF Send, IsBatch, Hdr
  <2>. QED
    BY <1>1, <1>14, <2>1, TypeParts
<1>16. UNCHANGED <<stage, want, outstanding>>
  BY <1>15 DEF poolVars
<1>17. y \in Locals /\ y.h = h /\ y.k = k /\ y.ok = success
  <2>1. local[c] \in Locals
    BY <1>1, TypeParts
  <2>. QED
    BY <1>2, <1>3, <1>14, <2>1 DEF Locals
<1>18. /\ pc' \in [Threads -> PCs] /\ pc'[c] = "store" /\ (\A u \in Threads \ {c} : pc'[u] = pc[u])
       /\ local' \in [Threads -> Locals] /\ local'[c] = y
       /\ (\A u \in Threads \ {c} : local'[u] = local[u])
  <2>1. "store" \in PCs
    BY DEF PCs
  <2>. QED
    BY <1>1, <1>15, <1>17, <2>1, GotoParts, LocalParts
<1>19. /\ usb' \in [Indices -> Usbs] /\ \A j \in Indices \ {i} : usb'[j] = usb[j]
       /\ usb'[i].inFlight = success /\ usb'[i].ctx.h = h /\ usb'[i].ctx.k = k /\ usb'[i].ctx.r = c
  <2>1. usb \in [Indices -> Usbs] /\ k \in 0..MaxAlloc
    BY <1>1, <1>5, TypeParts, Constants
  <2>2. x \in Usbs
    BY <1>12, <2>1 DEF Usbs, Ctxs
  <2>. QED
    BY <1>12, <1>15, <2>1, <2>2
<1>20. /\ outcome' \in [Callers -> [Positions -> Outcomes]] /\ outcome'[c][k] = o
       /\ \A u \in Callers \ {c} : outcome'[u] = outcome[u]
       /\ \A j \in Positions \ {k} : outcome'[c][j] = outcome[c][j]
  <2>1. outcome \in [Callers -> [Positions -> Outcomes]] /\ o \in Outcomes
    BY <1>1, <1>13, TypeParts DEF Outcomes
  <2>. QED
    BY <1>7, <1>15, <2>1
<1>21. VarTypes'
  BY <1>1, <1>15, <1>18, <1>19, <1>20 DEF VarTypes
<1>22. OthersStay(c)
  BY <1>18 DEF OthersStay
<1>23. \A u \in Threads : ThreadOK(u)' /\ StageMatches(u, guests)'
  <2>1. ThreadOK(c)' /\ StageMatches(c, guests)'
    <3>1. n # 1 /\ y.h # NoHeader /\ req'[c] = req[c]
      BY <1>7, <1>15, <1>17, Constants
    <3>. QED
      BY <1>1, <1>4, <1>5, <1>16, <1>17, <1>18, <3>1 DEF ThreadOK, StageMatches, Loop
  <2>2. \A u \in Callers \ {c} :
           /\ req'[u].n = req[u].n
           /\ Busy(u) \/ (req'[u].completions = req[u].completions /\ outcome'[u] = outcome[u])
    BY <1>15, <1>20
  <2>. QED
    BY <1>1, <1>16, <1>22, <2>1, <2>2, ThreadsKept
<1>24. ASSUME NEW g \in Headers, g # h
       PROVE  /\ UseOK(g)' /\ PendingOK(g)' /\ BatchOK(g)' /\ FlightOK(g)'
              /\ StatusOK(g) => StatusOK(g)'
              /\ Live(g)' <=> Live(g)
              /\ \A j \in Positions : Has(g, j)' <=> Has(g, j)
  <2>1. NotOf(c, g) /\ NotOf(c, g)'
    BY <1>2, <1>17, <1>18, <1>24 DEF NotOf, Works, Begins, Sends, Ends, Counts
  <2>2. Taken(g)' <=> Taken(g)
    BY <1>15 DEF Taken
  <2>3. /\ \A j \in Indices : Flies(j, g)' <=> Flies(j, g)
        /\ \A j \in Indices : Flies(j, g) => usb'[j] = usb[j]
    <3>1. ~Flies(i, g) /\ ~Flies(i, g)'
      BY <1>10, <1>19, <1>24 DEF Flies
    <3>. QED
      BY <1>19, <3>1 DEF Flies
  <2>4. Live(g) => header[g].Request \in Callers \ {c}
    BY <1>7, <1>24 DEF WriteIInv, BatchOK, RequestsOK, Live
  <2>5. header'[g] = header[g] /\ req' = req
    BY <1>15
  <2>6. pc'[c] \notin {"idle", "alloc", "fill"}
    BY <1>18
  <2>. QED
    BY <1>1, <1>20, <1>22, <2>1, <2>2, <2>3, <2>4, <2>5, <2>6, OtherHeader DEF Live
<1>25. PICK m : m = IF success THEN k ELSE k - 1
  OBVIOUS
<1>26. /\ \A u \in Threads : /\ ~Begins(u, h)' /\ ~Ends(u, h)'
                             /\ Sends(u, h)' <=> u = c /\ m < n
                             /\ Works(u, h)' <=> u = c /\ m < n
                             /\ Counts(u, h)' <=> Counts(u, h)
       /\ Sent(c)' = m /\ m \in Nat /\ k - 1 <= m
  <2>1. \A u \in Threads \ {c} :
           /\ Begins(u, h)' <=> Begins(u, h)
           /\ Sends(u, h)' <=> Sends(u, h)
           /\ Counts(u, h)' <=> Counts(u, h)
           /\ Ends(u, h)' <=> Ends(u, h)
           /\ Works(u, h)' <=> Works(u, h)
    BY <1>1, <1>15, <1>22, OthersRoles
  <2>2. Sent(c)' = m
    BY <1>17, <1>18, <1>25 DEF Sent
  <2>3. m \in Nat /\ k - 1 <= m
    BY <1>5, <1>25
  <2>4. /\ ~Begins(c, h)' /\ ~Ends(c, h)' /\ ~Counts(c, h) /\ ~Counts(c, h)'
        /\ Sends(c, h)' <=> m < n
    BY <1>1, <1>4, <1>15, <1>17, <1>18, <2>2 DEF Begins, Sends, Ends, Counts, Loop
  <2>5. \A u \in Threads \ {c} : ~Works(u, h)
    BY <1>7
  <2>. QED
    BY <1>7, <2>1, <2>2, <2>3, <2>4, <2>5 DEF Works
<1>27. /\ Taken(h)' /\ Filled(h)' /\ Live(h)' /\ Armed(h)'
  BY <1>7, <1>15, <1>26 DEF Taken, Filled, Live, Armed
<1>28. \A j \in Indices : Flies(j, h)' <=> Flies(j, h) \/ (j = i /\ success)
  BY <1>10, <1>19 DEF Flies
<1>29. Coming(h)' = (IF success THEN Coming(h) + 1 ELSE Coming(h)) /\ Coming(h) \in Nat
  <2>1. Counting(h)' = Counting(h) /\ i \notin Flying(h)
    BY <1>10, <1>26 DEF Counting, Flying
  <2>2. CASE success
    <3>1. Flying(h)' = Flying(h) \cup {i}
      BY <1>28, <2>2 DEF Flying
    <3>. QED
      BY <2>1, <2>2, <3>1, ComingMore, ComingParts
  <2>3. CASE ~success
    <3>1. Flying(h)' = Flying(h)
      BY <1>28, <2>3 DEF Flying
    <3>. QED
      BY <2>1, <2>3, <3>1, ComingParts DEF Coming
  <2>. QED
    BY <2>2, <2>3
<1>30. UseOK(h)' /\ PendingOK(h)' /\ BatchOK(h)' /\ FlightOK(h)'
  <2>1. UseOK(h) /\ PendingOK(h) /\ BatchOK(h) /\ FlightOK(h)
    BY DEF WriteIInv
  <2>2. UseOK(h)'
    <3>1. \/ \E t \in Threads : Works(t, h)' \/ Counts(t, h)'
          \/ \E j \in Indices : Flies(j, h)'
      <4>1. CASE success
        BY <1>28, <4>1
      <4>2. CASE ~success
        BY <1>1, <1>5, <1>25, <1>26, <4>2
      <4>. QED
        BY <4>1, <4>2
    <3>. QED
      BY <1>26, <1>27, <3>1 DEF UseOK
  <2>3. PendingOK(h)'
    <3>1. header'[h].Pending = (n - m) + Coming(h)' /\ header'[h].Pending <= n
      <4>1. CASE success
        BY <1>5, <1>7, <1>15, <1>25, <1>29, <4>1
      <4>2. CASE ~success
        BY <1>5, <1>7, <1>15, <1>25, <1>29, <4>2
      <4>. QED
        BY <4>1, <4>2
    <3>2. (\A t \in Threads : ~Works(t, h)') => header'[h].Pending = Coming(h)'
      <4>1. SUFFICES ASSUME ~(m < n) PROVE header'[h].Pending = Coming(h)'
        BY <1>1, <1>26
      <4>2. n - m = 0
        BY <1>5, <1>25, <4>1
      <4>3. Coming(h)' \in Nat
        BY <1>29
      <4>. QED
        BY <3>1, <4>2, <4>3
    <3>3. \A t \in Threads : Sends(t, h)' => t = c /\ req'[t].n = n /\ Sent(t)' = m
      BY <1>4, <1>15, <1>26
    <3>4. \A t \in Threads : Sends(t, h)' =>
            /\ header'[h].Pending = (req'[t].n - Sent(t)') + Coming(h)'
            /\ header'[h].Pending <= req'[t].n
      BY <3>1, <3>3
    <3>. QED
      BY <3>2, <3>4 DEF PendingOK
  <2>4. BatchOK(h)'
    <3>1. \A u \in Threads : Sends(u, h)' => header'[h].Request = u
      BY <1>7, <1>15, <1>26
    <3>2. header'[h] = header[h] /\ req' = req /\ local'[c].h = h
      BY <1>15, <1>17, <1>18
    <3>. QED
      BY <1>4, <1>7, <1>18, <3>1, <3>2 DEF BatchOK
  <2>5. FlightOK(h)'
    <3> SUFFICES ASSUME NEW j \in Indices, Flies(j, h)'
                 PROVE  /\ usb'[j].ctx.r = header'[h].Request
                        /\ usb'[j].ctx.k \in 1..header'[h].Count
                        /\ header'[h].UsbRequestIndices[usb'[j].ctx.k] = j
                        /\ outcome'[usb'[j].ctx.r][usb'[j].ctx.k] = "sent"
                        /\ \A t \in Threads : Sends(t, h)' => usb'[j].ctx.k <= Sent(t)'
      BY DEF FlightOK
    <3>0. header' = header /\ \A t \in Threads : Sends(t, h)' => Sent(t)' = m
      BY <1>15, <1>26
    <3>1. CASE j # i
      <4>1. Flies(j, h) /\ usb'[j] = usb[j]
        BY <1>19, <1>28, <3>1
      <4>2. PICK l : l = usb[j].ctx.k
        OBVIOUS
      <4>3. /\ usb[j].ctx.r = c /\ l \in 1..n /\ header[h].UsbRequestIndices[l] = j
            /\ outcome[c][l] = "sent" /\ l <= k - 1 /\ l \in Positions
        BY <1>1, <1>6, <1>7, <2>1, <4>1, <4>2, WhenItFlies DEF FlightOK
      <4>4. l # k /\ l <= m
        BY <1>5, <1>26, <4>3
      <4>5. outcome'[c][l] = "sent"
        BY <1>20, <4>3, <4>4
      <4>. QED
        BY <1>7, <3>0, <4>1, <4>2, <4>3, <4>4, <4>5
    <3>2. CASE j = i
      <4>1. success
        BY <1>10, <1>28, <3>2
      <4>2. m = k /\ k \in 1..n /\ k <= k
        BY <1>5, <1>25, <4>1
      <4>3. outcome'[c][k] = "sent"
        BY <1>13, <1>20, <4>1
      <4>. QED
        BY <1>7, <1>8, <1>19, <3>0, <3>2, <4>2, <4>3
    <3>. QED
      BY <3>1, <3>2
  <2>. QED
    BY <2>2, <2>3, <2>4, <2>5
<1>31. ListOK'
  BY <1>15 DEF WriteIInv, ListOK
<1>32. RequestsOK'
  <2>1. \A g \in Headers : Live(g)' => Live(g) /\ header'[g].Request = header[g].Request
    BY <1>7, <1>15, <1>24
  <2>. QED
    BY <2>1, RequestsKept DEF WriteIInv
<1>33. \A j \in Indices : Alone(j)' <=> Alone(j)
  BY <1>9, <1>19, Constants DEF Alone
<1>34. AloneOK(guests)'
  <2>1. \A j \in Indices : Alone(j) /\ usb[j].ctx.r \notin guests =>
           usb[j].ctx.r \in Threads \ {c} /\ pc[usb[j].ctx.r] = "returned"
    BY <1>1, <1>9, <1>19, Constants DEF WriteIInv, AloneOK
  <2>2. \A j \in Indices : Alone(j) /\ usb[j].ctx.r \notin guests =>
           /\ pc'[usb[j].ctx.r] = "returned"
           /\ req'[usb[j].ctx.r] = req[usb[j].ctx.r]
    BY <1>15, <1>18, <2>1
  <2>3. \A j \in Indices : Alone(j)' => Alone(j) /\ usb'[j] = usb[j]
    BY <1>33, <1>9, <1>19, Constants DEF Alone
  <2>. QED
    BY <2>2, <2>3, AloneKept DEF WriteIInv
<1>35. PlacesOK' /\ AllPlaced(apart)'
  <2>1. \A j \in Positions : Has(h, j)' <=> Has(h, j)
    BY <1>1, <1>7, <1>15, <1>18, <1>22, <1>27, PositionsKept
  <2>2. \A u \in Threads : /\ Single(u)' <=> Single(u)
                           /\ Single(u) => local'[u].i = local[u].i
    BY <1>1, <1>2, <1>18, Constants DEF Single
  <2>3. PlacesOK /\ AllPlaced(apart) /\ outstanding' = outstanding /\ outstanding \subseteq Indices
    BY <1>16 DEF WriteIInv, TypeOK
  <2>4. header' = header
    BY <1>15
  <2>. QED
    BY <1>24, <1>33, <2>1, <2>2, <2>3, <2>4, PlacesKept
<1>36. SentFlies'
  <2> SUFFICES ASSUME NEW u \in Callers, NEW j \in Positions, outcome'[u][j] = "sent"
               PROVE  \E l \in Indices : usb'[l].inFlight /\ usb'[l].ctx.r = u /\ usb'[l].ctx.k = j
    BY DEF SentFlies
  <2>1. CASE u = c /\ j = k
    BY <1>13, <1>19, <1>20, <2>1
  <2>2. CASE ~(u = c /\ j = k)
    <3>1. outcome[u][j] = "sent"
      BY <1>20, <2>2
    <3>2. PICK l \in Indices : usb[l].inFlight /\ usb[l].ctx.r = u /\ usb[l].ctx.k = j
      BY <3>1 DEF WriteIInv, SentFlies
    <3>. QED
      BY <1>11, <1>19, <3>2
  <2>. QED
    BY <2>1, <2>2
<1>37. ASSUME StatusOK(h) PROVE StatusOK(h)'
  <2>1. ASSUME NEW j \in 1..n, outcome[c][j] \in Ended
        PROVE  header[h].UsbRequestStatuses[j] <=> outcome[c][j] = "ok"
    BY <1>1, <1>7, <1>37, <2>1 DEF StatusOK
  <2>2. \A j \in 1..(k - 1) : outcome[c][j] # "none"
    BY <1>6, <1>7, <1>37 DEF StatusOK
  <2>3. \A j \in 1..n : j \in Positions
    BY <1>5, Constants DEF Positions
  <2>4. \A j \in 1..m : outcome'[c][j] # "none"
    <3> SUFFICES ASSUME NEW j \in 1..m PROVE outcome'[c][j] # "none"
      OBVIOUS
    <3>1. CASE j = k
      BY <1>13, <1>20, <3>1
    <3>2. CASE j # k
      <4>1. j \in 1..(k - 1) /\ j \in 1..n
        BY <1>5, <1>25, <3>2
      <4>. QED
        BY <1>20, <2>2, <2>3, <3>2, <4>1
    <3>. QED
      BY <3>1, <3>2
  <2>5. ASSUME \A u \in Threads : ~Sends(u, h)', NEW j \in 1..n PROVE Gone(c, j)'
    <3>1. j \in 1..m
      BY <1>1, <1>5, <1>25, <1>26, <2>5
    <3>. QED
      BY <2>4, <3>1 DEF Gone
  <2>6. ASSUME NEW j \in 1..n, outcome'[c][j] \in Ended,
               ~(Sends(c, h)' /\ pc'[c] = "store" /\ ~local'[c].ok /\ j = local'[c].k)
        PROVE  header'[h].UsbRequestStatuses[j] <=> outcome'[c][j] = "ok"
    <3>1. CASE j # k
      BY <1>15, <1>20, <2>1, <2>3, <2>6, <3>1
    <3>2. CASE j = k
      <4>1. ~success
        BY <1>13, <1>20, <2>6, <3>2 DEF Ended
      <4>2. Sends(c, h)'
        BY <1>1, <1>5, <1>25, <1>26, <4>1
      <4>. QED
        BY <1>17, <1>18, <2>6, <3>2, <4>1, <4>2
    <3>. QED
      BY <3>1, <3>2
  <2>7. ~success => outcome'[c][m + 1] = "failed"
    <3>1. ~success => m + 1 = k
      BY <1>5, <1>25
    <3>. QED
      BY <1>13, <1>20, <3>1
  <2>8. /\ header'[h].Request = c /\ header'[h].Count = n /\ Sent(c)' = m
        /\ pc'[c] = "store" /\ local'[c].ok = success
    BY <1>7, <1>15, <1>17, <1>18, <1>26
  <2>9. Sends(c, h)' =>
          /\ \A j \in 1..Sent(c)' : outcome'[c][j] # "none"
          /\ pc'[c] = "settle" \/ (pc'[c] # "send" /\ ~local'[c].ok) => outcome'[c][Sent(c)' + 1] = "failed"
    BY <2>4, <2>7, <2>8
  <2>10. \A j \in 1..n :
           /\ (\A u \in Threads : ~Sends(u, h)') => Gone(c, j)'
           /\ outcome'[c][j] \in Ended /\
                ~(Sends(c, h)' /\ pc'[c] = "store" /\ ~local'[c].ok /\ j = local'[c].k) =>
              (header'[h].UsbRequestStatuses[j] <=> outcome'[c][j] = "ok")
    BY <2>5, <2>6
  <2>. QED
    BY <2>8, <2>9, <2>10 DEF StatusOK
<1>38. ASSUME ~late', NEW g \in Headers PROVE StatusOK(g)'
  <2>1. StatusOK(g)
    BY <1>15, <1>38 DEF WriteIInv
  <2>. QED
    BY <1>24, <1>37, <2>1
<1>39. ASSUME ~late', NEW u \in Callers PROVE ReportOK(u)'
  <2>1. CASE u # c
    <3>1. ReportOK(u) /\ req'[u] = req[u] /\ outcome'[u] = outcome[u]
      BY <1>15, <1>20, <1>39, <2>1 DEF WriteIInv
    <3>. QED
      BY <3>1, ReportsKept
  <2>2. CASE u = c
    BY <1>7, <1>15, <2>2 DEF ReportOK
  <2>. QED
    BY <2>1, <2>2
<1>40. \A g \in Headers : UseOK(g)' /\ PendingOK(g)' /\ BatchOK(g)' /\ FlightOK(g)'
  BY <1>24, <1>30
<1>. QED
  BY <1>21, <1>23, <1>31, <1>32, <1>34, <1>35, <1>36, <1>38, <1>39, <1>40 DEF WriteIInv

\* The header that a batch begins with was free, and is in use.
LEMMA TakeParts ==
  ASSUME NEW apart, NEW guests, WriteIInv(apart, guests), NEW h \in Headers, TakeHeader(h)
  PROVE  /\ ~Taken(h) /\ Taken(h)'
         /\ \A g \in Headers \ {h} : (Taken(g)' <=> Taken(g)) /\ header'[g] = header[g]
         /\ header' \in [Headers -> Hdrs] /\ allocated' \subseteq Headers /\ batchList' \in Seq(allocated')
         /\ ListOK'
<1>1. VarTypes /\ ListOK
  BY DEF WriteIInv
<1>2. /\ header \in [Headers -> Hdrs] /\ allocated \subseteq Headers /\ batchList \in Seq(allocated)
      /\ Len(batchList) \in Nat /\ \A j \in 1..Len(batchList) : batchList[j] \in allocated
  BY <1>1, TypeParts
<1>3. CASE batchList # <<>>
  <2>1. h = Head(batchList) /\ batchList' = Tail(batchList) /\ UNCHANGED <<header, allocated>>
    BY <1>3 DEF TakeHeader
  <2>2. Len(batchList) >= 1 /\ h = batchList[1]
    BY <1>2, <1>3, <2>1, EmptySeq
  <2>3. /\ batchList' \in Seq(allocated) /\ Len(batchList') = Len(batchList) - 1
        /\ \A j \in 1..Len(batchList') : batchList'[j] = batchList[j + 1]
    BY <1>2, <1>3, <2>1, HeadTailProperties
  <2>4. \A j \in 1..Len(batchList') : j + 1 \in 1..Len(batchList) /\ j + 1 # 1
    BY <1>2, <2>2, <2>3
  <2>5. ASSUME NEW j \in 1..Len(batchList') PROVE batchList'[j] # h
    BY <1>1, <1>2, <2>2, <2>3, <2>4 DEF ListOK
  <2>6. ListOK'
    <3> SUFFICES ASSUME NEW i \in 1..Len(batchList'), NEW j \in 1..Len(batchList'),
                        batchList'[i] = batchList'[j]
                 PROVE  i = j
      BY DEF ListOK
    <3>1. i + 1 = j + 1
      BY <1>1, <2>3, <2>4 DEF ListOK
    <3>. QED
      BY <1>2, <2>3, <3>1
  <2>7. ~Taken(h) /\ Taken(h)'
    BY <1>2, <2>1, <2>2, <2>5 DEF Taken
  <2>8. ASSUME NEW g \in Headers \ {h} PROVE Taken(g)' <=> Taken(g)
    <3>1. ASSUME NEW j \in 1..Len(batchList), batchList[j] = g
          PROVE  \E i \in 1..Len(batchList') : batchList'[i] = g
      <4>1. j # 1
        BY <2>2, <3>1
      <4>2. j - 1 \in 1..Len(batchList') /\ (j - 1) + 1 = j
        BY <1>2, <2>3, <4>1
      <4>. QED
        BY <2>3, <3>1, <4>2
    <3>2. ASSUME NEW j \in 1..Len(batchList'), batchList'[j] = g
          PROVE  \E i \in 1..Len(batchList) : batchList[i] = g
      BY <2>3, <2>4, <3>2
    <3>. QED
      BY <2>1, <3>1, <3>2 DEF Taken
  <2>. QED
    BY <1>2, <2>1, <2>3, <2>6, <2>7, <2>8
<1>4. CASE batchList = <<>>
  <2>1. PICK garbage \in Garbage :
          /\ h \in Headers \ allocated /\ allocated' = allocated \cup {h}
          /\ header' = [header EXCEPT ![h].UsbRequestStatuses = garbage]
          /\ batchList' = <<>>
    BY <1>4 DEF TakeHeader, NewHeader
  <2>2. header' \in [Headers -> Hdrs] /\ \A g \in Headers \ {h} : header'[g] = header[g]
    <3>1. garbage \in [Positions -> BOOLEAN]
      BY WriteAssumption DEF Positions
    <3>. QED
      BY <1>2, <2>1, <3>1 DEF Hdrs
  <2>3. batchList' \in Seq(allocated') /\ Len(batchList) = 0 /\ Len(batchList') = 0
    BY <1>4, <2>1
  <2>4. ListOK'
    BY <2>3 DEF ListOK
  <2>5. ~Taken(h) /\ Taken(h)' /\ \A g \in Headers \ {h} : Taken(g)' <=> Taken(g)
    BY <2>1, <2>3 DEF Taken
  <2>. QED
    BY <1>2, <2>1, <2>2, <2>3, <2>4, <2>5
<1>. QED
  BY <1>3, <1>4

\* Nobody has a part in a header that is free, and nothing refers to it.
LEMMA WhenItIsFree ==
  ASSUME NEW apart, NEW guests, WriteIInv(apart, guests), NEW h \in Headers, ~Taken(h)
  PROVE  /\ \A u \in Threads : ~Works(u, h) /\ ~Begins(u, h) /\ ~Sends(u, h) /\ ~Ends(u, h) /\ ~Counts(u, h)
         /\ \A i \in Indices : ~Flies(i, h)
         /\ ~Filled(h) /\ ~Live(h) /\ ~Armed(h)
         /\ \A k \in Positions : ~Has(h, k)
<1>1. UseOK(h)
  BY DEF WriteIInv
<1>2. /\ \A u \in Threads : ~Works(u, h) /\ ~Begins(u, h) /\ ~Sends(u, h) /\ ~Ends(u, h) /\ ~Counts(u, h)
      /\ \A i \in Indices : ~Flies(i, h)
  BY <1>1 DEF UseOK, Works
<1>3. ~Filled(h) /\ ~Live(h) /\ ~Armed(h)
  BY DEF Filled, Live, Armed
<1>4. \A k \in Positions : ~Has(h, k)
  BY <1>2, <1>3 DEF Has, Begins
<1>. QED
  BY <1>2, <1>3, <1>4

\* A batch is not refused: the pool is as large as the largest write.
LEMMA BatchFits ==
  ASSUME TypeOK, NEW c \in Callers, NEW n \in 2..MaxAlloc, NEW h \in Headers, StartBatch(c, n, h)
  PROVE  /\ pc[c] = "idle" /\ TakeHeader(h) /\ AllocBegin(c, n)
         /\ req' = [req EXCEPT ![c].n = n]
         /\ local' = [local EXCEPT ![c] = [NoWork EXCEPT !.r = c, !.h = h, !.k = 1]]
         /\ Goto(c, "alloc") /\ UNCHANGED <<usb, outcome, late>>
<1>1. Count \in {0, N} /\ Count # 0
  BY DEF TypeOK, StartBatch
<1>2. n <= Count
  BY <1>1, PoolAssumption, SMT
<1>. QED
  BY <1>2 DEF StartBatch

\* A batch begins.
LEMMA StartBatchKeeps ==
  ASSUME NEW apart, NEW guests, TypeOK, WriteIInv(apart, guests), NEW c \in Callers \ guests, NEW n \in 2..MaxAlloc, NEW h \in Headers,
         StartBatch(c, n, h)
  PROVE  WriteIInv(apart, guests)'
<1>0. /\ pc[c] = "idle" /\ TakeHeader(h) /\ AllocBegin(c, n)
      /\ req' = [req EXCEPT ![c].n = n]
      /\ local' = [local EXCEPT ![c] = [NoWork EXCEPT !.r = c, !.h = h, !.k = 1]]
      /\ Goto(c, "alloc") /\ UNCHANGED <<usb, outcome, late>>
  BY BatchFits
<1>1. VarTypes /\ ThreadOK(c) /\ StageMatches(c, guests) /\ c \in Threads
  BY Constants DEF WriteIInv
<1>2. /\ pc[c] = "idle" /\ local[c] = NoWork /\ req[c].completions = 0 /\ stage[c] = "out"
      /\ \A k \in Positions : outcome[c][k] = "none"
  BY <1>0, <1>1 DEF ThreadOK, StageMatches
<1>3. n \in Nat /\ 2 <= n /\ n <= MaxAlloc /\ n \in 0..MaxAlloc
  BY Constants
<1>4. PICK x : x = [NoWork EXCEPT !.r = c, !.h = h, !.k = 1]
  OBVIOUS
<1>5. x \in Locals /\ x.h = h /\ x.k = 1
  <2>1. x = [r |-> c, h |-> h, i |-> 0, k |-> 1, ok |-> TRUE]
    BY <1>4 DEF NoWork
  <2>2. 1 \in 0..(MaxAlloc + 1) /\ 0 \in Indices
    BY Constants
  <2>. QED
    BY <2>1, <2>2 DEF Locals
<1>6. /\ TakeHeader(h)
      /\ stage' = [stage EXCEPT ![c] = "alloc"] /\ want' = [want EXCEPT ![c] = n]
      /\ req' = [req EXCEPT ![c].n = n]
      /\ local' = [local EXCEPT ![c] = x] /\ Goto(c, "alloc")
      /\ UNCHANGED <<usb, outcome, late, outstanding>>
  BY <1>0, <1>4 DEF AllocBegin
<1>7. /\ pc' \in [Threads -> PCs] /\ pc'[c] = "alloc" /\ (\A u \in Threads \ {c} : pc'[u] = pc[u])
      /\ local' \in [Threads -> Locals] /\ local'[c] = x
      /\ (\A u \in Threads \ {c} : local'[u] = local[u])
  <2>1. "alloc" \in PCs
    BY DEF PCs
  <2>. QED
    BY <1>1, <1>5, <1>6, <2>1, GotoParts, LocalParts
<1>8. /\ req' \in [Callers -> Reqs] /\ req'[c].completions = 0 /\ req'[c].n = n
      /\ \A u \in Callers \ {c} : req'[u] = req[u]
  <2>1. req \in [Callers -> Reqs]
    BY <1>1, TypeParts
  <2>. QED
    BY <1>2, <1>3, <1>6, <2>1 DEF Reqs
<1>9. /\ stage'[c] = "alloc" /\ want'[c] = n
      /\ \A u \in Threads \ {c} : stage'[u] = stage[u] /\ want'[u] = want[u]
  <2>1. DOMAIN stage = Threads /\ DOMAIN want = Threads
    BY DEF TypeOK
  <2>. QED
    BY <1>1, <1>6, <2>1
<1>10. /\ ~Taken(h) /\ Taken(h)'
       /\ \A g \in Headers \ {h} : (Taken(g)' <=> Taken(g)) /\ header'[g] = header[g]
       /\ header' \in [Headers -> Hdrs] /\ allocated' \subseteq Headers /\ batchList' \in Seq(allocated')
       /\ ListOK'
  BY <1>6, TakeParts
<1>11. VarTypes'
  BY <1>1, <1>6, <1>7, <1>8, <1>10 DEF VarTypes
<1>12. OthersStay(c)
  BY <1>7 DEF OthersStay
<1>13. \A u \in Threads : ThreadOK(u)' /\ StageMatches(u, guests)'
  <2>1. ThreadOK(c)' /\ StageMatches(c, guests)'
    <3>1. n # 1 /\ h # NoHeader /\ 1 <= n /\ outcome' = outcome
      BY <1>3, <1>6, Constants
    <3>. QED
      BY <1>2, <1>5, <1>7, <1>8, <1>9, <3>1 DEF ThreadOK, StageMatches, Loop
  <2>2. \A u \in Callers \ {c} :
           /\ req'[u].n = req[u].n
           /\ Busy(u) \/ (req'[u].completions = req[u].completions /\ outcome'[u] = outcome[u])
    BY <1>6, <1>8
  <2>. QED
    BY <1>1, <1>9, <1>12, <2>1, <2>2, ThreadsKept
<1>14. /\ \A u \in Threads : ~Works(u, h) /\ ~Begins(u, h) /\ ~Sends(u, h) /\ ~Ends(u, h) /\ ~Counts(u, h)
       /\ \A i \in Indices : ~Flies(i, h)
       /\ ~Live(h)
       /\ \A k \in Positions : ~Has(h, k)
  BY <1>10, WhenItIsFree
<1>15. NoWork.h = NoHeader
  BY DEF NoWork
<1>16. \A g \in Headers : Filled(g) => header[g].Request \in Callers \ {c}
  BY <1>2 DEF WriteIInv, BatchOK
<1>17. ASSUME NEW g \in Headers, g # h
       PROVE  /\ UseOK(g)' /\ PendingOK(g)' /\ BatchOK(g)' /\ FlightOK(g)'
              /\ StatusOK(g) => StatusOK(g)'
              /\ Live(g)' <=> Live(g)
              /\ \A k \in Positions : Has(g, k)' <=> Has(g, k)
  <2>1. NotOf(c, g) /\ NotOf(c, g)'
    BY <1>2, <1>5, <1>7, <1>15, <1>17, Constants DEF NotOf, Works, Begins, Sends, Ends, Counts
  <2>2. /\ Taken(g)' <=> Taken(g)
        /\ header'[g] = header[g] /\ usb' = usb /\ outcome' = outcome
    BY <1>6, <1>10, <1>17
  <2>3. \A i \in Indices : Flies(i, g)' <=> Flies(i, g)
    BY <2>2 DEF Flies
  <2>. QED
    BY <1>1, <1>8, <1>12, <1>16, <2>1, <2>2, <2>3, OtherHeader DEF Live
<1>18. /\ \A u \in Threads : /\ Works(u, h)' <=> u = c
                             /\ Begins(u, h)' <=> u = c
                             /\ ~Sends(u, h)' /\ ~Counts(u, h)' /\ ~Ends(u, h)'
       /\ \A i \in Indices : ~Flies(i, h)'
  <2>1. \A u \in Threads \ {c} :
           /\ Begins(u, h)' <=> Begins(u, h)
           /\ Sends(u, h)' <=> Sends(u, h)
           /\ Counts(u, h)' <=> Counts(u, h)
           /\ Ends(u, h)' <=> Ends(u, h)
           /\ Works(u, h)' <=> Works(u, h)
    BY <1>1, <1>8, <1>12, OthersRoles
  <2>2. Begins(c, h)' /\ ~Sends(c, h)' /\ ~Counts(c, h)' /\ ~Ends(c, h)'
    BY <1>5, <1>7 DEF Begins, Sends, Counts, Ends, Loop
  <2>3. \A i \in Indices : ~Flies(i, h)'
    BY <1>6, <1>14 DEF Flies
  <2>. QED
    BY <1>14, <2>1, <2>2, <2>3 DEF Works
<1>19. ~Filled(h)' /\ ~Live(h)' /\ ~Armed(h)'
  BY <1>1, <1>18 DEF Filled, Live, Armed
<1>20. UseOK(h)' /\ PendingOK(h)' /\ BatchOK(h)' /\ FlightOK(h)'
  <2>1. Flying(h)' = {} /\ Counting(h)' = {}
    BY <1>18 DEF Flying, Counting
  <2>2. UseOK(h)'
    BY <1>1, <1>10, <1>18, <2>1 DEF UseOK
  <2>3. PendingOK(h)'
    BY <1>1, <1>18 DEF PendingOK
  <2>4. BatchOK(h)'
    BY <1>18, <1>19 DEF BatchOK
  <2>5. FlightOK(h)'
    BY <1>18 DEF FlightOK
  <2>. QED
    BY <2>2, <2>3, <2>4, <2>5
<1>21. \A k \in Positions : ~Has(h, k)'
  <2>1. \A u \in Threads : ~(local'[u].h = h /\ pc'[u] = "fill")
    BY <1>7, <1>18 DEF Begins
  <2>. QED
    BY <1>19, <2>1 DEF Has
<1>22. RequestsOK'
  <2>1. \A g \in Headers : Live(g)' => Live(g) /\ header'[g].Request = header[g].Request
    BY <1>10, <1>17, <1>19
  <2>. QED
    BY <2>1, RequestsKept DEF WriteIInv
<1>23. \A i \in Indices : Alone(i)' <=> Alone(i)
  BY <1>6 DEF Alone
<1>24. AloneOK(guests)'
  <2>1. \A i \in Indices : Alone(i) /\ usb[i].ctx.r \notin guests =>
           usb[i].ctx.r \in Callers \ {c} /\ pc[usb[i].ctx.r] = "returned"
    BY <1>2 DEF WriteIInv, AloneOK
  <2>2. \A i \in Indices : Alone(i) /\ usb[i].ctx.r \notin guests =>
           /\ pc'[usb[i].ctx.r] = "returned"
           /\ req'[usb[i].ctx.r] = req[usb[i].ctx.r]
    BY <1>7, <1>8, <2>1, Constants
  <2>. QED
    BY <1>6, <1>23, <2>2, AloneKept DEF WriteIInv
<1>25. PlacesOK' /\ AllPlaced(apart)'
  <2>1. \A u \in Threads : /\ Single(u)' <=> Single(u)
                           /\ Single(u) => local'[u].i = local[u].i
    BY <1>2, <1>7 DEF Single
  <2>2. PlacesOK /\ AllPlaced(apart) /\ outstanding' = outstanding /\ outstanding \subseteq Indices
    BY <1>6 DEF WriteIInv, TypeOK
  <2>3. \A g \in Headers, k \in Positions :
          /\ Has(g, k)' <=> Has(g, k)
          /\ Has(g, k) => header'[g].UsbRequestIndices[k] = header[g].UsbRequestIndices[k]
    BY <1>10, <1>14, <1>17, <1>21
  <2>. QED
    BY <1>23, <2>1, <2>2, <2>3, PlacesKept
<1>26. SentFlies'
  BY <1>6 DEF WriteIInv, SentFlies
<1>27. ASSUME ~late', NEW g \in Headers PROVE StatusOK(g)'
  <2>1. StatusOK(g)
    BY <1>6, <1>27 DEF WriteIInv
  <2>2. CASE g = h
    BY <1>19, <2>2 DEF StatusOK
  <2>. QED
    BY <1>17, <2>1, <2>2
<1>28. ASSUME ~late', NEW u \in Callers PROVE ReportOK(u)'
  <2>1. CASE u # c
    <3>1. ReportOK(u) /\ req'[u] = req[u] /\ outcome'[u] = outcome[u]
      BY <1>6, <1>8, <1>28, <2>1 DEF WriteIInv
    <3>. QED
      BY <3>1, ReportsKept
  <2>2. CASE u = c
    BY <1>8, <2>2 DEF ReportOK
  <2>. QED
    BY <2>1, <2>2
<1>29. \A g \in Headers : UseOK(g)' /\ PendingOK(g)' /\ BatchOK(g)' /\ FlightOK(g)'
  BY <1>17, <1>20
<1>. QED
  BY <1>10, <1>11, <1>13, <1>22, <1>24, <1>25, <1>26, <1>27, <1>28, <1>29 DEF WriteIInv

\* The header of a batch is filled.
LEMMA FillKeeps ==
  ASSUME NEW apart, NEW guests, TypeOK, WriteIInv(apart, guests), NEW c \in Callers, Fill(c)
  PROVE  WriteIInv(apart, guests)'
<1>1. VarTypes /\ ThreadOK(c) /\ StageMatches(c, guests) /\ c \in Threads /\ pc[c] = "fill"
  BY Constants DEF WriteIInv, Fill
<1>2. PICK h \in Headers : h = local[c].h
  BY <1>1, FieldTypes DEF ThreadOK
<1>3. PICK n : n = req[c].n
  OBVIOUS
<1>4. /\ n \in Nat /\ 2 <= n /\ n <= MaxAlloc /\ n \in 0..MaxAlloc /\ local[c].k = 1 /\ stage[c] = "out"
      /\ req[c].completions = 0 /\ \A k \in Positions : outcome[c][k] = "none"
  <2>1. n \in Nat /\ n <= MaxAlloc
    BY <1>1, <1>3, FieldTypes
  <2>2. 1 <= n /\ n # 1 /\ local[c].k = 1 /\ stage[c] = "out"
    BY <1>1, <1>2, <1>3, Constants DEF ThreadOK, StageMatches
  <2>3. req[c].completions = 0 /\ \A k \in Positions : outcome[c][k] = "none"
    BY <1>1 DEF ThreadOK
  <2>4. 2 <= n /\ n \in 0..MaxAlloc
    BY <2>1, <2>2, Constants
  <2>. QED
    BY <2>1, <2>2, <2>3, <2>4
<1>5. /\ header' = [header EXCEPT ![h].Request = c, ![h].Count = n, ![h].Pending = n]
      /\ Goto(c, "send")
      /\ UNCHANGED <<local, req, allocated, batchList, usb, outcome, late, stage, want, outstanding>>
  BY <1>2, <1>3 DEF Fill, poolVars
<1>6. pc' \in [Threads -> PCs] /\ pc'[c] = "send" /\ \A u \in Threads \ {c} : pc'[u] = pc[u]
  <2>1. "send" \in PCs
    BY DEF PCs
  <2>. QED
    BY <1>1, <1>5, <2>1, GotoParts
<1>7. /\ header' \in [Headers -> Hdrs]
      /\ \A g \in Headers \ {h} : header'[g] = header[g]
      /\ header'[h].Request = c /\ header'[h].Count = n /\ header'[h].Pending = n
      /\ header'[h].UsbRequestIndices = header[h].UsbRequestIndices
  <2> DEFINE a == [header EXCEPT ![h].Request = c]
             b == [a EXCEPT ![h].Count = n]
             d == [b EXCEPT ![h].Pending = n]
  <2>1. header \in [Headers -> Hdrs]
    BY <1>1, TypeParts
  <2>2. header' = d
    BY <1>5, <2>1
  <2>3. /\ a \in [Headers -> Hdrs] /\ a[h].Request = c
        /\ a[h].UsbRequestIndices = header[h].UsbRequestIndices
        /\ \A g \in Headers \ {h} : a[g] = header[g]
    BY <2>1 DEF Hdrs
  <2> HIDE DEF a
  <2>4. /\ b \in [Headers -> Hdrs] /\ b[h].Request = c /\ b[h].Count = n
        /\ b[h].UsbRequestIndices = header[h].UsbRequestIndices
        /\ \A g \in Headers \ {h} : b[g] = header[g]
    BY <1>4, <2>3 DEF Hdrs
  <2> HIDE DEF b
  <2>5. /\ d \in [Headers -> Hdrs] /\ d[h].Request = c /\ d[h].Count = n /\ d[h].Pending = n
        /\ d[h].UsbRequestIndices = header[h].UsbRequestIndices
        /\ \A g \in Headers \ {h} : d[g] = header[g]
    BY <1>4, <2>4 DEF Hdrs
  <2> HIDE DEF d
  <2>. QED
    BY <2>2, <2>5
<1>8. VarTypes'
  BY <1>1, <1>5, <1>6, <1>7 DEF VarTypes
<1>9. OthersStay(c)
  BY <1>5, <1>6 DEF OthersStay
<1>10. \A u \in Threads : ThreadOK(u)' /\ StageMatches(u, guests)'
  <2>1. ThreadOK(c)' /\ StageMatches(c, guests)'
    <3>1. h # NoHeader /\ n # 1 /\ 1 <= n
      BY <1>4, Constants
    <3>. QED
      BY <1>1, <1>2, <1>3, <1>4, <1>5, <1>6, <3>1 DEF ThreadOK, StageMatches, Loop
  <2>. QED
    BY <1>1, <1>5, <1>9, <2>1, ThreadsKept
<1>11. Begins(c, h)
  BY <1>1, <1>2 DEF Begins
<1>12. /\ Taken(h)
       /\ \A u \in Threads : (Works(u, h) => u = c) /\ ~Counts(u, h) /\ ~Sends(u, h)
       /\ \A i \in Indices : ~Flies(i, h)
       /\ Flying(h) = {} /\ Counting(h) = {}
  BY <1>1, <1>11, WhenItBeginsOrEnds
<1>13. \A g \in Headers : Filled(g) => header[g].Request \in Callers \ {c}
  BY <1>1 DEF WriteIInv, BatchOK
<1>14. ASSUME NEW g \in Headers, g # h
       PROVE  /\ UseOK(g)' /\ PendingOK(g)' /\ BatchOK(g)' /\ FlightOK(g)'
              /\ StatusOK(g) => StatusOK(g)'
              /\ Live(g)' <=> Live(g)
              /\ \A k \in Positions : Has(g, k)' <=> Has(g, k)
  <2>1. NotOf(c, g) /\ NotOf(c, g)'
    BY <1>2, <1>5, <1>14 DEF NotOf, Works, Begins, Sends, Ends, Counts
  <2>2. /\ Taken(g)' <=> Taken(g)
        /\ \A i \in Indices : Flies(i, g)' <=> Flies(i, g)
        /\ header'[g] = header[g] /\ usb' = usb /\ outcome' = outcome /\ req' = req
    BY <1>5, <1>7, <1>14 DEF Taken, Flies
  <2>. QED
    BY <1>1, <1>9, <1>13, <2>1, <2>2, OtherHeader DEF Live
<1>15. /\ \A u \in Threads : /\ Works(u, h)' <=> u = c
                             /\ Sends(u, h)' <=> u = c
                             /\ ~Begins(u, h)' /\ ~Counts(u, h)' /\ ~Ends(u, h)'
       /\ \A i \in Indices : ~Flies(i, h)'
       /\ Sent(c)' = 0
  <2>1. \A u \in Threads \ {c} :
           /\ Begins(u, h)' <=> Begins(u, h)
           /\ Sends(u, h)' <=> Sends(u, h)
           /\ Counts(u, h)' <=> Counts(u, h)
           /\ Ends(u, h)' <=> Ends(u, h)
           /\ Works(u, h)' <=> Works(u, h)
    BY <1>1, <1>5, <1>9, OthersRoles
  <2>2. Sent(c)' = 0
    BY <1>4, <1>5, <1>6 DEF Sent
  <2>3. Sends(c, h)' /\ ~Begins(c, h)' /\ ~Counts(c, h)' /\ ~Ends(c, h)'
    BY <1>2, <1>3, <1>4, <1>5, <1>6, <2>2 DEF Begins, Sends, Counts, Ends, Loop
  <2>4. \A i \in Indices : ~Flies(i, h)'
    BY <1>5, <1>12 DEF Flies
  <2>. QED
    BY <1>12, <2>1, <2>2, <2>3, <2>4 DEF Works
<1>16. /\ Taken(h)' /\ Filled(h)' /\ Live(h)' /\ Armed(h)'
  BY <1>5, <1>12, <1>15 DEF Taken, Filled, Live, Armed
<1>17. Flying(h)' = {} /\ Counting(h)' = {} /\ Coming(h)' = 0
  <2>1. Flying(h)' = {} /\ Counting(h)' = {}
    BY <1>15 DEF Flying, Counting
  <2>2. Coming(h) = 0
    BY <1>12, ComingParts
  <2>. QED
    BY <1>12, <2>1, <2>2 DEF Coming
<1>18. UseOK(h)' /\ PendingOK(h)' /\ BatchOK(h)' /\ FlightOK(h)'
  <2>1. UseOK(h)'
    BY <1>1, <1>15, <1>16 DEF UseOK
  <2>2. PendingOK(h)'
    <3>1. \A t \in Threads : Sends(t, h)' =>
            /\ header'[h].Pending = (req'[t].n - Sent(t)') + Coming(h)'
            /\ header'[h].Pending <= req'[t].n
      BY <1>3, <1>4, <1>5, <1>7, <1>15, <1>17
    <3>. QED
      BY <1>1, <1>15, <3>1 DEF PendingOK
  <2>3. BatchOK(h)'
    BY <1>2, <1>3, <1>4, <1>5, <1>6, <1>7, <1>15 DEF BatchOK
  <2>4. FlightOK(h)'
    BY <1>15 DEF FlightOK
  <2>. QED
    BY <2>1, <2>2, <2>3, <2>4
<1>19. ASSUME NEW k \in Positions PROVE Has(h, k)' <=> Has(h, k)
  <2>1. ~Armed(h)
    BY <1>1, <1>11 DEF Armed, Filled
  <2>2. \A u \in Threads : (local[u].h = h /\ pc[u] = "fill") <=> u = c
    BY <1>1, <1>2, <1>12 DEF Works, Begins
  <2>3. \A u \in Threads : ~(local'[u].h = h /\ pc'[u] = "fill")
    BY <1>15 DEF Begins
  <2>4. Has(h, k) <=> k \in 1..n
    BY <1>1, <1>3, <2>1, <2>2 DEF Has
  <2>5. Has(h, k)' <=> k \in 1..n
    BY <1>7, <1>16, <2>3 DEF Has
  <2>. QED
    BY <2>4, <2>5
<1>20. ListOK'
  BY <1>5 DEF WriteIInv, ListOK
<1>21. RequestsOK'
  <2>1. \A g \in Headers \ {h} : Live(g)' => Live(g) /\ header'[g].Request = header[g].Request
                                                   /\ header[g].Request # c
    BY <1>7, <1>13, <1>14 DEF Live
  <2>2. RequestsOK /\ header'[h].Request = c
    BY <1>7 DEF WriteIInv
  <2>. QED
    BY <2>1, <2>2 DEF RequestsOK
<1>22. \A i \in Indices : Alone(i)' <=> Alone(i)
  BY <1>5 DEF Alone
<1>23. AloneOK(guests)'
  <2>1. \A i \in Indices : Alone(i) /\ usb[i].ctx.r \notin guests =>
           usb[i].ctx.r \in Callers \ {c} /\ pc[usb[i].ctx.r] = "returned"
    BY <1>1 DEF WriteIInv, AloneOK
  <2>2. \A i \in Indices : Alone(i) /\ usb[i].ctx.r \notin guests =>
           /\ pc'[usb[i].ctx.r] = "returned"
           /\ req'[usb[i].ctx.r] = req[usb[i].ctx.r]
    BY <1>5, <1>6, <2>1, Constants
  <2>. QED
    BY <1>5, <1>22, <2>2, AloneKept DEF WriteIInv
<1>24. PlacesOK' /\ AllPlaced(apart)'
  <2>1. \A u \in Threads : /\ Single(u)' <=> Single(u)
                           /\ Single(u) => local'[u].i = local[u].i
    BY <1>1, <1>2, <1>5, <1>6, Constants DEF Single
  <2>2. PlacesOK /\ AllPlaced(apart) /\ outstanding' = outstanding /\ outstanding \subseteq Indices
    BY <1>5 DEF WriteIInv, TypeOK
  <2>3. \A g \in Headers, k \in Positions :
          /\ Has(g, k)' <=> Has(g, k)
          /\ header'[g].UsbRequestIndices[k] = header[g].UsbRequestIndices[k]
    BY <1>7, <1>14, <1>19
  <2>. QED
    BY <1>22, <2>1, <2>2, <2>3, PlacesKept
<1>25. SentFlies'
  BY <1>5 DEF WriteIInv, SentFlies
<1>26. StatusOK(h)'
  <2>1. \A k \in 1..n : k \in Positions /\ outcome'[c][k] = "none"
    BY <1>4, <1>5, Constants DEF Positions
  <2>2. \A k \in 1..n : outcome'[c][k] \notin Ended
    BY <2>1 DEF Ended
  <2>3. /\ header'[h].Request = c /\ header'[h].Count = n /\ Sends(c, h)' /\ Sent(c)' = 0
        /\ pc'[c] = "send" /\ 1..0 = {}
    BY <1>1, <1>6, <1>7, <1>15
  <2>4. \A k \in 1..0 : outcome'[c][k] # "none"
    BY <2>3
  <2>. QED
    BY <1>1, <2>2, <2>3, <2>4 DEF StatusOK
<1>27. ASSUME ~late', NEW g \in Headers PROVE StatusOK(g)'
  <2>1. StatusOK(g)
    BY <1>5, <1>27 DEF WriteIInv
  <2>. QED
    BY <1>14, <1>26, <2>1
<1>28. ASSUME ~late', NEW u \in Callers PROVE ReportOK(u)'
  BY <1>5, <1>28 DEF WriteIInv, ReportOK
<1>29. \A g \in Headers : UseOK(g)' /\ PendingOK(g)' /\ BatchOK(g)' /\ FlightOK(g)'
  BY <1>14, <1>18
<1>. QED
  BY <1>8, <1>10, <1>20, <1>21, <1>23, <1>24, <1>25, <1>27, <1>28, <1>29 DEF WriteIInv

\* What a caller pops nobody has, and once.
LEMMA PopParts ==
  ASSUME IInv, NEW c \in Callers, AllocPop(c), NEW w, w = want[c]
  PROVE  /\ w \in Nat /\ 1 <= w /\ w <= MaxAlloc
         /\ \A k \in 1..w : Popped(w)[k] \in Indices /\ Popped(w)[k] \notin outstanding
         /\ \A k, l \in 1..w : Popped(w)[k] = Popped(w)[l] => k = l
         /\ outstanding' = outstanding \cup {Popped(w)[k] : k \in 1..w}
<1>1. N \in Nat /\ MaxAlloc \in Nat /\ MaxAlloc <= N /\ c \in Threads
  BY Constants
<1>2. /\ TypeOK /\ StageOK /\ OffIsQuiescent /\ IndicesPartitioned /\ PermitsBackedByIndices
      /\ stage[c] = "alloc" /\ permits[c] = w
  BY DEF IInv, AllocPop
<1>3. w \in Nat /\ 1 <= w /\ w <= MaxAlloc
  <2>1. w \in 1..MaxAlloc
    BY <1>1, <1>2 DEF StageOK
  <2>. QED
    BY <1>1, <2>1
<1>4. Count = N
  BY <1>1, <1>2 DEF TypeOK, OffIsQuiescent, Quiescent
<1>5. PICK end \in Nat : end = FreeIndexEnd /\ w <= end /\ end <= N
  <2>1. Availabe + permits[c] <= FreeIndexEnd
    BY <1>1, <1>2, <1>4, PermitsBound
  <2>2. Availabe \in Nat /\ FreeIndexEnd \in Nat /\ FreeIndexEnd <= N
    BY <1>1, <1>2 DEF TypeOK
  <2>. QED
    BY <1>2, <1>3, <2>1, <2>2
<1>6. ASSUME NEW k \in 1..w
      PROVE  end - w + k - 1 \in 0..(end - 1) /\ Popped(w)[k] = FreeIndices[end - w + k - 1]
  BY <1>3, <1>5 DEF Popped
<1>7. /\ \A i, j \in 0..(end - 1) : FreeIndices[i] = FreeIndices[j] => i = j
      /\ \A i \in 0..(end - 1) : FreeIndices[i] \in Indices /\ FreeIndices[i] \notin outstanding
  BY <1>2, <1>4, <1>5 DEF IndicesPartitioned, FreeSet
<1>8. \A k \in 1..w : Popped(w)[k] \in Indices /\ Popped(w)[k] \notin outstanding
  BY <1>6, <1>7
<1>9. ASSUME NEW k \in 1..w, NEW l \in 1..w, Popped(w)[k] = Popped(w)[l] PROVE k = l
  <2>1. end - w + k - 1 = end - w + l - 1
    BY <1>6, <1>7, <1>9
  <2>. QED
    BY <1>3, <1>5, <2>1
<1>10. outstanding' = outstanding \cup {Popped(w)[k] : k \in 1..w}
  BY DEF AllocPop
<1>. QED
  BY <1>3, <1>8, <1>9, <1>10

\* A caller pops the index of a standalone write.
LEMMA PopAloneKeeps ==
  ASSUME NEW apart, NEW guests, IInv, WriteIInv(apart, guests), NEW c \in Callers, Pop(c), ~IsBatch(c)
  PROVE  WriteIInv(apart, guests)'
<1>1. VarTypes /\ ThreadOK(c) /\ StageMatches(c, guests) /\ c \in Threads /\ pc[c] = "alloc"
  BY Constants DEF WriteIInv, Pop
<1>2. /\ local[c].h = NoHeader /\ req[c].n = 1 /\ want[c] = 1 /\ req[c].completions = 0
      /\ local[c].k = 1
  BY <1>1 DEF IsBatch, ThreadOK, StageMatches
<1>3. PICK x \in Indices : /\ x = Popped(1)[1] /\ x \notin outstanding
                           /\ outstanding' = outstanding \cup {x}
  <2>1. AllocPop(c) /\ 1 = want[c] /\ 1..1 = {1}
    BY <1>2 DEF Pop
  <2>2. /\ \A k \in 1..1 : Popped(1)[k] \in Indices /\ Popped(1)[k] \notin outstanding
        /\ outstanding' = outstanding \cup {Popped(1)[k] : k \in 1..1}
    BY <2>1, PopParts
  <2>. QED
    BY <2>1, <2>2
<1>4. PICK y : y = [local[c] EXCEPT !.i = x]
  OBVIOUS
<1>5. y \in Locals /\ y.h = NoHeader /\ y.i = x /\ y.k = 1
  <2>1. local[c] \in Locals
    BY <1>1, TypeParts
  <2>. QED
    BY <1>2, <1>4, <2>1 DEF Locals
<1>6. /\ local' = [local EXCEPT ![c] = y] /\ Goto(c, "send")
      /\ stage' = [stage EXCEPT ![c] = "out"] /\ want' = [want EXCEPT ![c] = 0]
      /\ UNCHANGED <<req, header, allocated, batchList, usb, outcome, late>>
  <2>1. local' = [local EXCEPT ![c].i = x]
    BY <1>2, <1>3 DEF Pop, IsBatch
  <2>2. local' = [local EXCEPT ![c] = y]
    BY <1>1, <1>4, <2>1, TypeParts
  <2>. QED
    BY <1>2, <2>2 DEF Pop, AllocPop, IsBatch
<1>7. /\ pc' \in [Threads -> PCs] /\ pc'[c] = "send" /\ (\A u \in Threads \ {c} : pc'[u] = pc[u])
      /\ local' \in [Threads -> Locals] /\ local'[c] = y
      /\ (\A u \in Threads \ {c} : local'[u] = local[u])
  <2>1. "send" \in PCs
    BY DEF PCs
  <2>. QED
    BY <1>1, <1>5, <1>6, <2>1, GotoParts, LocalParts
<1>8. /\ stage'[c] = "out"
      /\ \A u \in Threads \ {c} : stage'[u] = stage[u] /\ want'[u] = want[u]
  <2>1. DOMAIN stage = Threads /\ DOMAIN want = Threads
    BY DEF IInv, TypeOK
  <2>. QED
    BY <1>1, <1>6, <2>1
<1>9. VarTypes'
  BY <1>1, <1>6, <1>7 DEF VarTypes
<1>10. OthersStay(c)
  BY <1>7 DEF OthersStay
<1>11. \A u \in Threads : ThreadOK(u)' /\ StageMatches(u, guests)'
  <2>1. ThreadOK(c)' /\ StageMatches(c, guests)'
    BY <1>1, <1>2, <1>5, <1>6, <1>7, <1>8 DEF ThreadOK, StageMatches, Loop
  <2>. QED
    BY <1>1, <1>6, <1>8, <1>10, <2>1, ThreadsKept
<1>12. \A g \in Headers : Filled(g) => header[g].Request \in Callers \ {c}
  BY <1>1 DEF WriteIInv, BatchOK
<1>13. ASSUME NEW g \in Headers
       PROVE  /\ UseOK(g)' /\ PendingOK(g)' /\ BatchOK(g)' /\ FlightOK(g)'
              /\ StatusOK(g) => StatusOK(g)'
              /\ Live(g)' <=> Live(g)
              /\ \A k \in Positions : Has(g, k)' <=> Has(g, k)
  <2>1. NotOf(c, g) /\ NotOf(c, g)'
    BY <1>2, <1>5, <1>7, Constants DEF NotOf, Works, Begins, Sends, Ends, Counts
  <2>2. /\ Taken(g)' <=> Taken(g)
        /\ \A i \in Indices : Flies(i, g)' <=> Flies(i, g)
        /\ header'[g] = header[g] /\ usb' = usb /\ outcome' = outcome /\ req' = req
    BY <1>6 DEF Taken, Flies
  <2>. QED
    BY <1>1, <1>10, <1>12, <2>1, <2>2, OtherHeader DEF Live
<1>14. ListOK'
  BY <1>6 DEF WriteIInv, ListOK
<1>15. RequestsOK'
  BY <1>6, <1>13, RequestsKept DEF WriteIInv
<1>16. \A i \in Indices : Alone(i)' <=> Alone(i)
  BY <1>6 DEF Alone
<1>17. AloneOK(guests)'
  <2>1. \A i \in Indices : Alone(i) /\ usb[i].ctx.r \notin guests =>
           usb[i].ctx.r \in Callers \ {c} /\ pc[usb[i].ctx.r] = "returned"
    BY <1>1 DEF WriteIInv, AloneOK
  <2>2. \A i \in Indices : Alone(i) /\ usb[i].ctx.r \notin guests =>
           /\ pc'[usb[i].ctx.r] = "returned"
           /\ req'[usb[i].ctx.r] = req[usb[i].ctx.r]
    BY <1>6, <1>7, <2>1, Constants
  <2>. QED
    BY <1>6, <1>16, <2>2, AloneKept DEF WriteIInv
<1>18. PlacesOK' /\ AllPlaced(apart)'
  <2>1. PlacesOK /\ AllPlaced(apart) /\ outstanding \subseteq Indices
    BY DEF WriteIInv, IInv, TypeOK
  <2>2. \A g \in Headers, k \in Positions :
          /\ Has(g, k)' <=> Has(g, k)
          /\ header'[g].UsbRequestIndices[k] = header[g].UsbRequestIndices[k]
          /\ Has(g, k) => header[g].UsbRequestIndices[k] # x
    BY <1>3, <1>6, <1>13, <2>1 DEF PlacesOK
  <2>3. \A u \in Threads : /\ Single(u)' <=> Single(u) \/ u = c
                           /\ Single(u) => u # c /\ local'[u].i = local[u].i /\ local[u].i # x
    BY <1>1, <1>3, <1>5, <1>7, <2>1 DEF PlacesOK, Single
  <2>4. local'[c].i = x
    BY <1>5, <1>7
  <2>5. \A i \in Indices : Alone(i) => i \in outstanding /\ i # x
    BY <1>3, <2>1 DEF PlacesOK
  <2>6. ASSUME NEW h \in Headers, NEW k \in Positions, Has(h, k)'
        PROVE  (LET j == header[h].UsbRequestIndices[k] IN
                /\ j \in outstanding /\ ~Alone(j)
                /\ \A t \in Threads : Single(t) => local[t].i # j)'
    <3>1. PICK j \in Indices : j = header[h].UsbRequestIndices[k]
      BY <2>1, <2>2, <2>6 DEF PlacesOK
    <3>2. j # x /\ j \in outstanding /\ ~Alone(j) /\ \A t \in Threads : Single(t) => local[t].i # j
      BY <2>1, <2>2, <2>6, <3>1 DEF PlacesOK
    <3>3. j \in outstanding' /\ ~Alone(j)' /\ \A t \in Threads : Single(t)' => local'[t].i # j
      BY <1>3, <1>16, <2>3, <2>4, <3>2
    <3>4. header'[h].UsbRequestIndices[k] = j
      BY <2>2, <3>1
    <3>. QED
      BY <3>3, <3>4 DEF Alone
  <2>7. ASSUME NEW t \in Threads, Single(t)'
        PROVE  (/\ local[t].i \in outstanding /\ ~Alone(local[t].i)
                /\ \A u \in Threads : Single(u) /\ local[t].i = local[u].i => t = u)'
    <3>1. PICK j \in Indices : j = local'[t].i
      BY <1>3, <2>1, <2>3, <2>4, <2>7 DEF PlacesOK
    <3>2. j \in outstanding' /\ ~Alone(j)'
      BY <1>3, <1>16, <2>1, <2>3, <2>4, <2>5, <2>7, <3>1 DEF PlacesOK
    <3>3. \A u \in Threads : Single(u)' /\ j = local'[u].i => t = u
      BY <2>1, <2>3, <2>4, <2>7, <3>1 DEF PlacesOK
    <3>. QED
      BY <3>1, <3>2, <3>3 DEF Alone
  <2>8. \A g, h \in Headers, k, l \in Positions :
          Has(g, k)' /\ Has(h, l)' /\ header'[g].UsbRequestIndices[k] = header'[h].UsbRequestIndices[l] =>
            g = h /\ k = l
    BY <2>1, <2>2 DEF PlacesOK
  <2>9. \A i \in Indices : Alone(i)' => i \in outstanding'
    BY <1>3, <1>16, <2>5
  <2>10. PlacesOK'
    BY <2>6, <2>7, <2>8, <2>9 DEF PlacesOK
  <2>11. AllPlaced(apart)'
    <3> SUFFICES ASSUME NEW j \in outstanding' \ apart
                 PROVE  \/ Alone(j)'
                        \/ \E t \in Threads : Single(t)' /\ local'[t].i = j
                        \/ \E h \in Headers, k \in Positions :
                              Has(h, k)' /\ header'[h].UsbRequestIndices[k] = j
      BY DEF AllPlaced
    <3>1. CASE j = x
      BY <1>1, <2>3, <2>4, <3>1
    <3>2. CASE j # x
      <4>1. j \in outstanding \ apart /\ j \in Indices
        BY <1>3, <2>1, <3>2
      <4>. QED
        BY <1>16, <2>1, <2>2, <2>3, <4>1 DEF AllPlaced
    <3>. QED
      BY <3>1, <3>2
  <2>. QED
    BY <2>10, <2>11
<1>19. SentFlies'
  BY <1>6 DEF WriteIInv, SentFlies
<1>20. ASSUME ~late', NEW g \in Headers PROVE StatusOK(g)'
  BY <1>6, <1>13, <1>20 DEF WriteIInv
<1>21. ASSUME ~late', NEW u \in Callers PROVE ReportOK(u)'
  BY <1>6, <1>21 DEF WriteIInv, ReportOK
<1>22. \A g \in Headers : UseOK(g)' /\ PendingOK(g)' /\ BatchOK(g)' /\ FlightOK(g)'
  BY <1>13
<1>. QED
  BY <1>9, <1>11, <1>14, <1>15, <1>17, <1>18, <1>19, <1>20, <1>21, <1>22 DEF WriteIInv

\* A caller pops the indices of a batch.
LEMMA PopBatchKeeps ==
  ASSUME NEW apart, NEW guests, IInv, WriteIInv(apart, guests), NEW c \in Callers, Pop(c), IsBatch(c)
  PROVE  WriteIInv(apart, guests)'
<1>1. VarTypes /\ ThreadOK(c) /\ StageMatches(c, guests) /\ c \in Threads /\ pc[c] = "alloc"
  BY Constants DEF WriteIInv, Pop
<1>2. PICK h \in Headers : h = local[c].h
  BY <1>1, FieldTypes DEF IsBatch
<1>3. PICK n : n = req[c].n
  OBVIOUS
<1>4. want[c] = n /\ n # 1 /\ local[c].k = 1
  BY <1>1, <1>2, <1>3, Constants DEF ThreadOK, StageMatches
<1>5. PICK p : p = Popped(n)
  OBVIOUS
<1>6. /\ n \in Nat /\ 1 <= n /\ n <= MaxAlloc
      /\ \A k \in 1..n : p[k] \in Indices /\ p[k] \notin outstanding
      /\ \A k, l \in 1..n : p[k] = p[l] => k = l
      /\ outstanding' = outstanding \cup {p[k] : k \in 1..n}
  <2>1. AllocPop(c) /\ n = want[c]
    BY <1>4 DEF Pop
  <2>2. /\ n \in Nat /\ 1 <= n /\ n <= MaxAlloc
        /\ \A k \in 1..n : Popped(n)[k] \in Indices /\ Popped(n)[k] \notin outstanding
        /\ \A k, l \in 1..n : Popped(n)[k] = Popped(n)[l] => k = l
        /\ outstanding' = outstanding \cup {Popped(n)[k] : k \in 1..n}
    BY <2>1, PopParts
  <2>. QED
    BY <1>5, <2>2, Zenon
<1>7. \A k \in Positions : k \in Nat /\ 1 <= k
  BY Constants DEF Positions
<1>8. \A k \in 1..n : k \in Positions
  BY <1>6, Constants DEF Positions
<1>9. PICK ix : ix = [k \in Positions |-> IF k <= n THEN p[k] ELSE header[h].UsbRequestIndices[k]]
  OBVIOUS
<1>10. /\ header' = [header EXCEPT ![h].UsbRequestIndices = ix]
       /\ Goto(c, "fill")
       /\ stage' = [stage EXCEPT ![c] = "out"] /\ want' = [want EXCEPT ![c] = 0]
       /\ UNCHANGED <<local, req, allocated, batchList, usb, outcome, late>>
  <2>1. header' = [header EXCEPT ![local[c].h].UsbRequestIndices =
                     [k \in Positions |-> IF k <= want[c] THEN Popped(want[c])[k] ELSE @[k]]]
    BY DEF Pop
  <2>2. header' = [header EXCEPT ![h].UsbRequestIndices = ix]
    BY <1>1, <1>2, <1>4, <1>5, <1>9, <2>1, TypeParts
  <2>. QED
    BY <2>2 DEF Pop, AllocPop
<1>11. ix \in [Positions -> Indices] /\ \A k \in 1..n : ix[k] = p[k]
  <2>1. header[h].UsbRequestIndices \in [Positions -> Indices]
    BY <1>1, FieldTypes
  <2>2. \A k \in Positions : k <= n => k \in 1..n
    BY <1>6, <1>7
  <2>3. \A k \in 1..n : k \in Positions /\ k <= n
    BY <1>6, <1>8
  <2>4. ASSUME NEW k \in Positions PROVE ix[k] \in Indices
    BY <1>6, <1>9, <2>1, <2>2
  <2>5. \A k \in 1..n : ix[k] = p[k]
    BY <1>9, <2>3
  <2>. QED
    BY <1>9, <2>4, <2>5
<1>12. pc' \in [Threads -> PCs] /\ pc'[c] = "fill" /\ \A u \in Threads \ {c} : pc'[u] = pc[u]
  <2>1. "fill" \in PCs
    BY DEF PCs
  <2>. QED
    BY <1>1, <1>10, <2>1, GotoParts
<1>13. /\ stage'[c] = "out"
       /\ \A u \in Threads \ {c} : stage'[u] = stage[u] /\ want'[u] = want[u]
  <2>1. DOMAIN stage = Threads /\ DOMAIN want = Threads
    BY DEF IInv, TypeOK
  <2>. QED
    BY <1>1, <1>10, <2>1
<1>14. /\ header' \in [Headers -> Hdrs]
       /\ \A g \in Headers \ {h} : header'[g] = header[g]
       /\ header'[h].UsbRequestIndices = ix
       /\ header'[h].Count = header[h].Count
  <2>1. header \in [Headers -> Hdrs]
    BY <1>1, TypeParts
  <2>. QED
    BY <1>10, <1>11, <2>1 DEF Hdrs
<1>15. VarTypes'
  BY <1>1, <1>10, <1>12, <1>14 DEF VarTypes
<1>16. OthersStay(c)
  BY <1>10, <1>12 DEF OthersStay
<1>17. \A u \in Threads : ThreadOK(u)' /\ StageMatches(u, guests)'
  <2>1. ThreadOK(c)' /\ StageMatches(c, guests)'
    <3>1. h # NoHeader /\ ThreadOK(c)
      BY <1>1, Constants
    <3>. QED
      BY <1>1, <1>2, <1>3, <1>4, <1>6, <1>10, <1>12, <1>13, <3>1 DEF ThreadOK, StageMatches, Loop
  <2>. QED
    BY <1>1, <1>10, <1>13, <1>16, <2>1, ThreadsKept
<1>18. Begins(c, h)
  BY <1>1, <1>2 DEF Begins
<1>19. /\ Taken(h)
       /\ \A u \in Threads : (Works(u, h) => u = c) /\ ~Counts(u, h) /\ ~Sends(u, h)
       /\ \A i \in Indices : ~Flies(i, h)
  BY <1>1, <1>18, WhenItBeginsOrEnds
<1>20. \A g \in Headers : Filled(g) => header[g].Request \in Callers \ {c}
  BY <1>1 DEF WriteIInv, BatchOK
<1>21. ASSUME NEW g \in Headers, g # h
       PROVE  /\ UseOK(g)' /\ PendingOK(g)' /\ BatchOK(g)' /\ FlightOK(g)'
              /\ StatusOK(g) => StatusOK(g)'
              /\ Live(g)' <=> Live(g)
              /\ \A k \in Positions : Has(g, k)' <=> Has(g, k)
  <2>1. NotOf(c, g) /\ NotOf(c, g)'
    BY <1>2, <1>10, <1>21 DEF NotOf, Works, Begins, Sends, Ends, Counts
  <2>2. /\ Taken(g)' <=> Taken(g)
        /\ \A i \in Indices : Flies(i, g)' <=> Flies(i, g)
        /\ header'[g] = header[g] /\ usb' = usb /\ outcome' = outcome /\ req' = req
    BY <1>10, <1>14, <1>21 DEF Taken, Flies
  <2>. QED
    BY <1>1, <1>16, <1>20, <2>1, <2>2, OtherHeader DEF Live
<1>22. /\ \A u \in Threads : /\ Works(u, h)' <=> u = c
                             /\ Begins(u, h)' <=> u = c
                             /\ ~Sends(u, h)' /\ ~Counts(u, h)' /\ ~Ends(u, h)'
       /\ \A i \in Indices : ~Flies(i, h)'
       /\ Taken(h)'
  <2>1. \A u \in Threads \ {c} :
           /\ Begins(u, h)' <=> Begins(u, h)
           /\ Sends(u, h)' <=> Sends(u, h)
           /\ Counts(u, h)' <=> Counts(u, h)
           /\ Ends(u, h)' <=> Ends(u, h)
           /\ Works(u, h)' <=> Works(u, h)
    BY <1>1, <1>10, <1>16, OthersRoles
  <2>2. Begins(c, h)' /\ ~Sends(c, h)' /\ ~Counts(c, h)' /\ ~Ends(c, h)'
    BY <1>2, <1>10, <1>12 DEF Begins, Sends, Counts, Ends, Loop
  <2>3. (\A i \in Indices : ~Flies(i, h)') /\ Taken(h)'
    BY <1>10, <1>19 DEF Flies, Taken
  <2>. QED
    BY <1>19, <2>1, <2>2, <2>3 DEF Works
<1>23. ~Filled(h)' /\ ~Live(h)' /\ ~Armed(h)'
  BY <1>1, <1>22 DEF Filled, Live, Armed
<1>24. UseOK(h)' /\ PendingOK(h)' /\ BatchOK(h)' /\ FlightOK(h)'
  <2>1. Flying(h)' = {} /\ Counting(h)' = {}
    BY <1>22 DEF Flying, Counting
  <2>2. UseOK(h)'
    BY <1>1, <1>22, <2>1 DEF UseOK
  <2>3. PendingOK(h)'
    BY <1>1, <1>22 DEF PendingOK
  <2>4. BatchOK(h)'
    BY <1>22, <1>23 DEF BatchOK
  <2>5. FlightOK(h)'
    BY <1>22 DEF FlightOK
  <2>. QED
    BY <2>2, <2>3, <2>4, <2>5
<1>25. \A k \in Positions : ~Has(h, k) /\ (Has(h, k)' <=> k \in 1..n)
  <2>1. ~Armed(h) /\ ~Armed(h)'
    BY <1>1, <1>18, <1>23 DEF Armed, Filled
  <2>2. \A u \in Threads : ~(local[u].h = h /\ pc[u] = "fill")
    BY <1>1, <1>19 DEF Works, Begins
  <2>3. \A u \in Threads : (local'[u].h = h /\ pc'[u] = "fill") <=> u = c
    BY <1>2, <1>10, <1>12, <1>22 DEF Begins
  <2>. QED
    BY <1>1, <1>3, <1>10, <2>1, <2>2, <2>3 DEF Has
<1>26. ListOK'
  BY <1>10 DEF WriteIInv, ListOK
<1>27. RequestsOK'
  <2>1. \A g \in Headers : Live(g)' => Live(g) /\ header'[g].Request = header[g].Request
    BY <1>14, <1>21, <1>23
  <2>. QED
    BY <2>1, RequestsKept DEF WriteIInv
<1>28. \A i \in Indices : Alone(i)' <=> Alone(i)
  BY <1>10 DEF Alone
<1>29. AloneOK(guests)'
  <2>1. \A i \in Indices : Alone(i) /\ usb[i].ctx.r \notin guests =>
           usb[i].ctx.r \in Callers \ {c} /\ pc[usb[i].ctx.r] = "returned"
    BY <1>1 DEF WriteIInv, AloneOK
  <2>2. \A i \in Indices : Alone(i) /\ usb[i].ctx.r \notin guests =>
           /\ pc'[usb[i].ctx.r] = "returned"
           /\ req'[usb[i].ctx.r] = req[usb[i].ctx.r]
    BY <1>10, <1>12, <2>1, Constants
  <2>. QED
    BY <1>10, <1>28, <2>2, AloneKept DEF WriteIInv
<1>30. PlacesOK' /\ AllPlaced(apart)'
  <2>1. PlacesOK /\ AllPlaced(apart) /\ outstanding \subseteq Indices
    BY DEF WriteIInv, IInv, TypeOK
  <2>2. \A g \in Headers \ {h}, k \in Positions :
          /\ Has(g, k)' <=> Has(g, k)
          /\ header'[g].UsbRequestIndices[k] = header[g].UsbRequestIndices[k]
          /\ Has(g, k) => header[g].UsbRequestIndices[k] \in outstanding
    BY <1>14, <1>21, <2>1 DEF PlacesOK
  <2>3. \A k \in Positions : Has(h, k)' => k \in 1..n /\ header'[h].UsbRequestIndices[k] = p[k]
                                           /\ p[k] \notin outstanding
    BY <1>6, <1>11, <1>14, <1>25
  <2>4. \A u \in Threads : /\ Single(u)' <=> Single(u)
                           /\ local'[u].i = local[u].i
                           /\ Single(u) => local[u].i \in outstanding
    BY <1>1, <1>10, <1>12, <2>1 DEF PlacesOK, Single
  <2>5. \A i \in Indices : Alone(i) => i \in outstanding
    BY <2>1 DEF PlacesOK
  <2>6. ASSUME NEW g \in Headers, NEW k \in Positions, Has(g, k)'
        PROVE  (LET j == header[g].UsbRequestIndices[k] IN
                /\ j \in outstanding /\ ~Alone(j)
                /\ \A t \in Threads : Single(t) => local[t].i # j)'
    <3>1. PICK j \in Indices : j = header'[g].UsbRequestIndices[k]
      BY <1>6, <2>1, <2>2, <2>3, <2>6
    <3>2. j \in outstanding' /\ ~Alone(j)' /\ \A t \in Threads : Single(t)' => local'[t].i # j
      <4>1. CASE g = h
        BY <1>6, <1>28, <2>3, <2>4, <2>5, <2>6, <3>1, <4>1
      <4>2. CASE g # h
        <5>1. j \in outstanding /\ ~Alone(j) /\ \A t \in Threads : Single(t) => local[t].i # j
          BY <2>1, <2>2, <2>6, <3>1, <4>2 DEF PlacesOK
        <5>. QED
          BY <1>6, <1>28, <2>4, <5>1
      <4>. QED
        BY <4>1, <4>2
    <3>. QED
      BY <3>1, <3>2 DEF Alone
  <2>7. ASSUME NEW t \in Threads, Single(t)'
        PROVE  (/\ local[t].i \in outstanding /\ ~Alone(local[t].i)
                /\ \A u \in Threads : Single(u) /\ local[t].i = local[u].i => t = u)'
    <3>1. PICK j \in Indices : j = local'[t].i
      BY <2>1, <2>4, <2>7
    <3>2. j \in outstanding' /\ ~Alone(j)'
      BY <1>6, <1>28, <2>1, <2>4, <2>7, <3>1 DEF PlacesOK
    <3>3. \A u \in Threads : Single(u)' /\ j = local'[u].i => t = u
      BY <2>1, <2>4, <2>7, <3>1 DEF PlacesOK
    <3>. QED
      BY <3>1, <3>2, <3>3 DEF Alone
  <2>8. ASSUME NEW g \in Headers, NEW f \in Headers, NEW k \in Positions, NEW l \in Positions,
               Has(g, k)', Has(f, l)', header'[g].UsbRequestIndices[k] = header'[f].UsbRequestIndices[l]
        PROVE  g = f /\ k = l
    <3>1. CASE g = h /\ f = h
      BY <1>6, <2>3, <2>8, <3>1
    <3>2. CASE g = h /\ f # h
      BY <2>2, <2>3, <2>8, <3>2
    <3>3. CASE g # h /\ f = h
      BY <2>2, <2>3, <2>8, <3>3
    <3>4. CASE g # h /\ f # h
      BY <2>1, <2>2, <2>8, <3>4 DEF PlacesOK
    <3>. QED
      BY <3>1, <3>2, <3>3, <3>4
  <2>9. \A i \in Indices : Alone(i)' => i \in outstanding'
    BY <1>6, <1>28, <2>5
  <2>10. PlacesOK'
    BY <2>6, <2>7, <2>8, <2>9 DEF PlacesOK
  <2>11. AllPlaced(apart)'
    <3> SUFFICES ASSUME NEW j \in outstanding' \ apart
                 PROVE  \/ Alone(j)'
                        \/ \E t \in Threads : Single(t)' /\ local'[t].i = j
                        \/ \E g \in Headers, k \in Positions :
                              Has(g, k)' /\ header'[g].UsbRequestIndices[k] = j
      BY DEF AllPlaced
    <3>1. CASE \E k \in 1..n : j = p[k]
      <4>1. PICK k \in 1..n : j = p[k]
        BY <3>1
      <4>2. k \in Positions /\ Has(h, k)' /\ header'[h].UsbRequestIndices[k] = j
        BY <1>8, <1>11, <1>14, <1>25, <4>1
      <4>. QED
        BY <4>2
    <3>2. CASE j \in outstanding
      <4>1. CASE \E g \in Headers, k \in Positions : Has(g, k) /\ header[g].UsbRequestIndices[k] = j
        <5>1. PICK g \in Headers, k \in Positions : Has(g, k) /\ header[g].UsbRequestIndices[k] = j
          BY <4>1
        <5>2. g # h
          BY <1>25, <5>1
        <5>. QED
          BY <2>2, <5>1, <5>2
      <4>2. CASE Alone(j) \/ \E t \in Threads : Single(t) /\ local[t].i = j
        BY <1>28, <2>1, <2>4, <3>2, <4>2
      <4>. QED
        BY <2>1, <3>2, <4>1, <4>2 DEF AllPlaced
    <3>. QED
      BY <1>6, <3>1, <3>2
  <2>. QED
    BY <2>10, <2>11
<1>31. SentFlies'
  BY <1>10 DEF WriteIInv, SentFlies
<1>32. ASSUME ~late', NEW g \in Headers PROVE StatusOK(g)'
  <2>1. StatusOK(g)
    BY <1>10, <1>32 DEF WriteIInv
  <2>2. CASE g = h
    BY <1>23, <2>2 DEF StatusOK
  <2>. QED
    BY <1>21, <2>1, <2>2
<1>33. ASSUME ~late', NEW u \in Callers PROVE ReportOK(u)'
  BY <1>10, <1>33 DEF WriteIInv, ReportOK
<1>34. \A g \in Headers : UseOK(g)' /\ PendingOK(g)' /\ BatchOK(g)' /\ FlightOK(g)'
  BY <1>21, <1>24
<1>. QED
  BY <1>15, <1>17, <1>26, <1>27, <1>29, <1>30, <1>31, <1>32, <1>33, <1>34 DEF WriteIInv

-----------------------------------------------------------------------------
(* The whole. *)

\* At the start everything holds.
LEMMA WriteInitOK ==
  ASSUME NEW guests \in SUBSET Callers, WriteInit
  PROVE  IInv /\ WriteIInv({}, guests)
<1> USE DEF WriteInit
<1>1. IInv
  BY InitIInv
<1>2. outstanding = {} /\ stage = [t \in Threads |-> "out"] /\ want = [t \in Threads |-> 0]
  BY DEF Init
<1>3. VarTypes
  <2>1. 0 \in Indices /\ 0 \in 0..MaxAlloc /\ 0 \in 0..1 /\ 0 \in 0..(MaxAlloc + 1)
    BY Constants
  <2>2. pc \in [Threads -> PCs] /\ late \in BOOLEAN
    BY DEF PCs
  <2>3. local \in [Threads -> Locals]
    BY <2>1 DEF Locals, NoWork
  <2>4. req \in [Callers -> Reqs]
    BY <2>1 DEF Reqs
  <2>5. header \in [Headers -> Hdrs]
    BY <2>1 DEF Hdrs
  <2>6. allocated \subseteq Headers /\ batchList \in Seq(allocated)
    OBVIOUS
  <2>7. usb \in [Indices -> Usbs]
    BY <2>1 DEF Usbs, Ctxs, NoContext
  <2>8. outcome \in [Callers -> [Positions -> Outcomes]]
    BY DEF Outcomes
  <2>. QED
    BY <2>2, <2>3, <2>4, <2>5, <2>6, <2>7, <2>8 DEF VarTypes
<1>4. \A t \in Threads : pc[t] = "idle" /\ local[t] = NoWork
  OBVIOUS
<1>5. ASSUME NEW t \in Threads PROVE ThreadOK(t) /\ StageMatches(t, guests)
  <2>1. /\ t \in Callers => /\ req[t].completions = 0 /\ req[t].n = 0
                            /\ \A k \in Positions : outcome[t][k] = "none"
        /\ stage[t] = "out"
    BY <1>2
  <2>. QED
    BY <1>4, <2>1 DEF ThreadOK, StageMatches, Loop
<1>6. ListOK
  BY DEF ListOK
<1>7. ASSUME NEW h \in Headers
      PROVE  /\ ~Taken(h) /\ ~Filled(h) /\ ~Live(h) /\ ~Armed(h)
             /\ \A t \in Threads : ~Begins(t, h) /\ ~Sends(t, h) /\ ~Counts(t, h) /\ ~Ends(t, h)
             /\ \A i \in Indices : ~Flies(i, h)
             /\ \A k \in Positions : ~Has(h, k)
  BY <1>4 DEF Taken, Filled, Live, Armed, Begins, Sends, Counts, Ends, Flies, Has, Loop
<1>8. \A h \in Headers : UseOK(h) /\ PendingOK(h) /\ BatchOK(h) /\ FlightOK(h)
  BY <1>7 DEF UseOK, PendingOK, BatchOK, FlightOK, Works
<1>9. RequestsOK /\ AloneOK(guests) /\ \A i \in Indices : ~Alone(i)
  BY <1>7 DEF RequestsOK, AloneOK, Alone
<1>10. PlacesOK /\ AllPlaced({})
  <2>1. \A t \in Threads : ~Single(t)
    BY <1>4 DEF Single
  <2>2. PlacesOK
    BY <1>7, <1>9, <2>1 DEF PlacesOK
  <2>. QED
    BY <1>2, <2>2 DEF AllPlaced
<1>11. SentFlies
  BY DEF SentFlies
<1>12. \A h \in Headers : StatusOK(h)
  BY <1>7 DEF StatusOK
<1>13. \A c \in Callers : ReportOK(c)
  BY DEF ReportOK
<1>. QED
  BY <1>1, <1>3, <1>5, <1>6, <1>8, <1>9, <1>10, <1>11, <1>12, <1>13 DEF WriteIInv

\* Only a caller takes indices from the pool, and prepares and sends a batch.
LEMMA CallersOnly ==
  ASSUME NEW apart, NEW guests, WriteIInv(apart, guests), NEW t \in Threads,
         \/ Wait(t) \/ Pop(t) \/ Fill(t) \/ (\E success \in BOOLEAN : Send(t, success) /\ IsBatch(t))
         \/ Store(t) \/ Check(t) \/ Settle(t) \/ \E success \in BOOLEAN : Send(t, success)
  PROVE  t \in Callers
<1>1. pc[t] \in {"alloc", "fill"} \cup Loop
  BY DEF Wait, Pop, Fill, Send, Store, Check, Settle, Loop
<1>. QED
  BY <1>1 DEF WriteIInv, ThreadOK

\* A dispatch keeps the invariant.
LEMMA ArriveKeeps ==
  ASSUME NEW apart, NEW guests, TypeOK, WriteIInv(apart, guests), NEW c \in Callers \ guests, Arrive(c)
  PROVE  WriteIInv(apart, guests)'
<1>1. CASE \E success \in BOOLEAN : CompleteAtOnce(c, success)
  <2>1. PICK success \in BOOLEAN : CompleteAtOnce(c, success)
    BY <1>1
  <2>. QED
    BY <2>1, RefuseKeeps DEF CompleteAtOnce
<1>2. CASE NoMemory(c)
  <2>1. FALSE \in BOOLEAN
    OBVIOUS
  <2>. QED
    BY <1>2, <2>1, RefuseKeeps DEF NoMemory
<1>3. CASE StartStandalone(c)
  BY <1>3, StartStandaloneKeeps
<1>4. CASE \E n \in 2..MaxAlloc, h \in Headers : StartBatch(c, n, h)
  BY <1>4, StartBatchKeeps
<1>. QED
  BY <1>1, <1>2, <1>3, <1>4 DEF Arrive, EvtIoWrite, EvtIoDeviceControl

\* A thread's step keeps it.
LEMMA RunKeeps ==
  ASSUME NEW apart, NEW guests, IInv, WriteIInv(apart, guests), ~Reread, NEW t \in Threads, Run(t)
  PROVE  WriteIInv(apart, guests)'
<1>0. TypeOK
  BY DEF IInv
<1>1. CASE Wait(t)
  BY <1>1, CallersOnly, PoolOnlyKeeps
<1>2. CASE Pop(t)
  BY <1>0, <1>2, CallersOnly, PopAloneKeeps, PopBatchKeeps
<1>3. CASE Fill(t)
  BY <1>0, <1>3, CallersOnly, FillKeeps
<1>4. CASE \E success \in BOOLEAN : Send(t, success)
  BY <1>0, <1>4, CallersOnly, SendAloneKeeps, SendInBatchKeeps
<1>5. CASE Store(t)
  BY <1>0, <1>5, CallersOnly, StoreKeeps
<1>6. CASE Check(t)
  BY <1>0, <1>6, CallersOnly, CheckKeeps
<1>7. CASE Settle(t)
  BY <1>0, <1>7, CallersOnly, SettleKeeps
<1>8. CASE CountDown(t)
  BY <1>0, <1>8, CountDownKeeps
<1>9. CASE Finalize(t)
  BY <1>0, <1>9, FinalizeKeeps
<1>10. CASE Push(t)
  BY <1>0, <1>10, PushKeeps
<1>11. CASE Release(t)
  BY <1>0, <1>11, ReleaseKeeps
<1>12. CASE Recycle(t)
  BY <1>0, <1>12, RecycleKeeps
<1>. QED
  BY <1>1, <1>2, <1>3, <1>4, <1>5, <1>6, <1>7, <1>8, <1>9, <1>10, <1>11, <1>12 DEF Run

\* Every step keeps it.
LEMMA WriteNextKeeps ==
  ASSUME IInv, WriteIInv({}, {}), ~Reread, [WriteNext]_allVars
  PROVE  WriteIInv({}, {})'
<1>0. TypeOK
  BY DEF IInv
<1>1. CASE PowerUp
  BY <1>1, PoolOnlyKeeps
<1>2. CASE \E c \in Callers : Arrive(c)
  BY <1>0, <1>2, ArriveKeeps
<1>3. CASE \E t \in Threads : Run(t)
  BY <1>3, RunKeeps
<1>4. CASE \E i \in Indices : Bus(i)
  BY <1>0, <1>4, UrbCompletedKeeps, UrbCompletedInBatchKeeps DEF Bus
<1>5. CASE UNCHANGED allVars
  <2>1. UNCHANGED writeVars /\ UNCHANGED <<outstanding, stage, want>>
    BY <1>5 DEF allVars, poolVars
  <2>. QED
    BY <2>1, NothingChanges
<1>. QED
  BY <1>1, <1>2, <1>3, <1>4, <1>5 DEF WriteNext

\* A dispatch is a step the pool allows, or none of its business: a caller asks for
\* indices within the pool's limits.
LEMMA ArriveStepsThePool ==
  ASSUME NEW c \in Callers, Arrive(c)
  PROVE  [Next]_poolVars
<1>1. CASE StartStandalone(c)
  <2>1. 1 \in 1..MaxAlloc /\ AllocBegin(c, 1)
    BY <1>1, Constants DEF StartStandalone
  <2>. QED
    BY <2>1 DEF Next
<1>2. CASE \E n \in 2..MaxAlloc, h \in Headers : StartBatch(c, n, h)
  <2>1. PICK n \in 2..MaxAlloc : AllocBegin(c, n) \/ UNCHANGED poolVars
    BY <1>2 DEF StartBatch, AllocRefused
  <2>2. n \in 1..MaxAlloc
    BY Constants
  <2>. QED
    BY <2>1, <2>2 DEF Next
<1>3. CASE NoMemory(c) \/ \E success \in BOOLEAN : CompleteAtOnce(c, success)
  BY <1>3 DEF NoMemory, CompleteAtOnce
<1>. QED
  BY <1>1, <1>2, <1>3 DEF Arrive, EvtIoWrite, EvtIoDeviceControl

\* And so is a thread's step: nobody gives back what is not out, or twice.
LEMMA RunStepsThePool ==
  ASSUME NEW apart, NEW guests, IInv, WriteIInv(apart, guests), NEW t \in Threads, Run(t)
  PROVE  [Next]_poolVars
<1>1. CASE Wait(t)
  <2>1. t \in Callers /\ AllocWait(t)
    BY <1>1, CallersOnly DEF Wait
  <2>. QED
    BY <2>1 DEF Next
<1>2. CASE Pop(t)
  <2>1. t \in Callers /\ AllocPop(t)
    BY <1>2, CallersOnly DEF Pop
  <2>. QED
    BY <2>1 DEF Next
<1>3. CASE Push(t)
  <2>1. /\ FreePush(t, Len(Held(t)), Held(t))
        /\ Held(t) \in Returnable(Len(Held(t))) /\ Len(Held(t)) \in 1..MaxAlloc
    BY <1>3, HeldParts DEF Push, IInv
  <2>. QED
    BY <2>1 DEF Next
<1>4. CASE Release(t)
  BY <1>4 DEF Release, Next
<1>5. CASE \/ Fill(t) \/ (\E success \in BOOLEAN : Send(t, success)) \/ Store(t) \/ Check(t)
           \/ Settle(t) \/ CountDown(t) \/ Finalize(t) \/ Recycle(t)
  BY <1>5 DEF Fill, Send, Store, Check, Settle, CountDown, Finalize, Recycle
<1>. QED
  BY <1>1, <1>2, <1>3, <1>4, <1>5 DEF Run

\* And so is every step.
LEMMA WriteStepsThePool ==
  ASSUME NEW apart, NEW guests, IInv, WriteIInv(apart, guests), [WriteNext]_allVars
  PROVE  [Next]_poolVars
<1>1. CASE PowerUp
  <2>1. PoolInit /\ Quiescent
    BY <1>1 DEF PowerUp, PoolInit, IInv, OffIsQuiescent
  <2>. QED
    BY <2>1 DEF Next
<1>2. CASE \E c \in Callers : Arrive(c)
  BY <1>2, ArriveStepsThePool
<1>3. CASE \E t \in Threads : Run(t)
  BY <1>3, RunStepsThePool
<1>4. CASE \E i \in Indices : Bus(i)
  BY <1>4 DEF Bus, UrbCompleted, UrbCompletedInBatch
<1>5. CASE UNCHANGED allVars
  BY <1>5 DEF allVars
<1>. QED
  BY <1>1, <1>2, <1>3, <1>4, <1>5 DEF WriteNext

\* The pool's invariant and the writes' hold always, if a send's status is kept in a
\* register until it is checked.
THEOREM WriteInvariant ==
  ASSUME ~Reread
  PROVE  WriteSpec => [](IInv /\ WriteIInv({}, {}))
<1>0. WriteInit => IInv /\ WriteIInv({}, {})
  BY WriteInitOK
<1>1. ASSUME IInv, WriteIInv({}, {}), [WriteNext]_allVars PROVE IInv' /\ WriteIInv({}, {})'
  BY <1>1, WriteNextKeeps, WriteStepsThePool, NextKeepsIInv
<1>2. IInv /\ WriteIInv({}, {}) /\ [WriteNext]_allVars => IInv' /\ WriteIInv({}, {})'
  BY <1>1
<1>. QED
  BY <1>0, <1>2, PTL DEF WriteSpec

\* Then writes use the pool as it demands, in every order in which callers and
\* completion routines may run: what is proved of the pool alone holds of the driver.
THEOREM WritePathImplementsPool ==
  ASSUME ~Reread
  PROVE  WriteSpec => PoolSpec
<1>1. WriteInit => Init
  BY DEF WriteInit
<1>2. IInv /\ WriteIInv({}, {}) /\ [WriteNext]_allVars => [Next]_poolVars
  BY WriteStepsThePool
<1>. QED
  BY <1>1, <1>2, WriteInvariant, PTL DEF WriteSpec, PoolSpec

-----------------------------------------------------------------------------
(* The safety properties. *)

\* Every variable has its type: counts stay within the batch, positions within the
\* arrays, and no request is completed twice (completions is 0 or 1).
THEOREM WriteTypeCorrect ==
  ASSUME ~Reread
  PROVE  WriteSpec => []WriteTypeOK
<1>1. IInv /\ WriteIInv({}, {}) => WriteTypeOK
  <2>1. ASSUME IInv, WriteIInv({}, {}) PROVE WriteTypeOK
    <3>1. TypeOK /\ VarTypes
      BY <2>1 DEF IInv, WriteIInv
    <3>. QED
      BY <3>1 DEF WriteTypeOK, VarTypes, PCs, Locals, Reqs, Hdrs, Ctxs, Usbs, Outcomes
  <2>. QED
    BY <2>1
<1>. QED
  BY <1>1, WriteInvariant, PTL

\* Nobody gives back a USB request that the stack still has: what has a place in a
\* batch that ends is not in flight, and neither is what its thread holds alone.
LEMMA NothingHeldFlies ==
  ASSUME NEW apart, NEW guests, TypeOK, WriteIInv(apart, guests)
  PROVE  NoReuseInFlight
<1>1. ASSUME NEW t \in Threads, pc[t] = "push",
             NEW k \in 1..Len(Held(t))
      PROVE  ~usb[Held(t)[k]].inFlight
  <2>1. PlacesOK /\ VarTypes
    BY <1>1 DEF WriteIInv
  <2>2. CASE IsBatch(t)
    <3>1. PICK h : h = local[t].h
      OBVIOUS
    <3>2. /\ h \in Headers /\ Ends(t, h) /\ Len(Held(t)) = header[h].Count
          /\ \A j \in 1..header[h].Count : /\ Held(t)[j] = header[h].UsbRequestIndices[j]
                                           /\ j \in Positions /\ Has(h, j)
      BY <1>1, <2>2, <3>1, HeldParts
    <3>3. PICK i : i = header[h].UsbRequestIndices[k]
      OBVIOUS
    <3>4. Held(t)[k] = i /\ k \in Positions /\ Has(h, k) /\ i \in outstanding
      BY <1>1, <2>1, <3>2, <3>3 DEF PlacesOK
    <3>5. i \in Indices /\ ~Alone(i)
      BY <1>1, <2>1, <3>2, <3>3, <3>4 DEF PlacesOK, TypeOK
    <3>6. ASSUME usb[i].inFlight PROVE FALSE
      <4>1. PICK g : g = usb[i].ctx.h
        OBVIOUS
      <4>2. g \in Headers /\ Flies(i, g)
        BY <2>1, <3>5, <3>6, <4>1, FieldTypes DEF Alone, Flies
      <4>3. PICK l : l = usb[i].ctx.k
        OBVIOUS
      <4>4. Has(g, l) /\ l \in Positions /\ header[g].UsbRequestIndices[l] = i
        BY <1>1, <3>5, <4>2, <4>3, WhenItFlies
      <4>5. g = h
        BY <2>1, <3>2, <3>3, <3>4, <4>2, <4>4 DEF PlacesOK
      <4>. QED
        BY <1>1, <3>2, <3>5, <4>2, <4>5, WhenItBeginsOrEnds
    <3>. QED
      BY <3>4, <3>6
  <2>3. CASE ~IsBatch(t)
    <3>1. PICK i : i = local[t].i
      OBVIOUS
    <3>2. Len(Held(t)) = 1 /\ Held(t)[1] = i /\ Single(t)
      BY <1>1, <2>3, <3>1, HeldParts
    <3>3. Held(t)[k] = i
      BY <1>1, <3>2
    <3>4. i \in Indices /\ ~Alone(i)
      BY <1>1, <2>1, <3>1, <3>2 DEF PlacesOK, TypeOK
    <3>5. ASSUME usb[i].inFlight PROVE FALSE
      <4>1. PICK g : g = usb[i].ctx.h
        OBVIOUS
      <4>2. g \in Headers /\ Flies(i, g)
        BY <2>1, <3>4, <3>5, <4>1, FieldTypes DEF Alone, Flies
      <4>3. PICK l : l = usb[i].ctx.k
        OBVIOUS
      <4>4. Has(g, l) /\ l \in Positions /\ header[g].UsbRequestIndices[l] = i
        BY <1>1, <3>4, <4>2, <4>3, WhenItFlies
      <4>. QED
        BY <1>1, <2>1, <3>1, <3>2, <4>2, <4>4 DEF PlacesOK
    <3>. QED
      BY <3>3, <3>5
  <2>. QED
    BY <2>2, <2>3
<1>. QED
  BY <1>1 DEF NoReuseInFlight

\* So it is when there are writes only.
THEOREM WriteNoReuseInFlight ==
  ASSUME ~Reread
  PROVE  WriteSpec => []NoReuseInFlight
<1>1. IInv => TypeOK
  BY DEF IInv
<1>2. IInv /\ WriteIInv({}, {}) => NoReuseInFlight
  BY <1>1, NothingHeldFlies
<1>. QED
  BY <1>2, WriteInvariant, PTL

\* A request is completed only when nothing of it is in flight any more.
LEMMA CompletedIsSettled ==
  ASSUME NEW apart, NEW guests, TypeOK, WriteIInv(apart, guests)
  PROVE  CompletedWhenSettled
<1>1. ASSUME NEW c \in Callers, req[c].completions > 0
      PROVE  /\ \A i \in Indices : usb[i].inFlight => usb[i].ctx.r # c
             /\ \A k \in 1..req[c].n : outcome[c][k] # "sent"
  <2>1. VarTypes /\ AloneOK(guests) /\ SentFlies
    BY <1>1 DEF WriteIInv
  <2>2. ASSUME NEW i \in Indices, usb[i].inFlight, usb[i].ctx.r = c
        PROVE  FALSE
    <3>1. PICK g : g = usb[i].ctx.h
      OBVIOUS
    <3>2. req[c].completions # 0
      BY <1>1
    <3>3. CASE g = NoHeader
      <4>1. c \notin guests
        BY <1>1, <3>2, Constants DEF WriteIInv, StageMatches, ThreadOK
      <4>. QED
        BY <2>1, <2>2, <3>1, <3>2, <3>3, <4>1 DEF AloneOK, Alone
    <3>4. CASE g # NoHeader
      <4>1. g \in Headers /\ Flies(i, g)
        BY <2>1, <2>2, <3>1, <3>4, FieldTypes DEF Flies
      <4>2. Live(g) /\ header[g].Request = c
        BY <1>1, <2>2, <4>1, WhenItFlies
      <4>3. BatchOK(g)
        BY <1>1, <4>1 DEF WriteIInv
      <4>. QED
        BY <3>2, <4>2, <4>3 DEF BatchOK
    <3>. QED
      BY <3>3, <3>4
  <2>3. ASSUME NEW k \in 1..req[c].n, outcome[c][k] = "sent"
        PROVE  FALSE
    <3>1. req[c].n \in Nat /\ req[c].n <= MaxAlloc
      BY <2>1, FieldTypes
    <3>2. k \in Positions
      BY <3>1, Constants DEF Positions
    <3>3. PICK i \in Indices : usb[i].inFlight /\ usb[i].ctx.r = c
      BY <2>1, <2>3, <3>2 DEF SentFlies
    <3>. QED
      BY <2>2, <3>3
  <2>. QED
    BY <2>2, <2>3
<1>. QED
  BY <1>1 DEF CompletedWhenSettled

\* So it is when there are writes only.
THEOREM WriteCompletedWhenSettled ==
  ASSUME ~Reread
  PROVE  WriteSpec => []CompletedWhenSettled
<1>1. IInv => TypeOK
  BY DEF IInv
<1>2. IInv /\ WriteIInv({}, {}) => CompletedWhenSettled
  BY <1>1, CompletedIsSettled
<1>. QED
  BY <1>2, WriteInvariant, PTL

\* If each send's status is stored before its transfer's, what is reported of a batch is
\* what became of its messages, whatever statuses a recycled header still holds.
LEMMA ReportsAreTrue ==
  ASSUME NEW apart, NEW guests, TypeOK, WriteIInv(apart, guests)
  PROVE  ReportIsTrueUnlessLate
<1>1. ASSUME ~late PROVE ReportIsTrue
  <2>1. \A c \in Callers : ReportOK(c)
    BY <1>1 DEF WriteIInv
  <2>. QED
    BY <2>1 DEF ReportIsTrue, ReportOK
<1>. QED
  BY <1>1 DEF ReportIsTrueUnlessLate

\* So it is when there are writes only.
THEOREM WriteReportIsTrueUnlessLate ==
  ASSUME ~Reread
  PROVE  WriteSpec => []ReportIsTrueUnlessLate
<1>1. IInv => TypeOK
  BY DEF IInv
<1>2. IInv /\ WriteIInv({}, {}) => ReportIsTrueUnlessLate
  BY <1>1, ReportsAreTrue
<1>. QED
  BY <1>2, WriteInvariant, PTL

\* The headers on the list.
Listed == {batchList[j] : j \in 1..Len(batchList)}

\* There are as many as the list is long, and no header in use is one of them.
LEMMA ListedParts ==
  ASSUME NEW apart, NEW guests, WriteIInv(apart, guests)
  PROVE  /\ Cardinality(Listed) = Len(batchList)
         /\ Listed \subseteq allocated /\ NoHeader \notin Listed
         /\ \A h \in Headers : Taken(h) => h \notin Listed
         /\ \A h \in allocated : h \notin Listed => Taken(h)
<1>1. VarTypes /\ ListOK
  BY DEF WriteIInv
<1>2. PICK n : n = Len(batchList)
  OBVIOUS
<1>3. n \in Nat /\ \A j \in 1..n : batchList[j] \in allocated
  BY <1>1, <1>2, TypeParts
<1>4. Listed \subseteq allocated /\ allocated \subseteq Headers
  BY <1>1, <1>2, <1>3, TypeParts DEF Listed
<1>5. Cardinality(Listed) = n
  <2> DEFINE f == [j \in 1..n |-> batchList[j]]
  <2>1. f \in [1..n -> Listed]
    BY <1>2 DEF Listed
  <2>2. \A i, j \in 1..n : f[i] = f[j] => i = j
    BY <1>1, <1>2 DEF ListOK
  <2>3. \A x \in Listed : \E j \in 1..n : f[j] = x
    BY <1>2 DEF Listed
  <2>4. f \in Bijection(1..n, Listed)
    BY <2>1, <2>2, <2>3 DEF Bijection, Injection, Surjection, IsInjective
  <2>5. ExistsBijection(1..n, Listed)
    BY <2>4 DEF ExistsBijection
  <2>. QED
    BY <1>3, <2>5, FS_CountingElements
<1>. QED
  BY <1>2, <1>4, <1>5, Constants DEF Listed, Taken

\* A recycled header is on the list once, and nothing refers to it: no transfer, no
\* completion routine and no thread; and one thread ends a batch.
LEMMA OneUserOfAHeader ==
  ASSUME NEW apart, NEW guests, TypeOK, WriteIInv(apart, guests)
  PROVE  HeadersExclusive
<1> DEFINE ends(t) == pc[t] \in {"finalize", "push", "release", "recycle"} /\ IsBatch(t)
<1>1. VarTypes /\ (\A t \in Threads : ThreadOK(t)) /\ \A h \in Headers : UseOK(h)
  BY DEF WriteIInv
<1>2. \A t \in Threads : ends(t) => local[t].h \in Headers /\ Ends(t, local[t].h)
  BY <1>1, FieldTypes DEF IsBatch, Ends
<1>3. ASSUME NEW i \in Indices, usb[i].inFlight PROVE usb[i].ctx.h \notin Listed
  <2>1. PICK g : g = usb[i].ctx.h
    OBVIOUS
  <2>2. CASE g = NoHeader
    BY <2>1, <2>2, ListedParts
  <2>3. CASE g # NoHeader
    <3>1. g \in Headers /\ Flies(i, g)
      BY <1>1, <1>3, <2>1, <2>3, FieldTypes DEF Flies
    <3>. QED
      BY <2>1, <3>1, WhenItFlies, ListedParts
  <2>. QED
    BY <2>2, <2>3
<1>4. ASSUME NEW t \in Threads, pc[t] \in {"count", "alloc", "fill", "send"} \/ ends(t)
      PROVE  local[t].h \notin Listed
  <2>1. PICK g : g = local[t].h
    OBVIOUS
  <2>2. CASE g = NoHeader
    BY <2>1, <2>2, ListedParts
  <2>3. CASE g # NoHeader
    <3>1. g \in Headers
      BY <1>1, <2>1, <2>3, FieldTypes
    <3>2. ASSUME pc[t] = "send" PROVE Sends(t, g)
      <4>1. t \in Callers /\ local[t].k <= req[t].n /\ Sent(t) = local[t].k - 1
        BY <1>1, <3>2 DEF ThreadOK, Loop, Sent
      <4>2. req[t].n \in Nat /\ local[t].k \in Nat
        BY <1>1, <4>1, FieldTypes
      <4>3. local[t].k - 1 < req[t].n
        BY <4>1, <4>2
      <4>. QED
        BY <2>1, <3>2, <4>1, <4>3 DEF Sends, Loop
    <3>3. Works(t, g) \/ Counts(t, g)
      BY <1>2, <1>4, <2>1, <3>2 DEF Works, Counts, Begins
    <3>4. Taken(g)
      BY <1>1, <3>1, <3>3 DEF UseOK
    <3>. QED
      BY <2>1, <3>1, <3>4, ListedParts
  <2>. QED
    BY <2>2, <2>3
<1>5. ASSUME NEW t \in Threads, NEW u \in Threads, ends(t), ends(u),
             local[t].h = local[u].h
      PROVE  t = u
  <2>1. PICK g : g = local[t].h
    OBVIOUS
  <2>2. g \in Headers /\ Ends(t, g) /\ Ends(u, g)
    BY <1>2, <1>5, <2>1
  <2>. QED
    BY <1>1, <2>2 DEF UseOK, Works
<1>6. Cardinality(Listed) = Len(batchList)
  BY ListedParts
<1>. QED
  BY <1>3, <1>4, <1>5, <1>6 DEF HeadersExclusive, Listed

\* So it is when there are writes only.
THEOREM WriteHeadersExclusive ==
  ASSUME ~Reread
  PROVE  WriteSpec => []HeadersExclusive
<1>1. IInv => TypeOK
  BY DEF IInv
<1>2. IInv /\ WriteIInv({}, {}) => HeadersExclusive
  BY <1>1, OneUserOfAHeader
<1>. QED
  BY <1>2, WriteInvariant, PTL

\* A caller that has begun found the pool there, and it stays.
PoolIsUp == (\E c \in Callers : pc[c] # "idle") => Count = N

\* A thread's step begins with one that has begun, and moves no other and not the pool.
LEMMA RunMovesOne ==
  ASSUME NEW t \in Threads, Run(t), pc \in [Threads -> PCs]
  PROVE  pc[t] # "idle" /\ Count' = Count /\ \A u \in Threads \ {t} : pc'[u] = pc[u]
<1>1. CASE Wait(t)
  BY <1>1 DEF Wait, AllocWait, writeVars
<1>2. CASE Pop(t)
  BY <1>2 DEF Pop, AllocPop, Goto
<1>3. CASE Push(t) \/ Release(t)
  BY <1>3 DEF Push, FreePush, Release, FreeRelease, Goto, Return
<1>4. CASE Fill(t) \/ (\E success \in BOOLEAN : Send(t, success)) \/ Store(t) \/ Check(t)
  BY <1>4 DEF Fill, Send, Store, Check, Goto, Return, poolVars
<1>5. CASE Settle(t) \/ CountDown(t) \/ Finalize(t) \/ Recycle(t)
  BY <1>5 DEF Settle, CountDown, Finalize, Recycle, Goto, Return, poolVars
<1>. QED
  BY <1>1, <1>2, <1>3, <1>4, <1>5 DEF Run

\* Every step keeps it.
LEMMA PoolStaysUp ==
  ASSUME IInv, WriteIInv({}, {}), PoolIsUp, [WriteNext]_allVars
  PROVE  PoolIsUp'
<1>1. pc \in [Threads -> PCs] /\ Callers \subseteq Threads
  BY Constants, TypeParts DEF WriteIInv
<1>2. Count \in {0, N}
  BY DEF IInv, TypeOK
<1>3. CASE PowerUp
  BY <1>3 DEF PowerUp, PoolInit, PoolIsUp
<1>4. CASE \E c \in Callers : Arrive(c)
  <2>1. PICK c \in Callers : Arrive(c)
    BY <1>4
  <2>2. CASE NoMemory(c) \/ \E success \in BOOLEAN : CompleteAtOnce(c, success)
    BY <1>2, <2>2 DEF NoMemory, CompleteAtOnce, poolVars, PoolIsUp
  <2>3. CASE StartStandalone(c) \/ \E n \in 2..MaxAlloc, h \in Headers : StartBatch(c, n, h)
    <3>1. PICK n \in 1..MaxAlloc : AllocBegin(c, n) \/ (Count # 0 /\ UNCHANGED poolVars)
      <4>1. 1 \in 1..MaxAlloc /\ \A n \in 2..MaxAlloc : n \in 1..MaxAlloc
        BY Constants
      <4>. QED
        BY <2>3, <4>1 DEF StartStandalone, StartBatch, AllocRefused
    <3>2. 1 <= n /\ (n <= Count \/ Count # 0) /\ Count' = Count
      BY <3>1 DEF AllocBegin, poolVars
    <3>3. Count # 0
      BY <3>1, <3>2
    <3>. QED
      BY <1>2, <3>2, <3>3 DEF PoolIsUp
  <2>. QED
    BY <2>1, <2>2, <2>3 DEF Arrive, EvtIoWrite, EvtIoDeviceControl
<1>5. CASE \E t \in Threads : Run(t)
  BY <1>1, <1>5, RunMovesOne DEF PoolIsUp
<1>6. CASE \E i \in Indices : Bus(i)
  <2>1. PICK i \in Indices, d \in Dpcs, result \in Results :
          UrbCompleted(d, i, result) \/ UrbCompletedInBatch(d, i, result)
    BY <1>6 DEF Bus
  <2>2. Count' = Count /\ pc' = [pc EXCEPT ![d] = pc'[d]]
    BY <1>1, <2>1 DEF UrbCompleted, UrbCompletedInBatch, Goto, poolVars, Dpcs
  <2>3. \A c \in Callers : pc'[c] = pc[c]
    BY <1>1, <2>2 DEF Dpcs
  <2>. QED
    BY <2>2, <2>3 DEF PoolIsUp
<1>7. CASE UNCHANGED allVars
  BY <1>7 DEF allVars, poolVars, writeVars, PoolIsUp
<1>. QED
  BY <1>3, <1>4, <1>5, <1>6, <1>7 DEF WriteNext

\* When all is done nobody uses a header, and no index is out.
LEMMA WhenFinished ==
  ASSUME IInv, WriteIInv({}, {}), Finished
  PROVE  Quiescent /\ \A h \in Headers : ~Taken(h)
<1>1. \A t \in Threads : pc[t] \in {"idle", "returned"}
  BY DEF Finished, Dpcs
<1>2. \A t \in Threads, h \in Headers : ~Works(t, h) /\ ~Counts(t, h)
  BY <1>1 DEF Works, Begins, Sends, Loop, Ends, Counts
<1>3. \A i \in Indices : ~Alone(i) /\ \A h \in Headers : ~Flies(i, h)
  BY DEF Finished, Flies, Alone
<1>4. \A h \in Headers : ~Taken(h)
  BY <1>2, <1>3 DEF WriteIInv, UseOK
<1>5. \A h \in Headers, k \in Positions : ~Has(h, k)
  BY <1>1, <1>4 DEF Has, Armed, Filled
<1>6. \A t \in Threads : ~Single(t)
  BY <1>1 DEF Single
<1>7. \A t \in Threads : stage[t] = "out"
  BY <1>1 DEF WriteIInv, StageMatches
<1>8. outstanding \subseteq Indices /\ AllPlaced({})
  BY DEF IInv, TypeOK, WriteIInv
<1>9. outstanding = {}
  <2>1. ASSUME NEW i \in outstanding PROVE FALSE
    <3>1. i \in Indices /\ ~Alone(i)
      BY <1>3, <1>8, <2>1
    <3>. QED
      BY <1>5, <1>6, <1>8, <2>1, <3>1 DEF AllPlaced
  <2>. QED
    BY <2>1
<1>. QED
  BY <1>4, <1>7, <1>9 DEF Quiescent

\* When all writes are done every index and permit is back, and every header is on the
\* list.  Without callers nothing is ever done.
THEOREM WriteNothingLeaked ==
  ASSUME ~Reread, Callers # {}
  PROVE  WriteSpec => []NothingLeaked
<1>1. WriteInit => PoolIsUp
  BY Constants DEF WriteInit, PoolIsUp
<1>2. IInv /\ WriteIInv({}, {}) /\ PoolIsUp /\ [WriteNext]_allVars => PoolIsUp'
  BY PoolStaysUp
<1>3. IInv /\ WriteIInv({}, {}) /\ PoolIsUp => NothingLeaked
  <2> SUFFICES ASSUME IInv, WriteIInv({}, {}), PoolIsUp, Finished
               PROVE  /\ FreeIndexEnd = N /\ Availabe = N
                      /\ Len(batchList) = Cardinality(allocated)
    BY DEF NothingLeaked
  <2>1. Count = N
    BY DEF PoolIsUp, Finished
  <2>2. Quiescent /\ \A h \in Headers : ~Taken(h)
    BY WhenFinished
  <2>3. TypeOK /\ IndicesPartitioned /\ PermitsBackedByIndices
    BY DEF IInv
  <2>4. FreeIndexEnd = N
    <3>1. Cardinality(outstanding) = N - FreeIndexEnd
      BY <2>1, <2>3, IndicesAddUp
    <3>2. Cardinality(outstanding) = 0
      BY <2>2, FS_EmptySet DEF Quiescent
    <3>3. FreeIndexEnd \in Int /\ N \in Int
      BY <2>3, Constants DEF TypeOK
    <3>. QED
      BY <3>1, <3>2, <3>3
  <2>5. Availabe = N
    <3>1. FreeIndexEnd = Availabe + Cardinality(Tokens)
      BY <2>1, <2>3 DEF PermitsBackedByIndices
    <3>2. Cardinality(Tokens) = 0
      BY <2>2, QuiescentNoTokens DEF IInv, Tokens
    <3>3. Availabe \in Int
      BY <2>3, Constants DEF TypeOK
    <3>. QED
      BY <2>4, <3>1, <3>2, <3>3
  <2>6. Listed = allocated
    <3>1. allocated \subseteq Headers
      BY TypeParts DEF WriteIInv
    <3>. QED
      BY <2>2, <3>1, ListedParts
  <2>. QED
    BY <2>4, <2>5, <2>6, ListedParts
<1>. QED
  BY <1>1, <1>2, <1>3, WriteInvariant, PTL DEF WriteSpec

\* Writes that all wait for each other's USB requests have asked for more than the pool
\* has: one for each of them more.
THEOREM WriteDeadlockNeedsDemand ==
  ASSUME ~Reread
  PROVE  WriteSpec => []DeadlockNeedsDemand
BY WritePathImplementsPool, PoolDeadlockNeedsDemand, PTL
=============================================================================
