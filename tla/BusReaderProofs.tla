--------------------------- MODULE BusReaderProofs ---------------------------
(***************************************************************************)
(* Proofs of the safety properties of BusReader, and so of OpenFiles, for  *)
(* any files, readers, limits and number of transfers.                     *)
(***************************************************************************)
EXTENDS BusReader, FiniteSetTheorems, SequenceTheorems, TLAPS

-----------------------------------------------------------------------------
(* The inductive invariant. *)

\* Types that BusTypeOK leaves out.
Transfers == [id : 0..MaxTransfers, at : Nat, cmd : Commands \cup {"end"}, walked : Nat]
Frames == Nat \X Nat

HistoryTypes ==
  transfer \in [Readers -> Transfers] /\ sent \in Seq(Frames) /\ log \in [Files -> Seq(Frames)]

\* The files on the list are those between their insertion and their removal.
Listed(f) == \E i \in 1..Len(FilesList) : FilesList[i] = f
ListOK ==
  /\ \A f \in Files : file[f] \in {"listed", "open", "cleanup"} <=> Listed(f)
  /\ \A i, j \in 1..Len(FilesList) : FilesList[i] = FilesList[j] => i = j

\* Only the holder of FilesLock broadcasts: what it saw of the list is still so, and the
\* frame on its way is the last that was sent.
HolderOK ==
  /\ FilesLock # Nobody => transfer[FilesLock] # Idle
  /\ \A r \in Readers :
       /\ filesAvailable[r] => FilesLock = r
       /\ FilesLock = r => (filesAvailable[r] <=> FilesList # <<>>)
       /\ transfer[r].walked > 0 =>
            /\ FilesLock = r /\ Handles(r, "RECEIVE_MESSAGE")
            /\ transfer[r].walked <= Len(FilesList)
            /\ sent # <<>> /\ sent[Len(sent)] = <<transfer[r].id, transfer[r].at>>

\* Who is inside a file is where its own steps have taken it, and the lock tells the
\* truth unless the file is torn.
InsideOK ==
  \A f \in Files :
    /\ \A r \in Readers : r \in inside[f] => AtFile(r, f)
    /\ User \in inside[f] => f \in calling
    /\ f \in calling => file[f] \notin {"new", "listed"}
    /\ f \notin torn =>
         /\ ReadLock[f] <=> inside[f] # {}
         /\ \A x, y \in inside[f] : x = y
         /\ f \in calling => file[f] = "open"
         /\ file[f] \in {"cleanup", "removed", "gone"} => pending[f] # "waiting"

\* Transfers are different, and what was sent of one is in one piece, which is the last
\* as long as its reader holds FilesLock.
SentOK ==
  /\ \A i \in 1..Len(sent) : 1 <= sent[i][1] /\ sent[i][1] <= transfers
  /\ \A r \in Readers :
       /\ transfer[r].id <= transfers
       /\ transfer[r].id = 0 => transfer[r] = Idle
       /\ \A q \in Readers : r # q /\ transfer[r] # Idle => transfer[r].id # transfer[q].id
       /\ transfer[r] # Idle /\ FilesLock # r =>
            \A i \in 1..Len(sent) : sent[i][1] # transfer[r].id
       /\ FilesLock = r =>
            \A i \in 1..Len(sent) : sent[i][1] = transfer[r].id => sent[Len(sent)][1] = transfer[r].id
  /\ \A i, j, k \in 1..Len(sent) :
       i <= j /\ j <= k /\ sent[i][1] = sent[k][1] => sent[j][1] = sent[i][1]

\* Between the i-th frame that was sent and whatever follows, one transfer has ended.
Ended(i) ==
  \/ i = 0
  \/ i < Len(sent) /\ sent[i][1] # sent[i + 1][1]
  \/ i = Len(sent) /\ \A r \in Readers : FilesLock = r => sent[i][1] # transfer[r].id

\* The frames after the i-th, up to the k-th.
Piece(l, i, k) == Len(l) = k - i /\ \A j \in 1..(k - i) : l[j] = sent[i + j]

\* How far the walk is, and how much of what was sent the p-th file on the list has.
Walked == IF FilesLock = Nobody THEN 0 ELSE transfer[FilesLock].walked
Seen(p) == IF 0 < Walked /\ Walked < p THEN Len(sent) - 1 ELSE Len(sent)

\* The log of f begins where a transfer had ended, and goes up to the k-th frame sent.
Logged(f, k) == \E i \in 0..Len(sent) : i <= k /\ Ended(i) /\ Piece(log[f], i, k)

\* Each file has what was sent while it was on the list.
LogsOK ==
  \A f \in Files :
    /\ file[f] = "new" => log[f] = <<>>
    /\ \A p \in 1..Len(FilesList) : FilesList[p] = f => Logged(f, Seen(p))
    /\ file[f] \in {"removed", "gone"} => \E k \in 0..Len(sent) : Ended(k) /\ Logged(f, k)

\* The inductive invariant.
BusIInv ==
  /\ BusTypeOK /\ HistoryTypes /\ ListOK /\ HolderOK /\ InsideOK /\ SentOK /\ LogsOK
  /\ NothingLeftBehind

-----------------------------------------------------------------------------
(* Queue items. *)

\* The items of n frames in f's queue, and those in other queues.
Row(f, n) == {<<f, k>> : k \in 1..n}
Others(f) == {x \in Items : x[1] # f}

\* There are as many items as frames.
LEMMA RowSize ==
  ASSUME NEW f, NEW n \in Nat
  PROVE  IsFiniteSet(Row(f, n)) /\ Cardinality(Row(f, n)) = n
<1>. DEFINE g == [k \in 1..n |-> <<f, k>>]
<1>1. g \in Bijection(1..n, Row(f, n))
  BY DEF Bijection, Injection, Surjection, IsInjective, Row
<1>2. IsFiniteSet(1..n) /\ Cardinality(1..n) = n
  <2>1. IsFiniteSet(1..n) /\ Cardinality(1..n) = IF 1 > n THEN 0 ELSE n - 1 + 1
    BY FS_Interval
  <2>. QED
    BY <2>1
<1>. QED
  BY <1>1, <1>2, FS_Bijection DEF ExistsBijection

\* The items of f and the others are all there are.
LEMMA ItemsSplit ==
  ASSUME BusTypeOK, NEW f \in Files, file[f] # "gone"
  PROVE  /\ IsFiniteSet(Others(f)) /\ Cardinality(Others(f)) \in Nat
         /\ Cardinality(Items) \in Nat
         /\ Cardinality(Items) = Cardinality(Others(f)) + ReadBuffersQueued[f]
<1>1. ReadBuffersQueued \in [Files -> 0..MaxQueued] /\ MaxQueued \in Nat
  BY FilesAssumption DEF BusTypeOK
<1>2. IsFiniteSet(Files \X (1..MaxQueued))
  <2>1. IsFiniteSet(1..MaxQueued)
    BY <1>1, FS_Interval
  <2>. QED
    BY <2>1, FilesAssumption, FS_Product
<1>3. IsFiniteSet(Items)
  BY <1>2, FS_Subset DEF Items
<1>4. Items = Others(f) \cup Row(f, ReadBuffersQueued[f])
  BY <1>1 DEF Items, Others, Row
<1>5. Others(f) \cap Row(f, ReadBuffersQueued[f]) = {}
  BY DEF Others, Row
<1>6. IsFiniteSet(Others(f)) /\ Cardinality(Others(f)) \in Nat /\ Cardinality(Items) \in Nat
  BY <1>3, FS_Subset, FS_CardinalityType DEF Others
<1>7. /\ IsFiniteSet(Row(f, ReadBuffersQueued[f])) /\ ReadBuffersQueued[f] \in Nat
      /\ Cardinality(Row(f, ReadBuffersQueued[f])) = ReadBuffersQueued[f]
  BY <1>1, RowSize
<1>8. Cardinality(Items) = Cardinality(Others(f)) + Cardinality(Row(f, ReadBuffersQueued[f])) - Cardinality({})
  BY <1>4, <1>5, <1>6, <1>7, FS_Union
<1>. QED
  BY <1>6, <1>7, <1>8, FS_EmptySet

\* When the queue of one file changes, the items do by as much.
LEMMA QueueChanges ==
  ASSUME BusTypeOK, BusTypeOK', NEW f \in Files, NEW n \in 0..MaxQueued,
         file[f] # "gone", file' = file, ReadBuffersQueued' = [ReadBuffersQueued EXCEPT ![f] = n]
  PROVE  Cardinality(Items') = Cardinality(Items) - ReadBuffersQueued[f] + n
<1>1. ReadBuffersQueued \in [Files -> 0..MaxQueued] /\ MaxQueued \in Nat
  BY FilesAssumption DEF BusTypeOK
<1>2. /\ IsFiniteSet(Others(f)) /\ Cardinality(Others(f)) \in Nat
      /\ Cardinality(Items) = Cardinality(Others(f)) + ReadBuffersQueued[f]
  BY ItemsSplit
<1>3. Items' = Others(f) \cup Row(f, n)
  BY <1>1 DEF Items, Others, Row
<1>4. Others(f) \cap Row(f, n) = {}
  BY DEF Others, Row
<1>5. IsFiniteSet(Row(f, n)) /\ Cardinality(Row(f, n)) = n /\ n \in Nat
  BY <1>1, RowSize
<1>6. Cardinality(Items') = Cardinality(Others(f)) + n - Cardinality({})
  BY <1>2, <1>3, <1>4, <1>5, FS_Union
<1>. QED
  BY <1>1, <1>2, <1>5, <1>6, FS_EmptySet

-----------------------------------------------------------------------------
(* The invariant holds initially. *)

\* When the device has been created no file is open and no transfer has completed.
LEMMA BusInitIInv == BusInit => BusIInv
<1>. SUFFICES ASSUME BusInit PROVE BusIInv
  OBVIOUS
<1>. USE DEF BusInit, FilesInit
<1>0. /\ MaxQueued \in Nat \ {0} /\ PageItems \in Nat \ {0} /\ MaxPages \in Nat \ {0}
      /\ MaxTransfers \in Nat /\ Nobody \notin Readers
  BY FilesAssumption, BusAssumption
<1>1. BusTypeOK
  <2>1. FilesList \in Seq(Files)
    OBVIOUS
  <2>2. file \in [Files -> {"new", "listed", "open", "cleanup", "removed", "gone"}]
    OBVIOUS
  <2>3. /\ ReadLock \in [Files -> BOOLEAN] /\ inside \in [Files -> SUBSET (Readers \cup {User})]
        /\ pending \in [Files -> {"none", "waiting", "answered", "twice"}]
        /\ filesAvailable \in [Readers -> BOOLEAN]
        /\ calling \subseteq Files /\ torn \subseteq Files
    OBVIOUS
  <2>4. /\ ReadBuffersQueued \in [Files -> 0..MaxQueued] /\ available \in Nat
        /\ pages \in 1..MaxPages /\ transfers \in 0..MaxTransfers
    BY <1>0
  <2>. QED
    BY <2>1, <2>2, <2>3, <2>4, Zenon DEF BusTypeOK
<1>2. HistoryTypes
  <2>1. Idle \in Transfers
    BY <1>0 DEF Idle, Transfers, Commands
  <2>. QED
    BY <2>1 DEF HistoryTypes
<1>3. ListOK
  BY DEF ListOK, Listed
<1>4. HolderOK
  BY <1>0 DEF HolderOK, Idle
<1>5. InsideOK
  BY DEF InsideOK
<1>6. SentOK
  BY DEF SentOK, Idle
<1>7. LogsOK
  BY DEF LogsOK
<1>8. NothingLeftBehind
  <2>1. Items = {}
    BY <1>0 DEF Items
  <2>2. Cardinality(Items) = 0
    BY <2>1, FS_EmptySet
  <2>. QED
    BY <1>0, <2>2 DEF NothingLeftBehind
<1>. QED
  BY <1>1, <1>2, <1>3, <1>4, <1>5, <1>6, <1>7, <1>8 DEF BusIInv

-----------------------------------------------------------------------------
(* The steps of a file's program.                                             *)

\* The states of a file, and whether it is on the list.
FileStates == {"new", "listed", "open", "cleanup", "removed", "gone"}
OnList == {"listed", "open", "cleanup"}

\* Types hold again if those of what a file's program changes do.
LEMMA FileTypes ==
  ASSUME BusTypeOK, UNCHANGED <<readerVars, FilesLock>>,
         file' \in [Files -> FileStates], FilesList' \in Seq(Files),
         ReadLock' \in [Files -> BOOLEAN], inside' \in [Files -> SUBSET (Readers \cup {User})],
         ReadBuffersQueued' \in [Files -> 0..MaxQueued],
         pending' \in [Files -> {"none", "waiting", "answered", "twice"}],
         available' \in Nat, pages' = pages, calling' \subseteq Files, torn' \subseteq Files
  PROVE  BusTypeOK'
BY Zenon DEF BusTypeOK, FileStates, readerVars

\* Steps that neither change the list nor concern the readers.
LEMMA FileKeeps ==
  ASSUME BusIInv, UNCHANGED <<readerVars, FilesList, FilesLock, log>>,
         \A f \in Files :
           /\ file'[f] \in OnList <=> file[f] \in OnList
           /\ file'[f] = "new" => file[f] = "new"
           /\ file'[f] \in {"removed", "gone"} => file[f] \in {"removed", "gone"}
  PROVE  HistoryTypes' /\ ListOK' /\ HolderOK' /\ SentOK' /\ LogsOK'
<1>. USE DEF readerVars
<1>1. HistoryTypes'
  BY DEF BusIInv, HistoryTypes
<1>2. ListOK'
  BY DEF BusIInv, ListOK, Listed, OnList
<1>3. HolderOK'
  BY DEF BusIInv, HolderOK, Handles
<1>4. SentOK'
  BY DEF BusIInv, SentOK
<1>5. LogsOK'
  <2>1. \A i \in 0..Len(sent) : Ended(i)' <=> Ended(i)
    BY DEF Ended
  <2>2. \A p : Seen(p)' = Seen(p)
    BY DEF Seen, Walked
  <2>3. ASSUME NEW f \in Files, NEW k PROVE Logged(f, k)' <=> Logged(f, k)
    BY <2>1 DEF Logged, Piece
  <2>. QED
    BY <2>1, <2>2, <2>3 DEF BusIInv, LogsOK
<1>. QED
  BY <1>1, <1>2, <1>3, <1>4, <1>5

\* They leave every reader where it is.
LEMMA WalkKept ==
  ASSUME UNCHANGED <<readerVars, FilesList, FilesLock>>, NEW r, NEW f
  PROVE  AtFile(r, f)' <=> AtFile(r, f)
BY DEF AtFile, Handles, readerVars

\* What a file that is closed leaves behind does not change with other variables.
LEMMA NothingMore ==
  ASSUME NothingLeftBehind, UNCHANGED <<queueVars, pending, calling>>, torn \subseteq torn',
         \A f \in Files : file'[f] = "gone" <=> file[f] = "gone"
  PROVE  NothingLeftBehind'
<1>1. Items' = Items
  BY DEF Items, queueVars
<1>. QED
  BY <1>1 DEF NothingLeftBehind, queueVars

\* The types of a file, one by one.
LEMMA FileParts ==
  ASSUME BusTypeOK
  PROVE  /\ file \in [Files -> FileStates] /\ FilesList \in Seq(Files)
         /\ FilesLock \in Readers \cup {Nobody}
         /\ ReadLock \in [Files -> BOOLEAN] /\ inside \in [Files -> SUBSET (Readers \cup {User})]
         /\ ReadBuffersQueued \in [Files -> 0..MaxQueued]
         /\ pending \in [Files -> {"none", "waiting", "answered", "twice"}]
         /\ available \in Nat /\ pages \in Nat /\ pages \in 1..MaxPages
         /\ calling \subseteq Files /\ torn \subseteq Files
         /\ filesAvailable \in [Readers -> BOOLEAN] /\ transfers \in 0..MaxTransfers
<1>1. pages \in 1..MaxPages => pages \in Nat
  BY FilesAssumption
<1>. QED
  BY <1>1, Zenon DEF BusTypeOK, FileStates

\* The lock is initialized.
LEMMA InitLockKeeps ==
  ASSUME BusIInv, NEW f \in Files, InitLock(f), UNCHANGED readerVars
  PROVE  BusIInv'
<1>. USE DEF InitLock
<1>1. /\ file \in [Files -> FileStates] /\ ReadLock \in [Files -> BOOLEAN]
      /\ calling \subseteq Files /\ torn \subseteq Files
      /\ FilesList \in Seq(Files) /\ inside \in [Files -> SUBSET (Readers \cup {User})]
      /\ ReadBuffersQueued \in [Files -> 0..MaxQueued]
      /\ pending \in [Files -> {"none", "waiting", "answered", "twice"}] /\ available \in Nat
  BY FileParts DEF BusIInv
<1>2. /\ file' \in [Files -> FileStates] /\ file'[f] = "open" /\ ReadLock'[f] = FALSE
      /\ ReadLock' \in [Files -> BOOLEAN]
      /\ \A g \in Files \ {f} : file'[g] = file[g] /\ ReadLock'[g] = ReadLock[g]
      /\ torn \subseteq torn' /\ torn' \subseteq torn \cup {f}
      /\ f \notin torn' => inside[f] \ {User} = {}
  BY <1>1 DEF FileStates
<1>3. BusTypeOK'
  BY <1>1, <1>2, FileTypes DEF BusIInv, queueVars
<1>4. HistoryTypes' /\ ListOK' /\ HolderOK' /\ SentOK' /\ LogsOK'
  BY <1>2, FileKeeps DEF OnList
<1>5. InsideOK'
  <2>1. \A r \in Readers, g \in Files : AtFile(r, g)' <=> AtFile(r, g)
    BY WalkKept
  <2>2. f \notin calling /\ User \notin inside[f]
    BY DEF BusIInv, InsideOK
  <2>3. f \notin torn' => inside[f] = {}
    BY <1>2, <2>2
  <2>. QED
    BY <1>2, <2>1, <2>2, <2>3 DEF BusIInv, InsideOK
<1>6. NothingLeftBehind'
  BY <1>2, NothingMore DEF BusIInv
<1>. QED
  BY <1>3, <1>4, <1>5, <1>6 DEF BusIInv

\* A program calls McbaRead.
LEMMA ReadCallKeeps ==
  ASSUME BusIInv, NEW f \in Files, ReadCall(f), UNCHANGED readerVars
  PROVE  BusIInv'
<1>. USE DEF ReadCall, Opened, listVars, lockVars
<1>1. /\ file \in [Files -> FileStates] /\ ReadLock \in [Files -> BOOLEAN]
      /\ calling \subseteq Files /\ torn \subseteq Files
      /\ FilesList \in Seq(Files) /\ inside \in [Files -> SUBSET (Readers \cup {User})]
      /\ ReadBuffersQueued \in [Files -> 0..MaxQueued]
      /\ pending \in [Files -> {"none", "waiting", "answered", "twice"}] /\ available \in Nat
  BY FileParts DEF BusIInv
<1>3. BusTypeOK'
  BY <1>1, FileTypes DEF BusIInv, queueVars
<1>4. HistoryTypes' /\ ListOK' /\ HolderOK' /\ SentOK' /\ LogsOK'
  BY FileKeeps
<1>5. InsideOK'
  <2>1. \A r \in Readers, g \in Files : AtFile(r, g)' <=> AtFile(r, g)
    BY WalkKept
  <2>. QED
    BY <2>1 DEF BusIInv, InsideOK
<1>6. NothingLeftBehind'
  <2>1. Items' = Items
    BY DEF Items, queueVars
  <2>. QED
    BY <2>1 DEF BusIInv, NothingLeftBehind, queueVars
<1>. QED
  BY <1>3, <1>4, <1>5, <1>6 DEF BusIInv

\* It takes its file's ReadLock.
LEMMA ReadBeginKeeps ==
  ASSUME BusIInv, NEW f \in Files, ReadBegin(f), UNCHANGED readerVars
  PROVE  BusIInv'
<1>. USE DEF ReadBegin, Acquire, listVars
<1>1. /\ file \in [Files -> FileStates] /\ ReadLock \in [Files -> BOOLEAN]
      /\ calling \subseteq Files /\ torn \subseteq Files
      /\ FilesList \in Seq(Files) /\ inside \in [Files -> SUBSET (Readers \cup {User})]
      /\ ReadBuffersQueued \in [Files -> 0..MaxQueued]
      /\ pending \in [Files -> {"none", "waiting", "answered", "twice"}] /\ available \in Nat
  BY FileParts DEF BusIInv
<1>2. /\ ReadLock' \in [Files -> BOOLEAN] /\ inside' \in [Files -> SUBSET (Readers \cup {User})]
      /\ ReadLock'[f] = TRUE /\ inside'[f] = inside[f] \cup {User}
      /\ \A g \in Files \ {f} : ReadLock'[g] = ReadLock[g] /\ inside'[g] = inside[g]
  BY <1>1
<1>3. BusTypeOK'
  BY <1>1, <1>2, FileTypes DEF BusIInv, queueVars
<1>4. HistoryTypes' /\ ListOK' /\ HolderOK' /\ SentOK' /\ LogsOK'
  BY FileKeeps
<1>5. InsideOK'
  <2>1. \A r \in Readers, g \in Files : AtFile(r, g)' <=> AtFile(r, g)
    BY WalkKept
  <2>2. User \notin Readers
    BY BusAssumption
  <2>3. f \notin torn => inside[f] = {}
    BY DEF BusIInv, InsideOK
  <2>. QED
    BY <1>2, <2>1, <2>2, <2>3 DEF BusIInv, InsideOK
<1>6. NothingLeftBehind'
  BY NothingMore DEF BusIInv
<1>. QED
  BY <1>3, <1>4, <1>5, <1>6 DEF BusIInv

\* It takes frames, or waits for one, and releases the lock.
LEMMA ReadEndKeeps ==
  ASSUME BusIInv, NEW f \in Files, NEW n \in 0..MaxQueued, ReadEnd(f, n), UNCHANGED readerVars
  PROVE  BusIInv'
<1>. USE DEF ReadEnd, Unlock, listVars
<1>1. /\ file \in [Files -> FileStates] /\ ReadLock \in [Files -> BOOLEAN]
      /\ calling \subseteq Files /\ torn \subseteq Files
      /\ FilesList \in Seq(Files) /\ inside \in [Files -> SUBSET (Readers \cup {User})]
      /\ ReadBuffersQueued \in [Files -> 0..MaxQueued]
      /\ pending \in [Files -> {"none", "waiting", "answered", "twice"}] /\ available \in Nat
      /\ pages \in Nat /\ MaxQueued \in Nat /\ PageItems \in Nat
  BY FileParts, FilesAssumption DEF BusIInv
<1>2. /\ ReadLock' \in [Files -> BOOLEAN] /\ inside' \in [Files -> SUBSET (Readers \cup {User})]
      /\ ReadLock'[f] = FALSE /\ inside'[f] = inside[f] \ {User}
      /\ \A g \in Files \ {f} : ReadLock'[g] = ReadLock[g] /\ inside'[g] = inside[g]
      /\ calling' = calling \ {f} /\ User \in inside[f] /\ f \in calling
  BY <1>1 DEF BusIInv, InsideOK
<1>3. /\ pending' \in [Files -> {"none", "waiting", "answered", "twice"}]
      /\ \A g \in Files \ {f} : pending'[g] = pending[g]
  BY <1>1
<1>4. /\ ReadBuffersQueued[f] - n \in 0..MaxQueued /\ available + n \in Nat
      /\ ReadBuffersQueued' \in [Files -> 0..MaxQueued]
  <2>1. ReadBuffersQueued[f] - n \in 0..MaxQueued /\ available + n \in Nat
    BY <1>1
  <2>. QED
    BY <1>1, <2>1
<1>5. BusTypeOK'
  BY <1>1, <1>2, <1>3, <1>4, FileTypes DEF BusIInv
<1>6. HistoryTypes' /\ ListOK' /\ HolderOK' /\ SentOK' /\ LogsOK'
  BY FileKeeps
<1>7. InsideOK'
  <2>1. \A r \in Readers, g \in Files : AtFile(r, g)' <=> AtFile(r, g)
    BY WalkKept
  <2>2. f \notin torn => inside'[f] = {} /\ file[f] = "open"
    BY <1>2 DEF BusIInv, InsideOK
  <2>. QED
    BY <1>2, <1>3, <2>1, <2>2 DEF BusIInv, InsideOK
<1>8. NothingLeftBehind'
  <2>. SUFFICES ASSUME torn = {}
                PROVE  /\ available' + Cardinality(Items') = pages' * PageItems
                       /\ \A g \in Files : file'[g] = "gone" => pending'[g] # "waiting"
    BY DEF NothingLeftBehind
  <2>1. file[f] = "open"
    BY <1>2 DEF BusIInv, InsideOK
  <2>2. Cardinality(Items') = Cardinality(Items) - ReadBuffersQueued[f] + (ReadBuffersQueued[f] - n)
    BY <1>4, <1>5, <2>1, QueueChanges DEF BusIInv
  <2>3. Cardinality(Items) \in Nat
    BY <1>1, <2>1, ItemsSplit DEF BusIInv
  <2>4. available + Cardinality(Items) = pages * PageItems
    BY DEF BusIInv, NothingLeftBehind
  <2>5. available' + Cardinality(Items') = available + Cardinality(Items)
    BY <1>1, <2>2, <2>3
  <2>6. \A g \in Files : file'[g] = "gone" => pending'[g] # "waiting"
    BY <1>3, <2>1 DEF BusIInv, NothingLeftBehind
  <2>. QED
    BY <2>4, <2>5, <2>6
<1>. QED
  BY <1>5, <1>6, <1>7, <1>8 DEF BusIInv

\* A read that waits is cancelled.
LEMMA CancelReadKeeps ==
  ASSUME BusIInv, NEW f \in Files, CancelRead(f), UNCHANGED readerVars
  PROVE  BusIInv'
<1>. USE DEF CancelRead, listVars, lockVars
<1>1. /\ file \in [Files -> FileStates] /\ ReadLock \in [Files -> BOOLEAN]
      /\ calling \subseteq Files /\ torn \subseteq Files
      /\ FilesList \in Seq(Files) /\ inside \in [Files -> SUBSET (Readers \cup {User})]
      /\ ReadBuffersQueued \in [Files -> 0..MaxQueued]
      /\ pending \in [Files -> {"none", "waiting", "answered", "twice"}] /\ available \in Nat
  BY FileParts DEF BusIInv
<1>2. /\ pending' \in [Files -> {"none", "waiting", "answered", "twice"}] /\ pending'[f] # "waiting"
      /\ \A g \in Files \ {f} : pending'[g] = pending[g]
  BY <1>1
<1>3. BusTypeOK'
  BY <1>1, <1>2, FileTypes DEF BusIInv, queueVars
<1>4. HistoryTypes' /\ ListOK' /\ HolderOK' /\ SentOK' /\ LogsOK'
  BY FileKeeps
<1>5. InsideOK'
  <2>1. \A r \in Readers, g \in Files : AtFile(r, g)' <=> AtFile(r, g)
    BY WalkKept
  <2>. QED
    BY <1>2, <2>1 DEF BusIInv, InsideOK
<1>6. NothingLeftBehind'
  <2>1. Items' = Items
    BY DEF Items, queueVars
  <2>. QED
    BY <1>2, <2>1 DEF BusIInv, NothingLeftBehind, queueVars
<1>. QED
  BY <1>3, <1>4, <1>5, <1>6 DEF BusIInv

\* The file is closed.
LEMMA CleanupKeeps ==
  ASSUME BusIInv, NEW f \in Files, Cleanup(f), UNCHANGED readerVars
  PROVE  BusIInv'
<1>. USE DEF Cleanup, lockVars
<1>1. /\ file \in [Files -> FileStates] /\ ReadLock \in [Files -> BOOLEAN]
      /\ calling \subseteq Files /\ torn \subseteq Files
      /\ FilesList \in Seq(Files) /\ inside \in [Files -> SUBSET (Readers \cup {User})]
      /\ ReadBuffersQueued \in [Files -> 0..MaxQueued]
      /\ pending \in [Files -> {"none", "waiting", "answered", "twice"}] /\ available \in Nat
  BY FileParts DEF BusIInv
<1>2. /\ file' \in [Files -> FileStates] /\ file'[f] = "cleanup"
      /\ pending' \in [Files -> {"none", "waiting", "answered", "twice"}] /\ pending'[f] # "waiting"
      /\ \A g \in Files \ {f} : file'[g] = file[g] /\ pending'[g] = pending[g]
      /\ torn \subseteq torn' /\ torn' \subseteq torn \cup {f}
      /\ f \notin torn' => f \notin calling
  BY <1>1 DEF FileStates
<1>3. BusTypeOK'
  BY <1>1, <1>2, FileTypes DEF BusIInv, queueVars
<1>4. HistoryTypes' /\ ListOK' /\ HolderOK' /\ SentOK' /\ LogsOK'
  BY <1>2, FileKeeps DEF OnList
<1>5. InsideOK'
  <2>1. \A r \in Readers, g \in Files : AtFile(r, g)' <=> AtFile(r, g)
    BY WalkKept
  <2>. QED
    BY <1>2, <2>1 DEF BusIInv, InsideOK
<1>6. NothingLeftBehind'
  <2>1. Items' = Items
    BY <1>2 DEF Items, queueVars
  <2>. QED
    BY <1>2, <2>1 DEF BusIInv, NothingLeftBehind, queueVars
<1>. QED
  BY <1>3, <1>4, <1>5, <1>6 DEF BusIInv

\* What it had queued goes back to the free list.
LEMMA DrainKeeps ==
  ASSUME BusIInv, NEW f \in Files, Drain(f), UNCHANGED readerVars
  PROVE  BusIInv'
<1>. USE DEF Drain, lockVars, Returned
<1>1. /\ file \in [Files -> FileStates] /\ ReadLock \in [Files -> BOOLEAN]
      /\ calling \subseteq Files /\ torn \subseteq Files
      /\ FilesList \in Seq(Files) /\ inside \in [Files -> SUBSET (Readers \cup {User})]
      /\ ReadBuffersQueued \in [Files -> 0..MaxQueued] /\ ReadBuffersQueued[f] \in Nat
      /\ pending \in [Files -> {"none", "waiting", "answered", "twice"}] /\ available \in Nat
  BY FileParts, FilesAssumption DEF BusIInv
<1>2. /\ file' \in [Files -> FileStates] /\ file[f] = "removed" /\ file'[f] = "gone"
      /\ \A g \in Files \ {f} : file'[g] = file[g]
  BY <1>1 DEF FileStates
<1>3. BusTypeOK'
  BY <1>1, <1>2, FileTypes DEF BusIInv, queueVars
<1>4. HistoryTypes' /\ ListOK' /\ HolderOK' /\ SentOK' /\ LogsOK'
  BY <1>2, FileKeeps DEF OnList
<1>5. InsideOK'
  <2>1. \A r \in Readers, g \in Files : AtFile(r, g)' <=> AtFile(r, g)
    BY WalkKept
  <2>. QED
    BY <1>2, <2>1 DEF BusIInv, InsideOK
<1>6. NothingLeftBehind'
  <2>1. Items' = Others(f)
    BY <1>2 DEF Items, Others
  <2>2. /\ Cardinality(Others(f)) \in Nat
        /\ Cardinality(Items) = Cardinality(Others(f)) + ReadBuffersQueued[f]
    BY <1>2, ItemsSplit DEF BusIInv
  <2>3. available' + Cardinality(Items') = available + Cardinality(Items)
    BY <1>1, <2>1, <2>2
  <2>4. torn = {} => pending[f] # "waiting"
    BY <1>2 DEF BusIInv, InsideOK
  <2>. QED
    BY <1>2, <2>3, <2>4 DEF BusIInv, NothingLeftBehind
<1>. QED
  BY <1>3, <1>4, <1>5, <1>6 DEF BusIInv

-----------------------------------------------------------------------------
(* The list.                                                                  *)

\* A list without its i-th entry.
LEMMA RemovedEntry ==
  ASSUME NEW list \in Seq(Files), NEW i \in 1..Len(list)
  PROVE  LET rest == SubSeq(list, 1, i - 1) \o SubSeq(list, i + 1, Len(list)) IN
         /\ rest \in Seq(Files) /\ Len(rest) = Len(list) - 1
         /\ \A j \in 1..Len(rest) : rest[j] = IF j < i THEN list[j] ELSE list[j + 1]
<1>. DEFINE l == Len(list)  a == SubSeq(list, 1, i - 1)  b == SubSeq(list, i + 1, l)
<1>1. l \in Nat /\ i \in Int /\ 1 <= i /\ i <= l
  BY LenProperties
<1>2. \A j \in 1..l : list[j] \in Files
  BY ElementOfSeq
<1>. HIDE DEF l
<1>3. a \in Seq(Files) /\ Len(a) = i - 1 /\ \A j \in 1..(i - 1) : a[j] = list[j]
  <2>1. \A j \in 1..(i - 1) : list[j] \in Files /\ 1 + j - 1 = j
    BY <1>1, <1>2
  <2>2. /\ a \in Seq(Files) /\ Len(a) = IF 1 <= i - 1 THEN i - 1 - 1 + 1 ELSE 0
        /\ \A j \in 1..(i - 1 - 1 + 1) : a[j] = list[1 + j - 1]
    BY <1>1, <2>1, SubSeqProperties
  <2>. HIDE DEF a
  <2>. QED
    BY <1>1, <2>1, <2>2
<1>4. b \in Seq(Files) /\ Len(b) = l - i /\ \A j \in 1..(l - i) : b[j] = list[j + i]
  <2>1. \A j \in (i + 1)..l : list[j] \in Files
    BY <1>1, <1>2
  <2>2. /\ b \in Seq(Files) /\ Len(b) = IF i + 1 <= l THEN l - (i + 1) + 1 ELSE 0
        /\ \A j \in 1..(l - (i + 1) + 1) : b[j] = list[(i + 1) + j - 1]
    BY <1>1, <2>1, SubSeqProperties
  <2>3. ASSUME NEW j \in 1..(l - i) PROVE j \in 1..(l - (i + 1) + 1) /\ (i + 1) + j - 1 = j + i
    BY <1>1
  <2>. HIDE DEF b
  <2>. QED
    BY <1>1, <2>2, <2>3
<1>. HIDE DEF a, b
<1>5. /\ a \o b \in Seq(Files) /\ Len(a \o b) = Len(a) + Len(b)
      /\ \A j \in 1..(Len(a) + Len(b)) : (a \o b)[j] = IF j <= Len(a) THEN a[j] ELSE b[j - Len(a)]
  BY <1>3, <1>4, ConcatProperties
<1>6. Len(a \o b) = l - 1
  BY <1>1, <1>3, <1>4, <1>5
<1>7. ASSUME NEW j \in 1..(l - 1)
      PROVE  (a \o b)[j] = IF j < i THEN list[j] ELSE list[j + 1]
  <2>1. (a \o b)[j] = IF j <= i - 1 THEN a[j] ELSE b[j - (i - 1)]
    BY <1>1, <1>3, <1>4, <1>5
  <2>2. CASE j < i
    BY <1>1, <1>3, <2>1, <2>2
  <2>3. CASE ~(j < i)
    <3>1. j - (i - 1) \in 1..(l - i) /\ (j - (i - 1)) + i = j + 1
      BY <1>1, <2>3
    <3>2. b[j - (i - 1)] = list[j + 1]
      BY <1>4, <3>1
    <3>. QED
      BY <1>1, <2>1, <2>3, <3>2
  <2>. QED
    BY <2>2, <2>3
<1>. QED
  BY <1>5, <1>6, <1>7 DEF a, b, l

\* While nobody holds FilesLock no walk is under way, and the list can change.
LEMMA NobodyWalks ==
  ASSUME BusIInv, FilesLock = Nobody, UNCHANGED <<readerVars, FilesLock, log>>
  PROVE  /\ \A f \in Files, r \in Readers : r \notin inside[f]
         /\ \A p : Seen(p) = Len(sent) /\ Seen(p)' = Len(sent)
         /\ Ended(Len(sent)) /\ Len(sent) \in Nat
         /\ \A i \in 0..Len(sent) : Ended(i)' <=> Ended(i)
         /\ \A f \in Files : \A k : Logged(f, k)' <=> Logged(f, k)
         /\ HistoryTypes' /\ HolderOK' /\ SentOK'
<1>. USE DEF readerVars
<1>1. Nobody \notin Readers
  BY BusAssumption
<1>2. /\ transfer \in [Readers -> Transfers] /\ sent \in Seq(Frames) /\ Len(sent) \in Nat
      /\ \A r \in Readers : transfer[r].walked \in Nat
  BY LenProperties DEF BusIInv, HistoryTypes, Transfers
<1>3. \A r \in Readers : ~filesAvailable[r] /\ ~(transfer[r].walked > 0)
  BY <1>1 DEF BusIInv, HolderOK
<1>4. \A f \in Files, r \in Readers : r \notin inside[f]
  BY <1>1 DEF BusIInv, InsideOK, AtFile
<1>5. \A p : Seen(p) = Len(sent) /\ Seen(p)' = Len(sent)
  BY <1>2 DEF Seen, Walked
<1>6. Ended(Len(sent))
  BY <1>1, <1>2 DEF Ended
<1>7. \A i \in 0..Len(sent) : Ended(i)' <=> Ended(i)
  BY DEF Ended
<1>8. ASSUME NEW f \in Files, NEW k PROVE Logged(f, k)' <=> Logged(f, k)
  BY <1>7 DEF Logged, Piece
<1>9. HistoryTypes'
  BY DEF BusIInv, HistoryTypes
<1>10. HolderOK'
  BY <1>1, <1>3 DEF HolderOK
<1>11. SentOK'
  BY DEF BusIInv, SentOK
<1>. QED
  BY <1>2, <1>4, <1>5, <1>6, <1>7, <1>8, <1>9, <1>10, <1>11

\* A file is put on the list.
LEMMA InsertKeeps ==
  ASSUME BusIInv, NEW f \in Files, Insert(f), UNCHANGED readerVars
  PROVE  BusIInv'
<1>. USE DEF Insert, FilesFree, lockVars
<1>. DEFINE list == FilesList  list2 == FilesList'
<1>1. /\ file \in [Files -> FileStates] /\ ReadLock \in [Files -> BOOLEAN]
      /\ calling \subseteq Files /\ torn \subseteq Files
      /\ list \in Seq(Files) /\ inside \in [Files -> SUBSET (Readers \cup {User})]
      /\ ReadBuffersQueued \in [Files -> 0..MaxQueued]
      /\ pending \in [Files -> {"none", "waiting", "answered", "twice"}] /\ available \in Nat
      /\ Len(list) \in Nat
  BY FileParts, LenProperties DEF BusIInv
<1>2. /\ file' \in [Files -> FileStates] /\ file[f] = "new" /\ file'[f] = "listed"
      /\ \A g \in Files \ {f} : file'[g] = file[g]
  BY <1>1 DEF FileStates
<1>3. /\ list2 \in Seq(Files) /\ Len(list2) = Len(list) + 1
      /\ \A i \in 1..Len(list) : list2[i] = list[i]
      /\ list2[Len(list) + 1] = f
  BY <1>1, AppendProperties
<1>4. /\ \A g \in Files, r \in Readers : r \notin inside[g]
      /\ \A p : Seen(p) = Len(sent) /\ Seen(p)' = Len(sent)
      /\ Ended(Len(sent)) /\ Len(sent) \in Nat
      /\ \A g \in Files : \A k : Logged(g, k)' <=> Logged(g, k)
      /\ \A i \in 0..Len(sent) : Ended(i)' <=> Ended(i)
      /\ HistoryTypes' /\ HolderOK' /\ SentOK'
  BY NobodyWalks
<1>5. \A i \in 1..Len(list2) : i \in 1..Len(list) \/ i = Len(list) + 1
  BY <1>1, <1>3
<1>6. \A i \in 1..Len(list) : i \in 1..Len(list2) /\ list[i] # f
  <2>1. ~Listed(f)
    BY <1>2 DEF BusIInv, ListOK
  <2>2. \A i \in 1..Len(list) : list[i] # f
    BY <2>1 DEF Listed
  <2>3. Len(list) \in Nat /\ Len(list2) = Len(list) + 1
    BY <1>1, <1>3
  <2>4. \A i \in 1..Len(list) : i \in 1..Len(list2)
    BY ONLY <2>3
  <2>. QED
    BY <2>2, <2>4
<1>7. Len(list) + 1 \in 1..Len(list2)
  BY <1>1, <1>3
<1>8. BusTypeOK'
  BY <1>1, <1>2, <1>3, FileTypes DEF BusIInv, queueVars
<1>. HIDE DEF list, list2
<1>9. ListOK'
  <2>1. \A g \in Files \ {f} : Listed(g)' <=> Listed(g)
    BY <1>3, <1>5, <1>6 DEF Listed, list, list2
  <2>2. Listed(f)'
    BY <1>3, <1>7 DEF Listed, list2
  <2>3. ASSUME NEW i \in 1..Len(list2), NEW j \in 1..Len(list2), list2[i] = list2[j]
        PROVE  i = j
    <3>1. \A a, b \in 1..Len(list) : list[a] = list[b] => a = b
      BY DEF BusIInv, ListOK, list
    <3>. QED
      BY <1>3, <1>5, <1>6, <2>3, <3>1
  <2>4. \A g \in Files : file'[g] \in OnList <=> Listed(g)'
    BY <1>2, <2>1, <2>2 DEF BusIInv, ListOK, OnList
  <2>. QED
    BY <2>3, <2>4 DEF ListOK, OnList, list2
<1>10. InsideOK'
  BY <1>2, <1>4 DEF BusIInv, InsideOK
<1>11. LogsOK'
  <2>1. Logged(f, Len(sent))
    <3>1. log[f] = <<>>
      BY <1>2 DEF BusIInv, LogsOK
    <3>2. Piece(log[f], Len(sent), Len(sent))
      BY <1>4, <3>1 DEF Piece
    <3>. QED
      BY <1>4, <3>2 DEF Logged
  <2>2. ASSUME NEW g \in Files, NEW p \in 1..Len(list2), list2[p] = g
        PROVE  Logged(g, Seen(p))'
    <3>1. CASE p \in 1..Len(list)
      <4>1. list[p] = g
        BY <1>3, <2>2, <3>1
      <4>2. Logged(g, Seen(p))
        BY <3>1, <4>1 DEF BusIInv, LogsOK, list
      <4>. QED
        BY <1>4, <4>2
    <3>2. CASE p = Len(list) + 1
      BY <1>3, <1>4, <2>1, <2>2, <3>2
    <3>. QED
      BY <1>5, <3>1, <3>2
  <2>3. sent' = sent /\ log' = log
    BY DEF readerVars
  <2>4. ASSUME NEW g \in Files, file'[g] \in {"removed", "gone"}
        PROVE  (\E k \in 0..Len(sent) : Ended(k) /\ Logged(g, k))'
    <3>1. PICK k \in 0..Len(sent) : Ended(k) /\ Logged(g, k)
      BY <1>2, <2>4 DEF BusIInv, LogsOK
    <3>. QED
      BY <1>4, <2>3, <3>1
  <2>5. \A g \in Files : file'[g] = "new" => log'[g] = <<>>
    BY <1>2, <2>3 DEF BusIInv, LogsOK
  <2>. QED
    BY <2>2, <2>4, <2>5 DEF LogsOK, list2
<1>12. NothingLeftBehind'
  BY <1>2, NothingMore DEF BusIInv
<1>. QED
  BY <1>4, <1>8, <1>9, <1>10, <1>11, <1>12 DEF BusIInv

\* A file is taken off the list.
LEMMA RemoveKeeps ==
  ASSUME BusIInv, NEW f \in Files, Remove(f), UNCHANGED readerVars
  PROVE  BusIInv'
<1>. USE DEF Remove, FilesFree, lockVars
<1>. DEFINE list == FilesList  list2 == FilesList'
<1>1. /\ file \in [Files -> FileStates] /\ ReadLock \in [Files -> BOOLEAN]
      /\ calling \subseteq Files /\ torn \subseteq Files
      /\ list \in Seq(Files) /\ inside \in [Files -> SUBSET (Readers \cup {User})]
      /\ ReadBuffersQueued \in [Files -> 0..MaxQueued]
      /\ pending \in [Files -> {"none", "waiting", "answered", "twice"}] /\ available \in Nat
      /\ Len(list) \in Nat
  BY FileParts, LenProperties DEF BusIInv
<1>2. /\ file' \in [Files -> FileStates] /\ file[f] = "cleanup" /\ file'[f] = "removed"
      /\ \A g \in Files \ {f} : file'[g] = file[g]
  BY <1>1 DEF FileStates
<1>3. PICK i \in 1..Len(list) : list[i] = f /\ list2 = Without(i)
  OBVIOUS
<1>4. /\ list2 \in Seq(Files) /\ Len(list2) = Len(list) - 1
      /\ \A j \in 1..Len(list2) : list2[j] = IF j < i THEN list[j] ELSE list[j + 1]
  BY <1>1, <1>3, RemovedEntry DEF Without
<1>5. /\ \A g \in Files, r \in Readers : r \notin inside[g]
      /\ \A p : Seen(p) = Len(sent) /\ Seen(p)' = Len(sent)
      /\ Ended(Len(sent)) /\ Len(sent) \in Nat
      /\ \A g \in Files : \A k : Logged(g, k)' <=> Logged(g, k)
      /\ \A j \in 0..Len(sent) : Ended(j)' <=> Ended(j)
      /\ HistoryTypes' /\ HolderOK' /\ SentOK'
  BY NobodyWalks
<1>6. BusTypeOK'
  BY <1>1, <1>2, <1>4, FileTypes DEF BusIInv, queueVars
<1>7. \A a, b \in 1..Len(list) : list[a] = list[b] => a = b
  BY DEF BusIInv, ListOK
<1>. HIDE DEF list, list2
<1>8. ASSUME NEW j \in 1..Len(list2)
      PROVE  /\ (IF j < i THEN j ELSE j + 1) \in 1..Len(list)
             /\ (IF j < i THEN j ELSE j + 1) # i
             /\ list2[j] = list[IF j < i THEN j ELSE j + 1]
  <2>1. CASE j < i
    BY <1>1, <1>3, <1>4, <2>1
  <2>2. CASE ~(j < i)
    BY <1>1, <1>3, <1>4, <2>2
  <2>. QED
    BY <2>1, <2>2
<1>9. ASSUME NEW a \in 1..Len(list), a # i
      PROVE  \E j \in 1..Len(list2) : list2[j] = list[a]
  <2>1. CASE a < i
    <3>1. a \in 1..Len(list2)
      BY <1>1, <1>4, <2>1
    <3>. QED
      BY <1>4, <2>1, <3>1
  <2>2. CASE a > i
    <3>1. a - 1 \in 1..Len(list2) /\ ~(a - 1 < i) /\ (a - 1) + 1 = a
      BY <1>1, <1>4, <2>2
    <3>. QED
      BY <1>4, <3>1
  <2>. QED
    BY <1>9, <2>1, <2>2
<1>10. ListOK'
  <2>1. ASSUME NEW g \in Files \ {f} PROVE Listed(g)' <=> Listed(g)
    <3>1. Listed(g)' => Listed(g)
      BY <1>8 DEF Listed, list, list2
    <3>2. Listed(g) => Listed(g)'
      BY <1>3, <1>9 DEF Listed, list, list2
    <3>. QED
      BY <3>1, <3>2
  <2>2. ~Listed(f)'
    <3>1. ASSUME NEW j \in 1..Len(list2), list2[j] = f PROVE FALSE
      BY <1>3, <1>7, <1>8, <3>1
    <3>. QED
      BY <3>1 DEF Listed, list2
  <2>3. ASSUME NEW a \in 1..Len(list2), NEW b \in 1..Len(list2), list2[a] = list2[b]
        PROVE  a = b
    <3>1. (IF a < i THEN a ELSE a + 1) = (IF b < i THEN b ELSE b + 1)
      BY <1>7, <1>8, <2>3
    <3>. QED
      BY <3>1
  <2>4. \A g \in Files : file'[g] \in OnList <=> Listed(g)'
    BY <1>2, <2>1, <2>2 DEF BusIInv, ListOK, OnList
  <2>. QED
    BY <2>3, <2>4 DEF ListOK, OnList, list2
<1>11. InsideOK'
  BY <1>2, <1>5 DEF BusIInv, InsideOK
<1>12. LogsOK'
  <2>1. ASSUME NEW a \in 1..Len(list) PROVE list[a] \in Files /\ Logged(list[a], Len(sent))
    <3>1. list[a] \in Files
      BY <1>1, ElementOfSeq
    <3>. QED
      BY <1>5, <3>1 DEF BusIInv, LogsOK, list
  <2>2. ASSUME NEW g \in Files, NEW p \in 1..Len(list2), list2[p] = g
        PROVE  Logged(g, Seen(p))'
    <3>1. Logged(g, Len(sent))
      BY <1>8, <2>1, <2>2
    <3>. QED
      BY <1>5, <3>1
  <2>3. sent' = sent /\ log' = log
    BY DEF readerVars
  <2>4. ASSUME NEW g \in Files, file'[g] \in {"removed", "gone"}
        PROVE  (\E k \in 0..Len(sent) : Ended(k) /\ Logged(g, k))'
    <3>1. PICK k \in 0..Len(sent) : Ended(k) /\ Logged(g, k)
      <4>1. CASE g = f
        BY <1>3, <1>5, <2>1, <4>1
      <4>2. CASE g # f
        BY <1>2, <2>4, <4>2 DEF BusIInv, LogsOK
      <4>. QED
        BY <4>1, <4>2
    <3>. QED
      BY <1>5, <2>3, <3>1
  <2>5. \A g \in Files : file'[g] = "new" => log'[g] = <<>>
    BY <1>2, <2>3 DEF BusIInv, LogsOK
  <2>. QED
    BY <2>2, <2>4, <2>5 DEF LogsOK, list2
<1>13. NothingLeftBehind'
  BY <1>2, NothingMore DEF BusIInv
<1>. QED
  BY <1>5, <1>6, <1>10, <1>11, <1>12, <1>13 DEF BusIInv

-----------------------------------------------------------------------------
(* The steps of a reader, outside the files.                                  *)

\* The types of readers, one by one.
LEMMA ReaderParts ==
  ASSUME BusIInv
  PROVE  /\ transfer \in [Readers -> Transfers] /\ sent \in Seq(Frames)
         /\ log \in [Files -> Seq(Frames)] /\ Len(sent) \in Nat
         /\ \A r \in Readers :
              /\ transfer[r].id \in Nat /\ transfer[r].at \in Nat
              /\ transfer[r].walked \in Nat
         /\ transfers \in Nat /\ MaxTransfers \in Nat /\ transfers <= MaxTransfers
         /\ FilesLock \in Readers \cup {Nobody} /\ Nobody \notin Readers /\ User \notin Readers
         /\ filesAvailable \in [Readers -> BOOLEAN] /\ FilesList \in Seq(Files)
         /\ Len(FilesList) \in Nat
<1>1. /\ transfer \in [Readers -> Transfers] /\ sent \in Seq(Frames)
      /\ log \in [Files -> Seq(Frames)]
  BY DEF BusIInv, HistoryTypes
<1>2. MaxTransfers \in Nat /\ Nobody \notin Readers /\ User \notin Readers
  BY BusAssumption
<1>3. \A r \in Readers :
        transfer[r].id \in Nat /\ transfer[r].at \in Nat /\ transfer[r].walked \in Nat
  BY <1>1, <1>2 DEF Transfers
<1>4. /\ FilesLock \in Readers \cup {Nobody} /\ filesAvailable \in [Readers -> BOOLEAN]
      /\ FilesList \in Seq(Files) /\ transfers \in 0..MaxTransfers
  BY FileParts DEF BusIInv
<1>5. Len(sent) \in Nat /\ Len(FilesList) \in Nat
  BY <1>1, <1>4, LenProperties
<1>. QED
  BY <1>1, <1>2, <1>3, <1>4, <1>5

\* What such a step keeps: files and queues.
LEMMA ReaderKeeps ==
  ASSUME BusIInv,
         UNCHANGED <<file, FilesList, lockVars, queueVars, pending, calling, log, torn, sent>>,
         FilesLock' \in Readers \cup {Nobody}, filesAvailable' \in [Readers -> BOOLEAN],
         transfers' \in 0..MaxTransfers, transfer' \in [Readers -> Transfers]
  PROVE  BusTypeOK' /\ HistoryTypes' /\ ListOK' /\ NothingLeftBehind'
<1>1. BusTypeOK'
  BY Zenon DEF BusIInv, BusTypeOK, lockVars, queueVars
<1>2. HistoryTypes' /\ ListOK'
  BY DEF BusIInv, HistoryTypes, ListOK, Listed
<1>3. NothingLeftBehind'
  BY NothingMore DEF BusIInv
<1>. QED
  BY <1>1, <1>2, <1>3

\* Logs are as good as before if transfers end where they did, and the walk is where
\* it was for every file on the list.
LEMMA LogsKept ==
  ASSUME LogsOK, UNCHANGED <<file, FilesList, log, sent>>,
         \A i \in 0..Len(sent) : Ended(i) => Ended(i)',
         \A p \in 1..Len(FilesList) : Seen(p)' = Seen(p)
  PROVE  LogsOK'
<1>1. ASSUME NEW f \in Files, NEW k, Logged(f, k) PROVE Logged(f, k)'
  BY <1>1 DEF Logged, Piece
<1>2. ASSUME NEW f \in Files, NEW p \in 1..Len(FilesList), FilesList[p] = f
      PROVE  Logged(f, Seen(p))'
  BY <1>1, <1>2 DEF LogsOK
<1>3. ASSUME NEW f \in Files, file[f] \in {"removed", "gone"}
      PROVE  (\E k \in 0..Len(sent) : Ended(k) /\ Logged(f, k))'
  BY <1>1, <1>3 DEF LogsOK
<1>. QED
  BY <1>2, <1>3 DEF LogsOK

\* A reader that is where no frame is broadcast is inside no file.
LEMMA NotInside ==
  ASSUME BusIInv, NEW r \in Readers, \A f \in Files : ~AtFile(r, f)
  PROVE  \A f \in Files : r \notin inside[f]
BY DEF BusIInv, InsideOK

\* The others are where they were.
LEMMA OthersInside ==
  ASSUME BusIInv, NEW r \in Readers, UNCHANGED <<file, lockVars, calling, torn, pending>>,
         \A f \in Files : r \notin inside[f],
         \A q \in Readers \ {r}, f \in Files : AtFile(q, f) => AtFile(q, f)'
  PROVE  InsideOK'
BY DEF BusIInv, InsideOK, lockVars

\* A transfer completes.
LEMMA CompletionKeeps ==
  ASSUME BusIInv, NEW r \in Readers, Completion(r)
  PROVE  BusIInv'
<1>. USE DEF Completion, fileVars, listVars
<1>1. /\ transfer \in [Readers -> Transfers] /\ sent \in Seq(Frames) /\ Len(sent) \in Nat
      /\ transfers \in Nat /\ MaxTransfers \in Nat
      /\ FilesLock \in Readers \cup {Nobody} /\ Nobody \notin Readers
      /\ filesAvailable \in [Readers -> BOOLEAN]
  BY ReaderParts
<1>2. PICK cmd \in Commands :
        transfer' = [transfer EXCEPT ![r] = [id |-> transfers + 1, at |-> 1, cmd |-> cmd, walked |-> 0]]
  OBVIOUS
<1>3. transfers' = transfers + 1 /\ transfers' \in 0..MaxTransfers
  BY <1>1
<1>4. [id |-> transfers + 1, at |-> 1, cmd |-> cmd, walked |-> 0] \in Transfers
  BY <1>1, <1>3 DEF Transfers
<1>5. /\ transfer' \in [Readers -> Transfers]
      /\ transfer'[r].id = transfers + 1 /\ transfer'[r].walked = 0
      /\ \A q \in Readers \ {r} : transfer'[q] = transfer[q]
  BY <1>1, <1>2, <1>4
<1>6. FilesLock # r /\ transfer[r] = Idle
  BY <1>1 DEF BusIInv, HolderOK
<1>7. BusTypeOK' /\ HistoryTypes' /\ ListOK' /\ NothingLeftBehind'
  BY <1>1, <1>3, <1>5, ReaderKeeps
<1>8. HolderOK'
  <2>1. FilesLock # Nobody => transfer'[FilesLock] # Idle
    BY <1>1, <1>5, <1>6 DEF BusIInv, HolderOK
  <2>. QED
    BY <1>5, <1>6, <2>1 DEF BusIInv, HolderOK, Handles
<1>9. InsideOK'
  <2>1. \A f \in Files : ~AtFile(r, f)
    BY <1>6 DEF AtFile
  <2>2. \A q \in Readers \ {r}, f \in Files : AtFile(q, f) => AtFile(q, f)'
    BY <1>5 DEF AtFile, Handles
  <2>. QED
    BY <2>1, <2>2, NotInside, OthersInside
<1>10. SentOK'
  <2>1. \A i \in 1..Len(sent) : sent[i][1] <= transfers /\ 1 <= sent[i][1] /\ sent[i][1] \in Nat
    <3>. SUFFICES ASSUME NEW i \in 1..Len(sent) PROVE sent[i][1] \in Nat
      BY DEF BusIInv, SentOK
    <3>1. sent[i] \in Frames
      BY <1>1, ElementOfSeq
    <3>. QED
      BY <3>1 DEF Frames
  <2>2. \A q \in Readers : transfer[q].id <= transfers /\ transfer[q].id \in Nat
    BY ReaderParts DEF BusIInv, SentOK
  <2>3. transfer'[r].id # 0
    BY <1>1, <1>5
  <2>4. \A i \in 1..Len(sent) : sent[i][1] # transfer'[r].id /\ sent[i][1] <= transfers'
    BY <1>1, <1>3, <1>5, <2>1
  <2>5. \A q \in Readers \ {r} : transfer'[q].id # transfer'[r].id /\ transfer'[q].id <= transfers'
    BY <1>1, <1>3, <1>5, <2>2
  <2>6. transfer'[r].id <= transfers'
    BY <1>1, <1>3, <1>5
  <2>. QED
    BY <1>5, <1>6, <2>1, <2>3, <2>4, <2>5, <2>6 DEF BusIInv, SentOK
<1>11. LogsOK'
  <2>1. \A i \in 0..Len(sent) : Ended(i) => Ended(i)'
    BY <1>5, <1>6 DEF Ended
  <2>2. \A p : Seen(p)' = Seen(p)
    BY <1>1, <1>5, <1>6 DEF Seen, Walked
  <2>. QED
    BY <2>1, <2>2, LogsKept DEF BusIInv
<1>. QED
  BY <1>7, <1>8, <1>9, <1>10, <1>11 DEF BusIInv

\* FilesLock is taken at the first frame.
LEMMA LockFilesKeeps ==
  ASSUME BusIInv, NEW r \in Readers, LockFiles(r)
  PROVE  BusIInv'
<1>. USE DEF LockFiles, NotYetLocked
<1>1. /\ transfer \in [Readers -> Transfers] /\ Len(sent) \in Nat
      /\ transfers \in 0..MaxTransfers /\ Nobody \notin Readers
      /\ filesAvailable \in [Readers -> BOOLEAN]
      /\ \A q \in Readers : transfer[q].walked \in Nat
  BY ReaderParts, FileParts DEF BusIInv
<1>2. /\ FilesLock' = r /\ filesAvailable' \in [Readers -> BOOLEAN]
      /\ filesAvailable'[r] <=> FilesList # <<>>
      /\ \A q \in Readers \ {r} : filesAvailable'[q] = filesAvailable[q]
  BY <1>1
<1>3. \A q \in Readers : ~filesAvailable[q] /\ ~(transfer[q].walked > 0)
  BY <1>1 DEF BusIInv, HolderOK
<1>4. transfer[r] # Idle
  BY DEF Handles, Idle
<1>5. BusTypeOK' /\ HistoryTypes' /\ ListOK' /\ NothingLeftBehind'
  BY <1>1, <1>2, ReaderKeeps
<1>6. HolderOK'
  BY <1>2, <1>3, <1>4 DEF HolderOK
<1>7. InsideOK'
  <2>1. \A q \in Readers, f \in Files : ~AtFile(q, f)
    BY <1>1 DEF AtFile
  <2>. QED
    BY <2>1, NotInside, OthersInside
<1>8. SentOK'
  BY <1>1, <1>2, <1>4 DEF BusIInv, SentOK
<1>9. LogsOK'
  <2>1. ASSUME NEW i \in 0..Len(sent), Ended(i) PROVE Ended(i)'
    <3>1. i = 0 \/ i \in 1..Len(sent)
      BY <1>1
    <3>2. i \in 1..Len(sent) => sent[i][1] # transfer[r].id
      BY <1>1, <1>4 DEF BusIInv, SentOK
    <3>. QED
      BY <1>2, <2>1, <3>1, <3>2 DEF Ended
  <2>2. \A p : Seen(p)' = Seen(p)
    BY <1>1, <1>2, <1>3 DEF Seen, Walked
  <2>. QED
    BY <2>1, <2>2, LogsKept DEF BusIInv
<1>. QED
  BY <1>5, <1>6, <1>7, <1>8, <1>9 DEF BusIInv

\* A reader goes on to its next message.
LEMMA NextMessageTypes ==
  ASSUME BusIInv, NEW r \in Readers, NextMessage(r)
  PROVE  /\ transfer' \in [Readers -> Transfers]
         /\ transfer'[r].id = transfer[r].id /\ transfer'[r].walked = 0
         /\ transfer'[r] # Idle
         /\ \A q \in Readers \ {r} : transfer'[q] = transfer[q]
<1>1. /\ transfer \in [Readers -> Transfers] /\ transfer[r].at \in Nat
  BY ReaderParts
<1>2. PICK cmd \in Commands \cup {"end"} :
        transfer' = [transfer EXCEPT ![r].at = @ + 1, ![r].cmd = cmd, ![r].walked = 0]
  BY DEF NextMessage, CommandsAfter
<1>. DEFINE next == [transfer[r] EXCEPT !.at = @ + 1, !.cmd = cmd, !.walked = 0]
<1>3. transfer' = [transfer EXCEPT ![r] = next]
  BY <1>1, <1>2, Zenon
<1>4. /\ next \in Transfers
      /\ next.id = transfer[r].id /\ next.at = transfer[r].at + 1 /\ next.walked = 0
  <2>. DEFINE a == [transfer[r] EXCEPT !.at = @ + 1]  b == [a EXCEPT !.cmd = cmd]
              c == [b EXCEPT !.walked = 0]
  <2>1. transfer[r] \in Transfers /\ transfer[r].at + 1 \in Nat
    BY <1>1
  <2>2. a \in Transfers /\ a.id = transfer[r].id /\ a.at = transfer[r].at + 1
    BY <2>1 DEF Transfers
  <2>. HIDE DEF a
  <2>3. b \in Transfers /\ b.id = a.id /\ b.at = a.at
    BY <2>2 DEF Transfers
  <2>. HIDE DEF b
  <2>4. c \in Transfers /\ c.id = b.id /\ c.at = b.at /\ c.walked = 0
    BY <2>3 DEF Transfers
  <2>5. next = c
    BY DEF a, b
  <2>. QED
    BY <2>2, <2>3, <2>4, <2>5
<1>. HIDE DEF next
<1>5. next # Idle
  BY <1>1, <1>4 DEF Idle
<1>. QED
  BY <1>1, <1>3, <1>4, <1>5

\* What going on keeps, if r is not broadcasting or is at the end of the list.
LEMMA NextMessageKeeps ==
  ASSUME BusIInv, NEW r \in Readers, NextMessage(r), transfer[r] # Idle,
         UNCHANGED <<fileVars, filesAvailable, transfers, sent>>,
         \A f \in Files : ~AtFile(r, f),
         \/ transfer[r].walked = 0
         \/ FilesLock = r /\ transfer[r].walked = Len(FilesList)
  PROVE  BusIInv'
<1>. USE DEF fileVars, listVars
<1>1. /\ Len(sent) \in Nat /\ Len(FilesList) \in Nat /\ Nobody \notin Readers
      /\ FilesLock \in Readers \cup {Nobody} /\ filesAvailable \in [Readers -> BOOLEAN]
      /\ \A q \in Readers : transfer[q].walked \in Nat
      /\ transfers \in 0..MaxTransfers
  BY ReaderParts, FileParts DEF BusIInv
<1>2. /\ transfer' \in [Readers -> Transfers]
      /\ transfer'[r].id = transfer[r].id /\ transfer'[r].walked = 0
      /\ transfer'[r] # Idle
      /\ \A q \in Readers \ {r} : transfer'[q] = transfer[q]
  BY NextMessageTypes
<1>3. BusTypeOK' /\ HistoryTypes' /\ ListOK' /\ NothingLeftBehind'
  BY <1>1, <1>2, ReaderKeeps
<1>4. HolderOK'
  <2>1. FilesLock # Nobody => transfer'[FilesLock] # Idle
    BY <1>1, <1>2 DEF BusIInv, HolderOK
  <2>. QED
    BY <1>2, <2>1 DEF BusIInv, HolderOK, Handles
<1>5. InsideOK'
  <2>1. \A q \in Readers \ {r}, f \in Files : AtFile(q, f) => AtFile(q, f)'
    BY <1>2 DEF AtFile, Handles
  <2>. QED
    BY <2>1, NotInside, OthersInside
<1>6. SentOK'
  BY <1>2 DEF BusIInv, SentOK
<1>7. LogsOK'
  <2>1. \A q \in Readers : transfer'[q].id = transfer[q].id
    BY <1>2
  <2>2. \A i \in 0..Len(sent) : Ended(i) => Ended(i)'
    BY <2>1 DEF Ended
  <2>3. ASSUME NEW p \in 1..Len(FilesList) PROVE Seen(p)' = Seen(p)
    <3>1. CASE FilesLock = r
      BY <1>1, <1>2, <3>1 DEF Seen, Walked
    <3>2. CASE FilesLock # r
      BY <1>1, <1>2, <3>2 DEF Seen, Walked
    <3>. QED
      BY <3>1, <3>2
  <2>. QED
    BY <2>2, <2>3, LogsKept DEF BusIInv
<1>. QED
  BY <1>3, <1>4, <1>5, <1>6, <1>7 DEF BusIInv

\* Every file has the frame.
LEMMA EndOfListKeeps ==
  ASSUME BusIInv, NEW r \in Readers, EndOfList(r)
  PROVE  BusIInv'
<1>. USE DEF EndOfList, KeptForNext
<1>1. transfer[r] # Idle /\ UNCHANGED <<fileVars, filesAvailable, transfers, sent>>
  BY DEF Handles, Idle, fileVars, listVars
<1>2. \A f \in Files : ~AtFile(r, f)
  BY ReaderParts DEF AtFile
<1>3. transfer[r].walked = 0 \/ transfer[r].walked = Len(FilesList)
  <2>1. CASE filesAvailable[r]
    BY <2>1
  <2>2. CASE ~filesAvailable[r]
    <3>1. FilesList = <<>>
      BY <2>2 DEF BusIInv, HolderOK
    <3>. QED
      BY <3>1, ReaderParts DEF BusIInv, HolderOK
  <2>. QED
    BY <2>1, <2>2
<1>. QED
  BY <1>1, <1>2, <1>3, NextMessageKeeps

\* A message that is no frame.
LEMMA NoFrameKeeps ==
  ASSUME BusIInv, NEW r \in Readers, NoFrame(r)
  PROVE  BusIInv'
<1>. USE DEF NoFrame
<1>1. transfer[r] # Idle /\ ~Handles(r, "RECEIVE_MESSAGE")
  BY DEF Handles, Idle
<1>2. \A f \in Files : ~AtFile(r, f)
  BY <1>1 DEF AtFile
<1>3. transfer[r].walked = 0
  BY <1>1, ReaderParts DEF BusIInv, HolderOK
<1>. QED
  BY <1>1, <1>2, <1>3, NextMessageKeeps

\* The routine returns.
LEMMA ReturnKeeps ==
  ASSUME BusIInv, NEW r \in Readers, Return(r)
  PROVE  BusIInv'
<1>. USE DEF Return, ReleasedIfLocked
<1>1. /\ transfer \in [Readers -> Transfers] /\ Len(sent) \in Nat /\ Nobody \notin Readers
      /\ FilesLock \in Readers \cup {Nobody} /\ filesAvailable \in [Readers -> BOOLEAN]
      /\ \A q \in Readers : transfer[q].walked \in Nat
      /\ transfers \in 0..MaxTransfers /\ transfers \in Nat /\ MaxTransfers \in Nat
  BY ReaderParts, FileParts DEF BusIInv
<1>2. Idle \in Transfers
  BY <1>1 DEF Idle, Transfers, Commands
<1>3. /\ transfer' \in [Readers -> Transfers] /\ transfer'[r] = Idle
      /\ \A q \in Readers \ {r} : transfer'[q] = transfer[q]
      /\ filesAvailable' \in [Readers -> BOOLEAN] /\ ~filesAvailable'[r]
      /\ \A q \in Readers \ {r} : filesAvailable'[q] = filesAvailable[q]
  BY <1>1, <1>2
<1>4. FilesLock' \in Readers \cup {Nobody} /\ FilesLock' # r
      /\ \A q \in Readers \ {r} : FilesLock' = q <=> FilesLock = q
  BY <1>1
<1>5. BusTypeOK' /\ HistoryTypes' /\ ListOK' /\ NothingLeftBehind'
  BY <1>1, <1>3, <1>4, ReaderKeeps
<1>6. ~Handles(r, "RECEIVE_MESSAGE") /\ transfer[r] # Idle
  BY DEF Handles
<1>7. ~(transfer[r].walked > 0) /\ transfer[r].walked = 0
  BY <1>1, <1>6 DEF BusIInv, HolderOK
<1>8. HolderOK'
  <2>1. FilesLock' # Nobody => transfer'[FilesLock'] # Idle
    BY <1>1, <1>3, <1>4 DEF BusIInv, HolderOK
  <2>2. ~(transfer'[r].walked > 0)
    BY <1>3 DEF Idle
  <2>. QED
    BY <1>3, <1>4, <2>1, <2>2 DEF BusIInv, HolderOK, Handles
<1>9. InsideOK'
  <2>1. \A f \in Files : ~AtFile(r, f)
    BY <1>6 DEF AtFile
  <2>2. \A q \in Readers \ {r}, f \in Files : AtFile(q, f) => AtFile(q, f)'
    BY <1>3, <1>4 DEF AtFile, Handles
  <2>. QED
    BY <2>1, <2>2, NotInside, OthersInside
<1>10. SentOK'
  <2>1. transfer'[r].id = 0 /\ 0 <= transfers
    BY <1>1, <1>3 DEF Idle
  <2>. QED
    BY <1>3, <1>4, <2>1 DEF BusIInv, SentOK
<1>11. LogsOK'
  <2>1. \A i \in 0..Len(sent) : Ended(i) => Ended(i)'
    BY <1>3, <1>4 DEF Ended
  <2>2. ASSUME NEW p PROVE Seen(p)' = Seen(p)
    BY <1>1, <1>3, <1>4, <1>7 DEF Seen, Walked
  <2>. QED
    BY <2>1, <2>2, LogsKept DEF BusIInv
<1>. QED
  BY <1>5, <1>8, <1>9, <1>10, <1>11 DEF BusIInv

-----------------------------------------------------------------------------
(* The steps of a reader at a file.                                           *)

\* It takes the file's ReadLock.
LEMMA EnterKeeps ==
  ASSUME BusIInv, NEW r \in Readers, NEW f \in Files, Enter(r, f)
  PROVE  BusIInv'
<1>. USE DEF Enter, EnterFile, Acquire, listVars
<1>1. /\ file \in [Files -> FileStates] /\ ReadLock \in [Files -> BOOLEAN]
      /\ calling \subseteq Files /\ torn \subseteq Files
      /\ FilesList \in Seq(Files) /\ inside \in [Files -> SUBSET (Readers \cup {User})]
      /\ ReadBuffersQueued \in [Files -> 0..MaxQueued]
      /\ pending \in [Files -> {"none", "waiting", "answered", "twice"}] /\ available \in Nat
  BY FileParts DEF BusIInv
<1>2. /\ ReadLock' \in [Files -> BOOLEAN] /\ inside' \in [Files -> SUBSET (Readers \cup {User})]
      /\ ReadLock'[f] = TRUE /\ inside'[f] = inside[f] \cup {r}
      /\ \A g \in Files \ {f} : ReadLock'[g] = ReadLock[g] /\ inside'[g] = inside[g]
  BY <1>1
<1>3. BusTypeOK'
  BY <1>1, <1>2, FileTypes DEF BusIInv, queueVars
<1>4. HistoryTypes' /\ ListOK' /\ HolderOK' /\ SentOK' /\ LogsOK'
  BY FileKeeps
<1>5. InsideOK'
  <2>1. \A q \in Readers, g \in Files : AtFile(q, g)' <=> AtFile(q, g)
    BY WalkKept
  <2>2. r # User
    BY BusAssumption
  <2>3. f \notin torn => inside[f] = {}
    BY DEF BusIInv, InsideOK
  <2>. QED
    BY <1>2, <2>1, <2>2, <2>3 DEF BusIInv, InsideOK
<1>6. NothingLeftBehind'
  BY NothingMore DEF BusIInv
<1>. QED
  BY <1>3, <1>4, <1>5, <1>6 DEF BusIInv

\* What McbaAddCanMessageToFileReadQueue does to one file, and to the items.
LEMMA AddChanges ==
  ASSUME BusTypeOK, NEW f \in Files, AddToFile(f)
  PROVE  /\ pending' \in [Files -> {"none", "waiting", "answered", "twice"}]
         /\ (pending'[f] = "waiting" => pending[f] = "waiting")
         /\ \A g \in Files \ {f} : pending'[g] = pending[g]
         /\ available' \in Nat /\ pages' \in 1..MaxPages
         /\ ReadBuffersQueued' \in [Files -> 0..MaxQueued]
         /\ \/ UNCHANGED queueVars
            \/ /\ ReadBuffersQueued[f] + 1 \in 0..MaxQueued
               /\ ReadBuffersQueued' = [ReadBuffersQueued EXCEPT ![f] = ReadBuffersQueued[f] + 1]
               /\ available' - pages' * PageItems = available - pages * PageItems - 1
<1>1. /\ ReadBuffersQueued \in [Files -> 0..MaxQueued]
      /\ pending \in [Files -> {"none", "waiting", "answered", "twice"}]
      /\ available \in Nat /\ pages \in Nat /\ pages \in 1..MaxPages
      /\ MaxQueued \in Nat /\ MaxPages \in Nat /\ PageItems \in Nat \ {0}
  BY FileParts, FilesAssumption
<1>2. /\ pending' \in [Files -> {"none", "waiting", "answered", "twice"}]
      /\ pending'[f] = "waiting" => pending[f] = "waiting"
      /\ \A g \in Files \ {f} : pending'[g] = pending[g]
  <2>1. CASE HasPending(f)
    <3>1. PICK read \in AfterFrame(pending[f]) : pending' = [pending EXCEPT ![f] = read]
      BY <2>1 DEF AddToFile
    <3>2. /\ read \in {"none", "waiting", "answered", "twice"}
          /\ read = "waiting" => pending[f] = "waiting"
      BY <3>1 DEF AfterFrame
    <3>. QED
      BY <1>1, <3>1, <3>2
  <2>2. CASE ~HasPending(f)
    BY <1>1, <2>2 DEF AddToFile
  <2>. QED
    BY <2>1, <2>2
<1>3. (pages + 1) * PageItems = pages * PageItems + PageItems /\ pages * PageItems \in Nat
  BY <1>1
<1>4. CASE UNCHANGED queueVars
  BY <1>1, <1>2, <1>4 DEF queueVars
<1>5. CASE /\ HasRoom(f) /\ available > 0
           /\ ReadBuffersQueued' = [ReadBuffersQueued EXCEPT ![f] = @ + 1]
           /\ available' = available - 1
           /\ UNCHANGED pages
  <2>1. ReadBuffersQueued[f] + 1 \in 0..MaxQueued /\ available' \in Nat
    BY <1>1, <1>5 DEF HasRoom
  <2>2. available' - pages' * PageItems = available - pages * PageItems - 1
    BY <1>1, <1>3, <1>5
  <2>. QED
    BY <1>1, <1>2, <1>5, <2>1, <2>2
<1>6. CASE /\ HasRoom(f) /\ available = 0 /\ pages < MaxPages
           /\ ReadBuffersQueued' = [ReadBuffersQueued EXCEPT ![f] = @ + 1]
           /\ available' = available + PageItems - 1
           /\ pages' = pages + 1
  <2>1. /\ ReadBuffersQueued[f] + 1 \in 0..MaxQueued
        /\ available' \in Nat /\ pages' \in 1..MaxPages
    BY <1>1, <1>6 DEF HasRoom
  <2>2. available' - pages' * PageItems = available - pages * PageItems - 1
    BY <1>1, <1>3, <1>6
  <2>. QED
    BY <1>1, <1>2, <1>6, <2>1, <2>2
<1>. QED
  BY <1>4, <1>5, <1>6 DEF AddToFile

\* The frame that r gives to f, and the frames sent when it has done so.
LEMMA LeaveParts ==
  ASSUME BusIInv, NEW r \in Readers, NEW f \in Files, Leave(r, f)
  PROVE  /\ transfer' \in [Readers -> Transfers]
         /\ transfer'[r].id = transfer[r].id /\ transfer'[r].at = transfer[r].at
         /\ transfer'[r].cmd = transfer[r].cmd
         /\ transfer'[r].walked = transfer[r].walked + 1
         /\ \A q \in Readers \ {r} : transfer'[q] = transfer[q]
         /\ sent' \in Seq(Frames)
         /\ Len(sent') = Seen(transfer[r].walked + 1) + 1
         /\ sent'[Len(sent')] = <<transfer[r].id, transfer[r].at>>
         /\ \A i \in 1..Len(sent) : sent'[i] = sent[i]
         /\ transfer[r].walked = 0 => Len(sent') = Len(sent) + 1
         /\ transfer[r].walked > 0 => sent' = sent
         /\ FilesLock = r /\ FilesLock' = r /\ Walked = transfer[r].walked
         /\ Walked' = transfer[r].walked + 1
<1>1. /\ transfer \in [Readers -> Transfers] /\ sent \in Seq(Frames) /\ Len(sent) \in Nat
      /\ transfer[r].id \in Nat /\ transfer[r].at \in Nat /\ transfer[r].walked \in Nat
      /\ Nobody \notin Readers
  BY ReaderParts
<1>2. FilesLock = r /\ FilesLock' = r
  BY DEF Leave, LeaveFile, AtFile, listVars
<1>3. /\ transfer' \in [Readers -> Transfers]
      /\ transfer'[r].id = transfer[r].id /\ transfer'[r].at = transfer[r].at
      /\ transfer'[r].cmd = transfer[r].cmd
      /\ transfer'[r].walked = transfer[r].walked + 1
      /\ \A q \in Readers \ {r} : transfer'[q] = transfer[q]
  <2>. DEFINE next == [transfer[r] EXCEPT !.walked = @ + 1]
  <2>1. transfer' = [transfer EXCEPT ![r] = next]
    BY <1>1 DEF Leave
  <2>2. transfer[r] \in Transfers /\ transfer[r].walked + 1 \in Nat
    BY <1>1
  <2>3. /\ next \in Transfers /\ next.id = transfer[r].id /\ next.at = transfer[r].at
        /\ next.cmd = transfer[r].cmd /\ next.walked = transfer[r].walked + 1
    BY <2>2 DEF Transfers
  <2>. HIDE DEF next
  <2>. QED
    BY <1>1, <2>1, <2>3
<1>4. Walked = transfer[r].walked /\ Walked' = transfer[r].walked + 1
  BY <1>1, <1>2, <1>3 DEF Walked
<1>5. CASE transfer[r].walked = 0
  <2>1. <<transfer[r].id, transfer[r].at>> \in Frames
    BY <1>1 DEF Frames
  <2>2. sent' = Append(sent, <<transfer[r].id, transfer[r].at>>)
    BY <1>5 DEF Leave
  <2>3. /\ sent' \in Seq(Frames) /\ Len(sent') = Len(sent) + 1
        /\ \A i \in 1..Len(sent) : sent'[i] = sent[i]
        /\ sent'[Len(sent) + 1] = <<transfer[r].id, transfer[r].at>>
    BY <1>1, <2>1, <2>2, AppendProperties
  <2>4. Seen(transfer[r].walked + 1) = Len(sent)
    BY <1>4, <1>5 DEF Seen
  <2>5. Len(sent') = Seen(transfer[r].walked + 1) + 1
    BY <2>3, <2>4
  <2>6. sent'[Len(sent')] = <<transfer[r].id, transfer[r].at>>
    BY <2>3
  <2>7. ~(transfer[r].walked > 0)
    BY <1>5
  <2>. QED
    BY <1>2, <1>3, <1>4, <2>3, <2>5, <2>6, <2>7, Zenon
<1>6. CASE transfer[r].walked > 0
  <2>1. sent' = sent
    BY <1>6 DEF Leave
  <2>2. sent # <<>> /\ sent[Len(sent)] = <<transfer[r].id, transfer[r].at>>
    BY <1>6 DEF BusIInv, HolderOK
  <2>3. Seen(transfer[r].walked + 1) = Len(sent) - 1
    BY <1>1, <1>4, <1>6 DEF Seen
  <2>4. sent' \in Seq(Frames) /\ \A i \in 1..Len(sent) : sent'[i] = sent[i]
    BY <1>1, <2>1
  <2>5. Len(sent') = Seen(transfer[r].walked + 1) + 1
    BY <1>1, <2>1, <2>3
  <2>6. sent'[Len(sent')] = <<transfer[r].id, transfer[r].at>>
    BY <2>1, <2>2
  <2>7. ~(transfer[r].walked = 0)
    BY <1>6
  <2>. QED
    BY <1>2, <1>3, <1>4, <2>1, <2>4, <2>5, <2>6, <2>7, Zenon
<1>. QED
  <2>1. transfer[r].walked = 0 \/ transfer[r].walked > 0
    BY <1>1
  <2>. QED
    BY <1>5, <1>6, <2>1

\* What else it does: f's queue and lock, and the frame in f's log.
LEMMA LeaveFileParts ==
  ASSUME BusIInv, NEW r \in Readers, NEW f \in Files, Leave(r, f)
  PROVE  /\ UNCHANGED <<file, FilesList, FilesLock, calling, torn, filesAvailable, transfers>>
         /\ transfer[r].walked + 1 \in 1..Len(FilesList)
         /\ FilesList[transfer[r].walked + 1] = f
         /\ Handles(r, "RECEIVE_MESSAGE") /\ transfer[r] # Idle /\ r \in inside[f]
         /\ file[f] \in OnList
         /\ ReadLock' \in [Files -> BOOLEAN] /\ inside' \in [Files -> SUBSET (Readers \cup {User})]
         /\ ~ReadLock'[f] /\ inside'[f] = inside[f] \ {r}
         /\ \A g \in Files \ {f} : ReadLock'[g] = ReadLock[g] /\ inside'[g] = inside[g]
         /\ log' \in [Files -> Seq(Frames)]
         /\ log'[f] = Append(log[f], <<transfer[r].id, transfer[r].at>>)
         /\ \A g \in Files \ {f} : log'[g] = log[g]
<1>1. UNCHANGED <<file, FilesList, FilesLock, calling, torn, filesAvailable, transfers>>
  BY DEF Leave, LeaveFile, listVars
<1>2. transfer[r].walked \in Nat /\ Len(FilesList) \in Nat
  BY ReaderParts
<1>3. /\ transfer[r].walked + 1 \in 1..Len(FilesList)
      /\ FilesList[transfer[r].walked + 1] = f
      /\ Handles(r, "RECEIVE_MESSAGE") /\ r \in inside[f]
  BY <1>2 DEF Leave, AtFile
<1>4. transfer[r] # Idle
  BY <1>3 DEF Handles, Idle
<1>5. file[f] \in OnList
  BY <1>3 DEF BusIInv, ListOK, Listed, OnList
<1>6. /\ ReadLock \in [Files -> BOOLEAN] /\ inside \in [Files -> SUBSET (Readers \cup {User})]
  BY FileParts DEF BusIInv
<1>7. /\ ReadLock' \in [Files -> BOOLEAN] /\ inside' \in [Files -> SUBSET (Readers \cup {User})]
      /\ ~ReadLock'[f] /\ inside'[f] = inside[f] \ {r}
      /\ \A g \in Files \ {f} : ReadLock'[g] = ReadLock[g] /\ inside'[g] = inside[g]
  BY <1>6 DEF Leave, LeaveFile, Unlock
<1>8. /\ log' \in [Files -> Seq(Frames)]
      /\ log'[f] = Append(log[f], <<transfer[r].id, transfer[r].at>>)
      /\ \A g \in Files \ {f} : log'[g] = log[g]
  <2>1. <<transfer[r].id, transfer[r].at>> \in Frames
    BY ReaderParts DEF Frames
  <2>2. log \in [Files -> Seq(Frames)] /\ log[f] \in Seq(Frames)
    BY ReaderParts
  <2>3. Append(log[f], <<transfer[r].id, transfer[r].at>>) \in Seq(Frames)
    BY <2>1, <2>2, AppendProperties
  <2>4. log' = [log EXCEPT ![f] = Append(log[f], <<transfer[r].id, transfer[r].at>>)]
    BY DEF Leave, LeaveFile
  <2>. QED
    BY <2>2, <2>3, <2>4
<1>. QED
  BY <1>1, <1>3, <1>4, <1>5, <1>7, <1>8

\* The holder's frame is on its way, and in one piece with those of its transfer.
LEMMA LeaveSent ==
  ASSUME BusIInv, NEW r \in Readers, NEW f \in Files, Leave(r, f)
  PROVE  HolderOK' /\ SentOK'
<1>1. /\ UNCHANGED <<FilesList, FilesLock, filesAvailable, transfers>>
      /\ transfer[r].walked + 1 \in 1..Len(FilesList)
      /\ Handles(r, "RECEIVE_MESSAGE") /\ transfer[r] # Idle
  BY LeaveFileParts
<1>2. /\ transfer'[r].id = transfer[r].id /\ transfer'[r].at = transfer[r].at
      /\ transfer'[r].cmd = transfer[r].cmd /\ transfer'[r].walked = transfer[r].walked + 1
      /\ \A q \in Readers \ {r} : transfer'[q] = transfer[q]
      /\ sent' \in Seq(Frames) /\ sent'[Len(sent')] = <<transfer[r].id, transfer[r].at>>
      /\ \A i \in 1..Len(sent) : sent'[i] = sent[i]
      /\ transfer[r].walked = 0 => Len(sent') = Len(sent) + 1
      /\ transfer[r].walked > 0 => sent' = sent
      /\ FilesLock = r
  BY LeaveParts
<1>3. /\ Len(sent) \in Nat /\ transfer[r].walked \in Nat /\ transfer[r].id \in Nat
      /\ Len(FilesList) \in Nat /\ transfers \in Nat /\ Nobody \notin Readers
  BY ReaderParts
<1>4. transfer'[r] # Idle /\ Len(sent') # 0 /\ sent' # <<>>
  <2>1. transfer'[r].walked # 0
    BY <1>2, <1>3
  <2>2. Len(sent') # 0 /\ sent' # <<>>
    BY <1>2, <1>3, LenProperties, EmptySeq DEF BusIInv, HolderOK
  <2>. QED
    BY <2>1, <2>2 DEF Idle
<1>5. HolderOK'
  <2>1. \A q \in Readers \ {r} : ~(transfer[q].walked > 0)
    BY <1>2 DEF BusIInv, HolderOK
  <2>2. transfer'[r].walked <= Len(FilesList) /\ Handles(r, "RECEIVE_MESSAGE")'
    BY <1>1, <1>2, <1>3 DEF Handles
  <2>3. \A q \in Readers :
          (filesAvailable[q] => FilesLock = q) /\ (FilesLock = q => (filesAvailable[q] <=> FilesList # <<>>))
    BY DEF BusIInv, HolderOK
  <2>4. sent'[Len(sent')] = <<transfer'[r].id, transfer'[r].at>>
    BY <1>2
  <2>5. FilesLock' = r
    BY <1>1, <1>2
  <2>6. ASSUME NEW q \in Readers
        PROVE  /\ filesAvailable'[q] => FilesLock' = q
               /\ FilesLock' = q => (filesAvailable'[q] <=> FilesList' # <<>>)
               /\ transfer'[q].walked > 0 =>
                    /\ FilesLock' = q /\ Handles(q, "RECEIVE_MESSAGE")'
                    /\ transfer'[q].walked <= Len(FilesList')
                    /\ sent' # <<>> /\ sent'[Len(sent')] = <<transfer'[q].id, transfer'[q].at>>
    <3>1. CASE q = r
      BY <1>1, <1>4, <2>2, <2>3, <2>4, <2>5, <3>1
    <3>2. CASE q # r
      BY <1>1, <1>2, <2>1, <2>3, <3>2
    <3>. QED
      BY <3>1, <3>2
  <2>7. transfer'[FilesLock'] # Idle
    BY <1>4, <2>5
  <2>. QED
    BY <2>6, <2>7, Zenon DEF HolderOK
<1>6. SentOK'
  <2>1. \A q \in Readers : transfer'[q].id = transfer[q].id /\ (transfer'[q] = Idle <=> transfer[q] = Idle)
    BY <1>1, <1>2, <1>4
  <2>2. CASE transfer[r].walked > 0
    BY <1>1, <1>2, <2>1, <2>2 DEF BusIInv, SentOK
  <2>3. CASE transfer[r].walked = 0
    <3>1. Len(sent') = Len(sent) + 1 /\ sent'[Len(sent) + 1][1] = transfer[r].id
      BY <1>2, <2>3
    <3>2. 1 <= transfer[r].id /\ transfer[r].id <= transfers
      BY <1>1, <1>3 DEF BusIInv, SentOK
    <3>3. \A i \in 1..Len(sent') : i \in 1..Len(sent) \/ i = Len(sent) + 1
      BY <1>3, <3>1
    <3>4. \A i \in 1..Len(sent') : 1 <= sent'[i][1] /\ sent'[i][1] <= transfers
      BY <1>2, <3>1, <3>2, <3>3 DEF BusIInv, SentOK
    <3>5. \A q \in Readers : q # r /\ transfer[q] # Idle =>
            \A i \in 1..Len(sent') : sent'[i][1] # transfer[q].id
      BY <1>1, <1>2, <3>1, <3>3 DEF BusIInv, SentOK
    <3>6. ASSUME NEW i \in 1..Len(sent'), NEW j \in 1..Len(sent'), NEW k \in 1..Len(sent'),
                 i <= j, j <= k, sent'[i][1] = sent'[k][1]
          PROVE  sent'[j][1] = sent'[i][1]
      <4>1. CASE k \in 1..Len(sent)
        <5>1. i \in 1..Len(sent) /\ j \in 1..Len(sent)
          BY <1>3, <3>6, <4>1
        <5>. QED
          BY <1>2, <3>6, <4>1, <5>1 DEF BusIInv, SentOK
      <4>2. CASE k = Len(sent) + 1 /\ j \in 1..Len(sent)
        <5>1. i \in 1..Len(sent) /\ Len(sent) \in 1..Len(sent) /\ j <= Len(sent)
          BY <1>3, <3>6, <4>2
        <5>2. sent[i][1] = transfer[r].id
          BY <1>2, <3>1, <3>6, <4>2, <5>1
        <5>3. sent[Len(sent)][1] = transfer[r].id
          BY <1>2, <5>1, <5>2 DEF BusIInv, SentOK
        <5>4. sent[j][1] = sent[i][1]
          BY <3>6, <4>2, <5>1, <5>2, <5>3 DEF BusIInv, SentOK
        <5>. QED
          BY <1>2, <4>2, <5>1, <5>4
      <4>3. CASE k = Len(sent) + 1 /\ j = Len(sent) + 1
        BY <3>6, <4>3
      <4>. QED
        BY <3>3, <4>1, <4>2, <4>3
    <3>7. FilesLock' = r /\ sent'[Len(sent')][1] = transfer'[r].id
      BY <1>1, <1>2
    <3>8. ASSUME NEW q \in Readers
          PROVE  /\ transfer'[q].id <= transfers'
                 /\ transfer'[q].id = 0 => transfer'[q] = Idle
                 /\ \A p \in Readers : q # p /\ transfer'[q] # Idle => transfer'[q].id # transfer'[p].id
                 /\ transfer'[q] # Idle /\ FilesLock' # q =>
                      \A i \in 1..Len(sent') : sent'[i][1] # transfer'[q].id
                 /\ FilesLock' = q => sent'[Len(sent')][1] = transfer'[q].id
      <4>1. /\ transfer'[q].id <= transfers'
            /\ transfer'[q].id = 0 => transfer'[q] = Idle
            /\ \A p \in Readers : q # p /\ transfer'[q] # Idle => transfer'[q].id # transfer'[p].id
        BY <1>1, <2>1 DEF BusIInv, SentOK
      <4>2. transfer'[q] # Idle /\ FilesLock' # q =>
              \A i \in 1..Len(sent') : sent'[i][1] # transfer'[q].id
        BY <2>1, <3>5, <3>7
      <4>. QED
        BY <3>7, <4>1, <4>2
    <3>9. transfers' = transfers
      BY <1>1
    <3>. QED
      BY <3>4, <3>6, <3>8, <3>9 DEF SentOK
  <2>. QED
    BY <1>3, <2>2, <2>3
<1>. QED
  BY <1>5, <1>6

\* Only r was inside the files, and it is in none any more.
LEMMA LeaveInside ==
  ASSUME BusIInv, NEW r \in Readers, NEW f \in Files, Leave(r, f)
  PROVE  InsideOK'
<1>1. /\ UNCHANGED <<file, calling, torn>> /\ FilesList[transfer[r].walked + 1] = f
      /\ ~ReadLock'[f] /\ inside'[f] = inside[f] \ {r} /\ r \in inside[f]
      /\ \A g \in Files \ {f} : ReadLock'[g] = ReadLock[g] /\ inside'[g] = inside[g]
  BY LeaveFileParts
<1>2. FilesLock = r /\ r # User
  BY LeaveParts, BusAssumption
<1>3. /\ pending'[f] = "waiting" => pending[f] = "waiting"
      /\ \A g \in Files \ {f} : pending'[g] = pending[g]
  BY AddChanges DEF BusIInv, Leave, LeaveFile
<1>4. \A q \in Readers, g \in Files : q \in inside[g] => q = r /\ g = f
  BY <1>1, <1>2 DEF BusIInv, InsideOK, AtFile
<1>5. \A q \in Readers, g \in Files : q \notin inside'[g]
  BY <1>1, <1>4
<1>6. f \notin torn => inside'[f] = {}
  BY <1>1 DEF BusIInv, InsideOK
<1>7. ASSUME NEW g \in Files
      PROVE  /\ User \in inside'[g] => g \in calling'
             /\ g \in calling' => file'[g] \notin {"new", "listed"}
             /\ g \notin torn' =>
                  /\ ReadLock'[g] <=> inside'[g] # {}
                  /\ \A x, y \in inside'[g] : x = y
                  /\ g \in calling' => file'[g] = "open"
                  /\ file'[g] \in {"cleanup", "removed", "gone"} => pending'[g] # "waiting"
  <2>1. CASE g = f
    BY <1>1, <1>3, <1>6, <2>1 DEF BusIInv, InsideOK
  <2>2. CASE g # f
    BY <1>1, <1>3, <2>2 DEF BusIInv, InsideOK
  <2>. QED
    BY <2>1, <2>2
<1>. QED
  BY <1>5, <1>7 DEF InsideOK

\* The file has the frame too, and the others what they had.
LEMMA LeaveLogs ==
  ASSUME BusIInv, NEW r \in Readers, NEW f \in Files, Leave(r, f)
  PROVE  LogsOK'
<1>1. /\ UNCHANGED <<file, FilesList, FilesLock>>
      /\ transfer[r].walked + 1 \in 1..Len(FilesList)
      /\ FilesList[transfer[r].walked + 1] = f
      /\ file[f] \in OnList
      /\ log'[f] = Append(log[f], <<transfer[r].id, transfer[r].at>>)
      /\ \A g \in Files \ {f} : log'[g] = log[g]
  BY LeaveFileParts
<1>2. PICK n : n = Seen(transfer[r].walked + 1)
  OBVIOUS
<1>3. PICK p0 : p0 = transfer[r].walked + 1
  OBVIOUS
<1>4. /\ Len(sent) \in Nat /\ transfer[r].walked \in Nat /\ p0 \in Nat /\ p0 > 0
      /\ Len(FilesList) \in Nat /\ log[f] \in Seq(Frames) /\ Nobody \notin Readers
  BY <1>3, ReaderParts
<1>5. /\ \A q \in Readers : transfer'[q].id = transfer[q].id
      /\ Len(sent') = n + 1 /\ sent'[n + 1] = <<transfer[r].id, transfer[r].at>>
      /\ \A i \in 1..Len(sent) : sent'[i] = sent[i]
      /\ transfer[r].walked = 0 => Len(sent') = Len(sent) + 1
      /\ transfer[r].walked > 0 => sent' = sent
      /\ FilesLock = r /\ Walked = transfer[r].walked /\ Walked' = p0
  BY <1>2, <1>3, LeaveParts
<1>6. /\ n \in Nat /\ n <= Len(sent) /\ Len(sent) <= n + 1 /\ Len(sent') \in Nat
      /\ transfer[r].walked > 0 => Len(sent) = n + 1
      /\ transfer[r].walked = 0 => Len(sent) = n
  <2>1. CASE transfer[r].walked > 0
    <3>1. n = Len(sent) - 1
      BY <1>2, <1>4, <1>5, <2>1 DEF Seen
    <3>2. Len(sent) # 0
      BY <2>1, ReaderParts, EmptySeq DEF BusIInv, HolderOK
    <3>. QED
      BY <1>4, <1>5, <2>1, <3>1, <3>2
  <2>2. CASE transfer[r].walked = 0
    BY <1>2, <1>4, <1>5, <2>2 DEF Seen
  <2>. QED
    BY <1>4, <2>1, <2>2
<1>7. ASSUME NEW i \in 0..Len(sent), Ended(i) PROVE i \in 0..Len(sent') /\ Ended(i)'
  <2>1. i \in 0..Len(sent')
    BY <1>5, <1>6
  <2>2. CASE i = 0
    BY <2>2 DEF Ended
  <2>3. CASE i < Len(sent) /\ sent[i][1] # sent[i + 1][1] /\ i # 0
    <3>1. i \in 1..Len(sent) /\ i + 1 \in 1..Len(sent) /\ i < Len(sent')
      BY <1>4, <1>5, <1>6, <2>3
    <3>. QED
      BY <1>5, <2>3, <3>1 DEF Ended
  <2>4. CASE i = Len(sent) /\ i # 0 /\ sent[i][1] # transfer[r].id
    <3>1. i \in 1..Len(sent) /\ sent'[i] = sent[i]
      BY <1>4, <1>5, <2>4
    <3>2. CASE transfer[r].walked > 0
      BY <1>1, <1>5, <2>4, <3>2 DEF Ended
    <3>3. CASE transfer[r].walked = 0
      <4>1. i < Len(sent') /\ i = n /\ sent'[i + 1][1] = transfer[r].id
        BY <1>5, <1>6, <2>4, <3>3
      <4>. QED
        BY <2>4, <3>1, <4>1 DEF Ended
    <3>. QED
      BY <1>4, <3>2, <3>3
  <2>. QED
    BY <1>5, <1>7, <2>1, <2>2, <2>3, <2>4 DEF Ended
<1>8. ASSUME NEW g \in Files \ {f}, NEW k \in 0..Len(sent), Logged(g, k) PROVE Logged(g, k)'
  <2>1. PICK i \in 0..Len(sent) : i <= k /\ Ended(i) /\ Piece(log[g], i, k)
    BY <1>8 DEF Logged
  <2>2. Piece(log[g], i, k)'
    <3>1. log'[g] = log[g]
      BY <1>1
    <3>2. \A j \in 1..(k - i) : i + j \in 1..Len(sent)
      BY <1>4, <2>1
    <3>. QED
      BY <1>5, <2>1, <3>1, <3>2 DEF Piece
  <2>. QED
    BY <1>7, <2>1, <2>2 DEF Logged
<1>9. Logged(f, n) => Logged(f, n + 1)'
  <2>. SUFFICES ASSUME Logged(f, n) PROVE Logged(f, n + 1)'
    OBVIOUS
  <2>1. PICK i \in 0..Len(sent) : i <= n /\ Ended(i) /\ Piece(log[f], i, n)
    BY DEF Logged
  <2>2. Len(log[f]) = n - i /\ \A j \in 1..(n - i) : log[f][j] = sent[i + j] /\ i + j \in 1..Len(sent)
    BY <1>6, <2>1 DEF Piece
  <2>3. /\ Len(log'[f]) = (n + 1) - i
        /\ \A j \in 1..(n - i) : log'[f][j] = log[f][j]
        /\ log'[f][(n - i) + 1] = <<transfer[r].id, transfer[r].at>>
    <3>1. <<transfer[r].id, transfer[r].at>> \in Frames
      BY ReaderParts DEF Frames
    <3>2. /\ Len(log'[f]) = Len(log[f]) + 1
          /\ \A j \in 1..Len(log[f]) : log'[f][j] = log[f][j]
          /\ log'[f][Len(log[f]) + 1] = <<transfer[r].id, transfer[r].at>>
      BY <1>1, <1>4, <3>1, AppendProperties
    <3>. QED
      BY <1>6, <2>1, <2>2, <3>2
  <2>4. ASSUME NEW j \in 1..((n + 1) - i) PROVE log'[f][j] = sent'[i + j]
    <3>1. CASE j \in 1..(n - i)
      BY <1>5, <2>2, <2>3, <3>1
    <3>2. CASE j = (n - i) + 1
      <4>1. i + j = n + 1
        BY <1>6, <2>1, <3>2
      <4>. QED
        BY <1>5, <2>3, <3>2, <4>1
    <3>. QED
      BY <1>6, <2>1, <3>1, <3>2
  <2>5. Piece(log[f], i, n + 1)'
    BY <2>3, <2>4 DEF Piece
  <2>6. i <= n + 1
    BY <1>6, <2>1
  <2>. QED
    BY <1>7, <2>1, <2>5, <2>6 DEF Logged
<1>10. ASSUME NEW p \in 1..Len(FilesList)
       PROVE  /\ p # p0 => Seen(p)' = Seen(p) /\ Seen(p) \in 0..Len(sent)
              /\ Seen(p0)' = n + 1
  <2>1. Seen(p)' = IF p0 < p THEN n ELSE n + 1
    BY <1>4, <1>5, <1>6 DEF Seen
  <2>2. Seen(p0)' = n + 1
    BY <1>4, <1>5, <1>6 DEF Seen
  <2>3. CASE transfer[r].walked > 0 /\ p # p0
    <3>1. Seen(p) = IF p0 < p THEN n ELSE n + 1
      BY <1>3, <1>4, <1>5, <1>6, <2>3 DEF Seen
    <3>. QED
      BY <1>6, <2>1, <2>2, <2>3, <3>1
  <2>4. CASE transfer[r].walked = 0 /\ p # p0
    <3>1. Seen(p) = n
      BY <1>5, <1>6, <2>4 DEF Seen
    <3>2. p0 < p
      BY <1>3, <2>4
    <3>. QED
      BY <1>6, <2>1, <2>2, <3>1, <3>2
  <2>. QED
    BY <1>4, <2>2, <2>3, <2>4
<1>11. \A p \in 1..Len(FilesList) : FilesList[p] = f => p = p0
  BY <1>1, <1>3 DEF BusIInv, ListOK
<1>12. ASSUME NEW g \in Files, NEW p \in 1..Len(FilesList), FilesList[p] = g
       PROVE  Logged(g, Seen(p))'
  <2>1. CASE g = f
    <3>1. p = p0 /\ Logged(f, n)
      BY <1>1, <1>2, <1>3, <1>11, <1>12, <2>1 DEF BusIInv, LogsOK
    <3>2. Logged(f, n + 1)' /\ Seen(p)' = n + 1
      BY <1>9, <1>10, <3>1
    <3>. QED
      BY <2>1, <3>2 DEF Logged
  <2>2. CASE g # f
    <3>1. p # p0
      BY <1>1, <1>3, <1>12, <2>2
    <3>2. Logged(g, Seen(p)) /\ Seen(p)' = Seen(p) /\ Seen(p) \in 0..Len(sent)
      BY <1>10, <1>12, <3>1 DEF BusIInv, LogsOK
    <3>3. Logged(g, Seen(p))' <=> (\E i \in 0..Len(sent') : i <= Seen(p) /\ Ended(i)' /\ Piece(log[g], i, Seen(p))')
      BY <3>2 DEF Logged, Piece
    <3>4. PICK k \in 0..Len(sent) : k = Seen(p)
      BY <3>2
    <3>5. Logged(g, k)'
      BY <1>8, <2>2, <3>2, <3>4
    <3>. QED
      BY <3>2, <3>4, <3>5 DEF Logged, Piece
  <2>. QED
    BY <2>1, <2>2
<1>13. ASSUME NEW g \in Files, file[g] \in {"removed", "gone"}
       PROVE  \E k \in 0..Len(sent') : Ended(k)' /\ Logged(g, k)'
  <2>1. g \in Files \ {f}
    BY <1>1, <1>13 DEF OnList
  <2>2. PICK k \in 0..Len(sent) : Ended(k) /\ Logged(g, k)
    BY <1>13 DEF BusIInv, LogsOK
  <2>. QED
    BY <1>7, <1>8, <2>1, <2>2
<1>14. \A g \in Files : file[g] = "new" => log'[g] = <<>>
  BY <1>1 DEF OnList, BusIInv, LogsOK
<1>. QED
  BY <1>1, <1>12, <1>13, <1>14 DEF LogsOK

\* An item that leaves the free ones, or a new page, for a queue is still accounted for.
LEMMA OneItemMore ==
  ASSUME NEW a \in Nat, NEW b \in Nat, NEW c \in Nat, NEW q \in Nat, NEW old \in Nat, NEW new \in Nat,
         a + c = old, b - new = a - old - 1
  PROVE  b + (c - q + (q + 1)) = new
OBVIOUS

\* It leaves the file.
LEMMA LeaveKeeps ==
  ASSUME BusIInv, NEW r \in Readers, NEW f \in Files, Leave(r, f)
  PROVE  BusIInv'
<1>1. /\ UNCHANGED <<file, FilesList, FilesLock, calling, torn, filesAvailable, transfers>>
      /\ file[f] \in OnList
      /\ ReadLock' \in [Files -> BOOLEAN] /\ inside' \in [Files -> SUBSET (Readers \cup {User})]
      /\ log' \in [Files -> Seq(Frames)]
  BY LeaveFileParts
<1>2. transfer' \in [Readers -> Transfers] /\ sent' \in Seq(Frames)
  BY LeaveParts
<1>3. /\ pending' \in [Files -> {"none", "waiting", "answered", "twice"}]
      /\ \A g \in Files \ {f} : pending'[g] = pending[g]
      /\ available' \in Nat /\ pages' \in 1..MaxPages
      /\ ReadBuffersQueued' \in [Files -> 0..MaxQueued]
      /\ \/ UNCHANGED queueVars
         \/ /\ ReadBuffersQueued[f] + 1 \in 0..MaxQueued
            /\ ReadBuffersQueued' = [ReadBuffersQueued EXCEPT ![f] = ReadBuffersQueued[f] + 1]
            /\ available' - pages' * PageItems = available - pages * PageItems - 1
  BY AddChanges DEF BusIInv, Leave, LeaveFile
<1>4. BusTypeOK'
  BY <1>1, <1>2, <1>3, Zenon DEF BusIInv, BusTypeOK
<1>5. HistoryTypes' /\ ListOK'
  BY <1>1, <1>2 DEF BusIInv, HistoryTypes, ListOK, Listed
<1>6. HolderOK' /\ SentOK' /\ InsideOK' /\ LogsOK'
  BY LeaveSent, LeaveInside, LeaveLogs
<1>7. NothingLeftBehind'
  <2>. SUFFICES ASSUME torn' = {} PROVE NothingLeftBehind'
    BY DEF NothingLeftBehind
  <2>1. /\ available + Cardinality(Items) = pages * PageItems
        /\ \A g \in Files : file[g] = "gone" => pending[g] # "waiting"
    BY <1>1 DEF BusIInv, NothingLeftBehind
  <2>2. \A g \in Files : file'[g] = "gone" => pending'[g] # "waiting"
    BY <1>1, <1>3, <2>1 DEF OnList
  <2>3. available' + Cardinality(Items') = pages' * PageItems
    <3>1. CASE UNCHANGED queueVars
      <4>1. Items' = Items
        BY <1>1, <3>1 DEF Items, queueVars
      <4>. QED
        BY <2>1, <3>1, <4>1 DEF queueVars
    <3>2. CASE /\ ReadBuffersQueued[f] + 1 \in 0..MaxQueued
               /\ ReadBuffersQueued' = [ReadBuffersQueued EXCEPT ![f] = ReadBuffersQueued[f] + 1]
               /\ available' - pages' * PageItems = available - pages * PageItems - 1
      <4>1. BusTypeOK /\ file[f] # "gone"
        BY <1>1 DEF BusIInv, OnList
      <4>2. Cardinality(Items') = Cardinality(Items) - ReadBuffersQueued[f] + (ReadBuffersQueued[f] + 1)
        BY <1>1, <1>4, <3>2, <4>1, QueueChanges
      <4>3. Cardinality(Items) \in Nat /\ ReadBuffersQueued[f] \in Nat
        BY <4>1, ItemsSplit, FileParts, FilesAssumption
      <4>4. /\ available \in Nat /\ pages \in Nat /\ available' \in Nat /\ pages' \in Nat
            /\ PageItems \in Nat /\ pages * PageItems \in Nat /\ pages' * PageItems \in Nat
        <5>1. available \in Nat /\ pages \in Nat /\ PageItems \in Nat /\ MaxPages \in Nat
          BY <4>1, FileParts, FilesAssumption
        <5>2. available' \in Nat /\ pages' \in Nat
          BY <1>3, <5>1
        <5>3. \A m \in Nat : m * PageItems \in Nat
          BY <5>1
        <5>. QED
          BY <5>1, <5>2, <5>3
      <4>5. PICK old \in Nat, new \in Nat : old = pages * PageItems /\ new = pages' * PageItems
        BY <4>4
      <4>6. PICK c \in Nat, q \in Nat : c = Cardinality(Items) /\ q = ReadBuffersQueued[f]
        BY <4>3
      <4>7. PICK a \in Nat, b \in Nat : a = available /\ b = available'
        BY <4>4
      <4>8. a + c = old /\ b - new = a - old - 1
        BY <2>1, <3>2, <4>5, <4>6, <4>7
      <4>9. b + (c - q + (q + 1)) = new
        BY <4>8, OneItemMore
      <4>10. Cardinality(Items') = c - q + (q + 1)
        BY <4>2, <4>6
      <4>. QED
        BY <4>5, <4>7, <4>9, <4>10
    <3>. QED
      BY <1>3, <3>1, <3>2
  <2>. QED
    BY <2>2, <2>3 DEF NothingLeftBehind
<1>. QED
  BY <1>4, <1>5, <1>6, <1>7 DEF BusIInv

-----------------------------------------------------------------------------
(* Every step keeps the invariant.                                            *)

\* Each operation of a program, of the thread that closes a file, and of a reader.
LEMMA BusNextKeepsIInv ==
  ASSUME BusIInv, [BusNext]_busVars
  PROVE  BusIInv'
<1>1. ASSUME NEW r \in Readers, Completion(r) PROVE BusIInv'
  BY <1>1, CompletionKeeps
<1>2. ASSUME NEW r \in Readers, ReaderStep(r) PROVE BusIInv'
  <2>1. CASE LockFiles(r)
    BY <2>1, LockFilesKeeps
  <2>2. ASSUME NEW f \in Files, Enter(r, f) PROVE BusIInv'
    BY <2>2, EnterKeeps
  <2>3. ASSUME NEW f \in Files, Leave(r, f) PROVE BusIInv'
    BY <2>3, LeaveKeeps
  <2>4. CASE EndOfList(r)
    BY <2>4, EndOfListKeeps
  <2>5. CASE NoFrame(r)
    BY <2>5, NoFrameKeeps
  <2>6. CASE Return(r)
    BY <2>6, ReturnKeeps
  <2>. QED
    BY <1>2, <2>1, <2>2, <2>3, <2>4, <2>5, <2>6, Zenon DEF ReaderStep
<1>3. ASSUME NEW f \in Files, FileNext(f), UNCHANGED readerVars PROVE BusIInv'
  <2>1. CASE Insert(f)
    BY <1>3, <2>1, InsertKeeps
  <2>2. CASE InitLock(f)
    BY <1>3, <2>2, InitLockKeeps
  <2>3. CASE ReadCall(f)
    BY <1>3, <2>3, ReadCallKeeps
  <2>4. CASE ReadBegin(f)
    BY <1>3, <2>4, ReadBeginKeeps
  <2>5. ASSUME NEW n \in 0..MaxQueued, ReadEnd(f, n) PROVE BusIInv'
    BY <1>3, <2>5, ReadEndKeeps
  <2>6. CASE CancelRead(f)
    BY <1>3, <2>6, CancelReadKeeps
  <2>7. CASE Cleanup(f)
    BY <1>3, <2>7, CleanupKeeps
  <2>8. CASE Remove(f)
    BY <1>3, <2>8, RemoveKeeps
  <2>9. CASE Drain(f)
    BY <1>3, <2>9, DrainKeeps
  <2>. QED
    BY <1>3, <2>1, <2>2, <2>3, <2>4, <2>5, <2>6, <2>7, <2>8, <2>9, Zenon DEF FileNext
<1>4. CASE UNCHANGED busVars
  <2>1. UNCHANGED <<readerVars, fileVars>>
    BY <1>4 DEF busVars
  <2>2. UNCHANGED <<readerVars, FilesList, FilesLock, log, file, lockVars, queueVars, pending,
                    calling, torn>>
    BY <2>1 DEF fileVars, listVars
  <2>3. BusTypeOK'
    BY <2>2, Zenon DEF BusIInv, BusTypeOK, lockVars, queueVars, readerVars
  <2>4. HistoryTypes' /\ ListOK' /\ HolderOK' /\ SentOK' /\ LogsOK'
    BY <2>2, FileKeeps
  <2>5. InsideOK'
    <3>1. \A q \in Readers, g \in Files : AtFile(q, g)' <=> AtFile(q, g)
      BY <2>2, WalkKept
    <3>. QED
      BY <2>2, <3>1 DEF BusIInv, InsideOK, lockVars
  <2>6. NothingLeftBehind'
    BY <2>2, NothingMore DEF BusIInv
  <2>. QED
    BY <2>3, <2>4, <2>5, <2>6 DEF BusIInv
<1>. QED
  BY <1>1, <1>2, <1>3, <1>4, Zenon DEF BusNext, FileStep

\* The inductive invariant of McbaUsbReaderCompletionRoutine and of the files it
\* serves.
THEOREM BusReaderInvariant == BusSpec => []BusIInv
BY BusInitIInv, BusNextKeepsIInv, PTL DEF BusSpec

-----------------------------------------------------------------------------
(* The properties. *)

\* Each file's lists, counts and locks have their types: above all, a file never holds
\* more than MCBA_MAX_READ_BUFFERS_QUEUED frames, and no more pages are allocated than
\* there are.
THEOREM BusReaderTypes == BusSpec => []BusTypeOK
<1>1. BusIInv => BusTypeOK
  BY DEF BusIInv
<1>. QED
  BY <1>1, BusReaderInvariant, PTL

\* ReadLock keeps McbaRead and McbaAddCanMessageToFileReadQueue apart, for every file
\* whose lock was not initialized while it was held.
THEOREM ReadersExclude == BusSpec => []ReadLockExcludes
<1>1. BusIInv => ReadLockExcludes
  <2>. SUFFICES ASSUME BusIInv, NEW f \in Files \ torn PROVE Cardinality(inside[f]) <= 1
    BY DEF ReadLockExcludes
  <2>1. \A x, y \in inside[f] : x = y
    BY DEF BusIInv, InsideOK
  <2>2. CASE inside[f] = {}
    BY <2>2, FS_EmptySet
  <2>3. CASE inside[f] # {}
    <3>1. PICK x : inside[f] = {x}
      BY <2>1, <2>3
    <3>. QED
      BY <3>1, FS_Singleton
  <2>. QED
    BY <2>2, <2>3
<1>. QED
  BY <1>1, BusReaderInvariant, PTL

\* A completion routine that walks FilesList is never in a file whose context is freed
\* (McbaEvtFileCleanup removes the file under FilesLock, which the walk holds).
THEOREM WalkerMeetsListed == BusSpec => []WalkMeetsListed
<1>1. BusIInv => WalkMeetsListed
  <2>. SUFFICES ASSUME BusIInv, NEW r \in Readers, NEW f \in Files, r \in inside[f]
                PROVE  /\ f \in {FilesList[i] : i \in 1..Len(FilesList)}
                       /\ file[f] \in {"listed", "open", "cleanup"}
    BY DEF WalkMeetsListed
  <2>1. AtFile(r, f)
    BY DEF BusIInv, InsideOK
  <2>2. transfer[r].walked + 1 \in 1..Len(FilesList) /\ f = FilesList[transfer[r].walked + 1]
    BY <2>1, ReaderParts DEF AtFile
  <2>. QED
    BY <2>2 DEF BusIInv, ListOK, Listed
<1>. QED
  BY <1>1, BusReaderInvariant, PTL

\* No lock is left taken: FilesLock by a transfer that has ended, or a ReadLock by
\* nobody; and a reader is in a file only with FilesLock.
THEOREM LocksAreHeld == BusSpec => []LocksHaveHolders
<1>1. BusIInv => LocksHaveHolders
  <2>. SUFFICES ASSUME BusIInv PROVE LocksHaveHolders
    OBVIOUS
  <2>1. FilesLock # Nobody => transfer[FilesLock] # Idle
    BY DEF BusIInv, HolderOK
  <2>2. \A f \in Files \ torn : ReadLock[f] => inside[f] # {}
    BY DEF BusIInv, InsideOK
  <2>3. \A r \in Readers, f \in Files : r \in inside[f] => FilesLock = r
    BY DEF BusIInv, InsideOK, AtFile
  <2>. QED
    BY <2>1, <2>2, <2>3 DEF LocksHaveHolders
<1>. QED
  BY <1>1, BusReaderInvariant, PTL

\* The message buffers are all accounted for: free, or in the queue of one file that has
\* not been closed; and McbaEvtFileCleanup leaves no read waiting.
THEOREM NothingIsLeftBehind == BusSpec => []NothingLeftBehind
<1>1. BusIInv => NothingLeftBehind
  BY DEF BusIInv
<1>. QED
  BY <1>1, BusReaderInvariant, PTL

\* Part of what was sent is a piece of a sequence.
LEMMA PieceIsSubSeq ==
  ASSUME BusIInv, NEW f \in Files, NEW i \in 0..Len(sent), NEW k \in 0..Len(sent), i <= k,
         Piece(log[f], i, k)
  PROVE  log[f] = SubSeq(sent, i + 1, k)
<1>1. /\ sent \in Seq(Frames) /\ Len(sent) \in Nat /\ log[f] \in Seq(Frames)
  BY ReaderParts
<1>2. /\ Len(log[f]) = k - i /\ \A j \in 1..(k - i) : log[f][j] = sent[i + j]
  BY DEF Piece
<1>3. i + 1 \in 1..(Len(sent) + 1) /\ k \in i..Len(sent)
  BY <1>1
<1>4. /\ SubSeq(sent, i + 1, k) \in Seq(Frames)
      /\ Len(SubSeq(sent, i + 1, k)) = k - i
      /\ \A j \in 1..(k - i) : SubSeq(sent, i + 1, k)[j] = sent[i + j]
  <2>1. /\ SubSeq(sent, i + 1, k) \in Seq(Frames)
        /\ Len(SubSeq(sent, i + 1, k)) = IF i + 1 <= k THEN k - (i + 1) + 1 ELSE 0
        /\ \A j \in 1 .. (k - (i + 1) + 1) : SubSeq(sent, i + 1, k)[j] = sent[(i + 1) + j - 1]
    BY <1>1, <1>3, SubSeqProperties
  <2>2. \A j \in 1..(k - i) : (i + 1) + j - 1 = i + j /\ j \in 1 .. (k - (i + 1) + 1)
    BY <1>1
  <2>. QED
    BY <1>1, <2>1, <2>2
<1>. QED
  BY <1>1, <1>2, <1>4, SeqEqual

\* FilesLock is kept for a whole transfer, so the frames of one are not mixed with
\* others', and a file that is opened or closed meanwhile gets all of them or none.
THEOREM BroadcastIsWhole == BusSpec => []BroadcastWhole
<1>1. BusIInv => BroadcastWhole
  <2>. SUFFICES ASSUME BusIInv PROVE BroadcastWhole
    OBVIOUS
  <2>. DEFINE Border(i) == i = 0 \/ i = Len(sent) \/ sent[i][1] # sent[i + 1][1]
              Walking == \E r \in Readers : transfer[r].walked > 0
  <2>1. Len(sent) \in Nat /\ Len(FilesList) \in Nat /\ Nobody \notin Readers
        /\ FilesLock \in Readers \cup {Nobody} /\ \A r \in Readers : transfer[r].walked \in Nat
    BY ReaderParts
  <2>2. ASSUME NEW i \in 1..Len(sent), NEW k \in 1..Len(sent), i < k, sent[i][1] = sent[k][1],
               NEW j \in i..k
        PROVE  sent[j][1] = sent[i][1]
    <3>1. j \in 1..Len(sent) /\ i <= j /\ j <= k
      BY <2>1, <2>2
    <3>. QED
      BY <2>2, <3>1 DEF BusIInv, SentOK
  <2>3. \A i : Ended(i) => Border(i)
    BY DEF Ended
  <2>4. ASSUME NEW f \in Files
        PROVE  \E k \in 0..Len(sent) :
                 Logged(f, k) /\ (Border(k) \/ (Walking /\ k = Len(sent) - 1))
    <3>1. CASE file[f] = "new"
      <4>1. log[f] = <<>> /\ 0 \in 0..Len(sent) /\ Ended(0)
        BY <2>1, <3>1 DEF BusIInv, LogsOK, Ended
      <4>2. Piece(log[f], 0, 0)
        BY <4>1 DEF Piece
      <4>3. Logged(f, 0)
        BY <4>1, <4>2 DEF Logged
      <4>. QED
        BY <4>1, <4>3
    <3>2. CASE file[f] \in {"removed", "gone"}
      BY <2>3, <3>2 DEF BusIInv, LogsOK
    <3>3. CASE file[f] \in OnList
      <4>1. PICK p \in 1..Len(FilesList) : FilesList[p] = f
        BY <3>3 DEF OnList, BusIInv, ListOK, Listed
      <4>2. Logged(f, Seen(p))
        BY <4>1 DEF BusIInv, LogsOK
      <4>3. CASE 0 < Walked /\ Walked < p
        <5>1. Seen(p) = Len(sent) - 1
          BY <4>3 DEF Seen
        <5>2. FilesLock \in Readers /\ transfer[FilesLock].walked > 0
          BY <2>1, <4>3 DEF Walked
        <5>3. Walking /\ Len(sent) # 0
          <6>1. sent # <<>>
            BY <5>2 DEF BusIInv, HolderOK
          <6>. QED
            BY <5>2, <6>1, ReaderParts, EmptySeq
        <5>. QED
          BY <2>1, <4>2, <5>1, <5>3
      <4>4. CASE ~(0 < Walked /\ Walked < p)
        BY <2>1, <4>2, <4>4 DEF Seen
      <4>. QED
        BY <4>3, <4>4
    <3>4. file[f] \in FileStates
      BY FileParts DEF BusIInv
    <3>. QED
      BY <3>1, <3>2, <3>3, <3>4 DEF FileStates, OnList
  <2>5. ASSUME NEW f \in Files
        PROVE  \E i, k \in 0..Len(sent) :
                 /\ log[f] = SubSeq(sent, i + 1, k)
                 /\ Border(i) /\ (Border(k) \/ (Walking /\ k = Len(sent) - 1))
    <3>1. PICK k \in 0..Len(sent) : Logged(f, k) /\ (Border(k) \/ (Walking /\ k = Len(sent) - 1))
      BY <2>4
    <3>2. PICK i \in 0..Len(sent) : i <= k /\ Ended(i) /\ Piece(log[f], i, k)
      BY <3>1 DEF Logged
    <3>3. log[f] = SubSeq(sent, i + 1, k) /\ Border(i)
      BY <2>3, <3>2, PieceIsSubSeq
    <3>. QED
      BY <3>1, <3>3
  <2>. QED
    BY <2>2, <2>5 DEF BroadcastWhole
<1>. QED
  BY <1>1, BusReaderInvariant, PTL
=============================================================================
