-------------------------- MODULE FileTableProofs ---------------------------
(***************************************************************************)
(* Theorems about FileTable, for any number of entries, descriptors, names *)
(* and files: while no socket has been closed and no Connect has failed,   *)
(* every file in the table has a descriptor and an id of its own; and the  *)
(* count of entries is never ahead of those in use, whatever is closed.    *)
(***************************************************************************)
EXTENDS FileTable, FiniteSetTheorems, WellFoundedInduction, TLAPS

(***************************************************************************)
(* The inductive invariant.  An entry in use has an id that is made of its *)
(* type and its descriptor, and an open descriptor belongs to an entry:    *)
(* so there are never more descriptors open than entries in use, and Open, *)
(* which needs a free entry, gets a descriptor below a hundred.            *)
(***************************************************************************)

Used == {i \in Index : table[i].type # -1}

EntryInv == \A i \in Index :
    IF table[i].type = -1
    THEN table[i] = FreeEntry
    ELSE /\ table[i].fd \in Descriptors /\ table[i].fd < 100
         /\ table[i].id = table[i].type * 100 + table[i].fd

OpenInv == \A d \in Descriptors : open[d] # NULL => \E i \in Used : table[i].fd = d

Inductive == TypeOK /\ EntryInv /\ OpenInv /\ FilesOwnDescriptors /\ CountNotAhead

USE FileTableAssumption DEF FileTableAssumption, STANDARD_MODE, READONLY_MODE, SOCKET_MODE

-----------------------------------------------------------------------------
(***************************************************************************)
(* What the operators of the table return.                                 *)
(***************************************************************************)

\* Entries are numbered by natural numbers, and counted.
LEMMA IndexFacts ==
    /\ Index \subseteq Nat
    /\ IsFiniteSet(Index) /\ Cardinality(Index) = MaxSize
<1>1. Cardinality(0..(MaxSize - 1)) = MaxSize /\ IsFiniteSet(0..(MaxSize - 1))
  <2>1. 0 \in Int /\ MaxSize - 1 \in Int
    OBVIOUS
  <2> QED
    BY <2>1, FS_Interval
<1> QED
  BY <1>1 DEF Index

\* The first entry, or the lowest descriptor, that a search finds.
LEMMA LowestFacts ==
    ASSUME NEW S \in SUBSET Nat, S # {}
    PROVE  Lowest(S) \in S /\ \A j \in S : Lowest(S) <= j
<1>1. PICK x \in S : \A y \in S : ~(<<y, x>> \in OpToRel(<, Nat))
  BY NatLessThanWellFounded, WFMin
<1>2. \A y \in S : ~(y < x)
  BY <1>1 DEF OpToRel
<1>3. \A y \in S : x <= y
  BY <1>2
<1> QED
  BY <1>3 DEF Lowest

\* getFile finds an entry that has the id.
LEMMA GetFileFacts ==
    ASSUME NEW id \in Ids
    PROVE  getFile(id) \in Index /\ table[getFile(id)].id = id
<1> DEFINE S == {i \in Index : table[i].id = id}
<1>1. S # {} /\ S \in SUBSET Nat
  BY IndexFacts DEF Ids
<1>2. Lowest(S) \in S
  BY <1>1, LowestFacts
<1> QED
  BY <1>2 DEF getFile

\* The entry that getFile finds is in use.
LEMMA GetFileIsUsed ==
    ASSUME TypeOK, EntryInv, NEW id \in Ids
    PROVE  /\ getFile(id) \in Used
           /\ table[getFile(id)].fd \in Descriptors
<1>1. getFile(id) \in Index /\ table[getFile(id)].id = id /\ id # -1
  BY GetFileFacts DEF Ids
<1> QED
  BY <1>1 DEF EntryInv, FreeEntry, Used

\* An entry that has no id is not in use.
LEMMA FreeEntriesAreUnused ==
    ASSUME TypeOK, EntryInv
    PROVE  FreeEntries = Index \ Used
<1>1. ASSUME NEW i \in Index
      PROVE  table[i].id = -1 <=> table[i].type = -1
  <2>1. CASE table[i].type = -1
    BY <2>1 DEF EntryInv, FreeEntry
  <2>2. CASE table[i].type # -1
    <3>1. table[i].type \in 0..2 /\ table[i].fd \in Nat
      <4>1. table[i].type \in -1..2 /\ table[i].fd \in Descriptors
        BY <2>2 DEF TypeOK, EntryInv
      <4>2. ASSUME NEW n \in -1..2, n # -1 PROVE n \in 0..2
        BY <4>2
      <4> QED
        BY <2>2, <4>1, <4>2, Zenon
    <3>2. table[i].id = table[i].type * 100 + table[i].fd
      BY <2>2 DEF EntryInv
    <3> QED
      BY <2>2, <3>1, <3>2
  <2> QED
    BY <2>1, <2>2
<1> QED
  BY <1>1 DEF FreeEntries, Used

\* The entries in use are finitely many, and with a free one fewer than all.
LEMMA UsedFacts ==
    /\ IsFiniteSet(Used) /\ Cardinality(Used) \in Nat
    /\ Used # Index => Cardinality(Used) < MaxSize
<1>1. Used \in SUBSET Index
  BY DEF Used
<1>2. /\ IsFiniteSet(Used)
      /\ Cardinality(Used) <= MaxSize
      /\ MaxSize = Cardinality(Used) => Index = Used
  BY <1>1, IndexFacts, FS_Subset
<1>3. Cardinality(Used) \in Nat
  BY <1>2, FS_CardinalityType
<1> QED
  BY <1>2, <1>3

\* While an entry is free, so is a descriptor below a hundred: an open one
\* belongs to an entry in use.
LEMMA LowDescriptor ==
    ASSUME TypeOK, EntryInv, OpenInv, Used # Index
    PROVE  \E d \in FreeDescriptors : d < 100
<1> DEFINE Low == {d \in Descriptors : d < 100}
           fd == [i \in Used |-> table[i].fd]
           Taken == {fd[i] : i \in Used}
<1>1. SUFFICES ASSUME \A d \in Low : open[d] # NULL PROVE FALSE
  BY DEF FreeDescriptors
<1>2. Low \subseteq Taken
  BY <1>1 DEF OpenInv
<1>3. IsFiniteSet(Taken) /\ Cardinality(Taken) <= Cardinality(Used)
  <2>1. fd \in Surjection(Used, Taken)
    BY DEF Surjection
  <2> QED
    BY <2>1, UsedFacts, FS_Surjection
<1>4. Cardinality(Low) <= Cardinality(Taken) /\ IsFiniteSet(Low)
  BY <1>2, <1>3, FS_Subset
<1>5. Cardinality(Low) \in Nat /\ Cardinality(Taken) \in Nat
  BY <1>3, <1>4, FS_CardinalityType
<1> HIDE DEF Taken, Low
<1>6. MaxSize <= Cardinality(Low)
  BY DEF Low
<1> QED
  BY <1>3, <1>4, <1>5, <1>6, UsedFacts

\* The host gives a descriptor below a hundred to an entry that was free.
LEMMA OpenFacts ==
    ASSUME Inductive, FreeEntries # {}
    PROVE  /\ Lowest(FreeEntries) \in Index \ Used
           /\ Lowest(FreeDescriptors) \in FreeDescriptors
           /\ Lowest(FreeDescriptors) < 100
<1>1. FreeEntries = Index \ Used
  BY FreeEntriesAreUnused DEF Inductive
<1>2. PICK d \in FreeDescriptors : d < 100
  BY <1>1, LowDescriptor DEF Inductive
<1>3. FreeEntries \in SUBSET Nat /\ FreeDescriptors \in SUBSET Nat
  BY IndexFacts DEF FreeEntries, FreeDescriptors
<1>4. Lowest(FreeEntries) \in FreeEntries
  BY <1>3, LowestFacts
<1>5. Lowest(FreeDescriptors) \in FreeDescriptors /\ Lowest(FreeDescriptors) <= d
  BY <1>2, <1>3, LowestFacts
<1>6. Lowest(FreeDescriptors) \in Nat /\ d \in Nat
  BY <1>2, <1>3, <1>5
<1> QED
  BY <1>1, <1>2, <1>4, <1>5, <1>6

-----------------------------------------------------------------------------
(***************************************************************************)
(* Every step keeps the invariant.                                         *)
(***************************************************************************)

\* The table starts empty, and nothing is open.
LEMMA InitialStates ==
    ASSUME Init
    PROVE  Inductive
<1> USE DEF Init, FreeEntry
<1>1. TypeOK
  BY DEF TypeOK
<1>2. EntryInv /\ OpenInv /\ FilesOwnDescriptors
  BY DEF EntryInv, OpenInv, FilesOwnDescriptors
<1>3. CountNotAhead
  <2>1. Used = {}
    BY DEF Used
  <2> QED
    BY <2>1, FS_EmptySet DEF CountNotAhead, Used
<1> QED
  BY <1>1, <1>2, <1>3 DEF Inductive

\* A free entry gets a free descriptor below a hundred, for a file or a socket.
LEMMA NewEntryKeeps ==
    ASSUME Inductive,
           NEW i \in Index \ Used, NEW fd \in FreeDescriptors, fd < 100,
           NEW type \in 0..2, NEW f \in Files \cup {socket}, type = 2 <=> f = socket,
           NEW offset \in {-1, 0},
           open' = [open EXCEPT ![fd] = f],
           table' = [table EXCEPT ![i] =
                        [id |-> type * 100 + fd, type |-> type, fd |-> fd, offset |-> offset]],
           currentSize' = currentSize + 1,
           UNCHANGED <<directory, length, running, socketsLive>>
    PROVE  Inductive'
<1> USE DEF Inductive
<1>1. fd \in Descriptors /\ fd \in Nat /\ open[fd] = NULL /\ f # NULL
  BY DEF FreeDescriptors
<1>2. /\ table'[i].id = type * 100 + fd /\ table'[i].type = type /\ table'[i].fd = fd
      /\ \A j \in Index \ {i} : table'[j] = table[j]
      /\ i \in Index /\ table[i].type = -1 /\ type # -1
  BY DEF TypeOK, Used
<1>3. /\ open'[fd] = f
      /\ \A d \in Descriptors \ {fd} : open'[d] = open[d]
  BY <1>1 DEF TypeOK
<1>4. TypeOK'
  <2>1. table' \in [Index -> [id : Int, type : -1..2, fd : Descriptors \cup {-1}, offset : -1..MaxLength]]
    <3>1. [id |-> type * 100 + fd, type |-> type, fd |-> fd, offset |-> offset]
              \in [id : Int, type : -1..2, fd : Descriptors \cup {-1}, offset : -1..MaxLength]
      BY <1>1
    <3> QED
      BY <3>1 DEF TypeOK
  <2>2. open' \in [Descriptors -> Files \cup {socket, NULL}]
    BY DEF TypeOK
  <2> QED
    BY <2>1, <2>2 DEF TypeOK
<1>5. EntryInv'
  BY <1>1, <1>2 DEF EntryInv
<1>6. Used' = Used \cup {i}
  BY <1>2 DEF Used
<1>7. OpenInv'
  BY <1>2, <1>3, <1>6 DEF OpenInv, Used
<1>8. FilesOwnDescriptors'
  <2> SUFFICES ASSUME socketsLive PROVE FilesOwnDescriptors'
    BY DEF FilesOwnDescriptors
  <2>1. FileEntry(i)' <=> f \in Files
    BY <1>2 DEF FileEntry
  <2>2. ASSUME NEW j \in Used
        PROVE  /\ j # i /\ j \in Index
               /\ table[j].fd # fd /\ table[j].fd \in Descriptors
               /\ table[j].id # type * 100 + fd
    <3>1. table[j].fd # fd /\ table[j].fd \in Descriptors /\ table[j].fd < 100
      BY <1>1 DEF FilesOwnDescriptors, EntryInv, Used
    <3>2. table[j].type \in -1..2 /\ table[j].type # -1
      BY DEF TypeOK, Used
    <3>3. table[j].id = table[j].type * 100 + table[j].fd
      BY DEF EntryInv, Used
    <3>4. ASSUME NEW m \in -1..2, NEW d \in Nat, d < 100, d # fd
          PROVE  m * 100 + d # type * 100 + fd
      BY <1>1, <3>4
    <3>5. table[j].id # type * 100 + fd
      BY <3>1, <3>2, <3>3, <3>4
    <3> QED
      BY <1>2, <3>1, <3>5 DEF Used
  <2>3. ASSUME NEW j \in Used'
        PROVE  open'[table'[j].fd] \in IF FileEntry(j)' THEN Files ELSE {socket}
    <3>1. CASE j = i
      BY <1>2, <1>3, <2>1, <3>1
    <3>2. CASE j # i
      <4>1. j \in Used /\ table'[j] = table[j] /\ (FileEntry(j)' <=> FileEntry(j))
        BY <1>2, <1>6, <3>2 DEF FileEntry, Used
      <4>2. open'[table[j].fd] = open[table[j].fd]
        BY <1>3, <2>2, <4>1
      <4>3. open[table[j].fd] \in IF FileEntry(j) THEN Files ELSE {socket}
        BY <4>1 DEF FilesOwnDescriptors, Used
      <4> QED
        BY <4>1, <4>2, <4>3
    <3> QED
      BY <3>1, <3>2
  <2>4. ASSUME NEW j \in Used', NEW k \in Used', k # j
        PROVE  table'[j].fd # table'[k].fd /\ table'[j].id # table'[k].id
    <3>1. CASE j = i \/ k = i
      BY <1>2, <1>6, <2>2, <2>4, <3>1 DEF Used
    <3>2. CASE j # i /\ k # i
      BY <1>2, <1>6, <2>4, <3>2 DEF FilesOwnDescriptors, Used
    <3> QED
      BY <3>1, <3>2
  <2> QED
    BY <2>3, <2>4 DEF FilesOwnDescriptors, Used
<1>9. CountNotAhead'
  <2>1. Cardinality(Used') = Cardinality(Used) + 1
    BY <1>6, UsedFacts, FS_AddElement
  <2> QED
    BY <2>1, UsedFacts DEF CountNotAhead, Used, TypeOK
<1> QED
  BY <1>4, <1>5, <1>7, <1>8, <1>9

\* Open finds a free descriptor when it has found a free entry.
LEMMA OpenKeeps ==
    ASSUME Inductive, NEW n \in Names, NEW type \in {0, 1}, SysOpen(n, type)
    PROVE  Inductive'
<1>1. FreeEntries # {} /\ directory[n] \in Files /\ directory[n] # socket
  BY DEF Inductive, TypeOK, SysOpen
<1>2. type \in 0..2 /\ type # 2
  OBVIOUS
<1> QED
  BY <1>1, <1>2, OpenFacts, NewEntryKeeps DEF SysOpen

\* A socket gets an entry in the same way.
LEMMA SocketKeeps ==
    ASSUME Inductive, SysSocketTCP
    PROVE  Inductive'
<1>1. FreeEntries # {} /\ 2 \in 0..2 /\ socket \in Files \cup {socket} /\ -1 \in {-1, 0}
  BY DEF SysSocketTCP
<1>2. 2 = 2 <=> socket = socket
  OBVIOUS
<1> DEFINE i == Lowest(FreeEntries)
           fd == Lowest(FreeDescriptors)
<1>3. i \in Index \ Used /\ fd \in FreeDescriptors /\ fd < 100
  BY <1>1, OpenFacts
<1>4. /\ open' = [open EXCEPT ![fd] = socket]
      /\ table' = [table EXCEPT ![i] = [id |-> 2 * 100 + fd, type |-> 2, fd |-> fd, offset |-> -1]]
      /\ currentSize' = currentSize + 1
      /\ UNCHANGED <<directory, length, running, socketsLive>>
  BY DEF SysSocketTCP
<1> HIDE DEF i, fd
<1> QED
  BY <1>1, <1>2, <1>3, <1>4, NewEntryKeeps

\* The close of a socket, or of what a Connect found, ends what
\* FilesOwnDescriptors is about.
LEMMA SocketClosedKeeps ==
    ASSUME Inductive, socketsLive' = FALSE,
           open' \in [Descriptors -> Files \cup {socket, NULL}],
           \A d \in Descriptors : open'[d] \in {open[d], NULL},
           directory' \in [Names -> Files \cup {NULL}],
           UNCHANGED <<table, currentSize, length, running>>
    PROVE  Inductive'
<1> USE DEF Inductive
<1>1. TypeOK'
  BY DEF TypeOK
<1>2. Used' = Used
  BY DEF Used
<1>3. EntryInv' /\ FilesOwnDescriptors' /\ CountNotAhead'
  BY <1>2 DEF EntryInv, FilesOwnDescriptors, CountNotAhead, Used
<1>4. OpenInv'
  BY <1>2 DEF OpenInv, TypeOK
<1> QED
  BY <1>1, <1>3, <1>4

\* The entry of a file goes, with its descriptor, and the count goes down.
LEMMA FileClosedKeeps ==
    ASSUME Inductive, NEW i \in Index, FileEntry(i),
           table' = [table EXCEPT ![i] = FreeEntry],
           open' = [open EXCEPT ![table[i].fd] = NULL],
           currentSize' = currentSize - 1,
           directory' \in [Names -> Files \cup {NULL}],
           UNCHANGED <<length, running, socketsLive>>
    PROVE  Inductive'
<1> USE DEF Inductive
<1>1. /\ table'[i] = FreeEntry
      /\ \A j \in Index \ {i} : table'[j] = table[j]
      /\ i \in Used /\ FreeEntry.type = -1
  BY DEF TypeOK, FileEntry, Used, FreeEntry
<1>2. /\ table[i].fd \in Descriptors
      /\ \A d \in Descriptors \ {table[i].fd} : open'[d] = open[d]
      /\ open'[table[i].fd] = NULL
  BY <1>1 DEF EntryInv, TypeOK, Used
<1>3. Used' = Used \ {i}
  BY <1>1 DEF Used
<1>4. TypeOK'
  <2>1. FreeEntry \in [id : Int, type : -1..2, fd : Descriptors \cup {-1}, offset : -1..MaxLength]
    BY DEF FreeEntry
  <2>2. open' \in [Descriptors -> Files \cup {socket, NULL}]
    BY DEF TypeOK
  <2> QED
    BY <2>1, <2>2 DEF TypeOK
<1>5. EntryInv'
  BY <1>1 DEF EntryInv
<1>6. OpenInv'
  BY <1>1, <1>2, <1>3 DEF OpenInv, Used
<1>7. FilesOwnDescriptors'
  <2> SUFFICES ASSUME socketsLive, NEW j \in Used'
               PROVE  /\ open'[table'[j].fd] \in IF FileEntry(j)' THEN Files ELSE {socket}
                      /\ \A k \in Used' \ {j} : table'[j].fd # table'[k].fd /\ table'[j].id # table'[k].id
    BY DEF FilesOwnDescriptors, Used
  <2>1. j \in Used /\ j # i /\ table'[j] = table[j] /\ (FileEntry(j)' <=> FileEntry(j))
    BY <1>1, <1>3 DEF FileEntry, Used
  <2>2. table[j].fd \in Descriptors /\ table[j].fd # table[i].fd
    BY <1>1, <2>1 DEF FilesOwnDescriptors, EntryInv, Used
  <2>3. open'[table'[j].fd] \in IF FileEntry(j)' THEN Files ELSE {socket}
    BY <1>2, <2>1, <2>2 DEF FilesOwnDescriptors, Used
  <2>4. \A k \in Used' \ {j} : table'[j].fd # table'[k].fd /\ table'[j].id # table'[k].id
    BY <1>1, <1>3, <2>1 DEF FilesOwnDescriptors, Used
  <2> QED
    BY <2>3, <2>4
<1>8. CountNotAhead'
  <2>1. Cardinality(Used') = Cardinality(Used) - 1
    BY <1>1, <1>3, UsedFacts, FS_RemoveElement
  <2> QED
    BY <2>1, UsedFacts DEF CountNotAhead, Used, TypeOK
<1> QED
  BY <1>4, <1>5, <1>6, <1>7, <1>8

\* Nothing changes but names, lengths of files, or whether the kernel runs, or
\* the count goes down.
LEMMA HostKeeps ==
    ASSUME Inductive, UNCHANGED <<table, open, socketsLive>>,
           currentSize' \in {currentSize, currentSize - 1},
           directory' \in [Names -> Files \cup {NULL}],
           length' \in [Files -> -1..MaxLength],
           running' \in BOOLEAN
    PROVE  Inductive'
<1> USE DEF Inductive
<1>1. TypeOK'
  BY DEF TypeOK
<1>2. Used' = Used
  BY DEF Used
<1>3. EntryInv' /\ OpenInv'
  BY <1>2 DEF EntryInv, OpenInv, Used
<1>4. FilesOwnDescriptors'
  BY DEF FilesOwnDescriptors, FileEntry
<1>5. CountNotAhead'
  BY <1>2, UsedFacts DEF CountNotAhead, Used, TypeOK
<1> QED
  BY <1>1, <1>3, <1>4, <1>5

\* Only the offset of an entry changes.
LEMMA OffsetKeeps ==
    ASSUME Inductive, NEW i \in Index, NEW offset \in -1..MaxLength,
           table' = [table EXCEPT ![i].offset = offset], FileEntry(i),
           UNCHANGED <<currentSize, hostVars, running, socketsLive>>
    PROVE  Inductive'
<1> USE DEF Inductive, hostVars
<1>1. TypeOK'
  BY DEF TypeOK
<1>2. \A j \in Index : /\ table'[j].type = table[j].type
                       /\ table'[j].fd = table[j].fd /\ table'[j].id = table[j].id
                       /\ table[j].type = -1 => table'[j] = table[j]
  BY DEF TypeOK, FileEntry
<1>3. Used' = Used
  BY <1>2 DEF Used
<1>4. EntryInv'
  BY <1>2 DEF EntryInv
<1>5. OpenInv'
  BY <1>2, <1>3 DEF OpenInv, Used
<1>6. FilesOwnDescriptors'
  BY <1>2 DEF FilesOwnDescriptors, FileEntry
<1>7. CountNotAhead'
  BY <1>3 DEF CountNotAhead, Used
<1> QED
  BY <1>1, <1>4, <1>5, <1>6, <1>7

\* closeFile may hit a file, a socket, a free entry, or memory beyond the table.
LEMMA CloseFileKeeps ==
    ASSUME Inductive, NEW id, closeFile(id),
           directory' \in [Names -> Files \cup {NULL}], UNCHANGED length
    PROVE  Inductive'
<1>1. length' \in [Files -> -1..MaxLength] /\ running \in BOOLEAN
  BY DEF Inductive, TypeOK
<1>2. CASE id \in Index /\ FileEntry(id) /\ table' = [table EXCEPT ![id] = FreeEntry]
  <2>1. /\ open' = [open EXCEPT ![table[id].fd] = NULL]
        /\ currentSize' = currentSize - 1
        /\ UNCHANGED <<running, socketsLive>>
    <3>1. FreeEntry # table[id]
      BY <1>2 DEF FileEntry, FreeEntry
    <3>2. table' # table
      BY <1>2, <3>1 DEF Inductive, TypeOK
    <3> QED
      BY <1>2, <3>2 DEF closeFile
  <2> QED
    BY <1>2, <2>1, FileClosedKeeps
<1>3. CASE /\ id \in Index
           /\ open' = [open EXCEPT ![table[id].fd] = NULL] /\ socketsLive' = FALSE
           /\ UNCHANGED <<table, currentSize, running>>
  <2>1. /\ open' \in [Descriptors -> Files \cup {socket, NULL}]
        /\ \A d \in Descriptors : open'[d] \in {open[d], NULL}
    BY <1>3 DEF Inductive, TypeOK
  <2> QED
    BY <1>3, <2>1, SocketClosedKeeps
<1>4. CASE currentSize' = currentSize - 1 /\ UNCHANGED <<table, open, running, socketsLive>>
  BY <1>1, <1>4, HostKeeps
<1>5. CASE running' = FALSE /\ UNCHANGED <<table, currentSize, open, socketsLive>>
  BY <1>1, <1>5, HostKeeps
<1> QED
  BY <1>2, <1>3, <1>4, <1>5 DEF closeFile, FileEntry

\* Close, with an id that is taken for an index.
LEMMA CloseKeeps ==
    ASSUME Inductive, NEW id \in Ids, SysClose(id)
    PROVE  Inductive'
<1>1. directory' \in [Names -> Files \cup {NULL}] /\ UNCHANGED length /\ closeFile(id)
  BY DEF SysClose, Inductive, TypeOK
<1> QED
  BY <1>1, CloseFileKeeps

\* Remove, which may close an entry and takes a name away.
LEMMA RemoveKeeps ==
    ASSUME Inductive, NEW n \in Names, SysRemove(n)
    PROVE  Inductive'
<1>1. directory' \in [Names -> Files \cup {NULL}] /\ UNCHANGED length
  BY DEF SysRemove, Inductive, TypeOK
<1>2. CASE UNCHANGED <<table, currentSize, open, running, socketsLive>>
  <2>1. length' \in [Files -> -1..MaxLength] /\ running' \in BOOLEAN
    BY <1>1, <1>2 DEF Inductive, TypeOK
  <2> QED
    BY <1>1, <1>2, <2>1, HostKeeps
<1>3. ASSUME NEW i \in Index, closeFile(table[i].id)
      PROVE  Inductive'
  BY <1>1, <1>3, CloseFileKeeps
<1> QED
  BY <1>2, <1>3 DEF SysRemove

\* Open of a missing file takes the kernel down.
LEMMA OpenMissingKeeps ==
    ASSUME Inductive, NEW n \in Names, SysOpenMissing(n)
    PROVE  Inductive'
<1>1. /\ directory' \in [Names -> Files \cup {NULL}]
      /\ length' \in [Files -> -1..MaxLength]
      /\ running' \in BOOLEAN
  BY DEF SysOpenMissing, hostVars, Inductive, TypeOK
<1> QED
  BY <1>1, HostKeeps DEF SysOpenMissing, hostVars

\* Create makes an empty file.
LEMMA CreateKeeps ==
    ASSUME Inductive, NEW n \in Names, SysCreate(n)
    PROVE  Inductive'
<1>1. /\ directory' \in [Names -> Files \cup {NULL}]
      /\ length' \in [Files -> -1..MaxLength]
      /\ running' \in BOOLEAN
  <2>1. CASE directory[n] = NULL
    BY <2>1 DEF SysCreate, Inductive, TypeOK
  <2>2. CASE directory[n] # NULL
    BY <2>2 DEF SysCreate, Inductive, TypeOK
  <2> QED
    BY <2>1, <2>2
<1> QED
  BY <1>1, HostKeeps DEF SysCreate

\* A connect that fails closes the descriptor it finds in the entry, whatever
\* the entry is.
LEMMA ConnectKeeps ==
    ASSUME Inductive, NEW id, SysConnect(id)
    PROVE  Inductive'
<1>1. directory' \in [Names -> Files \cup {NULL}]
  BY DEF SysConnect, Inductive, TypeOK
<1>2. PICK socketID : open' = [d \in Descriptors |-> IF d = socketID THEN NULL ELSE open[d]]
  BY DEF SysConnect
<1>3. /\ open' \in [Descriptors -> Files \cup {socket, NULL}]
      /\ \A d \in Descriptors : open'[d] \in {open[d], NULL}
  BY <1>2 DEF Inductive, TypeOK
<1> QED
  BY <1>1, <1>3, SocketClosedKeeps DEF SysConnect

\* A Connect on an id that no entry has takes the kernel down.
LEMMA ConnectMissingKeeps ==
    ASSUME Inductive, SysConnectMissing
    PROVE  Inductive'
<1>1. /\ directory' \in [Names -> Files \cup {NULL}]
      /\ length' \in [Files -> -1..MaxLength]
      /\ running' \in BOOLEAN
  BY DEF SysConnectMissing, hostVars, Inductive, TypeOK
<1> QED
  BY <1>1, HostKeeps DEF SysConnectMissing, hostVars

\* What the host says of a file's length is within the bound.
LEMMA HostLengthType ==
    ASSUME TypeOK, EntryInv, NEW i \in Used
    PROVE  /\ HostLength(i) \in -1..MaxLength
           /\ HostLength(i) # -1 => open[table[i].fd] \in Files
           /\ open[table[i].fd] \in Files => HostLength(i) = length[open[table[i].fd]]
<1>1. table[i].fd \in Descriptors
  BY DEF EntryInv, Used
<1> QED
  BY <1>1 DEF HostLength, TypeOK

\* The offset of a read stays within the file, or goes one back.
LEMMA ReadKeeps ==
    ASSUME Inductive, NEW id \in Ids, NEW charCount \in 1..MaxLength, SysRead(id, charCount)
    PROVE  Inductive'
<1> DEFINE i == getFile(id)
           left == HostLength(i) - table[i].offset
           numRead == IF HostLength(i) = -1 THEN -1
                      ELSE IF left < 0 THEN 0
                      ELSE IF left < charCount THEN left ELSE charCount
<1>1. i \in Used /\ i \in Index
  BY GetFileIsUsed DEF Inductive, Used
<1>2. HostLength(i) \in -1..MaxLength
  BY <1>1, HostLengthType DEF Inductive
<1>3. /\ table' = [table EXCEPT ![i].offset = table[i].offset + numRead]
      /\ FileEntry(i) /\ table[i].offset \in 0..MaxLength
      /\ UNCHANGED <<currentSize, hostVars, running, socketsLive>>
  BY DEF SysRead
<1>4. table[i].offset + numRead \in -1..MaxLength
  <2>1. ASSUME NEW h \in -1..MaxLength, NEW o \in 0..MaxLength
        PROVE  o + (IF h = -1 THEN -1
                    ELSE IF h - o < 0 THEN 0
                    ELSE IF h - o < charCount THEN h - o ELSE charCount) \in -1..MaxLength
    OBVIOUS
  <2> QED
    BY <1>2, <1>3, <2>1
<1> HIDE DEF i, numRead
<1> QED
  BY <1>1, <1>3, <1>4, OffsetKeeps

\* The offset of a seek is within the file.
LEMMA SeekKeeps ==
    ASSUME Inductive, NEW id \in Ids, NEW position \in -1..MaxLength, SysSeek(position, id)
    PROVE  Inductive'
<1> DEFINE i == getFile(id)
           Length == HostLength(i) - 1
           offset == IF position = -1 THEN Length ELSE position
<1>1. i \in Used /\ i \in Index
  BY GetFileIsUsed DEF Inductive, Used
<1>2. HostLength(i) \in -1..MaxLength
  BY <1>1, HostLengthType DEF Inductive
<1>3. /\ table' = [table EXCEPT ![i].offset = offset]
      /\ FileEntry(i) /\ position < Length
      /\ UNCHANGED <<currentSize, hostVars, running, socketsLive>>
  BY DEF SysSeek
<1>4. offset \in -1..MaxLength
  BY <1>2, <1>3
<1> HIDE DEF i, offset
<1> QED
  BY <1>1, <1>3, <1>4, OffsetKeeps

\* A write makes its file longer.
LEMMA WriteKeeps ==
    ASSUME Inductive, NEW id \in Ids, NEW charCount \in 1..MaxLength, SysWrite(id, charCount)
    PROVE  Inductive'
<1> DEFINE i == getFile(id)
           f == open[table[i].fd]
<1>1. i \in Used
  BY GetFileIsUsed DEF Inductive
<1>2. /\ HostLength(i) # -1 /\ HostLength(i) + charCount <= MaxLength
      /\ length' = [length EXCEPT ![f] = length[f] + charCount]
      /\ UNCHANGED <<table, currentSize, open, directory, running, socketsLive>>
  BY DEF SysWrite
<1>3. f \in Files /\ length[f] = HostLength(i) /\ HostLength(i) \in -1..MaxLength
  BY <1>1, <1>2, HostLengthType DEF Inductive
<1> HIDE DEF i, f
<1>4. length[f] + charCount \in -1..MaxLength
  BY <1>2, <1>3
<1>5. length' \in [Files -> -1..MaxLength]
  BY <1>2, <1>3, <1>4 DEF Inductive, TypeOK
<1>6. directory' \in [Names -> Files \cup {NULL}] /\ running' \in BOOLEAN
  BY <1>2 DEF Inductive, TypeOK
<1> QED
  BY <1>2, <1>5, <1>6, HostKeeps

\* Nothing happens.
LEMMA StutteringKeeps ==
    ASSUME Inductive, UNCHANGED vars
    PROVE  Inductive'
<1>1. /\ directory' \in [Names -> Files \cup {NULL}]
      /\ length' \in [Files -> -1..MaxLength]
      /\ running' \in BOOLEAN
  BY DEF vars, hostVars, Inductive, TypeOK
<1> QED
  BY <1>1, HostKeeps DEF vars, hostVars

-----------------------------------------------------------------------------
(***************************************************************************)
(* The theorems.                                                           *)
(***************************************************************************)

\* The inductive invariant holds in every reachable state.
THEOREM InductiveInvariant == Spec => []Inductive
<1>1. Init => Inductive
  BY InitialStates
<1>2. Inductive /\ [Next]_vars => Inductive'
  <2> SUFFICES ASSUME Inductive, [Next]_vars PROVE Inductive'
    OBVIOUS
  <2>1. ASSUME NEW n \in Names,
               \/ \E type \in {STANDARD_MODE, READONLY_MODE} : SysOpen(n, type)
               \/ SysOpenMissing(n) \/ SysCreate(n) \/ SysRemove(n)
        PROVE  Inductive'
    BY <2>1, OpenKeeps, OpenMissingKeeps, CreateKeeps, RemoveKeeps
  <2>2. ASSUME NEW id \in Ids \cup {-1}, SysConnect(id)
        PROVE  Inductive'
    BY <2>2, ConnectKeeps
  <2>3. ASSUME NEW id \in Ids, NEW charCount \in 1..MaxLength,
               SysRead(id, charCount) \/ SysWrite(id, charCount)
        PROVE  Inductive'
    BY <2>3, ReadKeeps, WriteKeeps
  <2>4. ASSUME NEW id \in Ids, NEW position \in -1..MaxLength, SysSeek(position, id)
        PROVE  Inductive'
    BY <2>4, SeekKeeps
  <2>5. ASSUME NEW id \in Ids, SysClose(id)
        PROVE  Inductive'
    BY <2>5, CloseKeeps
  <2> QED
    BY <2>1, <2>2, <2>3, <2>4, <2>5, SocketKeeps, ConnectMissingKeeps, StutteringKeeps DEF Next
<1> QED
  BY <1>1, <1>2, PTL DEF Spec

\* The variables of the table and of the host keep their types.
THEOREM TypeCorrect == Spec => []TypeOK
<1>1. Inductive => TypeOK
  BY DEF Inductive
<1> QED
  BY <1>1, InductiveInvariant, PTL

\* While no Connect has failed and no socket has been closed, every entry in use
\* has a descriptor of its own, open for what the entry is, and an id of its own
\* (FileManager.h, closeFile, connectSocket and getFile).
THEOREM DescriptorsAreOwned == Spec => []FilesOwnDescriptors
<1>1. Inductive => FilesOwnDescriptors
  BY DEF Inductive
<1> QED
  BY <1>1, InductiveInvariant, PTL

\* The count is never ahead of the entries in use, so Open never refuses while
\* there is a free one (FileManager.h, open).
THEOREM CountIsNotAhead == Spec => []CountNotAhead
<1>1. Inductive => CountNotAhead
  BY DEF Inductive
<1> QED
  BY <1>1, InductiveInvariant, PTL

=============================================================================
