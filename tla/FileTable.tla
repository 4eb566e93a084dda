----------------------------- MODULE FileTable ------------------------------
(***************************************************************************)
(* The table of open files and sockets (userprog/FileManager.h) under the  *)
(* file system calls of userprog/ksyscall.h and exception_part1.h, over    *)
(* the host's files (filesys/filesys.h and openfile.h with FILESYS_STUB).  *)
(*                                                                         *)
(* A call runs to its end before another thread has the CPU, so a step is  *)
(* a call.  A file is reduced to its length.  HandleOpen deletes the name  *)
(* an entry points to, and File() leaves it uninitialized: a search by     *)
(* name may find any entry.  closeFile takes the id of a file for its      *)
(* index in the table: beyond the end of the table it finds no file or     *)
(* takes the kernel down.                                                  *)
(***************************************************************************)
EXTENDS Integers, FiniteSets

CONSTANTS
    MaxSize,        \* entries of the table
    Descriptors,    \* the host's descriptors that are free at start
    Names,
    Files,          \* the files the host ever has
    socket, NULL,
    MaxLength,      \* bound: the length of a file
    MinSize         \* bound: how far currentSize sinks

\* An id is a type and a descriptor below a hundred.  The host gives the lowest
\* descriptor that is free, so it is enough that the table is full before a
\* hundred are in use (FileManager.h has 20 entries).
ASSUME FileTableAssumption ==
    /\ MaxSize \in Nat /\ MaxLength \in Nat /\ MinSize \in Int
    /\ Descriptors \subseteq Nat
    /\ MaxSize <= Cardinality({d \in Descriptors : d < 100})
    /\ {socket, NULL} \cap Files = {} /\ socket # NULL

Index == 0..(MaxSize - 1)

STANDARD_MODE == 0
READONLY_MODE == 1
SOCKET_MODE == 2

VARIABLES
    table,          \* entries [id, type, fd, offset (of the OpenFile)]
    currentSize,
    open,           \* host: what each descriptor stands for, or NULL
    directory,      \* host: the file of each name, or NULL
    length,         \* host: the length of each file; -1, not yet made
    running,        \* FALSE: crashed
    socketsLive     \* history: no Connect has failed and no socket has been closed

hostVars == <<open, directory, length>>
vars == <<table, currentSize, hostVars, running, socketsLive>>

FreeEntry == [id |-> -1, type |-> -1, fd |-> -1, offset |-> -1]

Init ==
    /\ table = [i \in Index |-> FreeEntry]
    /\ currentSize = 0
    /\ open = [d \in Descriptors |-> NULL]
    /\ directory = [n \in Names |-> NULL]
    /\ length = [f \in Files |-> -1]
    /\ running = TRUE
    /\ socketsLive = TRUE

Lowest(S) == CHOOSE i \in S : \A j \in S : i <= j

FreeDescriptors == {d \in Descriptors : open[d] = NULL}
FreeEntries == {i \in Index : table[i].id = -1}
Ids == {table[i].id : i \in Index} \ {-1}

\* Table::getFile: the first entry with the id.
getFile(id) == Lowest({i \in Index : table[i].id = id})

-----------------------------------------------------------------------------

\* Table::open of a file that exists.  (With currentSize = MaxSize, or no free
\* entry, nothing happens.)
SysOpen(n, type) ==
    LET fd == Lowest(FreeDescriptors)
        i == Lowest(FreeEntries)
    IN
    /\ running
    /\ currentSize # MaxSize
    /\ FreeEntries # {} /\ FreeDescriptors # {}
    /\ directory[n] # NULL
    /\ open' = [open EXCEPT ![fd] = directory[n]]
    /\ table' = [table EXCEPT ![i] =
                    [id |-> type * 100 + fd, type |-> type, fd |-> fd, offset |-> 0]]
    /\ currentSize' = currentSize + 1
    /\ UNCHANGED <<directory, length, running, socketsLive>>

\* openFile asks a null pointer for its descriptor before it looks at it.
SysOpenMissing(n) ==
    /\ running
    /\ currentSize # MaxSize
    /\ FreeEntries # {}
    /\ directory[n] = NULL
    /\ running' = FALSE
    /\ UNCHANGED <<table, currentSize, hostVars, socketsLive>>

SysSocketTCP ==
    LET fd == Lowest(FreeDescriptors)
        i == Lowest(FreeEntries)
    IN
    /\ running
    /\ currentSize # MaxSize
    /\ FreeEntries # {} /\ FreeDescriptors # {}
    /\ open' = [open EXCEPT ![fd] = socket]
    /\ table' = [table EXCEPT ![i] =
                    [id |-> SOCKET_MODE * 100 + fd, type |-> SOCKET_MODE, fd |-> fd, offset |-> -1]]
    /\ currentSize' = currentSize + 1
    /\ UNCHANGED <<directory, length, running, socketsLive>>

\* What connectSocket finds in an entry's _Socket.  Neither File() nor openFile
\* sets it: of an entry that has no socket it is any number, one of these
\* descriptors or (-1) none of them.
socketIDs(i) == IF table[i].type = SOCKET_MODE THEN {table[i].fd} ELSE Descriptors \cup {-1}

\* A Connect that fails, on whatever entry has the id: a free one has -1.  The
\* descriptor is closed, and every entry keeps what it has.
SysConnect(id) ==
    /\ running
    /\ \E i \in Index : table[i].id = id
    /\ \E socketID \in socketIDs(getFile(id)) :
           open' = [d \in Descriptors |-> IF d = socketID THEN NULL ELSE open[d]]
    /\ socketsLive' = FALSE
    /\ UNCHANGED <<table, currentSize, directory, length, running>>

\* No entry has the id, and connectSocket is called on a null pointer (so is
\* getSocketID, for Send and Receive).
SysConnectMissing ==
    /\ running
    /\ running' = FALSE
    /\ UNCHANGED <<table, currentSize, hostVars, socketsLive>>

\* Faulty: a file that is closed is not taken off the count.
CloseFileUncounted(id) ==
    \/ /\ id \in Index
       /\ table[id].type \in {STANDARD_MODE, READONLY_MODE}
       /\ table' = [table EXCEPT ![id] = FreeEntry]
       /\ open' = [open EXCEPT ![table[id].fd] = NULL]
       /\ UNCHANGED <<currentSize, running, socketsLive>>
    \/ /\ id \in Index => table[id].type = -1
       /\ currentSize > MinSize
       /\ currentSize' = currentSize - 1
       /\ UNCHANGED <<table, open, running, socketsLive>>

\* Faulty: the entry of a closed file keeps its id and its descriptor.
CloseFileKeepingEntry(id) ==
    /\ id \in Index
    /\ table[id].type \in {STANDARD_MODE, READONLY_MODE}
    /\ open' = [open EXCEPT ![table[id].fd] = NULL]
    /\ currentSize' = currentSize - 1
    /\ UNCHANGED <<table, running, socketsLive>>

\* Table::closeFile of an id that is in the table.
closeFile(id) ==
    \* the entry whose index is id has a file: ~OpenFile
    \/ /\ id \in Index
       /\ table[id].type \in {STANDARD_MODE, READONLY_MODE}
       /\ table' = [table EXCEPT ![id] = FreeEntry]
       /\ open' = [open EXCEPT ![table[id].fd] = NULL]
       /\ currentSize' = currentSize - 1
       /\ UNCHANGED <<running, socketsLive>>
    \* it has a socket, and keeps it
    \/ /\ id \in Index
       /\ table[id].type = SOCKET_MODE
       /\ open' = [open EXCEPT ![table[id].fd] = NULL]
       /\ socketsLive' = FALSE
       /\ UNCHANGED <<table, currentSize, running>>
    \* it is free, or beyond the end of the table
    \/ /\ id \in Index => table[id].type = -1
       /\ currentSize > MinSize
       /\ currentSize' = currentSize - 1
       /\ UNCHANGED <<table, open, running, socketsLive>>
    \/ /\ id \notin Index
       /\ running' = FALSE
       /\ UNCHANGED <<table, currentSize, open, socketsLive>>

SysClose(id) ==
    /\ running
    /\ currentSize # 0
    /\ closeFile(id)
    /\ UNCHANGED <<directory, length>>

\* SysRemove closes an entry of some name and the type, if it finds one, and
\* then unlinks the file.  The file stays with those who have it open.
\* (One of the two searches finds an entry; a call where both do is two.)
SysRemove(n) ==
    /\ running
    /\ \/ UNCHANGED <<table, currentSize, open, running, socketsLive>>
       \/ \E i \in Index :
            /\ table[i].type \in {STANDARD_MODE, READONLY_MODE}
            /\ closeFile(table[i].id)
    /\ directory' = [directory EXCEPT ![n] = NULL]
    /\ UNCHANGED length

\* FileSystem::Create: a new file, or an old one made empty.
SysCreate(n) ==
    /\ running
    /\ IF directory[n] = NULL
       THEN \E f \in Files :
                /\ length[f] = -1
                /\ directory' = [directory EXCEPT ![n] = f]
                /\ length' = [length EXCEPT ![f] = 0]
       ELSE /\ length' = [length EXCEPT ![directory[n]] = 0]
            /\ UNCHANGED directory
    /\ UNCHANGED <<table, currentSize, open, running, socketsLive>>

-----------------------------------------------------------------------------

FileEntry(i) == table[i].type \in {STANDARD_MODE, READONLY_MODE}

\* The length of the host's file, or -1 where lseek fails.
HostLength(i) == LET f == open[table[i].fd] IN IF f \in Files THEN length[f] ELSE -1

\* ReadFile: read() gives what there is, or -1, and either is added to the
\* offset.  (From a negative offset it reads where the host's file happens to be;
\* that is left out.)
SysRead(id, charCount) ==
    LET i == getFile(id)
        left == HostLength(i) - table[i].offset
        numRead == IF HostLength(i) = -1 THEN -1
                   ELSE IF left < 0 THEN 0
                   ELSE IF left < charCount THEN left ELSE charCount
    IN
    /\ running
    /\ FileEntry(i)
    /\ table[i].offset \in 0..MaxLength
    /\ table' = [table EXCEPT ![i].offset = @ + numRead]
    /\ UNCHANGED <<currentSize, hostVars, running, socketsLive>>

\* WriteFile writes at the end, whatever the offset.
SysWrite(id, charCount) ==
    LET i == getFile(id) IN
    /\ running
    /\ table[i].type = STANDARD_MODE
    /\ HostLength(i) # -1
    /\ HostLength(i) + charCount <= MaxLength
    /\ length' = [length EXCEPT ![open[table[i].fd]] = @ + charCount]
    /\ UNCHANGED <<table, currentSize, open, directory, running, socketsLive>>

\* seekFile.  OpenFile::Length() is one less than the length.
SysSeek(position, id) ==
    LET i == getFile(id)
        Length == HostLength(i) - 1
    IN
    /\ running
    /\ FileEntry(i)
    /\ position < Length
    /\ table' = [table EXCEPT ![i].offset = IF position = -1 THEN Length ELSE position]
    /\ UNCHANGED <<currentSize, hostVars, running, socketsLive>>

Next ==
    \/ \E n \in Names :
        \/ \E type \in {STANDARD_MODE, READONLY_MODE} : SysOpen(n, type)
        \/ SysOpenMissing(n) \/ SysCreate(n) \/ SysRemove(n)
    \/ SysSocketTCP \/ SysConnectMissing
    \/ \E id \in Ids \cup {-1} : SysConnect(id)
    \/ \E id \in Ids :
        \/ SysClose(id)
        \/ \E charCount \in 1..MaxLength : SysRead(id, charCount) \/ SysWrite(id, charCount)
        \/ \E position \in -1..MaxLength : SysSeek(position, id)

Spec == Init /\ [][Next]_vars

-----------------------------------------------------------------------------
(***************************************************************************)
(* Properties.                                                             *)
(***************************************************************************)

\* The variables have the types their declarations give them.
TypeOK ==
    /\ table \in [Index -> [id : Int, type : -1..SOCKET_MODE,
                            fd : Descriptors \cup {-1}, offset : -1..MaxLength]]
    /\ currentSize \in Int
    /\ open \in [Descriptors -> Files \cup {socket, NULL}]
    /\ directory \in [Names -> Files \cup {NULL}]
    /\ length \in [Files -> -1..MaxLength]
    /\ running \in BOOLEAN /\ socketsLive \in BOOLEAN

\* While no Connect has failed and no socket has been closed: although closeFile closes an
\* entry other than the one it was asked for, every file in the table has an
\* open descriptor that no other entry has, and its id finds it and nothing
\* else.  (The descriptor of a closed socket becomes that of a file, and the
\* next Connect or Close on the socket closes the file; and a Connect on a file
\* closes any descriptor.)
FilesOwnDescriptors == socketsLive =>
    \A i \in Index : table[i].type # -1 =>
        /\ open[table[i].fd] \in IF FileEntry(i) THEN Files ELSE {socket}
        /\ \A j \in Index \ {i} : table[j].type # -1 =>
               table[i].fd # table[j].fd /\ table[i].id # table[j].id

\* open, which refuses at currentSize = MaxSize, never refuses while the table
\* has a free entry: the count, which closeFile lowers also when nothing is
\* closed, is never ahead of the entries in use.
CountNotAhead == currentSize <= Cardinality({i \in Index : table[i].type # -1})

=============================================================================
