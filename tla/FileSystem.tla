------------------------------ MODULE FileSystem -----------------------------
(***************************************************************************)
(* filesys/filesys.cc and directory.cc: the directory tree, the current    *)
(* directory, which all threads share, and the table of opened files, used *)
(* by several threads.  A file or directory is the sector of its header;   *)
(* where its contents lie is the business of FileHeader.                   *)
(*                                                                         *)
(* What is done while directoryMutex is held is one step, except that      *)
(* Remove looks at the table of opened files, which has a lock of its own, *)
(* on the way; freeMapMutex is always the innermost lock, and whoever has  *)
(* it waits for nothing but the disk.                                      *)
(***************************************************************************)
EXTENDS BitMap, Sequences

CONSTANTS
    Threads,
    Names,              \* the names of files, without "." and ".."
    NumHeaders,         \* sectors that headers are allocated from
    NumDirEntries,
    MaxOpenedFiles,
    MaxCalls,           \* bound: calls made by a thread
    GoOn                \* bound: whether the model goes on once it has strayed

ASSUME FileSystemAssumption ==
    /\ {NumHeaders, MaxOpenedFiles} \subseteq Nat \ {0} /\ NumDirEntries \in Nat \ {0, 1}
    /\ MaxCalls \in Nat /\ GoOn \in BOOLEAN
    /\ {".", ".."} \cap Names = {} /\ "nobody" \notin Threads

RootSector == 0
Sectors == Bits(NumHeaders)
Slots == Bits(MaxOpenedFiles)
Protected == {".", ".."}
NULL == -1
Nobody == "nobody"
FileTypes == {"DATA_FILE", "DIRECTORY", "ROOT"}

VARIABLES
    type,               \* type[s]: what the header on s says, "free" if s is not marked
    table,              \* table[s]: the entries of directory s, a function from names
    DirectorySector,    \* the current directory
    directoryMutex,     \* who holds the lock
    openedFileMutex,
    openedFiles,        \* openedFiles[i]: id, the lock's owner; id NULL if not marked
    pc,                 \* pc[t]: where t is in its call
    arg,                \* arg[t]: the sector, slot or name that t's call is about
    calls,
    strayed             \* history: a case that the code mistakes has been met

disk == <<type, table>>
locks == <<directoryMutex, openedFileMutex>>
vars == <<disk, DirectorySector, locks, openedFiles, pc, arg, calls, strayed>>

Closed == [id |-> NULL, mutex |-> Nobody]
NoEntries == [name \in {} |-> NULL]

Init ==
    /\ type = [s \in Sectors |-> IF s = RootSector THEN "ROOT" ELSE "free"]
    /\ table = [s \in Sectors |-> NoEntries]
    /\ DirectorySector = RootSector
    /\ directoryMutex = Nobody
    /\ openedFileMutex = Nobody
    /\ openedFiles = [i \in Slots |-> Closed]
    /\ pc = [t \in Threads |-> "idle"]
    /\ arg = [t \in Threads |-> NULL]
    /\ calls = [t \in Threads |-> 0]
    /\ strayed = FALSE

-------------------------------------------------------------------------------
(* Directories.                                                              *)

\* Directory::Find: the sector of a name in a directory.
Lookup(dir, name) == IF name \in DOMAIN dir THEN dir[name] ELSE NULL

Full(dir) == Cardinality(DOMAIN dir) = NumDirEntries

\* Directory::Add and Directory::Remove.
Add(dir, name, s) == [n \in DOMAIN dir \cup {name} |-> IF n = name THEN s ELSE dir[n]]
Without(dir, name) == [n \in DOMAIN dir \ {name} |-> dir[n]]

\* Mutant: every directory passes for empty.
IsEmptyAlways(dir) == TRUE

\* Directory::IsEmpty.
IsEmpty(dir) == DOMAIN dir \subseteq Protected

IsDirectory(s) == type[s] \in {"DIRECTORY", "ROOT"}

current == table[DirectorySector]

\* Every call starts with t doing nothing else; the bound on calls is here.
Begin(t) ==
    /\ pc[t] = "idle" /\ calls[t] < MaxCalls /\ (GoOn \/ ~strayed)
    /\ calls' = [calls EXCEPT ![t] = @ + 1]

\* A call that needs no more than directoryMutex, and returns.
Directories(t) ==
    /\ Begin(t) /\ directoryMutex = Nobody
    /\ UNCHANGED <<locks, openedFiles, pc, arg>>

\* Create and CreateDir: the first free sector becomes the header of a new entry
\* of the current directory.  A new directory starts with "." and "..".
CreateEntry(t, name, kind) ==
    /\ Directories(t)
    /\ Lookup(current, name) = NULL /\ ~Full(current)
    /\ LET free == {s \in Sectors : type[s] = "free"}
           s == Min(free)
           entries == IF kind = "DIRECTORY"
                      THEN [n \in Protected |-> IF n = "." THEN s ELSE DirectorySector]
                      ELSE NoEntries
       IN  /\ free # {}
           /\ type' = [type EXCEPT ![s] = kind]
           /\ table' = [table EXCEPT ![DirectorySector] = Add(@, name, s), ![s] = entries]
    /\ UNCHANGED <<DirectorySector, strayed>>

Create(t) == \E name \in Names : CreateEntry(t, name, "DATA_FILE")

CreateDir(t) == \E name \in Names : CreateEntry(t, name, "DIRECTORY")

\* RemoveDir: an empty directory that is not the root.  The name "." is accepted.
RemoveDir(t) ==
    /\ Directories(t)
    /\ \E name \in Names \cup Protected :
        LET s == Lookup(current, name)
        IN  /\ s # NULL /\ type[s] = "DIRECTORY" /\ IsEmpty(table[s])
            /\ type' = [type EXCEPT ![s] = "free"]
            /\ table' = [table EXCEPT ![DirectorySector] = Without(@, name)]
            /\ strayed' = (strayed \/ s = DirectorySector)
    /\ UNCHANGED DirectorySector

\* ChangeDirRec: each name of the path leads from a directory to one that it lists;
\* of the path the model keeps the directories it leads through.
Follows(path) ==
    \A i \in DOMAIN path :
        /\ path[i] \in Range(table[IF i = 1 THEN DirectorySector ELSE path[i - 1]])
        /\ IsDirectory(path[i])

\* ChangeDir: the current directory is kept if the path cannot be followed.
ChangeDir(t) ==
    /\ Directories(t)
    /\ \E path \in UNION {[1 .. n -> Sectors] : n \in 1 .. 2} :
        /\ Follows(path)
        /\ DirectorySector' = path[Len(path)]
    /\ UNCHANGED <<disk, strayed>>

-------------------------------------------------------------------------------
(* Opening, in three steps: the name is looked up under directoryMutex, the  *)
(* header is read under no lock, the table is searched and filled under      *)
(* openedFileMutex.                                                          *)

Go(t, where, what) == pc' = [pc EXCEPT ![t] = where] /\ arg' = [arg EXCEPT ![t] = what]

Return(t) == Go(t, "idle", NULL)

OpenUser(t) ==
    /\ Begin(t) /\ directoryMutex = Nobody
    /\ \E name \in DOMAIN current : Go(t, "fetch", current[name])
    /\ UNCHANGED <<disk, DirectorySector, locks, openedFiles, strayed>>

OpenFetch(t) ==
    /\ pc[t] = "fetch"
    /\ IF type[arg[t]] = "DATA_FILE" THEN Go(t, "register", arg[t]) ELSE Return(t)
    /\ UNCHANGED <<disk, DirectorySector, locks, openedFiles, calls, strayed>>

Opened == {i \in Slots : openedFiles[i].id # NULL}

IsOpened(s) == \E i \in Opened : openedFiles[i].id = s

OpenRegister(t) ==
    /\ pc[t] = "register" /\ openedFileMutex = Nobody
    /\ openedFiles' = IF IsOpened(arg[t]) \/ Opened = Slots THEN openedFiles
                      ELSE [openedFiles EXCEPT ![Min(Slots \ Opened)].id = arg[t]]
    /\ Return(t)
    /\ UNCHANGED <<disk, DirectorySector, locks, calls, strayed>>

-------------------------------------------------------------------------------
(* Removing a file: directoryMutex is held throughout, openedFileMutex only  *)
(* while the table is searched.                                              *)

RemoveFile(t) ==
    /\ Begin(t) /\ directoryMutex = Nobody
    /\ \E name \in DOMAIN current :
        /\ type[current[name]] = "DATA_FILE"
        /\ Go(t, "search", name)
    /\ directoryMutex' = t
    /\ UNCHANGED <<disk, DirectorySector, openedFileMutex, openedFiles, strayed>>

RemoveSearch(t) ==
    /\ pc[t] = "search" /\ openedFileMutex = Nobody
    /\ IF IsOpened(current[arg[t]])
       THEN Return(t) /\ directoryMutex' = Nobody
       ELSE Go(t, "free", arg[t]) /\ UNCHANGED directoryMutex
    /\ UNCHANGED <<disk, DirectorySector, openedFileMutex, openedFiles, calls, strayed>>

\* A thread that is between the steps of opening s.
Opening(s) == \E t \in Threads : pc[t] \in {"fetch", "register"} /\ arg[t] = s

RemoveFree(t) ==
    /\ pc[t] = "free"
    /\ LET s == current[arg[t]]
       IN  /\ type' = [type EXCEPT ![s] = "free"]
           /\ table' = [table EXCEPT ![DirectorySector] = Without(@, arg[t])]
           /\ strayed' = (strayed \/ Opening(s) \/ IsOpened(s))
    /\ Return(t)
    /\ directoryMutex' = Nobody
    /\ UNCHANGED <<DirectorySector, openedFileMutex, openedFiles, calls>>

-------------------------------------------------------------------------------
(* Closing, and what is done to an open file under its own lock.             *)

CloseUser(t) ==
    /\ Begin(t) /\ openedFileMutex = Nobody
    /\ \E i \in Opened : Go(t, "close", i)
    /\ openedFileMutex' = t
    /\ UNCHANGED <<disk, DirectorySector, directoryMutex, openedFiles, strayed>>

\* Mutant: a file is closed without waiting for those who use it.
CloseLockAtOnce(t) ==
    /\ pc[t] = "close"
    /\ openedFiles' = [openedFiles EXCEPT ![arg[t]].mutex = t]
    /\ Go(t, "closing", arg[t])
    /\ UNCHANGED <<disk, DirectorySector, locks, calls, strayed>>

CloseLock(t) ==
    /\ pc[t] = "close" /\ openedFiles[arg[t]].mutex = Nobody
    /\ openedFiles' = [openedFiles EXCEPT ![arg[t]].mutex = t]
    /\ Go(t, "closing", arg[t])
    /\ UNCHANGED <<disk, DirectorySector, locks, calls, strayed>>

Waiting(i) == {t \in Threads : pc[t] = "wait" /\ arg[t] = i}

\* Mutant: openedFileMutex is not released.
CloseFreeKeeps(t) ==
    /\ pc[t] = "closing"
    /\ openedFiles' = [openedFiles EXCEPT ![arg[t]] = Closed]
    /\ strayed' = (strayed \/ Waiting(arg[t]) # {})
    /\ Return(t)
    /\ UNCHANGED <<disk, DirectorySector, locks, calls>>

\* The slot is free again and its lock is deleted, whoever waits for it.
CloseFree(t) ==
    /\ pc[t] = "closing"
    /\ openedFiles' = [openedFiles EXCEPT ![arg[t]] = Closed]
    /\ openedFileMutex' = Nobody
    /\ strayed' = (strayed \/ Waiting(arg[t]) # {})
    /\ Return(t)
    /\ UNCHANGED <<disk, DirectorySector, directoryMutex, calls>>

\* ReadUser, WriteUser and SeekUser look at the table without a lock, and at once
\* ask for the lock of the file.
UseUser(t) ==
    /\ Begin(t)
    /\ \E i \in Opened :
        IF openedFiles[i].mutex = Nobody
        THEN Go(t, "use", i) /\ openedFiles' = [openedFiles EXCEPT ![i].mutex = t]
        ELSE Go(t, "wait", i) /\ UNCHANGED openedFiles
    /\ UNCHANGED <<disk, DirectorySector, locks, strayed>>

UseLocked(t) ==
    /\ pc[t] = "wait" /\ openedFiles[arg[t]].mutex = Nobody
    /\ openedFiles' = [openedFiles EXCEPT ![arg[t]].mutex = t]
    /\ Go(t, "use", arg[t])
    /\ UNCHANGED <<disk, DirectorySector, locks, calls, strayed>>

UseDone(t) ==
    /\ pc[t] = "use"
    /\ openedFiles' = [openedFiles EXCEPT ![arg[t]].mutex = Nobody]
    /\ Return(t)
    /\ UNCHANGED <<disk, DirectorySector, locks, calls, strayed>>

-------------------------------------------------------------------------------
\* The steps of a call that has begun.
Goes(t) ==
    \/ OpenFetch(t) \/ OpenRegister(t)
    \/ RemoveSearch(t) \/ RemoveFree(t)
    \/ CloseLock(t) \/ CloseFree(t)
    \/ UseLocked(t) \/ UseDone(t)

Next ==
    \E t \in Threads :
        \/ Create(t) \/ CreateDir(t) \/ RemoveDir(t) \/ ChangeDir(t)
        \/ OpenUser(t) \/ RemoveFile(t) \/ CloseUser(t) \/ UseUser(t)
        \/ Goes(t)

Spec == Init /\ [][Next]_vars

\* A thread inside a call is scheduled again; no call has to be made.
FairSpec == Spec /\ \A t \in Threads : WF_vars(Goes(t))

-------------------------------------------------------------------------------
(* Properties.                                                               *)

TypeOK ==
    /\ type \in [Sectors -> FileTypes \cup {"free"}]
    /\ \A s \in Sectors : /\ DOMAIN table[s] \subseteq Names \cup Protected
                          /\ Cardinality(DOMAIN table[s]) <= NumDirEntries
                          /\ Range(table[s]) \subseteq Sectors
    /\ DirectorySector \in Sectors
    /\ {directoryMutex, openedFileMutex} \subseteq Threads \cup {Nobody}
    /\ openedFiles \in [Slots -> [id : Sectors \cup {NULL}, mutex : Threads \cup {Nobody}]]
    /\ pc \in [Threads -> {"idle", "fetch", "register", "search", "free",
                           "close", "closing", "wait", "use"}]
    /\ \A t \in Threads : IF pc[t] \in {"search", "free"} THEN arg[t] \in Names \cup Protected
                          ELSE arg[t] \in Sectors \cup Slots \cup {NULL}
    /\ calls \in [Threads -> 0 .. MaxCalls]

InUse == {s \in Sectors : type[s] # "free"}

\* The directories and the name under which s is found, "." and ".." aside.
EntriesOf(s) ==
    {e \in InUse \X Names : IsDirectory(e[1]) /\ Lookup(table[e[1]], e[2]) = s}

\* Until one of the mistaken cases is met, the headers that are in use form a tree
\* under the root: each but the root is listed exactly once, no entry leads to a
\* free sector, "." and ".." lead to the directory and to the one that lists it,
\* and the current directory is one of the tree.
TreeSound ==
    /\ TypeOK
    /\ strayed \/
        /\ \A s \in InUse \ {RootSector} : Cardinality(EntriesOf(s)) = 1
        /\ EntriesOf(RootSector) = {}
        /\ \A d \in InUse : IsDirectory(d) => Range(table[d]) \subseteq InUse
        /\ \A d \in InUse : type[d] = "DIRECTORY" =>
               table[d]["."] = d /\ \E name \in Names : <<table[d][".."], name>> \in EntriesOf(d)
        /\ DirectorySector \in InUse /\ IsDirectory(DirectorySector)

\* Until one of the mistaken cases is met, the table of opened files lists data
\* files that exist, each of them once, whatever is created and removed meanwhile;
\* and a file that a thread reads, writes or seeks in, or waits for, is open, and
\* no other thread is at work on it.
OpenedFilesSound ==
    strayed \/
        /\ \A i \in Opened : type[openedFiles[i].id] = "DATA_FILE"
        /\ \A i, j \in Opened : openedFiles[i].id = openedFiles[j].id => i = j
        /\ \A t \in Threads : pc[t] \in {"wait", "use"} =>
            /\ arg[t] \in Opened
            /\ pc[t] = "use" => openedFiles[arg[t]].mutex = t

\* No call waits for ever: the locks are taken in an order without a cycle, and
\* whoever closes a file is let in by those who use it.
CallsEnd == \A t \in Threads : pc[t] # "idle" ~> pc[t] = "idle"

\* Remove: "Checking if this same file is already opened in the open fd table".
\* A file that is open is there until it is closed.
RemoveSparesOpened == \A i \in Opened : type[openedFiles[i].id] # "free"
==============================================================================
