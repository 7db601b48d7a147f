------------------------------ MODULE FileHeader -----------------------------
(***************************************************************************)
(* filesys/filehdr.cc: how the sectors of a file are found, allocated and  *)
(* freed, on a disk that several files share.  A file header points at its *)
(* first NumDirect - 1 sectors; its last pointer is the header of the      *)
(* "undirected block", itself a file, whose contents are the numbers of    *)
(* the further sectors.                                                    *)
(*                                                                         *)
(* The callers (Create, WriteUser and Remove of FileSystem) fetch the map  *)
(* of free sectors under freeMapMutex, change a copy and write it back     *)
(* only on success, so each is one step; what a failing call has written   *)
(* to other sectors by then stays on the disk.                             *)
(***************************************************************************)
EXTENDS BitMap, SequencesExt

CONSTANTS
    Files,
    NumSectors,     \* sectors of the disk
    NumDirect,      \* pointers in a file header
    PerSector,      \* sector numbers that fit into a sector
    SectorSize,     \* bytes of a sector
    FileSizes,      \* the sizes, in bytes, that files are given
    Garbage         \* what an uninitialised pointer may hold

ASSUME DiskAssumption ==
    /\ NumSectors \in Nat \ {0} /\ NumDirect \in Nat \ {0, 1} /\ PerSector \in Nat \ {0}
    /\ SectorSize \in Nat \ {0} /\ FileSizes \subseteq Nat
    /\ Garbage \subseteq 0 .. NumSectors - 1

Sectors == Bits(NumSectors)
NULL == -1

\* Sector 0 stands for the map, the root directory and their headers.
Reserved == {0}

VARIABLES
    freeMap,    \* the map on the disk: the sectors that are marked
    disk,       \* disk[s]: what sector s holds
    sector,     \* sector[f]: the sector of f's header, NULL if there is no f
    crashed,    \* an ASSERT has failed
    strayed     \* history: a case that the code mistakes has been met

vars == <<freeMap, disk, sector, crashed, strayed>>

divRoundUp(n, s) == (n + s - 1) \div s

undirectedIndex == NumDirect - 1

\* A new FileHeader after Allocate has cleared its sizes: the pointers hold what
\* was in memory.  Every pointer but the last is set before it is read.
Fresh(garbage) ==
    [numBytes |-> 0, numSectors |-> 0,
     dataSectors |-> [i \in Bits(NumDirect) |-> IF i = undirectedIndex THEN garbage ELSE 0]]

\* What is on a sector: a header, a row of sector numbers, or something else,
\* which reads as zeros.
Header(h) == [header |-> h, ints |-> <<>>]
Ints(row) == [header |-> Fresh(0), ints |-> row]
Other == [header |-> Fresh(0), ints |-> <<>>]

Init ==
    /\ freeMap = Reserved
    /\ disk = [s \in Sectors |-> Other]
    /\ sector = [f \in Files |-> NULL]
    /\ crashed = FALSE
    /\ strayed = FALSE

-------------------------------------------------------------------------------
(* Reading.                                                                  *)

\* The p-th number of a row; what was never written reads as zero.
Number(row, p) == IF p \in DOMAIN row THEN row[p] ELSE 0

\* The i-th number in the undirected block with header u on disk d; the block
\* is read through its own direct pointers.
Undirected(d, u, i) == Number(d[u.dataSectors[i \div PerSector]].ints, (i % PerSector) + 1)

\* The sector of the i-th part of a file with header h on disk d.
ByteToSector(d, h, i) ==
    IF i < undirectedIndex THEN h.dataSectors[i]
    ELSE Undirected(d, d[h.dataSectors[undirectedIndex]].header, i - undirectedIndex)

HasUndirected(h) == h.numSectors > undirectedIndex

-------------------------------------------------------------------------------
(* Extending.                                                                *)

\* The sectors that n calls of Find return on map, as many as there are.
Finds(map, n) ==
    LET free == Sectors \ map
    IN  [i \in 1 .. Min({n, Cardinality(free)}) |->
            CHOOSE s \in free : Cardinality({t \in free : t < s}) = i - 1]

\* Mutant: the pointers are written one place too early.
PointToPrevious(h, i, s) ==
    [h EXCEPT !.dataSectors = [j \in DOMAIN @ |->
        IF j + 1 \in i .. i + Len(s) - 1 THEN s[j - i + 2] ELSE @[j]]]

\* h with the sectors of s as its pointers from index i on.
PointTo(h, i, s) ==
    [h EXCEPT !.dataSectors = [j \in DOMAIN @ |->
        IF j \in i .. i + Len(s) - 1 THEN s[j - i + 1] ELSE @[j]]]

\* Disk d after the numbers in s were written to the block with header u, the
\* first of them as the start-th number.
WriteNumbers(d, u, start, s) ==
    [x \in DOMAIN d |->
        LET part == {k \in Bits(NumDirect) : u.dataSectors[k] = x
                        /\ \E j \in 1 .. Len(s) : (start + j - 1) \div PerSector = k}
        IN  IF part = {} THEN d[x]
            ELSE LET first == Min(part) * PerSector
                 IN  Ints([p \in 1 .. PerSector |->
                        IF first + p - 1 \in start .. start + Len(s) - 1
                        THEN s[first + p - start]
                        ELSE Number(d[x].ints, p)])]

\* The outcome of a call: whether it succeeded, the header and the map it
\* leaves in memory, the disk, and whether an ASSERT failed.
Outcome(ok, h, map, d) == [ok |-> ok, h |-> h, map |-> map, disk |-> d, crash |-> FALSE]

\* The part of Extend that is about the undirected block: n numbers are added
\* to block u, whose header is on sector at.  The numbers are put at the end
\* of what the block's header says is its length.  The block may have NumDirect
\* sectors, but the last of them is not reached by ByteToSector, which takes it
\* for another undirected block: ASSERT(size == 4).
ExtendUndirectedBlock(h, map, d, at, u, n) ==
    LET total == divRoundUp(u.numBytes + n, PerSector)
        grow == Finds(map, total - u.numSectors)
        u2 == [PointTo(u, u.numSectors, grow) EXCEPT !.numSectors = total,
                                                     !.numBytes = @ + n]
        map2 == map \cup Range(grow)
        data == Finds(map2, n)
        start == u2.numBytes - n
    IN  IF total > NumDirect \/ Len(grow) < total - u.numSectors
        THEN Outcome(FALSE, h, map, d)
        ELSE [Outcome(Len(data) = n, h, map2 \cup Range(data),
                      WriteNumbers([d EXCEPT ![at] = Header(u2)], u2, start, data))
              EXCEPT !.crash = start + Len(data) > undirectedIndex * PerSector]

Extend(h, map, d, newSize) ==
    LET total == divRoundUp(h.numBytes + newSize, SectorSize)
        needed == Max({0, Min({total, undirectedIndex}) - h.numSectors})
        direct == Finds(map, needed)
        h1 == PointTo(h, h.numSectors, direct)
        map1 == map \cup Range(direct)
        at == IF HasUndirected(h) THEN <<h.dataSectors[undirectedIndex]>> ELSE Finds(map1, 1)
        n == total - h.numSectors - Len(direct)
        Done(r) == [r EXCEPT !.h.numBytes = h.numBytes + newSize, !.h.numSectors = total]
    IN  IF Len(direct) < needed THEN Outcome(FALSE, h, map, d)
        ELSE IF n = 0 THEN Done(Outcome(TRUE, h1, map1, d))
        ELSE IF at = <<>> THEN Outcome(FALSE, h, map, d)
        ELSE Done(ExtendUndirectedBlock(
                PointTo(h1, undirectedIndex, at), map1 \cup Range(at), d, at[1],
                IF HasUndirected(h) THEN d[at[1]].header ELSE Fresh(0), n))

-------------------------------------------------------------------------------
(* Freeing.                                                                  *)

\* Mutant: the sectors that hold the list of the undirected block are forgotten.
FreedNoList(d, h) ==
    LET u == h.dataSectors[undirectedIndex]
        Direct == [i \in 1 .. Min({h.numSectors, undirectedIndex}) |-> h.dataSectors[i - 1]]
        Listed == [i \in 1 .. h.numSectors - undirectedIndex |-> Undirected(d, d[u].header, i - 1)]
    IN  IF h.numSectors >= undirectedIndex THEN Direct \o Listed \o <<u>> ELSE Direct

\* The sectors that Deallocate clears, in the code's order: the direct ones,
\* the ones listed in the undirected block, the block's header and the sectors
\* that hold the list.  Each has to be marked when its turn comes.
Freed(d, h) ==
    LET u == h.dataSectors[undirectedIndex]
        Direct == [i \in 1 .. Min({h.numSectors, undirectedIndex}) |-> h.dataSectors[i - 1]]
        Listed == [i \in 1 .. h.numSectors - undirectedIndex |-> Undirected(d, d[u].header, i - 1)]
        List == [i \in 1 .. Min({d[u].header.numSectors, NumDirect}) |->
                    d[u].header.dataSectors[i - 1]]
    IN  IF h.numSectors >= undirectedIndex THEN Direct \o Listed \o <<u>> \o List ELSE Direct

\* A header whose pointer to the undirected block is followed though it was
\* never set.
FollowsGarbage(h) == h.numSectors = undirectedIndex

\* Disk d where the sectors that are not marked in map are forgotten: a sector
\* that Find returns is written before it is read.
Forget(d, map) == [s \in Sectors |-> IF s \in map THEN d[s] ELSE Other]

-------------------------------------------------------------------------------
(* The callers.                                                              *)

\* (Bound: the model stops once it has strayed.)
Running == ~crashed /\ ~strayed

Crash == crashed' = TRUE /\ UNCHANGED <<freeMap, disk, sector, strayed>>

\* FileSystem::Create: the header, then the map are written if all went well.
CreateFile(f) ==
    /\ sector[f] = NULL /\ Running
    /\ \E size \in FileSizes, garbage \in Garbage :
        LET s == Finds(freeMap, 1)
            r == Extend(Fresh(garbage), freeMap \cup Range(s), disk, size)
        IN  /\ s # <<>>
            /\ IF r.crash THEN Crash
               ELSE IF r.ok
               THEN /\ disk' = [r.disk EXCEPT ![s[1]] = Header(r.h)]
                    /\ freeMap' = r.map
                    /\ sector' = [sector EXCEPT ![f] = s[1]]
                    /\ UNCHANGED <<crashed, strayed>>
               ELSE /\ disk' = Forget(r.disk, freeMap)
                    /\ UNCHANGED <<freeMap, sector, crashed, strayed>>

\* FileSystem::WriteUser past the end of the file: the file is extended, the map
\* and the header are written, then the data.
WriteFile(f) ==
    /\ sector[f] # NULL /\ Running
    /\ LET h == disk[sector[f]].header
       IN  \E size \in FileSizes :
            /\ size > h.numBytes
            /\ LET r == Extend(h, freeMap, disk, size - h.numBytes)
                   d == [r.disk EXCEPT ![sector[f]] = Header(r.h)]
                   data == {ByteToSector(d, r.h, i) :
                                i \in h.numBytes \div SectorSize .. r.h.numSectors - 1}
               IN  IF r.crash THEN Crash
                   ELSE IF r.ok
                   THEN /\ disk' = [s \in Sectors |-> IF s \in data THEN Other ELSE d[s]]
                        /\ freeMap' = r.map
                        /\ UNCHANGED <<sector, crashed, strayed>>
                   ELSE /\ disk' = Forget(r.disk, freeMap)
                        /\ strayed' = (strayed \/ disk' # disk)
                        /\ UNCHANGED <<freeMap, sector, crashed>>

\* FileSystem::Remove: every sector that is cleared ought to be marked.
RemoveFile(f) ==
    /\ sector[f] # NULL /\ Running
    /\ LET h == disk[sector[f]].header
           freed == Freed(disk, h)
       IN  IF Range(freed) \subseteq freeMap /\ IsInjective(freed)
           THEN /\ freeMap' = freeMap \ (Range(freed) \cup {sector[f]})
                /\ sector' = [sector EXCEPT ![f] = NULL]
                /\ strayed' = (strayed \/ FollowsGarbage(h))
                /\ disk' = Forget(disk, freeMap')
                /\ UNCHANGED crashed
           ELSE /\ crashed' = TRUE
                /\ strayed' = (strayed \/ FollowsGarbage(h))
                /\ UNCHANGED <<freeMap, disk, sector>>

Next == \E f \in Files : CreateFile(f) \/ WriteFile(f) \/ RemoveFile(f)

Spec == Init /\ [][Next]_vars

-------------------------------------------------------------------------------
(* Properties.                                                               *)

HeaderType ==
    [numBytes : Nat, numSectors : Nat, dataSectors : [Bits(NumDirect) -> Sectors]]

TypeOK ==
    /\ freeMap \subseteq Sectors
    /\ sector \in [Files -> Sectors \cup {NULL}]
    /\ \A s \in Sectors : /\ disk[s].header \in HeaderType
                          /\ disk[s].ints \in Seq(Sectors)
    /\ {crashed, strayed} \subseteq BOOLEAN

Live == {f \in Files : sector[f] # NULL}

HeaderOf(f) == disk[sector[f]].header

\* The sectors that hold f's contents, in the order of the file.
Contents(f) == [i \in 1 .. HeaderOf(f).numSectors |-> ByteToSector(disk, HeaderOf(f), i - 1)]

\* The sectors that hold f's headers and its list of sectors.
Metadata(f) ==
    LET u == HeaderOf(f).dataSectors[undirectedIndex]
        list == disk[u].header
    IN  {sector[f]} \cup
        (IF HasUndirected(HeaderOf(f))
         THEN {u} \cup {list.dataSectors[i] : i \in Bits(list.numSectors)}
         ELSE {})

\* Until one of the mistaken cases is met, every marked sector belongs to exactly
\* one place of exactly one file: no two files, and no two parts of a file, share
\* a sector, no file uses a free one, and none is lost by a call that failed or by
\* a removal.
SectorsAccounted ==
    /\ TypeOK
    /\ strayed \/
        /\ \A f \in Live : /\ IsInjective(Contents(f))
                           /\ Range(Contents(f)) \cap Metadata(f) = {}
        /\ \A f, g \in Live : f # g =>
               (Range(Contents(f)) \cup Metadata(f))
                   \cap (Range(Contents(g)) \cup Metadata(g)) = {}
        /\ freeMap = Reserved \cup UNION {Range(Contents(f)) \cup Metadata(f) : f \in Live}

\* What is created, written and removed elsewhere, and an extension of the file
\* itself, successful or not, never moves the sectors a file already has.
ContentsStay ==
    [][\A f \in Live : ~strayed' /\ f \in Live' => IsPrefix(Contents(f), Contents(f)')]_vars
==============================================================================
