--------------------------- MODULE FileSystemProof ---------------------------
(***************************************************************************)
(* The safety properties of FileSystem, for any number of threads, names,  *)
(* sectors, directory entries and slots of the table of opened files.      *)
(***************************************************************************)
EXTENDS FileSystem, DataLemmas

\* Zenon has a minute for a leaf; a leaf with arithmetic, functions or sequences asks
\* for the SMT solver.
USE ZenonT(60)
USE FileSystemAssumption

\* What TypeOK says of the directories, and of the calls, and what it leaves out: a
\* directory is finite, and the argument of a call fits the place it is at.
DirectoryType(dir) ==
    /\ DOMAIN dir \subseteq Names \cup Protected
    /\ IsFiniteSet(DOMAIN dir) /\ Cardinality(DOMAIN dir) <= NumDirEntries
    /\ Range(dir) \subseteq Sectors

DiskType ==
    /\ type \in [Sectors -> FileTypes \cup {"free"}]
    /\ DOMAIN table = Sectors /\ \A s \in Sectors : DirectoryType(table[s])
    /\ DirectorySector \in Sectors

Places ==
    {"idle", "fetch", "register", "search", "free", "close", "closing", "wait", "use"}

ArgType(at, what) ==
    /\ at = "idle" => what = NULL
    /\ at \in {"fetch", "register"} => what \in Sectors
    /\ at \in {"search", "free"} => what \in Names \cup Protected
    /\ at \in {"close", "closing", "wait", "use"} => what \in Slots

OpenedType(files) ==
    files \in [Slots -> [id : Sectors \cup {NULL}, mutex : Threads \cup {Nobody}]]

CallType ==
    /\ directoryMutex \in Threads \cup {Nobody} /\ openedFileMutex \in Threads \cup {Nobody}
    /\ OpenedType(openedFiles)
    /\ pc \in [Threads -> Places] /\ DOMAIN arg = Threads
    /\ \A t \in Threads : ArgType(pc[t], arg[t])
    /\ calls \in [Threads -> 0 .. MaxCalls]
    /\ strayed \in BOOLEAN

\* Directory d lists s under name, when the headers are ty and the entries tab.
IsDir(ty, d) == ty[d] \in {"DIRECTORY", "ROOT"}

Lists(ty, tab, d, name, s) == IsDir(ty, d) /\ name \in DOMAIN tab[d] /\ tab[d][name] = s

\* The tree that TreeSound speaks of, entry by entry: what is in use is listed, and
\* nothing is listed twice; the root is the one that is not listed, and has no
\* entries for itself and its parent.
TreeOf(ty, tab) ==
    /\ \A s \in Sectors : ty[s] = "ROOT" <=> s = RootSector
    /\ \A s \in Sectors : ty[s] \in {"DATA_FILE", "DIRECTORY"} =>
           \E d \in Sectors, name \in Names : Lists(ty, tab, d, name, s)
    /\ \A d, e \in Sectors, m, n \in Names, s \in Sectors :
           Lists(ty, tab, d, m, s) /\ Lists(ty, tab, e, n, s) => d = e /\ m = n
    /\ \A d, s \in Sectors, name \in Names \cup Protected :
           Lists(ty, tab, d, name, s) => ty[s] # "free" /\ (name \in Names => ty[s] # "ROOT")
    /\ \A d \in Sectors : ty[d] = "ROOT" => DOMAIN tab[d] \subseteq Names
    /\ \A d \in Sectors : ty[d] = "DIRECTORY" =>
           /\ Protected \subseteq DOMAIN tab[d] /\ tab[d]["."] = d
           /\ \E name \in Names : Lists(ty, tab, tab[d][".."], name, d)

Tree == TreeOf(type, table) /\ IsDir(type, DirectorySector)

\* What a thread inside a call relies on: Remove has the lock of the directories and
\* its name is still there, what is to be registered is still a file, and the lock
\* of a slot is with the thread that uses or closes the file.
Relies(t, at, what, ty, dir, lock, files) ==
    /\ at \in {"search", "free"} =>
          /\ lock = t
          /\ what \in Names /\ what \in DOMAIN dir /\ ty[dir[what]] = "DATA_FILE"
    /\ at = "register" => ty[what] = "DATA_FILE"
    /\ at \in {"wait", "use"} => files[what].id # NULL
    /\ at \in {"closing", "use"} => files[what].mutex = t

Callers ==
    \A t \in Threads : Relies(t, pc[t], arg[t], type, current, directoryMutex, openedFiles)

\* The table of opened files lists files, each once.
TableOf(ty, files) ==
    \A i, j \in Slots : files[i].id # NULL =>
        /\ ty[files[i].id] = "DATA_FILE"
        /\ files[i].id = files[j].id => i = j

Table == TableOf(type, openedFiles)

IInv == DiskType /\ CallType /\ (strayed \/ (Tree /\ Callers /\ Table))

-------------------------------------------------------------------------------
(* Directories as data.                                                       *)

\* The sectors and the names have nothing in common with what stands for none.
LEMMA Distinct ==
    /\ Sectors \subseteq Nat /\ Slots \subseteq Nat /\ RootSector \in Sectors
    /\ NULL \notin Sectors /\ NULL \notin Slots /\ NULL = -1
    /\ Nobody \notin Threads
    /\ "." \in Protected /\ ".." \in Protected /\ "." \notin Names /\ ".." \notin Names
    /\ \A n \in Protected : n = "." \/ n = ".."
  BY SMTT(60) DEF Sectors, Slots, Bits, RootSector, NULL, Nobody, Protected

\* Directory::Add on a directory that is not full.
LEMMA AddType ==
    ASSUME NEW dir, DirectoryType(dir), ~Full(dir), NEW name \in Names, NEW s \in Sectors
    PROVE  DirectoryType(Add(dir, name, s))
  <1>1. /\ DOMAIN Add(dir, name, s) = DOMAIN dir \cup {name}
        /\ Range(Add(dir, name, s)) \subseteq Sectors
    BY DEF Add, Range, DirectoryType
  <1>2. /\ IsFiniteSet(DOMAIN dir \cup {name})
        /\ Cardinality(DOMAIN dir \cup {name}) \in
               {Cardinality(DOMAIN dir), Cardinality(DOMAIN dir) + 1}
    BY FS_AddElement DEF DirectoryType
  <1>3. Cardinality(DOMAIN dir) \in Nat /\ NumDirEntries \in Nat
    BY FS_CardinalityType DEF DirectoryType
  <1>4. Cardinality(DOMAIN dir) < NumDirEntries
    BY SMTT(60), <1>3 DEF DirectoryType, Full
  <1> QED
    BY SMTT(60), <1>1, <1>2, <1>3, <1>4 DEF DirectoryType

\* Directory::Remove.
LEMMA WithoutType ==
    ASSUME NEW dir, DirectoryType(dir), NEW name
    PROVE  DirectoryType(Without(dir, name))
  <1>1. /\ DOMAIN Without(dir, name) = DOMAIN dir \ {name}
        /\ Range(Without(dir, name)) \subseteq Sectors
    BY DEF Without, Range, DirectoryType
  <1>2. /\ IsFiniteSet(DOMAIN dir \ {name})
        /\ Cardinality(DOMAIN dir \ {name}) <= Cardinality(DOMAIN dir)
    <2>1. DOMAIN dir \ {name} \in SUBSET DOMAIN dir
      OBVIOUS
    <2> QED
      BY <2>1, FS_Subset DEF DirectoryType
  <1>3. /\ Cardinality(DOMAIN dir) \in Nat /\ Cardinality(DOMAIN dir \ {name}) \in Nat
        /\ NumDirEntries \in Nat
    BY <1>2, FS_CardinalityType DEF DirectoryType
  <1> QED
    BY SMTT(60), <1>1, <1>2, <1>3 DEF DirectoryType

\* A new directory has two entries, and a file none.
LEMMA NewType ==
    /\ DirectoryType(NoEntries)
    /\ \A s, parent \in Sectors :
           DirectoryType([n \in Protected |-> IF n = "." THEN s ELSE parent])
  <1>1. IsFiniteSet({}) /\ Cardinality({}) = 0
    BY FS_EmptySet
  <1>2. DOMAIN NoEntries = {} /\ Range(NoEntries) = {}
    BY DEF NoEntries, Range
  <1>3. DirectoryType(NoEntries)
    BY SMTT(60), <1>1, <1>2 DEF DirectoryType
  <1>4. IsFiniteSet({"."}) /\ Cardinality({"."}) = 1
    BY FS_Singleton
  <1>5. Protected = {"."} \cup {".."} /\ ".." \notin {"."}
    BY DEF Protected
  <1>6. IsFiniteSet(Protected) /\ Cardinality(Protected) = 2
    <2>1. /\ IsFiniteSet({"."} \cup {".."})
          /\ Cardinality({"."} \cup {".."}) = Cardinality({"."}) + 1
      BY <1>4, <1>5, FS_AddElement
    <2> QED
      BY SMTT(60), <1>4, <1>5, <2>1
  <1>7. ASSUME NEW s \in Sectors, NEW parent \in Sectors
        PROVE  DirectoryType([n \in Protected |-> IF n = "." THEN s ELSE parent])
    BY SMTT(60), <1>6 DEF DirectoryType, Range
  <1> QED
    BY <1>3, <1>7

-------------------------------------------------------------------------------
(* The tree.                                                                  *)

\* A step that writes no directory keeps the tree.
LEMMA TreeKept ==
    ASSUME UNCHANGED <<disk, DirectorySector>>
    PROVE  (DiskType => DiskType') /\ (Tree => Tree')
  BY DEF disk, DiskType, Tree

\* ChangeDir: the path leads to a directory.
LEMMA ChangeDirKept ==
    ASSUME NEW t \in Threads, DiskType, ChangeDir(t)
    PROVE  DiskType' /\ (Tree => Tree')
  <1>0. PICK n \in 1 .. 2 : \E path \in [1 .. n -> Sectors] :
            Follows(path) /\ DirectorySector' = path[Len(path)]
    BY DEF ChangeDir
  <1>1. PICK path \in [1 .. n -> Sectors] :
            Follows(path) /\ DirectorySector' = path[Len(path)]
    BY <1>0
  <1>2. Len(path) = n /\ n \in DOMAIN path /\ path[n] \in Sectors
    BY SMTT(60)
  <1>3. IsDir(type, path[n])
    BY <1>1, <1>2 DEF Follows, IsDirectory, IsDir
  <1>4. UNCHANGED disk
    BY DEF ChangeDir
  <1> QED
    BY <1>1, <1>2, <1>3, <1>4 DEF disk, DiskType, Tree

\* CreateEntry: the new header was in no directory, and is now in the current one.
LEMMA CreateKept ==
    ASSUME NEW t \in Threads, NEW name \in Names, NEW kind \in {"DATA_FILE", "DIRECTORY"},
           DiskType, CreateEntry(t, name, kind)
    PROVE  /\ DiskType'
           /\ Tree => Tree'
           /\ \A x \in Sectors : type[x] # "free" => type'[x] = type[x]
  <1> DEFINE free == {x \in Sectors : type[x] = "free"}
             s == Min(free)
             D == DirectorySector
             entries == IF kind = "DIRECTORY"
                        THEN [n \in Protected |-> IF n = "." THEN s ELSE D]
                        ELSE NoEntries
  <1>1. /\ free # {}
        /\ type' = [type EXCEPT ![s] = kind]
        /\ table' = [table EXCEPT ![D] = Add(@, name, s), ![s] = entries]
        /\ D' = D
        /\ Lookup(table[D], name) = NULL /\ ~Full(table[D])
    BY DEF CreateEntry, current
  <1>2. s \in Sectors /\ type[s] = "free"
    <2>1. free \subseteq Nat
      BY Distinct
    <2>2. s \in free
      BY <1>1, <2>1, FirstBit
    <2> QED
      BY <2>2
  <1> HIDE DEF s, free
  <1>3. D \in Sectors /\ DOMAIN table = Sectors /\ DirectoryType(table[D])
    BY DEF DiskType
  <1>4. name \notin DOMAIN table[D]
    <2> SUFFICES ASSUME name \in DOMAIN table[D] PROVE FALSE
      OBVIOUS
    <2>1. table[D][name] \in Sectors
      BY <1>3 DEF DirectoryType, Range
    <2> QED
      BY <1>1, <2>1, Distinct DEF Lookup
  <1>5. /\ table'[s] = entries
        /\ s # D => table'[D] = Add(table[D], name, s)
        /\ \A d \in Sectors : d # s /\ d # D => table'[d] = table[d]
        /\ DOMAIN table' = Sectors
    BY <1>1, <1>2, <1>3
  <1>6. /\ type'[s] = kind /\ \A x \in Sectors : x # s => type'[x] = type[x]
        /\ type' \in [Sectors -> FileTypes \cup {"free"}]
    BY <1>1, <1>2 DEF DiskType, FileTypes
  <1>7. DiskType'
    <2>1. DirectoryType(entries)
      BY <1>2, <1>3, NewType
    <2>2. DirectoryType(Add(table[D], name, s))
      BY <1>1, <1>2, <1>3, AddType
    <2>3. \A x \in Sectors : DirectoryType(table'[x])
      BY <1>5, <2>1, <2>2 DEF DiskType
    <2> QED
      BY <1>1, <1>3, <1>5, <1>6, <2>3 DEF DiskType, DirectoryType
  <1>8. ASSUME Tree PROVE Tree'
    <2>1. s # D /\ s # RootSector /\ IsDir(type, D) /\ ~IsDir(type, s)
      BY <1>2, <1>8 DEF Tree, TreeOf, IsDir
    <2>2. /\ DOMAIN table'[D] = DOMAIN table[D] \cup {name} /\ table'[D][name] = s
          /\ \A n \in DOMAIN table[D] : table'[D][n] = table[D][n]
      BY <1>4, <1>5, <2>1 DEF Add
    <2>3. /\ kind = "DIRECTORY" => /\ DOMAIN table'[s] = Protected
                                   /\ table'[s]["."] = s /\ table'[s][".."] = D
          /\ kind = "DATA_FILE" => DOMAIN table'[s] = {}
      BY <1>5, Distinct DEF NoEntries
    <2>4. \A d \in Sectors : /\ d # s => (IsDir(type', d) <=> IsDir(type, d))
                             /\ IsDir(type', s) <=> kind = "DIRECTORY"
      BY <1>6 DEF IsDir
    <2>5. \A d \in Sectors, n \in Names, x \in Sectors :
              Lists(type', table', d, n, x) <=> Lists(type, table, d, n, x) \/ (d = D /\ n = name /\ x = s)
      BY SMTT(60), <1>2, <1>3, <1>4, <1>5, <2>1, <2>2, <2>3, <2>4, Distinct DEF Lists
    <2>6. ASSUME NEW d \in Sectors, NEW n \in Protected, NEW x \in Sectors,
                 Lists(type', table', d, n, x)
          PROVE  Lists(type, table, d, n, x) \/ (d = s /\ x \in {s, D})
      <3>1. CASE d = s
        BY <2>3, <2>4, <2>6, <3>1, Distinct DEF Lists
      <3>2. CASE d = D
        <4>1. n \in DOMAIN table[D] /\ table'[D][n] = table[D][n]
          BY <2>2, <2>6, <3>2, Distinct DEF Lists
        <4> QED
          BY <2>1, <2>6, <3>2, <4>1 DEF Lists
      <3>3. CASE d # s /\ d # D
        BY <1>5, <2>4, <2>6, <3>3 DEF Lists
      <3> QED
        BY <3>1, <3>2, <3>3
    <2>7. \A d, x \in Sectors, n \in Names \cup Protected : Lists(type, table, d, n, x) => x # s
      BY <1>2, <1>8 DEF Tree, TreeOf
    <2>8. \A x \in Sectors : type'[x] = "ROOT" <=> x = RootSector
      BY <1>2, <1>6, <1>8, <2>1 DEF Tree, TreeOf
    <2>9. ASSUME NEW x \in Sectors, type'[x] \in {"DATA_FILE", "DIRECTORY"}
          PROVE  \E d \in Sectors, n \in Names : Lists(type', table', d, n, x)
      <3>1. CASE x = s
        BY <1>3, <2>5, <3>1
      <3>2. CASE x # s
        BY <1>6, <1>8, <2>5, <2>9, <3>2 DEF Tree, TreeOf
      <3> QED
        BY <3>1, <3>2
    <2>10. ASSUME NEW d \in Sectors, NEW e \in Sectors, NEW m \in Names, NEW n \in Names,
                  NEW x \in Sectors, Lists(type', table', d, m, x), Lists(type', table', e, n, x)
           PROVE  d = e /\ m = n
      <3>1. CASE x = s
        BY SMTT(60), <2>5, <2>7, <2>10, <3>1
      <3>2. CASE x # s
        <4>1. Lists(type, table, d, m, x) /\ Lists(type, table, e, n, x)
          BY <2>5, <2>10, <3>2
        <4> QED
          BY SMTT(60), <1>8, <4>1 DEF Tree, TreeOf
      <3> QED
        BY <3>1, <3>2
    <2>11. ASSUME NEW d \in Sectors, NEW x \in Sectors, NEW n \in Names \cup Protected,
                  Lists(type', table', d, n, x)
           PROVE  type'[x] # "free" /\ (n \in Names => type'[x] # "ROOT")
      <3>1. CASE Lists(type, table, d, n, x)
        <4>1. x # s /\ type[x] # "free" /\ (n \in Names => type[x] # "ROOT")
          BY <1>8, <2>7, <3>1 DEF Tree, TreeOf
        <4> QED
          BY <1>6, <4>1
      <3>2. CASE n \in Names /\ x = s
        BY <1>6, <3>2
      <3>3. CASE n \in Protected /\ x \in {s, D}
        BY <1>3, <1>6, <2>1, <3>3, Distinct DEF IsDir
      <3> QED
        BY <2>5, <2>6, <2>11, <3>1, <3>2, <3>3
    <2>12. ASSUME NEW d \in Sectors, type'[d] = "ROOT"
           PROVE  DOMAIN table'[d] \subseteq Names
      <3>1. d # s /\ DOMAIN table[d] \subseteq Names
        BY <1>6, <1>8, <2>12 DEF Tree, TreeOf
      <3> QED
        BY <1>5, <2>2, <3>1
    <2>13. ASSUME NEW d \in Sectors, type'[d] = "DIRECTORY"
           PROVE  /\ Protected \subseteq DOMAIN table'[d] /\ table'[d]["."] = d
                  /\ \E n \in Names : Lists(type', table', table'[d][".."], n, d)
      <3>1. CASE d = s
        BY <1>2, <1>3, <1>6, <2>3, <2>5, <2>13, <3>1
      <3>2. CASE d # s
        <4>1. /\ Protected \subseteq DOMAIN table[d] /\ table[d]["."] = d
              /\ \E n \in Names : Lists(type, table, table[d][".."], n, d)
          BY <1>6, <1>8, <2>13, <3>2 DEF Tree, TreeOf
        <4>2. /\ Protected \subseteq DOMAIN table'[d] /\ table'[d]["."] = d
              /\ table'[d][".."] = table[d][".."]
          BY <1>5, <2>2, <3>2, <4>1, Distinct
        <4>3. table[d][".."] \in Sectors
          BY <4>1, Distinct DEF DiskType, DirectoryType, Range
        <4> QED
          BY <2>5, <4>1, <4>2, <4>3
      <3> QED
        BY <3>1, <3>2
    <2>14. IsDir(type', DirectorySector')
      BY <1>1, <1>3, <2>1, <2>4
    <2> QED
      BY <2>8, <2>9, <2>10, <2>11, <2>12, <2>13, <2>14 DEF Tree, TreeOf
  <1> QED
    BY <1>2, <1>6, <1>7, <1>8

\* An entry of the current directory goes, and with it what it leads to: a file, or
\* a directory without entries of its own.
LEMMA EntryRemoved ==
    ASSUME DiskType, Tree,
           NEW name \in Names, name \in DOMAIN table[DirectorySector],
           NEW s \in Sectors, s = table[DirectorySector][name], s # DirectorySector,
           type[s] \in {"DATA_FILE", "DIRECTORY"},
           type[s] = "DIRECTORY" => DOMAIN table[s] \subseteq Protected,
           type' = [type EXCEPT ![s] = "free"],
           table' = [table EXCEPT ![DirectorySector] = Without(@, name)],
           DirectorySector' = DirectorySector
    PROVE  Tree'
  <1> DEFINE D == DirectorySector
  <1>1. /\ D \in Sectors /\ IsDir(type, D) /\ Lists(type, table, D, name, s)
        /\ TreeOf(type, table) /\ DOMAIN table = Sectors
    BY DEF DiskType, Tree, Lists
  <1>2. /\ DOMAIN table'[D] = DOMAIN table[D] \ {name}
        /\ \A n \in DOMAIN table[D] : n # name => table'[D][n] = table[D][n]
        /\ \A d \in Sectors : d # D => table'[d] = table[d]
    BY <1>1 DEF Without
  <1>3. type'[s] = "free" /\ \A x \in Sectors : x # s => type'[x] = type[x]
    BY DEF DiskType
  <1>4. \A d, x \in Sectors, n \in Names \cup Protected :
            Lists(type', table', d, n, x) <=>
                Lists(type, table, d, n, x) /\ d # s /\ ~(d = D /\ n = name)
    <2>1. \A d \in Sectors : IsDir(type', d) <=> IsDir(type, d) /\ d # s
      BY <1>3 DEF IsDir
    <2> QED
      BY <1>1, <1>2, <2>1 DEF Lists
  <1>5. \A x \in Sectors, n \in Names : ~Lists(type, table, s, n, x)
    BY Distinct DEF Lists, IsDir
  <1>6. \A d \in Sectors : d # s /\ type[d] = "DIRECTORY" =>
            /\ Protected \subseteq DOMAIN table'[d] /\ table'[d]["."] = d
            /\ table'[d][".."] = table[d][".."] /\ table[d][".."] \in Sectors
            /\ \E n \in Names : Lists(type, table, table[d][".."], n, d)
    <2> SUFFICES ASSUME NEW d \in Sectors, d # s, type[d] = "DIRECTORY"
                 PROVE  /\ Protected \subseteq DOMAIN table'[d] /\ table'[d]["."] = d
                        /\ table'[d][".."] = table[d][".."] /\ table[d][".."] \in Sectors
                        /\ \E n \in Names : Lists(type, table, table[d][".."], n, d)
      OBVIOUS
    <2>1. /\ Protected \subseteq DOMAIN table[d] /\ table[d]["."] = d
          /\ \E n \in Names : Lists(type, table, table[d][".."], n, d)
      BY <1>1 DEF TreeOf
    <2>2. table[d][".."] \in Sectors
      BY <2>1, Distinct DEF DiskType, DirectoryType, Range
    <2> QED
      BY <1>2, <2>1, <2>2, Distinct
  <1>7. \A x \in Sectors : type'[x] = "ROOT" <=> x = RootSector
    BY SMTT(60), <1>1, <1>3 DEF TreeOf
  <1>8. ASSUME NEW x \in Sectors, type'[x] \in {"DATA_FILE", "DIRECTORY"}
        PROVE  \E d \in Sectors, n \in Names : Lists(type', table', d, n, x)
    <2>1. x # s /\ type[x] \in {"DATA_FILE", "DIRECTORY"}
      BY <1>3, <1>8
    <2>2. PICK d \in Sectors, n \in Names : Lists(type, table, d, n, x)
      BY <1>1, <2>1 DEF TreeOf
    <2>3. d # s /\ ~(d = D /\ n = name)
      BY <1>1, <1>5, <2>1, <2>2 DEF Lists
    <2> QED
      BY <1>4, <2>2, <2>3
  <1>9. \A d, e \in Sectors, m, n \in Names, x \in Sectors :
            Lists(type', table', d, m, x) /\ Lists(type', table', e, n, x) => d = e /\ m = n
    BY SMTT(60), <1>1, <1>4 DEF TreeOf
  <1>10. ASSUME NEW d \in Sectors, NEW x \in Sectors, NEW n \in Names \cup Protected,
                Lists(type', table', d, n, x)
         PROVE  type'[x] # "free" /\ (n \in Names => type'[x] # "ROOT")
    <2>1. Lists(type, table, d, n, x) /\ d # s /\ ~(d = D /\ n = name)
      BY <1>4, <1>10
    <2>2. type[x] # "free" /\ (n \in Names => type[x] # "ROOT")
      BY <1>1, <2>1 DEF TreeOf
    <2>3. x # s
      <3> SUFFICES ASSUME x = s PROVE FALSE
        OBVIOUS
      <3>1. CASE n \in Names
        BY SMTT(60), <1>1, <2>1, <3>1 DEF TreeOf
      <3>2. CASE n \in Protected
        <4>1. type[d] = "DIRECTORY"
          <5>1. IsDir(type, d) /\ n \in DOMAIN table[d] /\ n \notin Names
            BY <2>1, <3>2, Distinct DEF Lists
          <5> QED
            BY <1>1, <5>1 DEF TreeOf, IsDir
        <4>2. table[d]["."] = d /\ \E m \in Names : Lists(type, table, table[d][".."], m, d)
          BY <1>1, <4>1 DEF TreeOf
        <4>3. table[d][n] = s
          BY <2>1 DEF Lists
        <4>4. n = ".."
          BY <2>1, <3>2, <4>2, <4>3, Distinct
        <4> QED
          BY <1>5, <4>2, <4>3, <4>4
      <3> QED
        BY <3>1, <3>2
    <2> QED
      BY <1>3, <2>2, <2>3
  <1>11. ASSUME NEW d \in Sectors, type'[d] = "ROOT"
         PROVE  DOMAIN table'[d] \subseteq Names
    BY <1>1, <1>2, <1>3, <1>11 DEF TreeOf
  <1>12. ASSUME NEW d \in Sectors, type'[d] = "DIRECTORY"
         PROVE  /\ Protected \subseteq DOMAIN table'[d] /\ table'[d]["."] = d
                /\ \E n \in Names : Lists(type', table', table'[d][".."], n, d)
    <2>1. d # s /\ type[d] = "DIRECTORY"
      BY <1>3, <1>12
    <2>2. PICK n \in Names : Lists(type, table, table[d][".."], n, d)
      BY <1>6, <2>1
    <2>3. table[d][".."] \in Sectors /\ table[d][".."] # s
      BY <1>5, <1>6, <2>1, <2>2
    <2>4. ~(table[d][".."] = D /\ n = name)
      BY <1>1, <2>1, <2>2 DEF Lists
    <2>5. Lists(type', table', table[d][".."], n, d)
      BY <1>4, <2>2, <2>3, <2>4
    <2> QED
      BY <1>6, <2>1, <2>5
  <1>13. IsDir(type', DirectorySector')
    BY <1>1, <1>3 DEF IsDir
  <1> QED
    BY <1>7, <1>8, <1>9, <1>10, <1>11, <1>12, <1>13 DEF Tree, TreeOf

-------------------------------------------------------------------------------
(* The steps.                                                                 *)

\* The bound on the calls of a thread is kept.
LEMMA BeginType ==
    ASSUME NEW t \in Threads, CallType, Begin(t)
    PROVE  pc[t] = "idle" /\ calls' \in [Threads -> 0 .. MaxCalls]
  BY SMTT(60) DEF CallType, Begin

\* A step under directoryMutex alone: no thread is about to remove a file, and those
\* that open one rely on nothing but that files stay files.
LEMMA CallersKept ==
    ASSUME NEW t \in Threads, CallType, Directories(t), strayed' \in BOOLEAN,
           \A x \in Sectors : type[x] = "DATA_FILE" => type'[x] = "DATA_FILE"
    PROVE  /\ CallType'
           /\ Callers => Callers'
           /\ Table => Table'
  <1>1. /\ directoryMutex' = directoryMutex /\ openedFileMutex' = openedFileMutex
        /\ openedFiles' = openedFiles /\ pc' = pc /\ arg' = arg
        /\ directoryMutex = Nobody /\ Begin(t)
    BY DEF Directories, locks
  <1>2. CallType'
    BY <1>1, BeginType DEF CallType
  <1>3. ASSUME Callers PROVE Callers'
    <2> SUFFICES ASSUME NEW u \in Threads
                 PROVE  Relies(u, pc[u], arg[u], type', current', Nobody, openedFiles)
      BY <1>1 DEF Callers
    <2>1. Relies(u, pc[u], arg[u], type, current, Nobody, openedFiles)
      BY <1>1, <1>3 DEF Callers
    <2>2. pc[u] \notin {"search", "free"}
      BY <2>1, Distinct DEF Relies
    <2>3. pc[u] = "register" => arg[u] \in Sectors
      BY DEF CallType, ArgType
    <2> QED
      BY <2>1, <2>2, <2>3 DEF Relies
  <1>4. ASSUME Table PROVE Table'
    <2>1. \A i \in Slots : openedFiles[i].id # NULL => openedFiles[i].id \in Sectors
      BY DEF CallType, OpenedType
    <2> QED
      BY <1>1, <1>4, <2>1 DEF Table, TableOf
  <1> QED
    BY <1>2, <1>3, <1>4

\* A step that writes no directory: of the other threads, only what they rely on
\* in the table and the locks can change.
LEMMA CallStep ==
    ASSUME NEW t \in Threads, IInv, UNCHANGED <<disk, DirectorySector>>,
           NEW at \in Places, NEW what, Go(t, at, what), ArgType(at, what),
           calls' \in [Threads -> 0 .. MaxCalls],
           directoryMutex' \in Threads \cup {Nobody}, openedFileMutex' \in Threads \cup {Nobody},
           OpenedType(openedFiles'), strayed' \in BOOLEAN, strayed => strayed',
           ~strayed' /\ Tree /\ Callers /\ Table =>
               /\ TableOf(type, openedFiles')
               /\ Relies(t, at, what, type, current, directoryMutex', openedFiles')
               /\ \A u \in Threads \ {t} :
                      Relies(u, pc[u], arg[u], type, current, directoryMutex', openedFiles')
    PROVE  IInv'
  <1>1. DiskType' /\ (Tree => Tree')
    BY TreeKept DEF IInv
  <1>2. type' = type /\ current' = current
    BY DEF disk, current
  <1>3. /\ pc' \in [Threads -> Places] /\ DOMAIN arg' = Threads
        /\ pc'[t] = at /\ arg'[t] = what
        /\ \A u \in Threads \ {t} : pc'[u] = pc[u] /\ arg'[u] = arg[u]
    BY DEF IInv, CallType, Go
  <1>4. CallType'
    BY <1>3 DEF IInv, CallType
  <1>5. ASSUME ~strayed' PROVE Tree' /\ Callers' /\ Table'
    <2>1. Tree /\ Callers /\ Table
      BY <1>5 DEF IInv
    <2>2. \A u \in Threads :
              Relies(u, pc'[u], arg'[u], type, current, directoryMutex', openedFiles')
      BY <1>3, <1>5, <2>1
    <2> QED
      BY <1>1, <1>2, <1>5, <2>1, <2>2 DEF Callers, Table
  <1> QED
    BY <1>1, <1>4, <1>5 DEF IInv

\* FileSystem::Create and CreateDir keep the invariant.
LEMMA CreateStep ==
    ASSUME NEW t \in Threads, IInv, Create(t) \/ CreateDir(t)
    PROVE  IInv'
  <1>1. PICK name \in Names, kind \in {"DATA_FILE", "DIRECTORY"} : CreateEntry(t, name, kind)
    BY DEF Create, CreateDir
  <1>2. Directories(t) /\ strayed' = strayed
    BY <1>1 DEF CreateEntry
  <1>3. /\ DiskType' /\ (Tree => Tree')
        /\ \A x \in Sectors : type[x] = "DATA_FILE" => type'[x] = "DATA_FILE"
    BY <1>1, CreateKept DEF IInv
  <1>4. strayed' \in BOOLEAN /\ CallType
    BY <1>2 DEF IInv, CallType
  <1>5. CallType' /\ (Callers => Callers') /\ (Table => Table')
    BY <1>2, <1>3, <1>4, CallersKept
  <1> QED
    BY <1>2, <1>3, <1>5 DEF IInv

\* FileSystem::ChangeDir keeps the invariant.
LEMMA ChangeDirStep ==
    ASSUME NEW t \in Threads, IInv, ChangeDir(t)
    PROVE  IInv'
  <1>1. Directories(t) /\ strayed' = strayed /\ type' = type
    BY DEF ChangeDir, disk
  <1>2. DiskType' /\ (Tree => Tree')
    BY ChangeDirKept DEF IInv
  <1>3. strayed' \in BOOLEAN /\ CallType
    BY <1>1 DEF IInv, CallType
  <1>4. CallType' /\ (Callers => Callers') /\ (Table => Table')
    BY <1>1, <1>3, CallersKept
  <1> QED
    BY <1>1, <1>2, <1>4 DEF IInv

\* RemoveDir of "." strays; ".." leads to a directory that is not empty, since it
\* lists the current one.
LEMMA RemoveDirStep ==
    ASSUME NEW t \in Threads, IInv, RemoveDir(t)
    PROVE  IInv'
  <1> DEFINE D == DirectorySector
  <1>1. PICK name \in Names \cup Protected :
            LET s == Lookup(table[D], name)
            IN  /\ s # NULL /\ type[s] = "DIRECTORY" /\ IsEmpty(table[s])
                /\ type' = [type EXCEPT ![s] = "free"]
                /\ table' = [table EXCEPT ![D] = Without(@, name)]
                /\ strayed' = (strayed \/ s = D)
    BY DEF RemoveDir, current
  <1> DEFINE s == table[D][name]
  <1>2. /\ D \in Sectors /\ DirectoryType(table[D]) /\ DOMAIN table = Sectors
        /\ type \in [Sectors -> FileTypes \cup {"free"}]
    BY DEF IInv, DiskType
  <1>3. /\ name \in DOMAIN table[D] /\ s \in Sectors
        /\ type[s] = "DIRECTORY" /\ DOMAIN table[s] \subseteq Protected
        /\ type' = [type EXCEPT ![s] = "free"]
        /\ table' = [table EXCEPT ![D] = Without(@, name)]
        /\ strayed' = (strayed \/ s = D)
    <2>1. name \in DOMAIN table[D] /\ Lookup(table[D], name) = s
      BY <1>1 DEF Lookup
    <2>2. s \in Sectors
      BY <1>2, <2>1 DEF DirectoryType, Range
    <2> QED
      BY <1>1, <2>1, <2>2 DEF IsEmpty
  <1>4. Directories(t) /\ D' = D
    BY DEF RemoveDir
  <1>5. DiskType'
    <2>1. type' \in [Sectors -> FileTypes \cup {"free"}]
      BY <1>2, <1>3
    <2>2. \A x \in Sectors : DirectoryType(table'[x])
      BY <1>2, <1>3, WithoutType DEF IInv, DiskType
    <2> QED
      BY <1>2, <1>3, <1>4, <2>1, <2>2 DEF DiskType
  <1>6. \A x \in Sectors : type[x] = "DATA_FILE" => type'[x] = "DATA_FILE"
    BY <1>2, <1>3
  <1>7. strayed' \in BOOLEAN /\ CallType
    BY <1>3 DEF IInv
  <1>8. CallType' /\ (Callers => Callers') /\ (Table => Table')
    BY <1>4, <1>6, <1>7, CallersKept
  <1>9. ASSUME Tree, s # D PROVE Tree'
    <2>1. name \in Names
      <3> SUFFICES ASSUME name \in Protected PROVE FALSE
        OBVIOUS
      <3>1. IsDir(type, D) /\ TreeOf(type, table)
        BY <1>9 DEF Tree
      <3>2. type[D] = "DIRECTORY"
        <4>1. name \notin Names /\ name \in DOMAIN table[D]
          BY <1>3, Distinct
        <4> QED
          BY <1>2, <3>1, <4>1 DEF TreeOf, IsDir
      <3>3. table[D]["."] = D
        BY <1>2, <3>1, <3>2 DEF TreeOf
      <3>4. PICK n \in Names : Lists(type, table, table[D][".."], n, D)
        BY <1>2, <3>1, <3>2 DEF TreeOf
      <3>5. name = ".."
        BY <1>9, <3>3, Distinct
      <3>6. n \in DOMAIN table[s]
        BY <3>4, <3>5 DEF Lists
      <3> QED
        BY <1>3, <3>6, Distinct
    <2> QED
      BY <1>3, <1>4, <1>9, <2>1, EntryRemoved DEF IInv
  <1> QED
    BY <1>3, <1>5, <1>8, <1>9 DEF IInv

\* Remove, third step: a thread inside Open or an open file of that sector strays.
LEMMA RemoveFreeStep ==
    ASSUME NEW t \in Threads, IInv, RemoveFree(t)
    PROVE  IInv'
  <1> DEFINE D == DirectorySector
             s == table[D][arg[t]]
  <1>1. /\ pc[t] = "free"
        /\ type' = [type EXCEPT ![s] = "free"]
        /\ table' = [table EXCEPT ![D] = Without(@, arg[t])]
        /\ strayed' = (strayed \/ Opening(s) \/ IsOpened(s))
        /\ pc' = [pc EXCEPT ![t] = "idle"] /\ arg' = [arg EXCEPT ![t] = NULL]
        /\ directoryMutex' = Nobody
        /\ D' = D /\ openedFileMutex' = openedFileMutex /\ openedFiles' = openedFiles
        /\ calls' = calls
    BY DEF RemoveFree, current, Return, Go
  <1>2. DiskType /\ CallType
    BY DEF IInv
  <1>3. DiskType'
    <2>1. type' \in [Sectors -> FileTypes \cup {"free"}]
      BY <1>1, <1>2 DEF DiskType
    <2>2. DirectoryType(Without(table[D], arg[t]))
      BY <1>2, WithoutType DEF DiskType
    <2>3. \A x \in Sectors : DirectoryType(table'[x])
      BY <1>1, <1>2, <2>2 DEF DiskType
    <2> QED
      BY <1>1, <1>2, <2>1, <2>3 DEF DiskType
  <1>4. CallType'
    BY <1>1, <1>2 DEF CallType, ArgType, Places
  <1>5. ASSUME ~strayed' PROVE Tree' /\ Callers' /\ Table'
    <2>1. Tree /\ Callers /\ Table /\ ~Opening(s) /\ ~IsOpened(s)
      BY <1>1, <1>5 DEF IInv
    <2>2. /\ directoryMutex = t /\ arg[t] \in Names /\ arg[t] \in DOMAIN table[D]
          /\ type[s] = "DATA_FILE"
      BY <1>1, <2>1 DEF Callers, Relies, current
    <2>3. s \in Sectors
      BY <1>2, <2>2 DEF DiskType, DirectoryType, Range
    <2>4. s # D
      BY <2>1, <2>2 DEF Tree, IsDir
    <2>5. type[s] = "DIRECTORY" => DOMAIN table[s] \subseteq Protected
      BY <2>2
    <2>6. Tree'
      BY <1>1, <1>2, <2>1, <2>2, <2>3, <2>4, <2>5, EntryRemoved
    <2>7. \A x \in Sectors : x # s => type'[x] = type[x]
      BY <1>1, <1>2 DEF DiskType
    <2>8. Callers'
      <3> SUFFICES ASSUME NEW u \in Threads
                   PROVE  Relies(u, pc'[u], arg'[u], type', current', Nobody, openedFiles)
        BY <1>1 DEF Callers
      <3>1. CASE u = t
        BY <1>1, <1>2, <3>1 DEF CallType, Relies
      <3>2. CASE u # t
        <4>1. pc'[u] = pc[u] /\ arg'[u] = arg[u]
          BY <1>1, <1>2, <3>2 DEF CallType
        <4>2. Relies(u, pc[u], arg[u], type, current, t, openedFiles)
          BY <2>1, <2>2 DEF Callers
        <4>3. pc[u] \notin {"search", "free"}
          BY <3>2, <4>2 DEF Relies
        <4>4. pc[u] = "register" => arg[u] \in Sectors /\ arg[u] # s
          BY <1>2, <2>1 DEF Opening, CallType, ArgType
        <4> QED
          BY <2>7, <4>1, <4>2, <4>3, <4>4 DEF Relies
      <3> QED
        BY <3>1, <3>2
    <2>9. Table'
      <3>1. \A i \in Slots : openedFiles[i].id # NULL =>
                openedFiles[i].id \in Sectors /\ openedFiles[i].id # s
        BY <1>2, <2>1 DEF IsOpened, Opened, CallType, OpenedType
      <3> QED
        BY <1>1, <2>1, <2>7, <3>1 DEF Table, TableOf
    <2> QED
      BY <2>6, <2>8, <2>9
  <1> QED
    BY <1>3, <1>4, <1>5 DEF IInv

\* What CallStep asks of a step that also leaves the locks and the table alone.
LEMMA QuietStep ==
    ASSUME NEW t \in Threads, IInv, UNCHANGED <<disk, DirectorySector, openedFiles, strayed>>,
           NEW at \in Places, NEW what, Go(t, at, what), ArgType(at, what),
           calls' \in [Threads -> 0 .. MaxCalls],
           directoryMutex' \in Threads \cup {Nobody}, openedFileMutex' \in Threads \cup {Nobody},
           \A u \in Threads \ {t} : directoryMutex' = directoryMutex \/ directoryMutex # u,
           Relies(t, pc[t], arg[t], type, current, directoryMutex, openedFiles) =>
               Relies(t, at, what, type, current, directoryMutex', openedFiles)
    PROVE  IInv'
  <1>1. openedFiles' = openedFiles /\ strayed' = strayed /\ OpenedType(openedFiles')
        /\ strayed' \in BOOLEAN
    BY DEF IInv, CallType
  <1>2. ASSUME Callers, NEW u \in Threads \ {t}
        PROVE  Relies(u, pc[u], arg[u], type, current, directoryMutex', openedFiles)
    BY <1>2 DEF Callers, Relies
  <1>3. Callers => Relies(t, at, what, type, current, directoryMutex', openedFiles)
    BY DEF Callers
  <1>4. ~strayed' /\ Tree /\ Callers /\ Table =>
               /\ TableOf(type, openedFiles')
               /\ Relies(t, at, what, type, current, directoryMutex', openedFiles')
               /\ \A u \in Threads \ {t} :
                      Relies(u, pc[u], arg[u], type, current, directoryMutex', openedFiles')
    BY <1>1, <1>2, <1>3 DEF Table
  <1>5. UNCHANGED <<disk, DirectorySector>> /\ (strayed => strayed')
    OBVIOUS
  <1> QED
    BY <1>1, <1>4, <1>5, CallStep

\* Open, up to the table: what is looked up is a sector, what goes on is a file.
LEMMA OpenStep ==
    ASSUME NEW t \in Threads, IInv, OpenUser(t) \/ OpenFetch(t)
    PROVE  IInv'
  <1>1. DiskType /\ CallType
    BY DEF IInv
  <1>2. /\ UNCHANGED <<disk, DirectorySector, openedFiles, strayed>>
        /\ directoryMutex' = directoryMutex /\ openedFileMutex' = openedFileMutex
        /\ directoryMutex \in Threads \cup {Nobody} /\ openedFileMutex \in Threads \cup {Nobody}
    BY <1>1 DEF OpenUser, OpenFetch, locks, CallType
  <1>3. CASE OpenUser(t)
    <2>1. PICK name \in DOMAIN current : Go(t, "fetch", current[name])
      BY <1>3 DEF OpenUser
    <2>2. current[name] \in Sectors
      BY <1>1, <2>1 DEF DiskType, DirectoryType, Range, current
    <2>3. calls' \in [Threads -> 0 .. MaxCalls]
      BY <1>1, <1>3, BeginType DEF OpenUser
    <2>4. ArgType("fetch", current[name]) /\ "fetch" \in Places
      BY <2>2 DEF ArgType, Places
    <2>5. Relies(t, "fetch", current[name], type, current, directoryMutex', openedFiles)
      BY DEF Relies
    <2> QED
      BY <1>2, <2>1, <2>3, <2>4, <2>5, QuietStep
  <1>4. CASE OpenFetch(t)
    <2>1. pc[t] = "fetch" /\ arg[t] \in Sectors /\ calls' \in [Threads -> 0 .. MaxCalls]
      BY <1>1, <1>4 DEF CallType, ArgType, OpenFetch
    <2>2. CASE type[arg[t]] = "DATA_FILE"
      <3>1. Go(t, "register", arg[t])
        BY <1>4, <2>2 DEF OpenFetch
      <3>2. ArgType("register", arg[t]) /\ "register" \in Places
        BY <2>1 DEF ArgType, Places
      <3>3. Relies(t, "register", arg[t], type, current, directoryMutex', openedFiles)
        BY <2>2 DEF Relies
      <3> QED
        BY <1>2, <2>1, <3>1, <3>2, <3>3, QuietStep
    <2>3. CASE type[arg[t]] # "DATA_FILE"
      <3>1. Go(t, "idle", NULL)
        BY <1>4, <2>3 DEF OpenFetch, Return
      <3>2. ArgType("idle", NULL) /\ "idle" \in Places
        BY DEF ArgType, Places
      <3>3. Relies(t, "idle", NULL, type, current, directoryMutex', openedFiles)
        BY DEF Relies
      <3> QED
        BY <1>2, <2>1, <3>1, <3>2, <3>3, QuietStep
    <2> QED
      BY <2>2, <2>3
  <1> QED
    BY <1>3, <1>4

\* Open, the table: the first free slot is for a file that was in none.
LEMMA OpenRegisterStep ==
    ASSUME NEW t \in Threads, IInv, OpenRegister(t)
    PROVE  IInv'
  <1>1. DiskType /\ CallType
    BY DEF IInv
  <1>2. /\ UNCHANGED <<disk, DirectorySector>> /\ strayed' = strayed /\ strayed' \in BOOLEAN
        /\ directoryMutex' = directoryMutex /\ openedFileMutex' = openedFileMutex
        /\ directoryMutex \in Threads \cup {Nobody} /\ openedFileMutex \in Threads \cup {Nobody}
        /\ calls' \in [Threads -> 0 .. MaxCalls]
        /\ Go(t, "idle", NULL)
    BY <1>1 DEF OpenRegister, Return, locks, CallType
  <1>3. pc[t] = "register" /\ arg[t] \in Sectors /\ arg[t] # NULL
    BY <1>1, Distinct DEF OpenRegister, CallType, ArgType
  <1>4. ArgType("idle", NULL) /\ "idle" \in Places
    BY DEF ArgType, Places
  <1>5. \A lock, files : Relies(t, "idle", NULL, type, current, lock, files)
    BY DEF Relies
  <1>6. CASE openedFiles' = openedFiles
    <2>1. UNCHANGED <<disk, DirectorySector, openedFiles, strayed>>
      BY <1>2, <1>6
    <2> QED
      BY <1>2, <1>4, <1>5, <2>1, QuietStep
  <1>7. CASE openedFiles' # openedFiles
    <2> DEFINE i == Min(Slots \ Opened)
    <2>1. /\ ~IsOpened(arg[t]) /\ Opened # Slots
          /\ openedFiles' = [openedFiles EXCEPT ![i].id = arg[t]]
      BY <1>7 DEF OpenRegister
    <2>2. i \in Slots \ Opened
      <3>1. Slots \ Opened \subseteq Nat /\ Slots \ Opened # {}
        BY <2>1, Distinct DEF Opened
      <3> QED
        BY <3>1, FirstBit
    <2> HIDE DEF i
    <2>3. /\ openedFiles'[i].id = arg[t] /\ openedFiles'[i].mutex = openedFiles[i].mutex
          /\ \A j \in Slots : j # i => openedFiles'[j] = openedFiles[j]
          /\ OpenedType(openedFiles')
      BY SMTT(60), <1>1, <1>3, <2>1, <2>2 DEF CallType, OpenedType
    <2>4. ASSUME Callers, NEW u \in Threads \ {t}
          PROVE  Relies(u, pc[u], arg[u], type, current, directoryMutex', openedFiles')
      <3>1. Relies(u, pc[u], arg[u], type, current, directoryMutex, openedFiles)
        BY <2>4 DEF Callers
      <3>2. pc[u] \in {"wait", "use", "closing"} => arg[u] \in Slots
        BY <1>1 DEF CallType, ArgType
      <3>3. \A j \in Slots : /\ openedFiles[j].id # NULL => openedFiles'[j].id # NULL
                             /\ openedFiles'[j].mutex = openedFiles[j].mutex
        BY <1>3, <2>3
      <3> QED
        BY <1>2, <3>1, <3>2, <3>3 DEF Relies
    <2>5. ASSUME Callers, Table PROVE TableOf(type, openedFiles')
      <3>1. type[arg[t]] = "DATA_FILE"
        BY <1>3, <2>5 DEF Callers, Relies
      <3>2. \A j \in Slots : openedFiles[j].id # arg[t]
        BY <1>3, <2>1 DEF IsOpened, Opened
      <3> SUFFICES ASSUME NEW j \in Slots, NEW k \in Slots, openedFiles'[j].id # NULL
                   PROVE  /\ type[openedFiles'[j].id] = "DATA_FILE"
                          /\ openedFiles'[j].id = openedFiles'[k].id => j = k
        BY DEF TableOf
      <3>3. CASE j = i
        BY <2>3, <3>1, <3>2, <3>3
      <3>4. CASE j # i /\ k = i
        BY <2>3, <2>5, <3>2, <3>4 DEF Table, TableOf
      <3>5. CASE j # i /\ k # i
        BY <2>3, <2>5, <3>5 DEF Table, TableOf
      <3> QED
        BY <3>3, <3>4, <3>5
    <2> QED
      BY <1>2, <1>4, <1>5, <2>3, <2>4, <2>5, CallStep
  <1> QED
    BY <1>6, <1>7

\* Remove, up to the search: the lock is taken with the name of a file, and given
\* back if the file is open.
LEMMA RemoveStep ==
    ASSUME NEW t \in Threads, IInv, RemoveFile(t) \/ RemoveSearch(t)
    PROVE  IInv'
  <1>1. DiskType /\ CallType
    BY DEF IInv
  <1>2. /\ UNCHANGED <<disk, DirectorySector, openedFiles, strayed>>
        /\ openedFileMutex' \in Threads \cup {Nobody}
    BY <1>1 DEF RemoveFile, RemoveSearch, CallType
  <1>3. CASE RemoveFile(t)
    <2>1. PICK name \in DOMAIN current :
              type[current[name]] = "DATA_FILE" /\ Go(t, "search", name)
      BY <1>3 DEF RemoveFile
    <2>2. name \in Names \cup Protected
      BY <1>1, <2>1 DEF DiskType, DirectoryType, current
    <2>3. calls' \in [Threads -> 0 .. MaxCalls] /\ directoryMutex = Nobody /\ directoryMutex' = t
      BY <1>1, <1>3, BeginType DEF RemoveFile
    <2>4. ArgType("search", name) /\ "search" \in Places
      BY <2>2 DEF ArgType, Places
    <2>5. ASSUME ~strayed' /\ Tree /\ Callers /\ Table
          PROVE  /\ TableOf(type, openedFiles')
                 /\ Relies(t, "search", name, type, current, directoryMutex', openedFiles')
                 /\ \A u \in Threads \ {t} :
                        Relies(u, pc[u], arg[u], type, current, directoryMutex', openedFiles')
      <3>1. name \in Names
        <4> SUFFICES ASSUME name \in Protected PROVE FALSE
          BY <2>2
        <4>1. /\ name \notin Names /\ TreeOf(type, table) /\ IsDir(type, DirectorySector)
              /\ DirectorySector \in Sectors /\ name \in DOMAIN table[DirectorySector]
          BY <1>1, <2>1, <2>5, Distinct DEF Tree, DiskType, current
        <4>2. type[DirectorySector] = "DIRECTORY"
          BY <4>1 DEF TreeOf, IsDir
        <4>3. /\ table[DirectorySector]["."] = DirectorySector
              /\ \E n \in Names :
                     Lists(type, table, table[DirectorySector][".."], n, DirectorySector)
          BY <4>1, <4>2 DEF TreeOf
        <4>4. IsDir(type, table[DirectorySector][name])
          BY <4>1, <4>2, <4>3, Distinct DEF Lists, IsDir
        <4> QED
          BY <2>1, <4>4 DEF IsDir, current
      <3>2. Relies(t, "search", name, type, current, t, openedFiles)
        BY <2>1, <3>1 DEF Relies
      <3>3. ASSUME NEW u \in Threads \ {t}
            PROVE  Relies(u, pc[u], arg[u], type, current, t, openedFiles)
        <4>1. Relies(u, pc[u], arg[u], type, current, Nobody, openedFiles)
          BY <2>3, <2>5 DEF Callers
        <4> QED
          BY <4>1, Distinct DEF Relies
      <3> QED
        BY <1>2, <2>3, <2>5, <3>2, <3>3 DEF Table
    <2>6. /\ UNCHANGED <<disk, DirectorySector>> /\ OpenedType(openedFiles')
          /\ strayed' \in BOOLEAN /\ (strayed => strayed') /\ directoryMutex' \in Threads \cup {Nobody}
      BY <1>1, <1>2, <2>3 DEF CallType
    <2> QED
      BY <1>2, <2>1, <2>3, <2>4, <2>5, <2>6, CallStep
  <1>4. CASE RemoveSearch(t)
    <2>1. /\ pc[t] = "search" /\ arg[t] \in Names \cup Protected
          /\ calls' \in [Threads -> 0 .. MaxCalls]
      BY <1>1, <1>4 DEF CallType, ArgType, RemoveSearch
    <2>2. CASE IsOpened(current[arg[t]])
      <3>1. Go(t, "idle", NULL) /\ directoryMutex' = Nobody
        BY <1>4, <2>2 DEF RemoveSearch, Return
      <3>2. ArgType("idle", NULL) /\ "idle" \in Places
        BY DEF ArgType, Places
      <3>3. \A files : Relies(t, "idle", NULL, type, current, Nobody, files)
        BY DEF Relies
      <3>4. ASSUME Callers, NEW u \in Threads \ {t}
            PROVE  Relies(u, pc[u], arg[u], type, current, Nobody, openedFiles)
        BY <2>1, <3>4 DEF Callers, Relies
      <3>5. /\ UNCHANGED <<disk, DirectorySector>> /\ OpenedType(openedFiles')
            /\ openedFiles' = openedFiles
            /\ strayed' \in BOOLEAN /\ (strayed => strayed') /\ directoryMutex' \in Threads \cup {Nobody}
        BY <1>1, <1>2, <3>1 DEF CallType
      <3>6. ~strayed' /\ Tree /\ Callers /\ Table =>
                /\ TableOf(type, openedFiles')
                /\ Relies(t, "idle", NULL, type, current, directoryMutex', openedFiles')
                /\ \A u \in Threads \ {t} :
                       Relies(u, pc[u], arg[u], type, current, directoryMutex', openedFiles')
        BY <3>1, <3>3, <3>4, <3>5 DEF Table
      <3> QED
        BY <1>2, <2>1, <3>1, <3>2, <3>5, <3>6, CallStep
    <2>3. CASE ~IsOpened(current[arg[t]])
      <3>1. Go(t, "free", arg[t]) /\ directoryMutex' = directoryMutex
        BY <1>4, <2>3 DEF RemoveSearch
      <3>2. ArgType("free", arg[t]) /\ "free" \in Places /\ directoryMutex \in Threads \cup {Nobody}
        BY <1>1, <2>1 DEF ArgType, Places, CallType
      <3>3. Relies(t, pc[t], arg[t], type, current, directoryMutex, openedFiles) =>
                Relies(t, "free", arg[t], type, current, directoryMutex', openedFiles)
        BY <2>1, <3>1 DEF Relies
      <3> QED
        BY <1>2, <2>1, <3>1, <3>2, <3>3, QuietStep
    <2> QED
      BY <2>2, <2>3
  <1> QED
    BY <1>3, <1>4

\* The lock of a slot that no other thread has changes hands.
LEMMA SlotLock ==
    ASSUME NEW t \in Threads, CallType, NEW i \in Slots, NEW m \in Threads \cup {Nobody},
           openedFiles' = [openedFiles EXCEPT ![i].mutex = m]
    PROVE  /\ OpenedType(openedFiles')
           /\ Table => TableOf(type, openedFiles')
           /\ openedFiles'[i].mutex = m /\ openedFiles'[i].id = openedFiles[i].id
           /\ openedFiles[i].mutex \in {Nobody, t} /\ Callers =>
                  \A u \in Threads \ {t} :
                      Relies(u, pc[u], arg[u], type, current, directoryMutex, openedFiles')
  <1>1. /\ OpenedType(openedFiles')
        /\ openedFiles'[i].mutex = m /\ openedFiles'[i].id = openedFiles[i].id
        /\ \A j \in Slots : j # i => openedFiles'[j] = openedFiles[j]
    BY DEF CallType, OpenedType
  <1>2. Table => TableOf(type, openedFiles')
    <2>1. \A j \in Slots : openedFiles'[j].id = openedFiles[j].id
      BY <1>1
    <2> QED
      BY SMTT(60), <2>1 DEF Table, TableOf
  <1>3. ASSUME openedFiles[i].mutex \in {Nobody, t}, Callers, NEW u \in Threads \ {t}
        PROVE  Relies(u, pc[u], arg[u], type, current, directoryMutex, openedFiles')
    <2>1. Relies(u, pc[u], arg[u], type, current, directoryMutex, openedFiles)
      BY <1>3 DEF Callers
    <2>2. pc[u] \in {"wait", "use", "closing"} => arg[u] \in Slots
      BY DEF CallType, ArgType
    <2>3. pc[u] \in {"use", "closing"} => arg[u] # i
      BY <1>3, <2>1, Distinct DEF Relies
    <2> QED
      BY <1>1, <2>1, <2>2, <2>3 DEF Relies
  <1> QED
    BY <1>1, <1>2, <1>3

\* Close, up to the lock of the slot.
LEMMA CloseStep ==
    ASSUME NEW t \in Threads, IInv, CloseUser(t) \/ CloseLock(t)
    PROVE  IInv'
  <1>1. CallType /\ UNCHANGED <<disk, DirectorySector>> /\ strayed' = strayed
        /\ directoryMutex' = directoryMutex /\ directoryMutex \in Threads \cup {Nobody}
        /\ strayed' \in BOOLEAN
    BY DEF IInv, CloseUser, CloseLock, locks, CallType
  <1>2. CASE CloseUser(t)
    <2>1. PICK i \in Slots : Go(t, "close", i)
      BY <1>2 DEF CloseUser, Opened
    <2>2. calls' \in [Threads -> 0 .. MaxCalls] /\ openedFileMutex' \in Threads \cup {Nobody}
      BY <1>1, <1>2, BeginType DEF CloseUser
    <2>3. ArgType("close", i) /\ "close" \in Places
      BY DEF ArgType, Places
    <2>4. Relies(t, "close", i, type, current, directoryMutex', openedFiles)
      BY DEF Relies
    <2>5. UNCHANGED <<disk, DirectorySector, openedFiles, strayed>>
      BY <1>2 DEF CloseUser
    <2> QED
      BY <1>1, <2>1, <2>2, <2>3, <2>4, <2>5, QuietStep
  <1>3. CASE CloseLock(t)
    <2>1. /\ pc[t] = "close" /\ arg[t] \in Slots /\ openedFiles[arg[t]].mutex = Nobody
          /\ openedFiles' = [openedFiles EXCEPT ![arg[t]].mutex = t]
          /\ Go(t, "closing", arg[t])
          /\ calls' \in [Threads -> 0 .. MaxCalls] /\ openedFileMutex' \in Threads \cup {Nobody}
      BY <1>1, <1>3 DEF CloseLock, CallType, ArgType, locks
    <2>2. /\ OpenedType(openedFiles') /\ openedFiles'[arg[t]].mutex = t
          /\ Table => TableOf(type, openedFiles')
          /\ Callers => \A u \in Threads \ {t} :
                 Relies(u, pc[u], arg[u], type, current, directoryMutex, openedFiles')
      BY <1>1, <2>1, SlotLock
    <2>3. ArgType("closing", arg[t]) /\ "closing" \in Places
      BY <2>1 DEF ArgType, Places
    <2>4. Relies(t, "closing", arg[t], type, current, directoryMutex', openedFiles')
      BY <2>2 DEF Relies
    <2> QED
      BY <1>1, <2>1, <2>2, <2>3, <2>4, CallStep
  <1> QED
    BY <1>2, <1>3

\* Close, the end: a thread that waits for the slot strays, and nobody uses it.
LEMMA CloseFreeStep ==
    ASSUME NEW t \in Threads, IInv, CloseFree(t)
    PROVE  IInv'
  <1>1. CallType
    BY DEF IInv
  <1>2. /\ pc[t] = "closing" /\ arg[t] \in Slots
        /\ openedFiles' = [openedFiles EXCEPT ![arg[t]] = Closed]
        /\ openedFileMutex' \in Threads \cup {Nobody}
        /\ strayed' = (strayed \/ Waiting(arg[t]) # {})
        /\ Go(t, "idle", NULL)
        /\ UNCHANGED <<disk, DirectorySector>>
        /\ directoryMutex' = directoryMutex /\ directoryMutex \in Threads \cup {Nobody}
        /\ calls' \in [Threads -> 0 .. MaxCalls]
    BY <1>1 DEF CloseFree, Return, CallType, ArgType
  <1>3. /\ OpenedType(openedFiles') /\ openedFiles'[arg[t]].id = NULL
        /\ \A j \in Slots : j # arg[t] => openedFiles'[j] = openedFiles[j]
    BY <1>1, <1>2 DEF CallType, OpenedType, Closed
  <1>4. ASSUME Table PROVE TableOf(type, openedFiles')
    <2> SUFFICES ASSUME NEW j \in Slots, NEW k \in Slots, openedFiles'[j].id # NULL
                 PROVE  /\ type[openedFiles'[j].id] = "DATA_FILE"
                        /\ openedFiles'[j].id = openedFiles'[k].id => j = k
      BY DEF TableOf
    <2>1. j # arg[t]
      BY <1>3
    <2>2. CASE k = arg[t]
      BY <1>3, <1>4, <2>1, <2>2 DEF Table, TableOf
    <2>3. CASE k # arg[t]
      BY <1>3, <1>4, <2>1, <2>3 DEF Table, TableOf
    <2> QED
      BY <2>2, <2>3
  <1>5. ASSUME Callers, ~strayed', NEW u \in Threads \ {t}
        PROVE  Relies(u, pc[u], arg[u], type, current, directoryMutex', openedFiles')
    <2>1. Relies(u, pc[u], arg[u], type, current, directoryMutex, openedFiles)
      BY <1>5 DEF Callers
    <2>2. pc[u] \in {"wait", "use", "closing"} => arg[u] \in Slots
      BY <1>1 DEF CallType, ArgType
    <2>3. openedFiles[arg[t]].mutex = t
      BY <1>2, <1>5 DEF Callers, Relies
    <2>4. pc[u] \in {"use", "closing"} => arg[u] # arg[t]
      BY <2>1, <2>3 DEF Relies
    <2>5. pc[u] = "wait" => arg[u] # arg[t]
      BY <1>2, <1>5 DEF Waiting
    <2> QED
      BY <1>2, <1>3, <2>1, <2>2, <2>4, <2>5 DEF Relies
  <1>6. ArgType("idle", NULL) /\ "idle" \in Places
    BY DEF ArgType, Places
  <1>7. Relies(t, "idle", NULL, type, current, directoryMutex', openedFiles')
    BY DEF Relies
  <1>8. strayed' \in BOOLEAN /\ (strayed => strayed')
    BY <1>2
  <1> QED
    BY <1>2, <1>3, <1>4, <1>5, <1>6, <1>7, <1>8, CallStep

\* ReadUser, WriteUser and SeekUser.
LEMMA UseStep ==
    ASSUME NEW t \in Threads, IInv, UseUser(t) \/ UseLocked(t) \/ UseDone(t)
    PROVE  IInv'
  <1>1. CallType /\ UNCHANGED <<disk, DirectorySector>> /\ strayed' = strayed
        /\ directoryMutex' = directoryMutex /\ directoryMutex \in Threads \cup {Nobody}
        /\ openedFileMutex' = openedFileMutex /\ openedFileMutex \in Threads \cup {Nobody}
        /\ strayed' \in BOOLEAN
    BY DEF IInv, UseUser, UseLocked, UseDone, locks, CallType
  <1>2. ASSUME NEW i \in Slots, openedFiles[i].mutex = Nobody,
               Callers => openedFiles[i].id # NULL,
               openedFiles' = [openedFiles EXCEPT ![i].mutex = t], Go(t, "use", i),
               calls' \in [Threads -> 0 .. MaxCalls]
        PROVE  IInv'
    <2>1. /\ OpenedType(openedFiles')
          /\ openedFiles'[i].mutex = t /\ openedFiles'[i].id = openedFiles[i].id
          /\ Table => TableOf(type, openedFiles')
          /\ Callers => \A u \in Threads \ {t} :
                 Relies(u, pc[u], arg[u], type, current, directoryMutex, openedFiles')
      BY <1>1, <1>2, SlotLock
    <2>2. ArgType("use", i) /\ "use" \in Places
      BY DEF ArgType, Places
    <2>3. Callers => Relies(t, "use", i, type, current, directoryMutex', openedFiles')
      BY <1>2, <2>1 DEF Relies
    <2> QED
      BY <1>1, <1>2, <2>1, <2>2, <2>3, CallStep
  <1>3. CASE UseUser(t)
    <2>1. PICK i \in Slots :
              /\ openedFiles[i].id # NULL
              /\ IF openedFiles[i].mutex = Nobody
                 THEN Go(t, "use", i) /\ openedFiles' = [openedFiles EXCEPT ![i].mutex = t]
                 ELSE Go(t, "wait", i) /\ UNCHANGED openedFiles
      BY <1>3 DEF UseUser, Opened
    <2>2. calls' \in [Threads -> 0 .. MaxCalls]
      BY <1>1, <1>3, BeginType DEF UseUser
    <2>3. CASE openedFiles[i].mutex = Nobody
      BY <1>2, <2>1, <2>2, <2>3
    <2>4. CASE openedFiles[i].mutex # Nobody
      <3>1. Go(t, "wait", i) /\ UNCHANGED <<disk, DirectorySector, openedFiles, strayed>>
        BY <1>1, <2>1, <2>4
      <3>2. ArgType("wait", i) /\ "wait" \in Places
        BY DEF ArgType, Places
      <3>3. Relies(t, "wait", i, type, current, directoryMutex', openedFiles)
        BY <2>1 DEF Relies
      <3> QED
        BY <1>1, <2>2, <3>1, <3>2, <3>3, QuietStep
    <2> QED
      BY <2>3, <2>4
  <1>4. CASE UseLocked(t)
    <2>1. /\ pc[t] = "wait" /\ arg[t] \in Slots /\ openedFiles[arg[t]].mutex = Nobody
          /\ openedFiles' = [openedFiles EXCEPT ![arg[t]].mutex = t]
          /\ Go(t, "use", arg[t]) /\ calls' \in [Threads -> 0 .. MaxCalls]
      BY <1>1, <1>4 DEF UseLocked, CallType, ArgType
    <2>2. Callers => openedFiles[arg[t]].id # NULL
      BY <2>1 DEF Callers, Relies
    <2> QED
      BY <1>2, <2>1, <2>2
  <1>5. CASE UseDone(t)
    <2>1. /\ pc[t] = "use" /\ arg[t] \in Slots
          /\ openedFiles' = [openedFiles EXCEPT ![arg[t]].mutex = Nobody]
          /\ Go(t, "idle", NULL) /\ calls' \in [Threads -> 0 .. MaxCalls]
      BY <1>1, <1>5 DEF UseDone, Return, CallType, ArgType
    <2>2. Callers => openedFiles[arg[t]].mutex = t
      BY <2>1 DEF Callers, Relies
    <2>3. /\ OpenedType(openedFiles')
          /\ Table => TableOf(type, openedFiles')
          /\ Callers => \A u \in Threads \ {t} :
                 Relies(u, pc[u], arg[u], type, current, directoryMutex, openedFiles')
      BY <1>1, <2>1, <2>2, SlotLock
    <2>4. ArgType("idle", NULL) /\ "idle" \in Places
      BY DEF ArgType, Places
    <2>5. Relies(t, "idle", NULL, type, current, directoryMutex', openedFiles')
      BY DEF Relies
    <2> QED
      BY <1>1, <2>1, <2>3, <2>4, <2>5, CallStep
  <1> QED
    BY <1>3, <1>4, <1>5

-------------------------------------------------------------------------------
(* The invariant, and what follows from it.                                   *)

\* A formatted disk satisfies the invariant.
LEMMA InitInv == Init => IInv
  <1> SUFFICES ASSUME Init PROVE IInv
    OBVIOUS
  <1>1. DiskType
    <2>1. \A s \in Sectors : DirectoryType(table[s])
      BY NewType DEF Init
    <2> QED
      BY <2>1, Distinct DEF Init, DiskType, FileTypes
  <1>2. CallType
    <2>1. OpenedType(openedFiles)
      BY DEF Init, OpenedType, Closed
    <2>2. calls \in [Threads -> 0 .. MaxCalls] /\ pc \in [Threads -> Places]
      BY SMTT(60) DEF Init, Places
    <2>3. DOMAIN arg = Threads /\ \A t \in Threads : ArgType(pc[t], arg[t])
      BY DEF Init, ArgType
    <2> QED
      BY <2>1, <2>2, <2>3 DEF Init, CallType
  <1>3. Tree
    <2>1. DOMAIN NoEntries = {}
      BY DEF NoEntries
    <2>2. \A s \in Sectors : DOMAIN table[s] = {} /\ type[s] \in {"ROOT", "free"}
                             /\ (type[s] = "ROOT" <=> s = RootSector)
      BY <2>1 DEF Init
    <2> QED
      BY <2>2, Distinct DEF Init, Tree, TreeOf, Lists, IsDir
  <1>4. Callers /\ Table
    BY DEF Init, Callers, Relies, Table, TableOf, Closed
  <1> QED
    BY <1>1, <1>2, <1>3, <1>4 DEF IInv

\* Every step of the file system keeps the invariant.
LEMMA NextInv == IInv /\ [Next]_vars => IInv'
  <1> SUFFICES ASSUME IInv, [Next]_vars PROVE IInv'
    OBVIOUS
  <1>1. CASE UNCHANGED vars
    <2>1. DiskType' /\ (Tree => Tree')
      BY <1>1, TreeKept DEF vars, IInv
    <2> QED
      BY <1>1, <2>1 DEF vars, disk, locks, IInv, CallType, Callers, Table, current
  <1>2. CASE Next
    <2>1. PICK t \in Threads :
              \/ Create(t) \/ CreateDir(t) \/ RemoveDir(t) \/ ChangeDir(t)
              \/ OpenUser(t) \/ RemoveFile(t) \/ CloseUser(t) \/ UseUser(t)
              \/ Goes(t)
      BY <1>2 DEF Next
    <2> QED
      BY <2>1, CreateStep, RemoveDirStep, ChangeDirStep, OpenStep, OpenRegisterStep, RemoveStep,
         RemoveFreeStep, CloseStep, CloseFreeStep, UseStep DEF Goes
  <1> QED
    BY <1>1, <1>2

\* The invariant gives every variable its type.
LEMMA TypesOfIInv == IInv => TypeOK
  <1> SUFFICES ASSUME IInv PROVE TypeOK
    OBVIOUS
  <1>1. \A t \in Threads : IF pc[t] \in {"search", "free"} THEN arg[t] \in Names \cup Protected
                           ELSE arg[t] \in Sectors \cup Slots \cup {NULL}
    BY DEF IInv, CallType, ArgType, Places
  <1> QED
    BY <1>1 DEF IInv, DiskType, DirectoryType, CallType, OpenedType, Places, TypeOK

\* EntriesOf, entry by entry.
LEMMA EntriesListed ==
    ASSUME DiskType, NEW s \in Sectors
    PROVE  \A e : e \in EntriesOf(s) <=>
               \E d \in Sectors, name \in Names : e = <<d, name>> /\ Lists(type, table, d, name, s)
  <1>1. \A d \in Sectors : IsDirectory(d) <=> IsDir(type, d)
    BY DEF IsDirectory, IsDir
  <1>2. \A d \in Sectors : IsDir(type, d) => type[d] # "free"
    BY DEF IsDir
  <1>3. \A d \in Sectors, name \in Names :
            Lookup(table[d], name) = s <=> name \in DOMAIN table[d] /\ table[d][name] = s
    BY Distinct DEF Lookup
  <1>4. ASSUME NEW e, e \in EntriesOf(s)
        PROVE  \E d \in Sectors, name \in Names : e = <<d, name>> /\ Lists(type, table, d, name, s)
    <2>1. e \in InUse \X Names /\ IsDirectory(e[1]) /\ Lookup(table[e[1]], e[2]) = s
      BY <1>4 DEF EntriesOf
    <2>2. e[1] \in Sectors /\ e[2] \in Names /\ e = <<e[1], e[2]>>
      BY SMTT(60), <2>1 DEF InUse
    <2> QED
      BY <1>1, <1>3, <2>1, <2>2 DEF Lists
  <1>5. ASSUME NEW d \in Sectors, NEW name \in Names, Lists(type, table, d, name, s)
        PROVE  <<d, name>> \in EntriesOf(s)
    BY <1>1, <1>2, <1>3, <1>5 DEF Lists, EntriesOf, InUse
  <1> QED
    BY SMTT(60), <1>4, <1>5

\* Until one of the mistaken cases is met, the headers in use form a tree under the
\* root, whatever the threads create, remove, change to, open and close
\* (FileSystem::Create, CreateDir, Remove, RemoveDir, ChangeDir).
THEOREM TreeIsSound == Spec => []TreeSound
  <1>1. ASSUME IInv PROVE TreeSound
    <2>1. TypeOK /\ DiskType
      BY <1>1, TypesOfIInv DEF IInv
    <2> SUFFICES ASSUME ~strayed
                 PROVE  /\ \A s \in InUse \ {RootSector} : Cardinality(EntriesOf(s)) = 1
                        /\ EntriesOf(RootSector) = {}
                        /\ \A d \in InUse : IsDirectory(d) => Range(table[d]) \subseteq InUse
                        /\ \A d \in InUse : type[d] = "DIRECTORY" =>
                              /\ table[d]["."] = d
                              /\ \E name \in Names : <<table[d][".."], name>> \in EntriesOf(d)
                        /\ DirectorySector \in InUse /\ IsDirectory(DirectorySector)
      BY <2>1 DEF TreeSound
    <2>2. TreeOf(type, table) /\ IsDir(type, DirectorySector)
      BY <1>1 DEF IInv, Tree
    <2>3. ASSUME NEW s \in InUse \ {RootSector}
          PROVE  Cardinality(EntriesOf(s)) = 1
      <3>1. s \in Sectors /\ type[s] \in {"DATA_FILE", "DIRECTORY"}
        BY SMTT(60), <2>1, <2>2, <2>3 DEF InUse, DiskType, FileTypes, TreeOf
      <3>2. PICK d \in Sectors, name \in Names : Lists(type, table, d, name, s)
        BY <2>2, <3>1 DEF TreeOf
      <3>3. \A e \in Sectors, n \in Names :
                Lists(type, table, e, n, s) => e = d /\ n = name
        BY <2>2, <3>1, <3>2 DEF TreeOf
      <3>4. EntriesOf(s) = {<<d, name>>}
        <4>1. \A e : e \in EntriesOf(s) <=> e = <<d, name>>
          BY <2>1, <3>1, <3>2, <3>3, EntriesListed
        <4> QED
          BY <4>1
      <3> QED
        BY <3>4, FS_Singleton
    <2>4. EntriesOf(RootSector) = {}
      <3>1. \A d \in Sectors, name \in Names : ~Lists(type, table, d, name, RootSector)
        BY SMTT(60), <2>2, Distinct DEF TreeOf
      <3>2. \A e : e \notin EntriesOf(RootSector)
        BY <2>1, <3>1, Distinct, EntriesListed
      <3> QED
        BY <3>2
    <2>5. ASSUME NEW d \in InUse, IsDirectory(d)
          PROVE  Range(table[d]) \subseteq InUse
      <3>1. d \in Sectors /\ IsDir(type, d) /\ DirectoryType(table[d])
        BY <2>1, <2>5 DEF InUse, IsDirectory, IsDir, DiskType
      <3>2. \A name \in DOMAIN table[d] :
                /\ name \in Names \cup Protected /\ table[d][name] \in Sectors
                /\ Lists(type, table, d, name, table[d][name])
        BY <3>1 DEF DirectoryType, Range, Lists
      <3>3. \A name \in DOMAIN table[d] : table[d][name] \in InUse
        <4>1. \A x \in Sectors, name \in Names \cup Protected :
                  Lists(type, table, d, name, x) => x \in InUse
          BY <2>2, <3>1 DEF TreeOf, InUse
        <4> QED
          BY <3>2, <4>1
      <3> QED
        BY <3>3 DEF Range
    <2>6. ASSUME NEW d \in InUse, type[d] = "DIRECTORY"
          PROVE  /\ table[d]["."] = d
                 /\ \E name \in Names : <<table[d][".."], name>> \in EntriesOf(d)
      <3>1. d \in Sectors
        BY DEF InUse
      <3>2. /\ Protected \subseteq DOMAIN table[d] /\ table[d]["."] = d
            /\ \E name \in Names : Lists(type, table, table[d][".."], name, d)
        BY <2>2, <2>6, <3>1 DEF TreeOf
      <3>3. table[d][".."] \in Sectors
        BY <2>1, <3>1, <3>2, Distinct DEF DiskType, DirectoryType, Range
      <3> QED
        BY <2>1, <3>1, <3>2, <3>3, EntriesListed
    <2>7. DirectorySector \in InUse /\ IsDirectory(DirectorySector)
      BY <2>1, <2>2 DEF DiskType, InUse, IsDir, IsDirectory
    <2> QED
      BY <2>3, <2>4, <2>5, <2>6, <2>7
  <1> QED
    BY <1>1, InitInv, NextInv, PTL DEF Spec

\* Until one of the mistaken cases is met, the table of opened files lists files that
\* exist, each once, and a file in use or waited for is open, with one thread at work
\* on it (FileSystem::OpenUser, CloseUser, ReadUser, WriteUser, SeekUser, Remove).
THEOREM OpenedFilesAreSound == Spec => []OpenedFilesSound
  <1>1. ASSUME IInv PROVE OpenedFilesSound
    <2> SUFFICES ASSUME ~strayed
                 PROVE  /\ \A i \in Opened : type[openedFiles[i].id] = "DATA_FILE"
                        /\ \A i, j \in Opened : openedFiles[i].id = openedFiles[j].id => i = j
                        /\ \A t \in Threads : pc[t] \in {"wait", "use"} =>
                              /\ arg[t] \in Opened
                              /\ pc[t] = "use" => openedFiles[arg[t]].mutex = t
      BY DEF OpenedFilesSound
    <2>1. CallType /\ Callers /\ Table
      BY <1>1 DEF IInv
    <2>2. ASSUME NEW t \in Threads, pc[t] \in {"wait", "use"}
          PROVE  arg[t] \in Opened /\ (pc[t] = "use" => openedFiles[arg[t]].mutex = t)
      <3>1. arg[t] \in Slots
        BY <2>1, <2>2 DEF CallType, ArgType
      <3> QED
        BY <2>1, <2>2, <3>1 DEF Callers, Relies, Opened
    <2> QED
      BY <2>1, <2>2 DEF Table, TableOf, Opened
  <1> QED
    BY <1>1, InitInv, NextInv, PTL DEF Spec
==============================================================================
