----------------------------- MODULE DriversProof ----------------------------
(***************************************************************************)
(* The safety properties of Drivers, for any number of threads, any times  *)
(* of the devices and any length of a string.                              *)
(***************************************************************************)
EXTENDS Drivers, DataLemmas

\* Zenon has a minute for a leaf; a leaf with arithmetic, functions or sequences asks
\* for the SMT solver.
USE ZenonT(60)
USE DriversAssumption

Kinds == {"Timer", "Disk", "ConsoleWrite", "ConsoleRead"}

Has(list, kind) == \E i \in DOMAIN list : list[i].type = kind

\* The list of pending interrupts is sorted, and has at most one of a kind.
Sorted(list) ==
    /\ list \in Seq(Interrupts)
    /\ \A i, j \in DOMAIN list : /\ i < j => list[i].due <= list[j].due
                                 /\ list[i].type = list[j].type => i = j

Places ==
    {"user", "diskLock", "diskRequest", "diskWait", "diskRelease",
     "putLock", "put", "putWait", "getLock", "get", "getChar"}

Types ==
    /\ Sorted(pending)
    /\ active \in BOOLEAN /\ putBusy \in BOOLEAN /\ halted \in BOOLEAN
    /\ diskLock \in Threads \cup {Nobody}
    /\ diskDone \in 0 .. 1 /\ writeDone \in 0 .. 1 /\ semThreads \in 0 .. 1
    /\ readAvail \in Nat /\ ends \in 0 .. MaxEnds
    /\ incoming \in 0 .. MaxKeys /\ typed \in Nat /\ received \in Nat
    /\ pc \in [Threads -> Places]
    /\ count \in [Threads -> 0 .. StringLength] /\ calls \in [Threads -> 0 .. MaxCalls]

\* A device that answers: busy while its interrupt is to come, done from then until
\* the thread that waits for it has seen it.
Answers(busy, done, toCome, awaited) ==
    /\ busy <=> toCome
    /\ busy => done = 0
    /\ awaited <=> busy \/ done = 1

\* Some thread is at the place, when at says where they are.
Waits(at, place) == \E t \in Threads : at[t] = place

DiskPlaces == {"diskRequest", "diskWait", "diskRelease"}

\* The lock is with the thread between its Acquire and its Release, and the
\* semaphore of the disk is raised for that thread.
DiskOK(at, lock, busy, done, list) ==
    /\ \A t \in Threads : at[t] \in DiskPlaces <=> lock = t
    /\ Answers(busy, done, Has(list, "Disk"), Waits(at, "diskWait"))

Within == {"put", "putWait", "get", "getChar"}
ConsolePlaces == {"putLock", "getLock"} \cup Within

\* One thread at most is inside the console, and what it writes there is matched;
\* only a machine with a console lets threads call it.
ConsoleOK(at, n, sem, busy, done, list) ==
    /\ \A t \in Threads : at[t] \in Within => sem = 0
    /\ \A t, u \in Threads : at[t] \in Within /\ at[u] \in Within => t = u
    /\ sem = 0 => \E t \in Threads : at[t] \in Within
    /\ Answers(busy, done, Has(list, "ConsoleWrite"), Waits(at, "putWait"))
    /\ \A t \in Threads : /\ at[t] \in ConsolePlaces => Has(list, "ConsoleRead")
                          /\ at[t] \in {"putLock", "getLock"} => n[t] = 0
                          /\ at[t] \in {"putWait", "getChar"} => n[t] < StringLength

\* A reader is let in for a key that was typed or for a poll at the end of the input.
ReadsOK(at, avail, polls, char) ==
    avail + (IF Waits(at, "getChar") THEN 1 ELSE 0) <= polls + (IF char = EOF THEN 0 ELSE 1)

\* The last character written is the one before the one that the writer is at.
WritesOK(at, n, call, out) ==
    /\ \A t \in Threads :
           /\ at[t] = "put" => \/ n[t] = 0 /\ out[3] = StringLength - 1
                               \/ n[t] > 0 /\ out = <<t, call[t], n[t] - 1>>
           /\ at[t] = "putWait" => out = <<t, call[t], n[t]>>
    /\ (\A t \in Threads : at[t] \notin {"put", "putWait"}) => out[3] = StringLength - 1

HaltsOK == halted => \A t \in Threads : pc[t] = "user"

IInv ==
    /\ Types /\ Has(pending, "Timer")
    /\ DiskOK(pc, diskLock, active, diskDone, pending)
    /\ ConsoleOK(pc, count, semThreads, putBusy, writeDone, pending)
    /\ ReadsOK(pc, readAvail, ends, incoming)
    /\ WritesOK(pc, count, calls, output)
    /\ HaltsOK /\ KeysInOrder

-------------------------------------------------------------------------------
(* The list of pending interrupts.                                            *)

\* The first interrupt is handled.
LEMMA TailSorted ==
    ASSUME NEW list, Sorted(list), list # <<>>
    PROVE  /\ Head(list) \in Interrupts /\ Head(list).type \in Kinds /\ Has(list, Head(list).type)
           /\ Sorted(Tail(list))
           /\ \A kind \in Kinds :
                  Has(Tail(list), kind) <=> Has(list, kind) /\ kind # Head(list).type
  <1>1. /\ list \in Seq(Interrupts) /\ Len(list) \in Nat \ {0} /\ DOMAIN list = 1 .. Len(list)
        /\ Head(list) = list[1] /\ list[1] \in Interrupts
        /\ Tail(list) \in Seq(Interrupts) /\ Len(Tail(list)) = Len(list) - 1
        /\ DOMAIN Tail(list) = 1 .. Len(list) - 1
        /\ \A i \in 1 .. Len(list) - 1 : Tail(list)[i] = list[i + 1] /\ i + 1 \in 1 .. Len(list)
    BY SMTT(60) DEF Sorted
  <1>2. Head(list).type \in Kinds /\ Has(list, Head(list).type)
    BY SMTT(60), <1>1 DEF Has, Interrupts, Kinds
  <1>3. Sorted(Tail(list))
    <2>1. ASSUME NEW i \in 1 .. Len(list) - 1, NEW j \in 1 .. Len(list) - 1
          PROVE  /\ i < j => Tail(list)[i].due <= Tail(list)[j].due
                 /\ Tail(list)[i].type = Tail(list)[j].type => i = j
      <3>1. /\ i + 1 < j + 1 => list[i + 1].due <= list[j + 1].due
            /\ list[i + 1].type = list[j + 1].type => i + 1 = j + 1
        BY <1>1 DEF Sorted
      <3> QED
        BY SMTT(60), <1>1, <3>1
    <2> QED
      BY <1>1, <2>1 DEF Sorted
  <1>4. ASSUME NEW kind \in Kinds
        PROVE  Has(Tail(list), kind) <=> Has(list, kind) /\ kind # Head(list).type
    <2>1. ASSUME Has(Tail(list), kind) PROVE Has(list, kind) /\ kind # Head(list).type
      <3>1. PICK i \in 1 .. Len(list) - 1 : list[i + 1].type = kind
        BY <1>1, <2>1 DEF Has
      <3>2. i + 1 \in DOMAIN list /\ 1 \in DOMAIN list /\ i + 1 # 1
        BY SMTT(60), <1>1
      <3> QED
        BY <1>1, <3>1, <3>2 DEF Has, Sorted
    <2>2. ASSUME Has(list, kind), kind # Head(list).type PROVE Has(Tail(list), kind)
      <3>1. PICK i \in 1 .. Len(list) : list[i].type = kind
        BY <1>1, <2>2 DEF Has
      <3>2. i # 1
        BY <1>1, <2>2, <3>1
      <3>3. i - 1 \in 1 .. Len(list) - 1 /\ (i - 1) + 1 = i
        BY SMTT(60), <1>1, <3>2
      <3>4. i - 1 \in DOMAIN Tail(list) /\ Tail(list)[i - 1].type = kind
        BY <1>1, <3>1, <3>3
      <3> QED
        BY <3>4 DEF Has
    <2> QED
      BY <2>1, <2>2
  <1> QED
    BY <1>1, <1>2, <1>3, <1>4

\* Time moves on for all of them.
LEMMA AdvanceSorted ==
    ASSUME NEW list, Sorted(list), NEW n \in Int
    PROVE  /\ Sorted(Advance(list, n))
           /\ \A kind : Has(Advance(list, n), kind) <=> Has(list, kind)
  <1> DEFINE later == Advance(list, n)
  <1>1. list \in Seq(Interrupts) /\ Len(list) \in Nat /\ DOMAIN list = 1 .. Len(list)
    BY SMTT(60) DEF Sorted
  <1>2. /\ DOMAIN later = DOMAIN list
        /\ \A i \in DOMAIN list : /\ later[i] \in Interrupts /\ list[i] \in Interrupts
                                  /\ later[i].type = list[i].type
                                  /\ later[i].due = list[i].due - n
    <2>1. ASSUME NEW r \in Interrupts
          PROVE  /\ [r EXCEPT !.due = @ - n] \in Interrupts
                 /\ [r EXCEPT !.due = @ - n].type = r.type
                 /\ [r EXCEPT !.due = @ - n].due = r.due - n
      BY SMTT(60) DEF Interrupts
    <2>2. \A i \in DOMAIN list : list[i] \in Interrupts
      BY SMTT(60), <1>1
    <2> QED
      BY <2>1, <2>2 DEF Advance
  <1>3. later \in [1 .. Len(list) -> Interrupts]
    BY <1>1, <1>2 DEF Advance
  <1>4. later \in Seq(Interrupts)
    BY SMTT(60), <1>1, <1>3
  <1>5. \A i \in DOMAIN list : list[i].due \in Int
    BY <1>2 DEF Interrupts
  <1>6. ASSUME NEW i \in DOMAIN list, NEW j \in DOMAIN list
        PROVE  /\ i < j => later[i].due <= later[j].due
               /\ later[i].type = later[j].type => i = j
    <2>1. (i < j => list[i].due <= list[j].due) /\ (list[i].type = list[j].type => i = j)
      BY DEF Sorted
    <2> QED
      BY SMTT(60), <1>2, <1>5, <2>1
  <1>7. Sorted(later)
    BY <1>2, <1>4, <1>6 DEF Sorted
  <1>8. \A kind : Has(later, kind) <=> Has(list, kind)
    BY <1>2 DEF Has
  <1> QED
    BY <1>7, <1>8

\* An interrupt of a kind that is not on the list is put where it belongs.
LEMMA ScheduleSorted ==
    ASSUME NEW list, Sorted(list), NEW kind \in Kinds, ~Has(list, kind), NEW n \in Int
    PROVE  /\ Sorted(Schedule(list, kind, n))
           /\ \A k : Has(Schedule(list, kind, n), k) <=> Has(list, k) \/ k = kind
  <1> DEFINE new == [type |-> kind, due |-> n]
             later == {i \in DOMAIN list : list[i].due > n}
             place == IF later = {} THEN Len(list) + 1 ELSE Min(later)
             longer == SubSeq(list, 1, place - 1) \o <<new>> \o SubSeq(list, place, Len(list))
  <1>1. /\ list \in Seq(Interrupts) /\ Len(list) \in Nat /\ DOMAIN list = 1 .. Len(list)
        /\ \A i \in 1 .. Len(list) : list[i] \in Interrupts /\ list[i].due \in Int
        /\ new \in Interrupts /\ new.type = kind /\ new.due = n
    <2>1. list \in Seq(Interrupts) /\ Len(list) \in Nat /\ DOMAIN list = 1 .. Len(list)
      BY SMTT(60) DEF Sorted
    <2>2. \A i \in 1 .. Len(list) : list[i] \in Interrupts
      BY SMTT(60), <2>1
    <2>3. \A r \in Interrupts : r.due \in Int
      BY DEF Interrupts
    <2>4. new \in Interrupts /\ new.type = kind /\ new.due = n
      BY DEF Interrupts, Kinds
    <2> QED
      BY <2>1, <2>2, <2>3, <2>4
  <1>2. /\ place \in 1 .. Len(list) + 1
        /\ \A i \in 1 .. Len(list) : (i < place => list[i].due <= n) /\ (i >= place => n < list[i].due)
    <2>1. CASE later = {}
      BY SMTT(60), <1>1, <2>1
    <2>2. CASE later # {}
      <3>1. later \subseteq Nat
        BY SMTT(60), <1>1
      <3>2. Min(later) \in later /\ \A i \in later : Min(later) <= i
        BY <2>2, <3>1, FirstBit
      <3>3. place \in later /\ \A i \in later : place <= i
        BY <2>2, <3>2
      <3> HIDE DEF place
      <3>4. place \in 1 .. Len(list) /\ list[place].due > n
        BY <1>1, <3>3
      <3>5. \A i \in 1 .. Len(list) : i < place => list[i].due <= n
        BY SMTT(60), <1>1, <3>3, <3>4
      <3>6. ASSUME NEW i \in 1 .. Len(list), i >= place PROVE n < list[i].due
        <4>1. i = place \/ list[place].due <= list[i].due
          BY SMTT(60), <1>1, <3>4, <3>6 DEF Sorted
        <4> QED
          BY SMTT(60), <1>1, <3>4, <4>1
      <3> QED
        BY SMTT(60), <1>1, <3>4, <3>5, <3>6
    <2> QED
      BY <2>1, <2>2
  <1> HIDE DEF place, new, longer
  <1>3. /\ longer \in Seq(Interrupts) /\ Len(longer) = Len(list) + 1
        /\ DOMAIN longer = 1 .. Len(list) + 1
        /\ \A i \in 1 .. Len(list) + 1 :
               longer[i] = IF i < place THEN list[i] ELSE IF i = place THEN new ELSE list[i - 1]
    <2> DEFINE a == SubSeq(list, 1, place - 1)
               b == SubSeq(list, place, Len(list))
    <2>1. /\ a \in Seq(Interrupts) /\ Len(a) = place - 1
          /\ \A i \in 1 .. place - 1 : a[i] = list[i]
      BY SMTT(60), <1>1, <1>2
    <2>2. /\ b \in Seq(Interrupts) /\ Len(b) = Len(list) + 1 - place
          /\ \A i \in 1 .. Len(list) + 1 - place : b[i] = list[place + i - 1]
      BY SMTT(60), <1>1, <1>2
    <2>3. <<new>> \in Seq(Interrupts) /\ Len(<<new>>) = 1 /\ <<new>>[1] = new
      BY SMTT(60), <1>1
    <2> HIDE DEF a, b
    <2> DEFINE c == a \o <<new>>
    <2>4. /\ c \in Seq(Interrupts) /\ Len(c) = place
          /\ \A i \in 1 .. place : c[i] = IF i < place THEN list[i] ELSE new
      BY SMTT(60), <1>1, <1>2, <2>1, <2>3
    <2>5. longer = c \o b
      BY DEF longer, a, b
    <2> HIDE DEF c
    <2>6. longer \in Seq(Interrupts) /\ Len(longer) = Len(list) + 1
      <3>1. c \o b \in Seq(Interrupts) /\ Len(c \o b) = Len(c) + Len(b)
        BY SMTT(60), <2>2, <2>4
      <3> QED
        BY SMTT(60), <1>1, <1>2, <2>2, <2>4, <2>5, <3>1
    <2>7. ASSUME NEW i \in 1 .. Len(list) + 1
          PROVE  longer[i] = IF i < place THEN list[i] ELSE IF i = place THEN new ELSE list[i - 1]
      <3>1. CASE i <= place
        BY SMTT(60), <1>1, <1>2, <2>2, <2>4, <2>5, <3>1
      <3>2. CASE i > place
        <4>1. i - place \in 1 .. Len(list) + 1 - place /\ place + (i - place) - 1 = i - 1
          BY SMTT(60), <1>1, <1>2, <3>2
        <4>2. longer[i] = b[i - place]
          BY SMTT(60), <1>1, <1>2, <2>2, <2>4, <2>5, <3>2
        <4> QED
          BY SMTT(60), <1>2, <2>2, <3>2, <4>1, <4>2
      <3> QED
        BY SMTT(60), <1>2, <3>1, <3>2
    <2> QED
      BY SMTT(60), <1>1, <2>6, <2>7
  <1>4. \A i \in 1 .. Len(list) + 1 :
            \/ i < place /\ i \in 1 .. Len(list) /\ longer[i] = list[i]
            \/ i = place /\ longer[i] = new
            \/ i > place /\ i - 1 \in 1 .. Len(list) /\ i - 1 >= place /\ longer[i] = list[i - 1]
    BY SMTT(60), <1>1, <1>2, <1>3
  <1>5. \A i \in 1 .. Len(list) : list[i].type # kind
    BY <1>1 DEF Has
  <1>6. ASSUME NEW i \in 1 .. Len(list) + 1, NEW j \in 1 .. Len(list) + 1
        PROVE  /\ i < j => longer[i].due <= longer[j].due
               /\ longer[i].type = longer[j].type => i = j
    <2>1. \A k, l \in 1 .. Len(list) : /\ k < l => list[k].due <= list[l].due
                                       /\ list[k].type = list[l].type => k = l
      BY <1>1 DEF Sorted
    <2>2. ASSUME i < j PROVE longer[i].due <= longer[j].due
      <3>1. CASE i < place /\ j < place
        <4>1. /\ i \in 1 .. Len(list) /\ j \in 1 .. Len(list)
              /\ longer[i] = list[i] /\ longer[j] = list[j]
          BY SMTT(60), <1>1, <1>2, <1>4, <3>1
        <4> QED
          BY <2>1, <2>2, <4>1
      <3>2. CASE i > place
        <4>1. /\ i - 1 \in 1 .. Len(list) /\ j - 1 \in 1 .. Len(list) /\ i - 1 < j - 1
              /\ longer[i] = list[i - 1] /\ longer[j] = list[j - 1]
          BY SMTT(60), <1>1, <1>2, <1>4, <2>2, <3>2
        <4> QED
          BY <2>1, <4>1
      <3>3. CASE i <= place /\ j >= place
        <4>1. longer[i].due <= n /\ longer[i].due \in Int
          BY SMTT(60), <1>1, <1>2, <1>4, <3>3
        <4>2. n <= longer[j].due /\ longer[j].due \in Int
          BY SMTT(60), <1>1, <1>2, <1>4, <3>3
        <4> QED
          BY SMTT(60), <4>1, <4>2
      <3> QED
        BY SMTT(60), <1>2, <2>2, <3>1, <3>2, <3>3
    <2>3. ASSUME longer[i].type = longer[j].type PROVE i = j
      BY SMTT(60), <1>1, <1>2, <1>4, <1>5, <2>1, <2>3
    <2> QED
      BY <2>2, <2>3
  <1>7. Sorted(longer)
    BY <1>3, <1>6 DEF Sorted
  <1>8. ASSUME NEW k
        PROVE  Has(longer, k) <=> Has(list, k) \/ k = kind
    <2>1. ASSUME Has(longer, k) PROVE Has(list, k) \/ k = kind
      BY <1>1, <1>3, <1>4, <2>1 DEF Has
    <2>2. ASSUME k = kind PROVE Has(longer, k)
      BY SMTT(60), <1>1, <1>2, <1>3, <2>2 DEF Has
    <2>3. ASSUME Has(list, k) PROVE Has(longer, k)
      <3>1. PICK i \in 1 .. Len(list) : list[i].type = k
        BY <1>1, <2>3 DEF Has
      <3>2. CASE i < place
        BY SMTT(60), <1>1, <1>3, <3>1, <3>2 DEF Has
      <3>3. CASE i >= place
        <4>1. /\ i + 1 \in 1 .. Len(list) + 1 /\ (i + 1) - 1 = i
              /\ ~(i + 1 < place) /\ i + 1 # place
          BY SMTT(60), <1>1, <1>2, <3>3
        <4>2. i + 1 \in DOMAIN longer /\ longer[i + 1] = list[i]
          BY SMTT(60), <1>3, <4>1
        <4> QED
          BY <3>1, <4>2 DEF Has
      <3> QED
        BY SMTT(60), <1>2, <3>2, <3>3
    <2> QED
      BY <2>1, <2>2, <2>3
  <1> QED
    BY <1>7, <1>8 DEF Schedule, place, new, longer

-------------------------------------------------------------------------------
(* What a step leaves alone.                                                  *)

\* What happens away from SynchDisk leaves the disk as it should be.
LEMMA DiskKept ==
    ASSUME NEW at, NEW at2, NEW lock, NEW busy, NEW done, NEW list, NEW list2,
           DiskOK(at, lock, busy, done, list),
           \A t \in Threads :
               at2[t] = at[t] \/ (at[t] \notin DiskPlaces /\ at2[t] \notin DiskPlaces),
           Has(list2, "Disk") <=> Has(list, "Disk")
    PROVE  DiskOK(at2, lock, busy, done, list2)
  <1>1. \A t \in Threads : at2[t] \in DiskPlaces <=> at[t] \in DiskPlaces
    OBVIOUS
  <1>2. Waits(at2, "diskWait") <=> Waits(at, "diskWait")
    BY DEF Waits, DiskPlaces
  <1> QED
    BY <1>1, <1>2 DEF DiskOK, Answers

\* What happens away from SynchConsole leaves the console as it should be.
LEMMA ConsoleKept ==
    ASSUME NEW at, NEW at2, NEW n, NEW n2, NEW sem, NEW busy, NEW done, NEW list, NEW list2,
           ConsoleOK(at, n, sem, busy, done, list),
           \A t \in Threads :
               \/ at2[t] = at[t] /\ (at[t] \in ConsolePlaces => n2[t] = n[t])
               \/ at[t] \notin ConsolePlaces /\ at2[t] \notin ConsolePlaces,
           Has(list2, "ConsoleWrite") <=> Has(list, "ConsoleWrite"),
           Has(list, "ConsoleRead") => Has(list2, "ConsoleRead")
    PROVE  ConsoleOK(at2, n2, sem, busy, done, list2)
  <1>1. \A t \in Threads : at2[t] \in ConsolePlaces \/ at[t] \in ConsolePlaces =>
            at2[t] = at[t] /\ n2[t] = n[t]
    OBVIOUS
  <1>2. Within \subseteq ConsolePlaces /\ {"putLock", "getLock"} \subseteq ConsolePlaces
        /\ {"putWait", "getChar"} \subseteq ConsolePlaces
    BY DEF ConsolePlaces, Within
  <1>3. \A t \in Threads : at2[t] \in Within <=> at[t] \in Within
    BY <1>1, <1>2
  <1>4. Waits(at2, "putWait") <=> Waits(at, "putWait")
    BY <1>1, <1>2 DEF Waits
  <1>5. \A t \in Threads :
            /\ at2[t] \in ConsolePlaces => Has(list2, "ConsoleRead")
            /\ at2[t] \in {"putLock", "getLock"} => n2[t] = 0
            /\ at2[t] \in {"putWait", "getChar"} => n2[t] < StringLength
    BY <1>1, <1>2 DEF ConsoleOK
  <1> QED
    BY <1>3, <1>4, <1>5 DEF ConsoleOK, Answers

\* What happens outside GetChar leaves the keys it is owed.
LEMMA ReadsKept ==
    ASSUME NEW at, NEW at2, NEW avail, NEW polls, NEW char, ReadsOK(at, avail, polls, char),
           \A t \in Threads : at2[t] = at[t] \/ (at[t] # "getChar" /\ at2[t] # "getChar")
    PROVE  ReadsOK(at2, avail, polls, char)
  <1>1. Waits(at2, "getChar") <=> Waits(at, "getChar")
    BY DEF Waits
  <1> QED
    BY <1>1 DEF ReadsOK

\* What happens outside PutChar leaves the characters written so far.
LEMMA WritesKept ==
    ASSUME NEW at, NEW at2, NEW n, NEW n2, NEW call, NEW call2, NEW out,
           WritesOK(at, n, call, out),
           \A t \in Threads :
               \/ /\ at2[t] = at[t]
                  /\ at[t] \in {"put", "putWait"} => n2[t] = n[t] /\ call2[t] = call[t]
               \/ at[t] \notin {"put", "putWait"} /\ at2[t] \notin {"put", "putWait"}
    PROVE  WritesOK(at2, n2, call2, out)
  <1>1. \A t \in Threads : at2[t] \in {"put", "putWait"} \/ at[t] \in {"put", "putWait"} =>
            at2[t] = at[t] /\ n2[t] = n[t] /\ call2[t] = call[t]
    OBVIOUS
  <1> QED
    BY <1>1 DEF WritesOK

\* KeysInOrder speaks of three variables.
LEMMA KeysKept == KeysInOrder /\ UNCHANGED <<incoming, received, typed>> => KeysInOrder'
  BY DEF KeysInOrder

\* A tick.
LEMMA Ticked ==
    ASSUME IInv, Tick
    PROVE  Sorted(pending') /\ \A kind : Has(pending', kind) <=> Has(pending, kind)
  <1>1. Sorted(pending) /\ pending' = Advance(pending, 1)
    BY DEF IInv, Types, Tick
  <1> QED
    BY SMTT(60), <1>1, AdvanceSorted

-------------------------------------------------------------------------------
(* The interrupts.                                                            *)

\* The handlers change neither where the threads are nor what they have dealt with.
LEMMA TimerStep ==
    ASSUME IInv, Fire, TimerExpired
    PROVE  IInv'
  <1>1. /\ Sorted(pending) /\ pending # <<>> /\ Head(pending).type = "Timer" /\ TimerTicks \in Int
        /\ pending' = Schedule(Tail(pending), "Timer", TimerTicks)
        /\ UNCHANGED <<devices, consoleVars, outside, halted, pc, count, calls>>
    BY SMTT(60) DEF IInv, Types, Fire, IsDue, TimerExpired
  <1>2. /\ Sorted(Tail(pending))
        /\ \A kind \in Kinds : Has(Tail(pending), kind) <=> Has(pending, kind) /\ kind # "Timer"
    BY <1>1, TailSorted
  <1>3. Sorted(pending') /\ \A kind \in Kinds : Has(pending', kind) <=> Has(pending, kind) \/ kind = "Timer"
    BY <1>1, <1>2, ScheduleSorted DEF Kinds
  <1>4. Types' /\ Has(pending', "Timer")
    BY <1>1, <1>3 DEF IInv, Types, Kinds, devices, consoleVars, outside
  <1>5. DiskOK(pc', diskLock', active', diskDone', pending')
    BY <1>1, <1>3, DiskKept DEF IInv, Kinds, devices
  <1>6. ConsoleOK(pc', count', semThreads', putBusy', writeDone', pending')
    BY <1>1, <1>3, ConsoleKept DEF IInv, Kinds, consoleVars
  <1> QED
    BY <1>1, <1>4, <1>5, <1>6, KeysKept DEF IInv, HaltsOK, consoleVars, outside

\* SynchDisk::RequestDone wakes the thread whose request it was.
LEMMA DiskDoneStep ==
    ASSUME IInv, Fire, DiskDone
    PROVE  IInv'
  <1>1. /\ Sorted(pending) /\ pending # <<>> /\ Head(pending).type = "Disk"
        /\ pending' = Tail(pending) /\ active' = FALSE /\ diskDone' = diskDone + 1
        /\ UNCHANGED <<diskLock, consoleVars, outside, halted, pc, count, calls>>
    BY DEF IInv, Types, Fire, IsDue, DiskDone
  <1>2. /\ Sorted(pending') /\ Has(pending, "Disk")
        /\ \A kind \in Kinds : Has(pending', kind) <=> Has(pending, kind) /\ kind # "Disk"
    BY <1>1, TailSorted
  <1>3. active /\ diskDone = 0 /\ Waits(pc, "diskWait")
    BY <1>2 DEF IInv, DiskOK, Answers
  <1>4. Types' /\ Has(pending', "Timer")
    <2>1. active' \in BOOLEAN
      BY <1>1
    <2>2. diskDone = 0 /\ diskDone' = diskDone + 1
      BY <1>1, <1>3
    <2>3. diskDone' \in 0 .. 1
      BY SMTT(60), <2>2
    <2> QED
      BY <1>1, <1>2, <2>1, <2>3 DEF IInv, Types, Kinds, consoleVars, outside
  <1>5. DiskOK(pc', diskLock', active', diskDone', pending')
    BY SMTT(60), <1>1, <1>2, <1>3 DEF IInv, Kinds, DiskOK, Answers
  <1>6. ConsoleOK(pc', count', semThreads', putBusy', writeDone', pending')
    BY <1>1, <1>2, ConsoleKept DEF IInv, Kinds, consoleVars
  <1> QED
    BY <1>1, <1>4, <1>5, <1>6, KeysKept DEF IInv, HaltsOK, consoleVars, outside

\* Console::WriteDone wakes the thread that writes.
LEMMA WriteDoneStep ==
    ASSUME IInv, Fire, ConsoleWriteDone
    PROVE  IInv'
  <1>1. /\ Sorted(pending) /\ pending # <<>> /\ Head(pending).type = "ConsoleWrite"
        /\ pending' = Tail(pending) /\ putBusy' = FALSE /\ writeDone' = writeDone + 1
        /\ UNCHANGED <<devices, incoming, readAvail, semThreads, outside, halted, pc, count, calls>>
    BY DEF IInv, Types, Fire, IsDue, ConsoleWriteDone
  <1>2. /\ Sorted(pending') /\ Has(pending, "ConsoleWrite")
        /\ \A kind \in Kinds : Has(pending', kind) <=> Has(pending, kind) /\ kind # "ConsoleWrite"
    BY <1>1, TailSorted
  <1>3. putBusy /\ writeDone = 0 /\ Waits(pc, "putWait")
    BY <1>2 DEF IInv, ConsoleOK, Answers
  <1>4. Types' /\ Has(pending', "Timer")
    <2>1. putBusy' \in BOOLEAN
      BY <1>1
    <2>2. writeDone = 0 /\ writeDone' = writeDone + 1
      BY <1>1, <1>3
    <2>3. writeDone' \in 0 .. 1
      BY SMTT(60), <2>2
    <2> QED
      BY <1>1, <1>2, <2>1, <2>3 DEF IInv, Types, Kinds, devices, outside
  <1>5. DiskOK(pc', diskLock', active', diskDone', pending')
    BY <1>1, <1>2, DiskKept DEF IInv, Kinds, devices
  <1>6. ConsoleOK(pc', count', semThreads', putBusy', writeDone', pending')
    BY SMTT(60), <1>1, <1>2, <1>3 DEF IInv, Kinds, ConsoleOK, Answers
  <1> QED
    BY <1>1, <1>4, <1>5, <1>6, KeysKept DEF IInv, HaltsOK, outside

\* Console::CheckCharAvail lets a reader in for every key and every end it finds.
LEMMA CheckCharStep ==
    ASSUME IInv, Fire, CheckCharAvail
    PROVE  IInv'
  <1>1. /\ Sorted(pending) /\ pending # <<>> /\ Head(pending).type = "ConsoleRead"
        /\ ConsoleTime \in Int
        /\ pending' = Schedule(Tail(pending), "ConsoleRead", ConsoleTime)
        /\ UNCHANGED <<devices, putBusy, writeDone, semThreads, received, output>>
        /\ UNCHANGED <<halted, pc, count, calls>>
    BY SMTT(60) DEF IInv, Types, Fire, IsDue, CheckCharAvail
  <1>2. /\ Sorted(Tail(pending)) /\ Has(pending, "ConsoleRead")
        /\ \A kind \in Kinds :
               Has(Tail(pending), kind) <=> Has(pending, kind) /\ kind # "ConsoleRead"
    BY <1>1, TailSorted
  <1>3. Sorted(pending') /\ \A kind \in Kinds : Has(pending', kind) <=> Has(pending, kind)
    BY <1>1, <1>2, ScheduleSorted DEF Kinds
  <1>4. DiskOK(pc', diskLock', active', diskDone', pending')
    BY <1>1, <1>3, DiskKept DEF IInv, Kinds, devices
  <1>5. ConsoleOK(pc', count', semThreads', putBusy', writeDone', pending')
    BY <1>1, <1>3, ConsoleKept DEF IInv, Kinds
  <1>6. /\ readAvail \in Nat /\ typed \in Nat /\ received \in Nat /\ ends \in 0 .. MaxEnds
        /\ incoming \in 0 .. MaxKeys /\ MaxKeys \in Nat /\ MaxEnds \in Nat
        /\ incoming \in {EOF, received + 1}
        /\ typed = IF incoming = EOF THEN received ELSE incoming
        /\ ReadsOK(pc, readAvail, ends, incoming)
    BY DEF IInv, Types, KeysInOrder
  <1>7. /\ readAvail' \in Nat /\ typed' \in Nat /\ ends' \in 0 .. MaxEnds
        /\ incoming' \in 0 .. MaxKeys
        /\ incoming' \in {EOF, received + 1}
        /\ typed' = IF incoming' = EOF THEN received ELSE incoming'
        /\ ReadsOK(pc, readAvail', ends', incoming')
    <2>1. CASE UNCHANGED <<incoming, readAvail, typed, ends>>
      BY <1>6, <2>1
    <2>2. CASE /\ incoming = EOF /\ typed < MaxKeys /\ typed' = typed + 1
               /\ incoming' = typed' /\ readAvail' = readAvail + 1 /\ ends' = ends
      BY SMTT(60), <1>6, <2>2 DEF ReadsOK, EOF
    <2>3. CASE /\ incoming = EOF /\ ends < MaxEnds /\ ends' = ends + 1
               /\ readAvail' = readAvail + 1 /\ incoming' = incoming /\ typed' = typed
      BY SMTT(60), <1>6, <2>3 DEF ReadsOK, EOF
    <2> QED
      BY <2>1, <2>2, <2>3 DEF CheckCharAvail
  <1>8. Types' /\ Has(pending', "Timer")
    BY <1>1, <1>3, <1>7 DEF IInv, Types, Kinds, devices
  <1>9. KeysInOrder'
    BY <1>1, <1>7 DEF KeysInOrder
  <1> QED
    BY <1>1, <1>4, <1>5, <1>7, <1>8, <1>9 DEF IInv, HaltsOK

-------------------------------------------------------------------------------
(* The disk.                                                                  *)

\* A thread goes to another place.
LEMMA Moved ==
    ASSUME IInv, NEW t \in Threads, NEW where \in Places, Goto(t, where)
    PROVE  /\ pc' \in [Threads -> Places] /\ pc'[t] = where
           /\ \A u \in Threads : u # t => pc'[u] = pc[u]
  BY DEF IInv, Types, Goto

\* What the steps of a call to the disk leave alone.
LEMMA DiskStep ==
    ASSUME IInv, NEW t \in Threads, NEW where \in DiskPlaces \cup {"user"},
           pc[t] \in DiskPlaces \cup {"diskLock"}, ~halted, Goto(t, where),
           UNCHANGED <<halted, consoleVars, count, calls, outside>>,
           Sorted(pending'),
           \A kind \in Kinds \ {"Disk"} : Has(pending', kind) <=> Has(pending, kind),
           active' \in BOOLEAN, diskLock' \in Threads \cup {Nobody}, diskDone' \in 0 .. 1,
           DiskOK(pc', diskLock', active', diskDone', pending')
    PROVE  IInv'
  <1>1. /\ where \in Places
        /\ \A place \in {where, pc[t]} : /\ place \notin ConsolePlaces
                                         /\ place \notin {"getChar", "put", "putWait"}
    BY DEF Places, DiskPlaces, ConsolePlaces, Within
  <1>2. /\ pc' \in [Threads -> Places] /\ pc'[t] = where
        /\ \A u \in Threads : u # t => pc'[u] = pc[u]
    BY <1>1, Moved
  <1>3. /\ UNCHANGED <<halted, putBusy, incoming, readAvail, writeDone, semThreads>>
        /\ UNCHANGED <<count, calls, typed, ends, received, output>>
    BY DEF consoleVars, outside
  <1>4. Has(pending', "Timer") /\ (Has(pending', "ConsoleRead") <=> Has(pending, "ConsoleRead"))
        /\ (Has(pending', "ConsoleWrite") <=> Has(pending, "ConsoleWrite"))
    BY DEF IInv, Kinds
  <1>5. Types'
    BY <1>2, <1>3 DEF IInv, Types
  <1>6. ConsoleOK(pc', count', semThreads', putBusy', writeDone', pending')
    <2>1. \A u \in Threads :
              \/ pc'[u] = pc[u] /\ (pc[u] \in ConsolePlaces => count'[u] = count[u])
              \/ pc[u] \notin ConsolePlaces /\ pc'[u] \notin ConsolePlaces
      BY <1>1, <1>2, <1>3
    <2>2. ConsoleOK(pc, count, semThreads, putBusy, writeDone, pending)
      BY DEF IInv
    <2>3. ConsoleOK(pc', count', semThreads, putBusy, writeDone, pending')
      BY <1>4, <2>1, <2>2, ConsoleKept
    <2> QED
      BY <1>3, <2>3
  <1>7. ReadsOK(pc', readAvail', ends', incoming')
    <2>1. \A u \in Threads : pc'[u] = pc[u] \/ (pc[u] # "getChar" /\ pc'[u] # "getChar")
      BY <1>1, <1>2
    <2> QED
      BY <1>3, <2>1, ReadsKept DEF IInv
  <1>8. WritesOK(pc', count', calls', output')
    <2>1. \A u \in Threads :
              \/ /\ pc'[u] = pc[u]
                 /\ pc[u] \in {"put", "putWait"} => count'[u] = count[u] /\ calls'[u] = calls[u]
              \/ pc[u] \notin {"put", "putWait"} /\ pc'[u] \notin {"put", "putWait"}
      BY <1>1, <1>2, <1>3
    <2>2. WritesOK(pc, count, calls, output)
      BY DEF IInv
    <2>3. WritesOK(pc', count', calls', output)
      BY SMTT(60), <2>1, <2>2, WritesKept
    <2> QED
      BY <1>3, <2>3
  <1>9. HaltsOK' /\ KeysInOrder'
    BY SMTT(60), <1>3, KeysKept DEF IInv, HaltsOK
  <1> QED
    BY <1>4, <1>5, <1>6, <1>7, <1>8, <1>9 DEF IInv

\* SynchDisk: lock->Acquire().
LEMMA DiskAcquireStep ==
    ASSUME IInv, NEW t \in Threads, DiskAcquire(t)
    PROVE  IInv'
  <1>1. /\ pc[t] = "diskLock" /\ ~halted /\ diskLock = Nobody /\ diskLock' = t
        /\ Goto(t, "diskRequest") /\ Tick
        /\ UNCHANGED <<halted, active, diskDone, consoleVars, count, calls, outside>>
    BY DEF DiskAcquire, At
  <1>2. Sorted(pending') /\ \A kind : Has(pending', kind) <=> Has(pending, kind)
    BY <1>1, Ticked
  <1>3. /\ pc'[t] = "diskRequest"
        /\ \A u \in Threads : u # t => pc'[u] = pc[u]
    BY <1>1, Moved DEF Places
  <1>4. /\ \A u \in Threads : pc[u] \in DiskPlaces <=> Nobody = u
        /\ Answers(active, diskDone, Has(pending, "Disk"), Waits(pc, "diskWait"))
    BY <1>1 DEF IInv, DiskOK
  <1>5. \A u \in Threads : pc'[u] \in DiskPlaces <=> diskLock' = u
    BY <1>1, <1>3, <1>4 DEF DiskPlaces, Nobody
  <1>6. Waits(pc', "diskWait") <=> Waits(pc, "diskWait")
    BY <1>1, <1>3 DEF Waits
  <1>7. DiskOK(pc', diskLock', active', diskDone', pending')
    BY <1>1, <1>2, <1>4, <1>5, <1>6 DEF DiskOK, Answers
  <1>8. active' \in BOOLEAN /\ diskLock' \in Threads \cup {Nobody} /\ diskDone' \in 0 .. 1
    BY <1>1 DEF IInv, Types
  <1> QED
    BY <1>1, <1>2, <1>7, <1>8, DiskStep DEF DiskPlaces

\* Disk::ReadRequest and WriteRequest: the disk is at rest.
LEMMA DiskRequestStep ==
    ASSUME IInv, NEW t \in Threads, DiskRequest(t)
    PROVE  IInv'
  <1>1. /\ pc[t] = "diskRequest" /\ ~halted /\ active' = TRUE /\ Goto(t, "diskWait")
        /\ UNCHANGED <<halted, diskLock, diskDone, consoleVars, count, calls, outside>>
    BY DEF DiskRequest, At
  <1>2. PICK ticks \in DiskTimes : pending' = Schedule(pending, "Disk", ticks)
    BY DEF DiskRequest
  <1>3. /\ pc'[t] = "diskWait"
        /\ \A u \in Threads : u # t => pc'[u] = pc[u]
    BY <1>1, Moved DEF Places
  <1>4. /\ \A u \in Threads : pc[u] \in DiskPlaces <=> diskLock = u
        /\ Answers(active, diskDone, Has(pending, "Disk"), Waits(pc, "diskWait"))
        /\ diskDone \in 0 .. 1 /\ active \in BOOLEAN
    BY DEF IInv, Types, DiskOK
  <1>5. ~Waits(pc, "diskWait")
    BY <1>1, <1>4 DEF Waits, DiskPlaces
  <1>6. ~active /\ diskDone = 0 /\ ~Has(pending, "Disk")
    BY SMTT(60), <1>4, <1>5 DEF Answers
  <1>7. Sorted(pending')
        /\ \A kind \in Kinds : Has(pending', kind) <=> Has(pending, kind) \/ kind = "Disk"
    <2>1. Sorted(pending) /\ ticks \in Int /\ "Disk" \in Kinds
      BY SMTT(60) DEF IInv, Types, Kinds
    <2> QED
      BY <1>2, <1>6, <2>1, ScheduleSorted
  <1>8. /\ \A u \in Threads : pc'[u] \in DiskPlaces <=> diskLock' = u
        /\ Waits(pc', "diskWait") /\ Has(pending', "Disk")
    BY <1>1, <1>3, <1>4, <1>7 DEF DiskPlaces, Waits, Kinds
  <1>9. DiskOK(pc', diskLock', active', diskDone', pending')
    BY <1>1, <1>6, <1>8 DEF DiskOK, Answers
  <1>10. active' \in BOOLEAN /\ diskLock' \in Threads \cup {Nobody} /\ diskDone' \in 0 .. 1
    BY <1>1, <1>4 DEF IInv, Types
  <1> QED
    BY <1>1, <1>7, <1>9, <1>10, DiskStep DEF DiskPlaces

\* SynchDisk: semaphore->P(), which the interrupt of the request has raised.
LEMMA DiskWaitStep ==
    ASSUME IInv, NEW t \in Threads, DiskWait(t)
    PROVE  IInv'
  <1>1. /\ pc[t] = "diskWait" /\ ~halted /\ diskDone > 0 /\ diskDone' = diskDone - 1
        /\ Goto(t, "diskRelease") /\ Tick
        /\ UNCHANGED <<halted, active, diskLock, consoleVars, count, calls, outside>>
    BY DEF DiskWait, At
  <1>2. Sorted(pending') /\ \A kind : Has(pending', kind) <=> Has(pending, kind)
    BY <1>1, Ticked
  <1>3. /\ pc'[t] = "diskRelease"
        /\ \A u \in Threads : u # t => pc'[u] = pc[u]
    BY <1>1, Moved DEF Places
  <1>4. /\ \A u \in Threads : pc[u] \in DiskPlaces <=> diskLock = u
        /\ Answers(active, diskDone, Has(pending, "Disk"), Waits(pc, "diskWait"))
        /\ diskDone \in 0 .. 1
    BY DEF IInv, Types, DiskOK
  <1>5. diskDone = 1 /\ diskDone' = 0
    BY SMTT(60), <1>1, <1>4
  <1>6. ~active /\ ~Has(pending, "Disk")
    BY SMTT(60), <1>4, <1>5 DEF Answers
  <1>7. \A u \in Threads : pc'[u] \in DiskPlaces <=> diskLock' = u
    BY <1>1, <1>3, <1>4 DEF DiskPlaces
  <1>8. ~Waits(pc', "diskWait")
    BY <1>1, <1>3, <1>4 DEF Waits, DiskPlaces
  <1>9. DiskOK(pc', diskLock', active', diskDone', pending')
    BY SMTT(60), <1>1, <1>2, <1>5, <1>6, <1>7, <1>8 DEF DiskOK, Answers
  <1>10. active' \in BOOLEAN /\ diskLock' \in Threads \cup {Nobody}
    BY <1>1 DEF IInv, Types
  <1> QED
    BY SMTT(60), <1>1, <1>2, <1>5, <1>9, <1>10, DiskStep DEF DiskPlaces

\* SynchDisk: lock->Release().
LEMMA DiskReleaseStep ==
    ASSUME IInv, NEW t \in Threads, DiskRelease(t)
    PROVE  IInv'
  <1>1. /\ pc[t] = "diskRelease" /\ ~halted /\ diskLock' = Nobody
        /\ Goto(t, "user") /\ Tick
        /\ UNCHANGED <<halted, active, diskDone, consoleVars, count, calls, outside>>
    BY DEF DiskRelease, At
  <1>2. Sorted(pending') /\ \A kind : Has(pending', kind) <=> Has(pending, kind)
    BY <1>1, Ticked
  <1>3. /\ pc'[t] = "user"
        /\ \A u \in Threads : u # t => pc'[u] = pc[u]
    BY <1>1, Moved DEF Places
  <1>4. /\ \A u \in Threads : pc[u] \in DiskPlaces <=> diskLock = u
        /\ Answers(active, diskDone, Has(pending, "Disk"), Waits(pc, "diskWait"))
    BY DEF IInv, DiskOK
  <1>5. \A u \in Threads : pc'[u] \in DiskPlaces <=> diskLock' = u
    BY <1>1, <1>3, <1>4 DEF DiskPlaces, Nobody
  <1>6. Waits(pc', "diskWait") <=> Waits(pc, "diskWait")
    BY <1>1, <1>3 DEF Waits
  <1>7. DiskOK(pc', diskLock', active', diskDone', pending')
    BY <1>1, <1>2, <1>4, <1>5, <1>6 DEF DiskOK, Answers
  <1>8. active' \in BOOLEAN /\ diskLock' \in Threads \cup {Nobody} /\ diskDone' \in 0 .. 1
    BY <1>1 DEF IInv, Types
  <1> QED
    BY <1>1, <1>2, <1>7, <1>8, DiskStep DEF DiskPlaces

-------------------------------------------------------------------------------
(* The console.                                                               *)

\* What the other calls leave alone.
LEMMA OtherStep ==
    ASSUME IInv, NEW t \in Threads, NEW where \in Places \ DiskPlaces,
           pc[t] \notin DiskPlaces, ~halted, Goto(t, where), UNCHANGED <<halted, devices>>,
           Sorted(pending'),
           Has(pending', "Timer") <=> Has(pending, "Timer"),
           Has(pending', "Disk") <=> Has(pending, "Disk"),
           putBusy' \in BOOLEAN, writeDone' \in 0 .. 1, semThreads' \in 0 .. 1,
           readAvail' \in Nat, incoming' \in 0 .. MaxKeys, received' \in Nat,
           UNCHANGED <<typed, ends>>,
           count' \in [Threads -> 0 .. StringLength], calls' \in [Threads -> 0 .. MaxCalls],
           ConsoleOK(pc', count', semThreads', putBusy', writeDone', pending'),
           ReadsOK(pc', readAvail', ends', incoming'),
           WritesOK(pc', count', calls', output'),
           KeysInOrder'
    PROVE  IInv'
  <1>1. /\ pc' \in [Threads -> Places] /\ pc'[t] = where
        /\ \A u \in Threads : u # t => pc'[u] = pc[u]
    BY Moved
  <1>2. UNCHANGED <<active, diskLock, diskDone>>
    BY DEF devices
  <1>3. Types'
    BY <1>1, <1>2 DEF IInv, Types
  <1>4. DiskOK(pc', diskLock', active', diskDone', pending')
    <2>1. \A u \in Threads :
              pc'[u] = pc[u] \/ (pc[u] \notin DiskPlaces /\ pc'[u] \notin DiskPlaces)
      BY <1>1
    <2>2. DiskOK(pc', diskLock, active, diskDone, pending')
      BY <2>1, DiskKept DEF IInv
    <2> QED
      BY <1>2, <2>2
  <1>5. HaltsOK' /\ Has(pending', "Timer")
    BY DEF IInv, HaltsOK
  <1> QED
    BY <1>3, <1>4, <1>5 DEF IInv

\* A system call begins; only a machine with a console lets it begin there.
LEMMA CallStep ==
    ASSUME IInv, NEW t \in Threads, Call(t)
    PROVE  IInv'
  <1>1. PICK where \in {"diskLock", "putLock", "getLock"} :
            Goto(t, where) /\ (where # "diskLock" => HasConsole)
    BY DEF Call
  <1>2. /\ pc[t] = "user" /\ ~halted /\ calls[t] < MaxCalls
        /\ calls' = [calls EXCEPT ![t] = @ + 1] /\ count' = [count EXCEPT ![t] = 0]
        /\ UNCHANGED <<pending, halted, devices, consoleVars, outside>>
    BY DEF Call, At
  <1>3. /\ pc'[t] = where /\ where \in Places \ DiskPlaces
        /\ \A u \in Threads : u # t => pc'[u] = pc[u]
    BY <1>1, Moved DEF Places, DiskPlaces
  <1>4. /\ calls' \in [Threads -> 0 .. MaxCalls] /\ count' \in [Threads -> 0 .. StringLength]
        /\ count'[t] = 0
        /\ \A u \in Threads : u # t => calls'[u] = calls[u] /\ count'[u] = count[u]
    BY SMTT(60), <1>2 DEF IInv, Types
  <1>5. /\ UNCHANGED <<pending, putBusy, incoming, readAvail, writeDone, semThreads>>
        /\ UNCHANGED <<typed, ends, received, output>>
    BY <1>2 DEF consoleVars, outside
  <1>6. ConsoleOK(pc', count', semThreads', putBusy', writeDone', pending')
    <2>1. ConsoleOK(pc, count, semThreads, putBusy, writeDone, pending)
      BY DEF IInv
    <2>2. \A u \in Threads : pc'[u] \in Within <=> pc[u] \in Within
      BY <1>1, <1>2, <1>3 DEF Within
    <2>3. Waits(pc', "putWait") <=> Waits(pc, "putWait")
      BY <1>1, <1>2, <1>3 DEF Waits
    <2>4. where # "diskLock" => Has(pending, "ConsoleRead")
      BY <1>1 DEF HasConsole, Has
    <2>5. /\ pc'[t] \in ConsolePlaces => Has(pending, "ConsoleRead")
          /\ pc'[t] \notin {"putWait", "getChar"}
      BY <1>1, <1>3, <2>4 DEF ConsolePlaces, Within
    <2>6. \A u \in Threads :
              /\ pc'[u] \in ConsolePlaces => Has(pending, "ConsoleRead")
              /\ pc'[u] \in {"putLock", "getLock"} => count'[u] = 0
              /\ pc'[u] \in {"putWait", "getChar"} => count'[u] < StringLength
      BY <1>3, <1>4, <2>1, <2>5 DEF ConsoleOK
    <2>7. ConsoleOK(pc', count', semThreads, putBusy, writeDone, pending)
      BY <2>1, <2>2, <2>3, <2>6 DEF ConsoleOK, Answers
    <2> QED
      BY <1>5, <2>7
  <1>7. ReadsOK(pc', readAvail', ends', incoming')
    <2>1. \A u \in Threads : pc'[u] = pc[u] \/ (pc[u] # "getChar" /\ pc'[u] # "getChar")
      BY <1>1, <1>2, <1>3
    <2> QED
      BY <1>5, <2>1, ReadsKept DEF IInv
  <1>8. WritesOK(pc', count', calls', output')
    <2>1. \A u \in Threads :
              \/ /\ pc'[u] = pc[u]
                 /\ pc[u] \in {"put", "putWait"} => count'[u] = count[u] /\ calls'[u] = calls[u]
              \/ pc[u] \notin {"put", "putWait"} /\ pc'[u] \notin {"put", "putWait"}
      BY <1>1, <1>2, <1>3, <1>4
    <2>2. WritesOK(pc', count', calls', output)
      BY SMTT(60), <2>1, WritesKept DEF IInv
    <2> QED
      BY <1>5, <2>2
  <1>9. /\ KeysInOrder' /\ Sorted(pending') /\ putBusy' \in BOOLEAN /\ writeDone' \in 0 .. 1
        /\ semThreads' \in 0 .. 1 /\ readAvail' \in Nat /\ incoming' \in 0 .. MaxKeys
        /\ received' \in Nat
    BY <1>5, KeysKept DEF IInv, Types
  <1>10. pc[t] \notin DiskPlaces
    BY <1>2 DEF DiskPlaces
  <1> QED
    BY <1>1, <1>2, <1>3, <1>4, <1>5, <1>6, <1>7, <1>8, <1>9, <1>10, OtherStep

\* Types and the other frames of a step inside the console.
LEMMA InsideTypes ==
    ASSUME IInv, NEW t \in Threads, NEW where \in ConsolePlaces \cup {"user"}, Goto(t, where),
           pc[t] \in ConsolePlaces
    PROVE  /\ where \in Places \ DiskPlaces /\ pc[t] \notin DiskPlaces
           /\ pc'[t] = where /\ \A u \in Threads : u # t => pc'[u] = pc[u]
           /\ ConsoleOK(pc, count, semThreads, putBusy, writeDone, pending)
           /\ ReadsOK(pc, readAvail, ends, incoming) /\ WritesOK(pc, count, calls, output)
           /\ Has(pending, "ConsoleRead")
  <1>1. where \in Places \ DiskPlaces /\ pc[t] \notin DiskPlaces
    BY DEF Places, DiskPlaces, ConsolePlaces, Within
  <1>2. pc'[t] = where /\ \A u \in Threads : u # t => pc'[u] = pc[u]
    BY <1>1, Moved
  <1>3. /\ ConsoleOK(pc, count, semThreads, putBusy, writeDone, pending)
        /\ ReadsOK(pc, readAvail, ends, incoming) /\ WritesOK(pc, count, calls, output)
    BY DEF IInv
  <1>4. Has(pending, "ConsoleRead")
    BY <1>3 DEF ConsoleOK
  <1> QED
    BY <1>1, <1>2, <1>3, <1>4

\* SynchConsole: semThreads->P() lets one thread in.
LEMMA ConsoleEnterStep ==
    ASSUME IInv, NEW t \in Threads, ConsoleEnter(t)
    PROVE  IInv'
  <1> DEFINE where == IF pc[t] = "putLock" THEN "put" ELSE "get"
  <1>1. /\ pc[t] \in {"putLock", "getLock"} /\ ~halted /\ semThreads > 0
        /\ semThreads' = semThreads - 1 /\ Goto(t, where) /\ Tick
        /\ UNCHANGED <<halted, devices, putBusy, incoming, readAvail, writeDone, count, calls>>
        /\ UNCHANGED outside
    BY DEF ConsoleEnter, At
  <1>2. Sorted(pending') /\ \A kind : Has(pending', kind) <=> Has(pending, kind)
    BY <1>1, Ticked
  <1>3. where \in {"put", "get"}
    OBVIOUS
  <1> HIDE DEF where
  <1>4. pc[t] \in ConsolePlaces /\ where \in ConsolePlaces
    BY <1>1, <1>3 DEF ConsolePlaces, Within
  <1>5. /\ where \in Places \ DiskPlaces /\ pc[t] \notin DiskPlaces
        /\ pc'[t] = where /\ \A u \in Threads : u # t => pc'[u] = pc[u]
        /\ ConsoleOK(pc, count, semThreads, putBusy, writeDone, pending)
        /\ ReadsOK(pc, readAvail, ends, incoming) /\ WritesOK(pc, count, calls, output)
        /\ Has(pending, "ConsoleRead")
    BY <1>1, <1>4, InsideTypes
  <1>6. semThreads = 1 /\ semThreads' = 0
    BY SMTT(60), <1>1 DEF IInv, Types
  <1>7. (\A u \in Threads : pc[u] \notin Within) /\ count[t] = 0
    BY SMTT(60), <1>1, <1>5, <1>6 DEF ConsoleOK
  <1>8. ConsoleOK(pc', count', semThreads', putBusy', writeDone', pending')
    <2>1. \A u \in Threads : pc'[u] \in Within <=> u = t
      BY <1>3, <1>5, <1>7 DEF Within
    <2>2. ~Waits(pc', "putWait") /\ ~Waits(pc, "putWait")
      BY <1>3, <1>5, <1>7 DEF Waits, Within
    <2>3. \A u \in Threads :
              /\ pc'[u] \in {"putLock", "getLock"} => count[u] = 0
              /\ pc'[u] \in {"putWait", "getChar"} => count[u] < StringLength
      BY <1>3, <1>5 DEF ConsoleOK
    <2>4. Answers(putBusy, writeDone, Has(pending', "ConsoleWrite"), Waits(pc', "putWait"))
      BY <1>2, <1>5, <2>2 DEF ConsoleOK, Answers
    <2>5. ConsoleOK(pc', count, 0, putBusy, writeDone, pending')
      BY <1>2, <1>5, <2>1, <2>3, <2>4 DEF ConsoleOK
    <2> QED
      BY <1>1, <1>6, <2>5
  <1>9. ReadsOK(pc', readAvail', ends', incoming')
    <2>1. \A u \in Threads : pc'[u] = pc[u] \/ (pc[u] # "getChar" /\ pc'[u] # "getChar")
      BY <1>1, <1>3, <1>5
    <2> QED
      BY <1>1, <1>5, <2>1, ReadsKept DEF outside
  <1>10. WritesOK(pc', count', calls', output')
    <2>1. \A u \in Threads : pc[u] \notin {"put", "putWait"} /\ pc'[u] # "putWait"
      BY <1>3, <1>5, <1>7 DEF Within
    <2>2. output[3] = StringLength - 1
      BY <1>5, <2>1 DEF WritesOK
    <2>3. \A u \in Threads : pc'[u] = "put" => count[u] = 0
      BY <1>5, <1>7, <2>1
    <2>4. WritesOK(pc', count, calls, output)
      BY <2>1, <2>2, <2>3 DEF WritesOK
    <2> QED
      BY <1>1, <2>4 DEF outside
  <1>11. /\ KeysInOrder' /\ putBusy' \in BOOLEAN /\ writeDone' \in 0 .. 1
         /\ readAvail' \in Nat /\ incoming' \in 0 .. MaxKeys /\ received' \in Nat
         /\ UNCHANGED <<typed, ends>>
         /\ count' \in [Threads -> 0 .. StringLength] /\ calls' \in [Threads -> 0 .. MaxCalls]
    BY <1>1, KeysKept DEF IInv, Types, outside
  <1> QED
    BY SMTT(60), <1>1, <1>2, <1>5, <1>6, <1>8, <1>9, <1>10, <1>11, OtherStep

\* Console::PutChar: the one thread inside finds the console at rest.
LEMMA PutCharStep ==
    ASSUME IInv, NEW t \in Threads, PutChar(t)
    PROVE  IInv'
  <1>1. /\ pc[t] = "put" /\ ~halted /\ count[t] < StringLength /\ putBusy' = TRUE
        /\ pending' = Schedule(pending, "ConsoleWrite", ConsoleTime)
        /\ output' = <<t, calls[t], count[t]>> /\ Goto(t, "putWait")
        /\ UNCHANGED <<halted, devices, incoming, readAvail, writeDone, semThreads, count, calls>>
        /\ UNCHANGED <<typed, ends, received>>
    BY DEF PutChar, At
  <1>4. pc[t] \in ConsolePlaces /\ "putWait" \in ConsolePlaces \cup {"user"}
    BY <1>1 DEF ConsolePlaces, Within
  <1>5. /\ "putWait" \in Places \ DiskPlaces /\ pc[t] \notin DiskPlaces
        /\ pc'[t] = "putWait" /\ \A u \in Threads : u # t => pc'[u] = pc[u]
        /\ ConsoleOK(pc, count, semThreads, putBusy, writeDone, pending)
        /\ ReadsOK(pc, readAvail, ends, incoming) /\ WritesOK(pc, count, calls, output)
        /\ Has(pending, "ConsoleRead")
    BY <1>1, <1>4, InsideTypes
  <1>6. semThreads = 0 /\ \A u \in Threads : u # t => pc[u] \notin Within
    BY <1>1, <1>5 DEF ConsoleOK, Within
  <1>7. ~Waits(pc, "putWait")
    BY <1>1, <1>6 DEF Waits, Within
  <1>8. ~putBusy /\ writeDone = 0 /\ ~Has(pending, "ConsoleWrite")
    <2>1. Answers(putBusy, writeDone, Has(pending, "ConsoleWrite"), Waits(pc, "putWait"))
      BY <1>5 DEF ConsoleOK
    <2>2. ~putBusy /\ ~(writeDone = 1) /\ ~Has(pending, "ConsoleWrite")
      BY <1>7, <2>1 DEF Answers
    <2> QED
      BY SMTT(60), <2>2 DEF IInv, Types
  <1>9. Sorted(pending')
        /\ \A kind \in Kinds : Has(pending', kind) <=> Has(pending, kind) \/ kind = "ConsoleWrite"
    <2>1. Sorted(pending) /\ ConsoleTime \in Int /\ "ConsoleWrite" \in Kinds
      BY SMTT(60) DEF IInv, Types, Kinds
    <2> QED
      BY <1>1, <1>8, <2>1, ScheduleSorted
  <1>10. ConsoleOK(pc', count', semThreads', putBusy', writeDone', pending')
    <2>1. \A u \in Threads : pc'[u] \in Within <=> u = t
      BY <1>5, <1>6 DEF Within
    <2>2. Waits(pc', "putWait") /\ Has(pending', "ConsoleWrite") /\ Has(pending', "ConsoleRead")
      BY <1>5, <1>9 DEF Waits, Kinds
    <2>3. \A u \in Threads :
              /\ pc'[u] \in {"putLock", "getLock"} => count[u] = 0
              /\ pc'[u] \in {"putWait", "getChar"} => count[u] < StringLength
      BY <1>1, <1>5 DEF ConsoleOK
    <2>4. Answers(TRUE, writeDone, Has(pending', "ConsoleWrite"), Waits(pc', "putWait"))
      BY <1>8, <2>2 DEF Answers
    <2>5. ConsoleOK(pc', count, 0, TRUE, writeDone, pending')
      BY <2>1, <2>2, <2>3, <2>4 DEF ConsoleOK
    <2> QED
      BY <1>1, <1>6, <2>5
  <1>11. ReadsOK(pc', readAvail', ends', incoming')
    <2>1. \A u \in Threads : pc'[u] = pc[u] \/ (pc[u] # "getChar" /\ pc'[u] # "getChar")
      BY <1>1, <1>5
    <2> QED
      BY <1>1, <1>5, <2>1, ReadsKept
  <1>12. WritesOK(pc', count', calls', output')
    <2>1. \A u \in Threads : u # t => pc'[u] \notin {"put", "putWait"}
      BY <1>5, <1>6 DEF Within
    <2>2. WritesOK(pc', count, calls, <<t, calls[t], count[t]>>)
      BY <1>5, <2>1 DEF WritesOK
    <2> QED
      BY <1>1, <2>2
  <1>13. /\ KeysInOrder' /\ writeDone' \in 0 .. 1 /\ semThreads' \in 0 .. 1
         /\ readAvail' \in Nat /\ incoming' \in 0 .. MaxKeys /\ received' \in Nat
         /\ count' \in [Threads -> 0 .. StringLength] /\ calls' \in [Threads -> 0 .. MaxCalls]
    BY <1>1, KeysKept DEF IInv, Types
  <1>14. putBusy' \in BOOLEAN
    BY <1>1
  <1>15. /\ Has(pending', "Timer") <=> Has(pending, "Timer")
         /\ Has(pending', "Disk") <=> Has(pending, "Disk")
    BY <1>9 DEF Kinds
  <1> QED
    BY <1>1, <1>5, <1>9, <1>10, <1>11, <1>12, <1>13, <1>14, <1>15, OtherStep

\* SynchConsole: writeDone->P(), and the next character is at hand.
LEMMA PutWaitStep ==
    ASSUME IInv, NEW t \in Threads, PutWait(t)
    PROVE  IInv'
  <1>1. /\ pc[t] = "putWait" /\ ~halted /\ writeDone > 0 /\ writeDone' = writeDone - 1
        /\ count' = [count EXCEPT ![t] = @ + 1] /\ Goto(t, "put") /\ Tick
        /\ UNCHANGED <<halted, devices, putBusy, incoming, readAvail, semThreads, calls>>
        /\ UNCHANGED outside
    BY DEF PutWait, At
  <1>2. Sorted(pending') /\ \A kind : Has(pending', kind) <=> Has(pending, kind)
    BY <1>1, Ticked
  <1>4. pc[t] \in ConsolePlaces /\ "put" \in ConsolePlaces \cup {"user"}
    BY <1>1 DEF ConsolePlaces, Within
  <1>5. /\ "put" \in Places \ DiskPlaces /\ pc[t] \notin DiskPlaces
        /\ pc'[t] = "put" /\ \A u \in Threads : u # t => pc'[u] = pc[u]
        /\ ConsoleOK(pc, count, semThreads, putBusy, writeDone, pending)
        /\ ReadsOK(pc, readAvail, ends, incoming) /\ WritesOK(pc, count, calls, output)
        /\ Has(pending, "ConsoleRead")
    BY <1>1, <1>4, InsideTypes
  <1>6. semThreads = 0 /\ \A u \in Threads : u # t => pc[u] \notin Within
    BY <1>1, <1>5 DEF ConsoleOK, Within
  <1>7. writeDone = 1 /\ writeDone' = 0 /\ writeDone' \in 0 .. 1
    BY SMTT(60), <1>1 DEF IInv, Types
  <1>8. ~putBusy /\ ~Has(pending, "ConsoleWrite")
    BY SMTT(60), <1>5, <1>7 DEF ConsoleOK, Answers
  <1>9. /\ count' \in [Threads -> 0 .. StringLength]
        /\ count[t] \in Nat /\ count'[t] = count[t] + 1
        /\ \A u \in Threads : u # t => count'[u] = count[u]
    <2>1. count \in [Threads -> 0 .. StringLength] /\ count[t] < StringLength
      BY <1>1, <1>5 DEF IInv, Types, ConsoleOK
    <2> QED
      BY SMTT(60), <1>1, <2>1
  <1>10. ConsoleOK(pc', count', semThreads', putBusy', writeDone', pending')
    <2>1. \A u \in Threads : pc'[u] \in Within <=> u = t
      BY <1>5, <1>6 DEF Within
    <2>2. ~Waits(pc', "putWait")
      BY <1>5, <1>6 DEF Waits, Within
    <2>3. \A u \in Threads :
              /\ pc'[u] \in {"putLock", "getLock"} => count'[u] = 0
              /\ pc'[u] \in {"putWait", "getChar"} => count'[u] < StringLength
      BY <1>5, <1>9 DEF ConsoleOK
    <2>4. Answers(putBusy, 0, Has(pending', "ConsoleWrite"), Waits(pc', "putWait"))
      BY SMTT(60), <1>2, <1>8, <2>2 DEF Answers
    <2>5. ConsoleOK(pc', count', 0, putBusy, 0, pending')
      BY <1>2, <1>5, <2>1, <2>3, <2>4 DEF ConsoleOK
    <2> QED
      BY <1>1, <1>6, <1>7, <2>5
  <1>11. ReadsOK(pc', readAvail', ends', incoming')
    <2>1. \A u \in Threads : pc'[u] = pc[u] \/ (pc[u] # "getChar" /\ pc'[u] # "getChar")
      BY <1>1, <1>5
    <2> QED
      BY <1>1, <1>5, <2>1, ReadsKept DEF outside
  <1>12. WritesOK(pc', count', calls', output')
    <2>1. \A u \in Threads : u # t => pc'[u] \notin {"put", "putWait"}
      BY <1>5, <1>6 DEF Within
    <2>2. output = <<t, calls[t], count'[t] - 1>> /\ count'[t] > 0
      BY SMTT(60), <1>1, <1>5, <1>9 DEF WritesOK
    <2>3. WritesOK(pc', count', calls, output)
      BY <1>5, <2>1, <2>2 DEF WritesOK
    <2> QED
      BY <1>1, <2>3 DEF outside
  <1>13. /\ KeysInOrder' /\ putBusy' \in BOOLEAN /\ semThreads' \in 0 .. 1
         /\ readAvail' \in Nat /\ incoming' \in 0 .. MaxKeys /\ received' \in Nat
         /\ UNCHANGED <<typed, ends>> /\ calls' \in [Threads -> 0 .. MaxCalls]
    BY <1>1, KeysKept DEF IInv, Types, outside
  <1> QED
    BY <1>1, <1>2, <1>5, <1>7, <1>9, <1>10, <1>11, <1>12, <1>13, OtherStep

\* SynchConsole: readAvail->P().
LEMMA GetWaitStep ==
    ASSUME IInv, NEW t \in Threads, GetWait(t)
    PROVE  IInv'
  <1>1. /\ pc[t] = "get" /\ ~halted /\ count[t] < StringLength /\ readAvail > 0
        /\ readAvail' = readAvail - 1 /\ Goto(t, "getChar") /\ Tick
        /\ UNCHANGED <<halted, devices, putBusy, incoming, writeDone, semThreads, count, calls>>
        /\ UNCHANGED outside
    BY DEF GetWait, At
  <1>2. Sorted(pending') /\ \A kind : Has(pending', kind) <=> Has(pending, kind)
    BY <1>1, Ticked
  <1>4. pc[t] \in ConsolePlaces /\ "getChar" \in ConsolePlaces \cup {"user"}
    BY <1>1 DEF ConsolePlaces, Within
  <1>5. /\ "getChar" \in Places \ DiskPlaces /\ pc[t] \notin DiskPlaces
        /\ pc'[t] = "getChar" /\ \A u \in Threads : u # t => pc'[u] = pc[u]
        /\ ConsoleOK(pc, count, semThreads, putBusy, writeDone, pending)
        /\ ReadsOK(pc, readAvail, ends, incoming) /\ WritesOK(pc, count, calls, output)
        /\ Has(pending, "ConsoleRead")
    BY <1>1, <1>4, InsideTypes
  <1>6. semThreads = 0 /\ \A u \in Threads : u # t => pc[u] \notin Within
    BY <1>1, <1>5 DEF ConsoleOK, Within
  <1>9. UNCHANGED <<typed, ends, received, output>>
    BY <1>1 DEF outside
  <1>8. ConsoleOK(pc', count', semThreads', putBusy', writeDone', pending')
    <2>1. \A u \in Threads : pc'[u] \in Within <=> u = t
      BY <1>5, <1>6 DEF Within
    <2>2. ~Waits(pc', "putWait") /\ ~Waits(pc, "putWait")
      BY <1>1, <1>5, <1>6 DEF Waits, Within
    <2>3. \A u \in Threads :
              /\ pc'[u] \in {"putLock", "getLock"} => count[u] = 0
              /\ pc'[u] \in {"putWait", "getChar"} => count[u] < StringLength
      BY <1>1, <1>5, <1>9 DEF ConsoleOK
    <2>4. Answers(putBusy, writeDone, Has(pending', "ConsoleWrite"), Waits(pc', "putWait"))
      BY <1>2, <1>5, <2>2 DEF ConsoleOK, Answers
    <2>5. ConsoleOK(pc', count, 0, putBusy, writeDone, pending')
      BY <1>2, <1>5, <2>1, <2>3, <2>4 DEF ConsoleOK
    <2> QED
      BY <1>1, <1>6, <2>5
  <1>10. ReadsOK(pc', readAvail', ends', incoming') /\ readAvail' \in Nat
    <2>1. ~Waits(pc, "getChar") /\ Waits(pc', "getChar")
      BY <1>1, <1>5, <1>6 DEF Waits, Within
    <2>2. readAvail \in Nat /\ ends \in Nat
      BY SMTT(60) DEF IInv, Types
    <2>3. /\ readAvail <= ends + (IF incoming = EOF THEN 0 ELSE 1)
          /\ readAvail' = readAvail - 1 /\ readAvail > 0
      BY SMTT(60), <1>1, <1>5, <2>1, <2>2 DEF ReadsOK
    <2>4. readAvail' \in Nat /\ readAvail' + 1 <= ends + (IF incoming = EOF THEN 0 ELSE 1)
      BY SMTT(60), <2>2, <2>3
    <2>5. ReadsOK(pc', readAvail', ends, incoming)
      BY <2>1, <2>4 DEF ReadsOK
    <2> QED
      BY <1>1, <1>9, <2>4, <2>5
  <1>11. WritesOK(pc', count', calls', output')
    <2>1. \A u \in Threads : /\ pc[u] \notin {"put", "putWait"}
                             /\ pc'[u] \notin {"put", "putWait"}
      BY <1>1, <1>5, <1>6 DEF Within
    <2>2. WritesOK(pc', count', calls', output)
      BY <1>5, <2>1 DEF WritesOK
    <2> QED
      BY <1>1, <2>2 DEF outside
  <1>12. /\ KeysInOrder' /\ putBusy' \in BOOLEAN /\ semThreads' \in 0 .. 1
         /\ writeDone' \in 0 .. 1 /\ incoming' \in 0 .. MaxKeys /\ received' \in Nat
         /\ count' \in [Threads -> 0 .. StringLength] /\ calls' \in [Threads -> 0 .. MaxCalls]
    BY <1>1, <1>9, KeysKept DEF IInv, Types
  <1> QED
    BY <1>1, <1>2, <1>5, <1>8, <1>9, <1>10, <1>11, <1>12, OtherStep

\* Console::GetChar empties the buffer.
LEMMA GetCharStep ==
    ASSUME IInv, NEW t \in Threads, GetChar(t)
    PROVE  IInv'
  <1>1. /\ pc[t] = "getChar" /\ ~halted /\ incoming' = EOF
        /\ received' = (IF incoming = EOF THEN received ELSE incoming)
        /\ Goto(t, "get") /\ UNCHANGED pending
        /\ UNCHANGED <<halted, devices, putBusy, readAvail, writeDone, semThreads, calls>>
        /\ UNCHANGED <<typed, ends, output>>
    BY DEF GetChar, At
  <1>2. Sorted(pending') /\ \A kind : Has(pending', kind) <=> Has(pending, kind)
    BY <1>1 DEF IInv, Types
  <1>4. pc[t] \in ConsolePlaces /\ "get" \in ConsolePlaces \cup {"user"}
    BY <1>1 DEF ConsolePlaces, Within
  <1>5. /\ "get" \in Places \ DiskPlaces /\ pc[t] \notin DiskPlaces
        /\ pc'[t] = "get" /\ \A u \in Threads : u # t => pc'[u] = pc[u]
        /\ ConsoleOK(pc, count, semThreads, putBusy, writeDone, pending)
        /\ ReadsOK(pc, readAvail, ends, incoming) /\ WritesOK(pc, count, calls, output)
        /\ Has(pending, "ConsoleRead")
    BY <1>1, <1>4, InsideTypes
  <1>6. semThreads = 0 /\ \A u \in Threads : u # t => pc[u] \notin Within
    BY <1>1, <1>5 DEF ConsoleOK, Within
  <1>9. /\ count' \in [Threads -> 0 .. StringLength]
        /\ \A u \in Threads : u # t => count'[u] = count[u]
    <2>1. /\ count \in [Threads -> 0 .. StringLength] /\ count[t] < StringLength
      BY <1>1, <1>5 DEF IInv, Types, ConsoleOK
    <2>2. PICK n \in {StringLength, count[t] + 1} : count' = [count EXCEPT ![t] = n]
      BY DEF GetChar, Counted
    <2>3. n \in 0 .. StringLength
      BY SMTT(60), <2>1
    <2> QED
      BY <2>1, <2>2, <2>3
  <1>8. ConsoleOK(pc', count', semThreads', putBusy', writeDone', pending')
    <2>1. \A u \in Threads : pc'[u] \in Within <=> u = t
      BY <1>5, <1>6 DEF Within
    <2>2. ~Waits(pc', "putWait") /\ ~Waits(pc, "putWait")
      BY <1>1, <1>5, <1>6 DEF Waits, Within
    <2>3. \A u \in Threads :
              /\ pc'[u] \in {"putLock", "getLock"} => count'[u] = 0
              /\ pc'[u] \in {"putWait", "getChar"} => count'[u] < StringLength
      BY <1>1, <1>5, <1>9 DEF ConsoleOK
    <2>4. Answers(putBusy, writeDone, Has(pending', "ConsoleWrite"), Waits(pc', "putWait"))
      BY <1>2, <1>5, <2>2 DEF ConsoleOK, Answers
    <2>5. ConsoleOK(pc', count', 0, putBusy, writeDone, pending')
      BY <1>2, <1>5, <2>1, <2>3, <2>4 DEF ConsoleOK
    <2> QED
      BY <1>1, <1>6, <2>5
  <1>10. ReadsOK(pc', readAvail', ends', incoming')
    <2>1. Waits(pc, "getChar") /\ ~Waits(pc', "getChar")
      BY <1>1, <1>5, <1>6 DEF Waits, Within
    <2>2. readAvail \in Nat /\ ends \in Nat
      BY SMTT(60) DEF IInv, Types
    <2>3. readAvail <= ends
      BY SMTT(60), <1>5, <2>1, <2>2 DEF ReadsOK
    <2>4. ReadsOK(pc', readAvail, ends, EOF)
      BY SMTT(60), <2>1, <2>2, <2>3 DEF ReadsOK
    <2> QED
      BY <1>1, <2>4
  <1>11. WritesOK(pc', count', calls', output')
    <2>1. \A u \in Threads : /\ pc[u] \notin {"put", "putWait"}
                             /\ pc'[u] \notin {"put", "putWait"}
      BY <1>1, <1>5, <1>6 DEF Within
    <2>2. WritesOK(pc', count', calls', output)
      BY <1>5, <2>1 DEF WritesOK
    <2> QED
      BY <1>1, <2>2
  <1>12. KeysInOrder' /\ received' \in Nat /\ incoming' \in 0 .. MaxKeys
    BY SMTT(60), <1>1 DEF IInv, Types, KeysInOrder, EOF
  <1>13. /\ putBusy' \in BOOLEAN /\ semThreads' \in 0 .. 1 /\ writeDone' \in 0 .. 1
         /\ readAvail' \in Nat /\ calls' \in [Threads -> 0 .. MaxCalls]
    BY <1>1 DEF IInv, Types
  <1> QED
    BY <1>1, <1>2, <1>5, <1>8, <1>9, <1>10, <1>11, <1>12, <1>13, OtherStep

\* SynchConsole: semThreads->V(), when the string is complete.
LEMMA ConsoleLeaveStep ==
    ASSUME IInv, NEW t \in Threads, ConsoleLeave(t)
    PROVE  IInv'
  <1>1. /\ pc[t] \in {"put", "get"} /\ ~halted /\ count[t] = StringLength
        /\ semThreads' = semThreads + 1 /\ Goto(t, "user") /\ Tick
        /\ UNCHANGED <<halted, devices, putBusy, incoming, readAvail, writeDone, count, calls>>
        /\ UNCHANGED outside
    BY DEF ConsoleLeave, At
  <1>2. Sorted(pending') /\ \A kind : Has(pending', kind) <=> Has(pending, kind)
    BY <1>1, Ticked
  <1>4. pc[t] \in ConsolePlaces /\ "user" \in ConsolePlaces \cup {"user"}
    BY <1>1 DEF ConsolePlaces, Within
  <1>5. /\ "user" \in Places \ DiskPlaces /\ pc[t] \notin DiskPlaces
        /\ pc'[t] = "user" /\ \A u \in Threads : u # t => pc'[u] = pc[u]
        /\ ConsoleOK(pc, count, semThreads, putBusy, writeDone, pending)
        /\ ReadsOK(pc, readAvail, ends, incoming) /\ WritesOK(pc, count, calls, output)
        /\ Has(pending, "ConsoleRead")
    BY <1>1, <1>4, InsideTypes
  <1>6. semThreads = 0 /\ \A u \in Threads : u # t => pc[u] \notin Within
    BY <1>1, <1>5 DEF ConsoleOK, Within
  <1>7. semThreads' = 1 /\ semThreads' \in 0 .. 1
    BY SMTT(60), <1>1, <1>6
  <1>8. ConsoleOK(pc', count', semThreads', putBusy', writeDone', pending')
    <2>1. \A u \in Threads : pc'[u] \notin Within
      BY <1>5, <1>6 DEF Within
    <2>2. ~Waits(pc', "putWait") /\ ~Waits(pc, "putWait")
      BY <1>1, <1>5, <1>6 DEF Waits, Within
    <2>3. \A u \in Threads :
              /\ pc'[u] \in {"putLock", "getLock"} => count[u] = 0
              /\ pc'[u] \in {"putWait", "getChar"} => count[u] < StringLength
      BY <1>1, <1>5 DEF ConsoleOK
    <2>4. Answers(putBusy, writeDone, Has(pending', "ConsoleWrite"), Waits(pc', "putWait"))
      BY <1>2, <1>5, <2>2 DEF ConsoleOK, Answers
    <2>5. ConsoleOK(pc', count, 1, putBusy, writeDone, pending')
      BY SMTT(60), <1>2, <1>5, <2>1, <2>3, <2>4 DEF ConsoleOK
    <2> QED
      BY <1>1, <1>7, <2>5
  <1>9. ReadsOK(pc', readAvail', ends', incoming')
    <2>1. \A u \in Threads : pc'[u] = pc[u] \/ (pc[u] # "getChar" /\ pc'[u] # "getChar")
      BY <1>1, <1>5
    <2> QED
      BY <1>1, <1>5, <2>1, ReadsKept DEF outside
  <1>10. WritesOK(pc', count', calls', output')
    <2>1. \A u \in Threads : /\ u # t => pc[u] \notin {"put", "putWait"}
                             /\ pc'[u] \notin {"put", "putWait"}
      BY <1>5, <1>6 DEF Within
    <2>2. output[3] = StringLength - 1
      <3>1. CASE pc[t] = "put"
        <4>1. \/ output[3] = StringLength - 1
              \/ output = <<t, calls[t], StringLength - 1>>
          BY <1>1, <1>5, <3>1 DEF WritesOK
        <4> QED
          BY SMTT(60), <4>1
      <3>2. CASE pc[t] = "get"
        BY <1>5, <2>1, <3>2 DEF WritesOK
      <3> QED
        BY <1>1, <3>1, <3>2
    <2>3. WritesOK(pc', count', calls', output)
      BY <2>1, <2>2 DEF WritesOK
    <2> QED
      BY <1>1, <2>3 DEF outside
  <1>11. /\ KeysInOrder' /\ putBusy' \in BOOLEAN /\ writeDone' \in 0 .. 1
         /\ readAvail' \in Nat /\ incoming' \in 0 .. MaxKeys /\ received' \in Nat
         /\ UNCHANGED <<typed, ends>>
         /\ count' \in [Threads -> 0 .. StringLength] /\ calls' \in [Threads -> 0 .. MaxCalls]
    BY <1>1, KeysKept DEF IInv, Types, outside
  <1> QED
    BY <1>1, <1>2, <1>5, <1>7, <1>8, <1>9, <1>10, <1>11, OtherStep

-------------------------------------------------------------------------------
(* The invariant.                                                             *)

\* Time moves on, and nothing else happens.
LEMMA TimeStep ==
    ASSUME IInv, NEW n \in Int, pending' = Advance(pending, n),
           UNCHANGED <<halted, devices, consoleVars, pc, count, calls, outside>>
    PROVE  IInv'
  <1>1. Sorted(pending') /\ \A kind : Has(pending', kind) <=> Has(pending, kind)
    BY AdvanceSorted DEF IInv, Types
  <1>2. DiskOK(pc', diskLock', active', diskDone', pending')
    BY <1>1, DiskKept DEF IInv, devices
  <1>3. ConsoleOK(pc', count', semThreads', putBusy', writeDone', pending')
    BY <1>1, ConsoleKept DEF IInv, consoleVars
  <1>4. Types' /\ Has(pending', "Timer")
    BY <1>1 DEF IInv, Types, devices, consoleVars, outside
  <1>5. ReadsOK(pc', readAvail', ends', incoming') /\ WritesOK(pc', count', calls', output')
    BY DEF IInv, consoleVars, outside
  <1> QED
    BY <1>2, <1>3, <1>4, <1>5, KeysKept DEF IInv, HaltsOK, consoleVars, outside

\* Interrupt::Idle halts the machine only when every thread has ended: somebody
\* who waits for the disk or the console has an interrupt to come.
LEMMA IdleStep ==
    ASSUME IInv, Idle
    PROVE  IInv'
  <1>1. CASE OnlyTimer(pending)
    <2>1. /\ halted' = TRUE /\ NobodyReady
          /\ UNCHANGED <<pending, devices, consoleVars, pc, count, calls, outside>>
      BY <1>1 DEF Idle
    <2>2. \A kind : Has(pending, kind) => kind = "Timer"
      BY <1>1 DEF OnlyTimer, Has
    <2>3. \A t \in Threads : pc[t] \notin ConsolePlaces
      BY <2>2 DEF IInv, ConsoleOK
    <2>4. \A t \in Threads : pc[t] \notin DiskPlaces
      <3>1. SUFFICES ASSUME NEW t \in Threads, pc[t] \in DiskPlaces PROVE FALSE
        OBVIOUS
      <3>2. pc[t] = "diskWait" /\ diskDone = 0
        BY <2>1, <3>1 DEF NobodyReady, DiskPlaces
      <3>3. Waits(pc, "diskWait")
        BY <3>2 DEF Waits
      <3>4. Has(pending, "Disk")
        BY SMTT(60), <3>2, <3>3 DEF IInv, DiskOK, Answers
      <3> QED
        BY <2>2, <3>4
    <2>5. diskLock = Nobody
      BY <2>4 DEF IInv, Types, DiskOK
    <2>6. \A t \in Threads : pc[t] = "user"
      BY <2>1, <2>3, <2>4, <2>5 DEF NobodyReady, ConsolePlaces, Within, DiskPlaces
    <2>7. HaltsOK'
      BY <2>1, <2>6 DEF HaltsOK
    <2>8. halted' \in BOOLEAN
      BY <2>1
    <2>9. Types'
      BY <2>1, <2>8 DEF IInv, Types, devices, consoleVars, outside
    <2> QED
      BY <2>1, <2>7, <2>9, KeysKept DEF IInv, devices, consoleVars, outside
  <1>2. CASE ~OnlyTimer(pending)
    <2>1. /\ pending' = Advance(pending, Head(pending).due)
          /\ UNCHANGED <<halted, devices, consoleVars, pc, count, calls, outside>>
      BY <1>2 DEF Idle
    <2>2. Sorted(pending) /\ pending # <<>>
      BY SMTT(60), <1>2 DEF IInv, Types, OnlyTimer
    <2>3. Head(pending).due \in Int
      BY <2>2, TailSorted DEF Interrupts
    <2> QED
      BY <2>1, <2>3, TimeStep
  <1> QED
    BY <1>1, <1>2

\* The devices start at rest, with the timer and perhaps the console to come.
LEMMA InitInv == Init => IInv
  <1> SUFFICES ASSUME Init PROVE IInv
    OBVIOUS
  <1> DEFINE timer == Schedule(<<>>, "Timer", TimerTicks)
             both == Schedule(timer, "ConsoleRead", ConsoleTime)
  <1>1. /\ "Timer" \in Kinds /\ "ConsoleRead" \in Kinds /\ TimerTicks \in Int /\ ConsoleTime \in Int
        /\ Sorted(<<>>) /\ \A kind : ~Has(<<>>, kind)
    BY SMTT(60) DEF Kinds, Sorted, Has
  <1>2. Sorted(timer) /\ \A kind : Has(timer, kind) <=> kind = "Timer"
    BY <1>1, ScheduleSorted
  <1> HIDE DEF timer
  <1>3. Sorted(both) /\ \A kind : Has(both, kind) <=> kind \in {"Timer", "ConsoleRead"}
    BY SMTT(60), <1>1, <1>2, ScheduleSorted
  <1>4. /\ Sorted(pending) /\ Has(pending, "Timer")
        /\ ~Has(pending, "Disk") /\ ~Has(pending, "ConsoleWrite")
    BY SMTT(60), <1>2, <1>3 DEF Init, timer
  <1>5. \A t \in Threads : pc[t] = "user"
    BY DEF Init
  <1>6. \A place : place # "user" => ~Waits(pc, place)
    BY <1>5 DEF Waits
  <1>7. active \in BOOLEAN /\ putBusy \in BOOLEAN /\ halted \in BOOLEAN
    BY DEF Init
  <1>8. Types
    BY SMTT(60), <1>4, <1>7 DEF Init, Types, EOF, Places
  <1>9. DiskOK(pc, diskLock, active, diskDone, pending)
    BY SMTT(60), <1>4, <1>5, <1>6 DEF Init, DiskOK, DiskPlaces, Answers, Nobody
  <1>10. ConsoleOK(pc, count, semThreads, putBusy, writeDone, pending)
    BY SMTT(60), <1>4, <1>5, <1>6 DEF Init, ConsoleOK, ConsolePlaces, Within, Answers
  <1>11. ReadsOK(pc, readAvail, ends, incoming) /\ KeysInOrder
    BY SMTT(60), <1>6 DEF Init, ReadsOK, KeysInOrder, EOF
  <1>12. WritesOK(pc, count, calls, output) /\ HaltsOK
    BY <1>5 DEF Init, WritesOK, HaltsOK
  <1> QED
    BY <1>4, <1>8, <1>9, <1>10, <1>11, <1>12 DEF IInv

\* Every interrupt and every step of a thread keeps the invariant.
LEMMA NextInv == IInv /\ [Next]_vars => IInv'
  <1> SUFFICES ASSUME IInv, [Next]_vars PROVE IInv'
    OBVIOUS
  <1>1. CASE Fire
    BY <1>1, TimerStep, DiskDoneStep, WriteDoneStep, CheckCharStep DEF Fire
  <1>2. CASE Idle
    BY <1>2, IdleStep
  <1>3. ASSUME NEW t \in Threads, Call(t) \/ Compute(t) \/ Goes(t) PROVE IInv'
    <2>1. CASE Call(t)
      BY <2>1, CallStep
    <2>2. CASE Compute(t)
      BY SMTT(60), <2>2, TimeStep DEF Compute, Tick
    <2>3. CASE Goes(t)
      BY <2>3, DiskAcquireStep, DiskRequestStep, DiskWaitStep, DiskReleaseStep,
         ConsoleEnterStep, PutCharStep, PutWaitStep, GetWaitStep, GetCharStep, ConsoleLeaveStep
         DEF Goes
    <2> QED
      BY <1>3, <2>1, <2>2, <2>3
  <1>4. CASE UNCHANGED vars
    <2>1. /\ UNCHANGED <<pending, halted, active, diskLock, diskDone, pc, count, calls, output>>
          /\ UNCHANGED <<putBusy, incoming, readAvail, writeDone, semThreads>>
          /\ UNCHANGED <<typed, ends, received>>
      BY <1>4 DEF vars, devices, consoleVars, outside
    <2>2. Types' /\ HaltsOK'
      BY <2>1 DEF IInv, Types, HaltsOK
    <2> QED
      BY <2>1, <2>2, KeysKept DEF IInv
  <1> QED
    BY <1>1, <1>2, <1>3, <1>4 DEF Next

-------------------------------------------------------------------------------
(* The theorems.                                                              *)

\* A sorted list has one interrupt of a kind, or none.
LEMMA OnePending ==
    ASSUME NEW list, Sorted(list), NEW kind
    PROVE  Cardinality({i \in DOMAIN list : list[i].type = kind})
               = IF Has(list, kind) THEN 1 ELSE 0
  <1> DEFINE these == {i \in DOMAIN list : list[i].type = kind}
  <1>1. CASE Has(list, kind)
    <2>1. PICK i \in DOMAIN list : list[i].type = kind
      BY <1>1 DEF Has
    <2>2. these = {i}
      BY <2>1 DEF Sorted
    <2>3. Cardinality({i}) = 1
      BY FS_Singleton
    <2> QED
      BY <1>1, <2>2, <2>3
  <1>2. CASE ~Has(list, kind)
    <2>1. these = {}
      BY <1>2 DEF Has
    <2> QED
      BY <1>2, <2>1, FS_EmptySet
  <1> QED
    BY <1>1, <1>2

\* The invariant says that every request has one interrupt.
LEMMA IInvMatched == IInv => RequestsMatched
  <1> SUFFICES ASSUME IInv PROVE RequestsMatched
    OBVIOUS
  <1>1. Sorted(pending)
    BY DEF IInv, Types
  <1>2. TypeOK
    <2>1. Range(pending) \subseteq Interrupts
      BY SMTT(60), <1>1 DEF Sorted, Range
    <2>2. {active, putBusy, halted} \subseteq BOOLEAN
      BY DEF IInv, Types
    <2>3. {diskDone, writeDone, semThreads} \subseteq 0 .. 1
      BY DEF IInv, Types
    <2>4. readAvail \in 0 .. (1 + ends)
      BY SMTT(60) DEF IInv, Types, ReadsOK
    <2>5. \A t \in Threads : count[t] \in 0 .. StringLength /\ calls[t] \in 0 .. MaxCalls
      BY DEF IInv, Types
    <2> QED
      BY <2>1, <2>2, <2>3, <2>4, <2>5 DEF IInv, Types, TypeOK
  <1>3. /\ Cardinality({i \in DOMAIN pending : pending[i].type = "Disk"}) = IF active THEN 1 ELSE 0
        /\ Cardinality({i \in DOMAIN pending : pending[i].type = "ConsoleWrite"})
               = IF putBusy THEN 1 ELSE 0
        /\ Cardinality({i \in DOMAIN pending : pending[i].type = "Timer"}) = 1
        /\ Cardinality({i \in DOMAIN pending : pending[i].type = "ConsoleRead"}) <= 1
    <2>1. /\ active <=> Has(pending, "Disk")
          /\ putBusy <=> Has(pending, "ConsoleWrite")
          /\ Has(pending, "Timer")
      BY DEF IInv, DiskOK, ConsoleOK, Answers
    <2> DEFINE number(kind) == Cardinality({i \in DOMAIN pending : pending[i].type = kind})
    <2>2. \A kind : number(kind) = IF Has(pending, kind) THEN 1 ELSE 0
      BY <1>1, OnePending
    <2> HIDE DEF number
    <2>3. /\ number("Disk") = IF active THEN 1 ELSE 0
          /\ number("ConsoleWrite") = IF putBusy THEN 1 ELSE 0
          /\ number("Timer") = 1 /\ number("ConsoleRead") <= 1
      BY SMTT(60), <2>1, <2>2
    <2> QED
      BY <2>3 DEF number
  <1>4. \A i, j \in DOMAIN pending : i < j => pending[i].due <= pending[j].due
    BY <1>1 DEF Sorted
  <1>5. ASSUME NEW t \in Threads
        PROVE  /\ pc[t] = "diskRequest" => ~active /\ diskDone = 0
               /\ pc[t] = "put" => ~putBusy /\ writeDone = 0
    <2>1. ASSUME pc[t] = "diskRequest" PROVE ~active /\ diskDone = 0
      <3>1. ~Waits(pc, "diskWait")
        BY <2>1 DEF IInv, DiskOK, DiskPlaces, Waits
      <3> QED
        BY SMTT(60), <3>1 DEF IInv, DiskOK, Answers, Types
    <2>2. ASSUME pc[t] = "put" PROVE ~putBusy /\ writeDone = 0
      <3>1. ~Waits(pc, "putWait")
        BY <2>2 DEF IInv, ConsoleOK, Within, Waits
      <3> QED
        BY SMTT(60), <3>1 DEF IInv, ConsoleOK, Answers, Types
    <2> QED
      BY <2>1, <2>2
  <1> QED
    BY <1>2, <1>3, <1>4, <1>5 DEF IInv, HaltsOK, RequestsMatched

\* A request to a device has exactly one interrupt to come, the list of interrupts
\* is in the order of time, whoever starts a request finds the device at rest, and
\* the machine halts only when nobody waits (Interrupt::Schedule, CheckIfDue and
\* Idle with Disk, Console, SynchDisk and SynchConsole).
THEOREM RequestsAreMatched == Spec => []RequestsMatched
  BY InitInv, NextInv, IInvMatched, PTL DEF Spec

\* Every key is read once and in the order in which the keys were typed
\* (Console::CheckCharAvail and GetChar).
THEOREM KeysAreInOrder == Spec => []KeysInOrder
  <1>1. IInv => KeysInOrder
    BY DEF IInv
  <1> QED
    BY <1>1, InitInv, NextInv, PTL DEF Spec

\* A character that is written is the next of its string or the first after a
\* whole string (SynchConsole::SynchPutString).
LEMMA WrittenInOrder ==
    ASSUME IInv, [Next]_vars, output' # output
    PROVE  \/ output'[3] = output[3] + 1 /\ output' = <<output[1], output[2], output'[3]>>
           \/ output'[3] = 0 /\ output[3] = StringLength - 1
  <1>1. PICK t \in Threads : PutChar(t)
    <2>1. ~Fire
      BY DEF Fire, TimerExpired, DiskDone, ConsoleWriteDone, CheckCharAvail, outside
    <2>2. ~Idle /\ ~UNCHANGED vars
      BY DEF Idle, vars, outside
    <2>3. ASSUME NEW t \in Threads, Call(t) \/ Compute(t) \/ Goes(t) PROVE PutChar(t)
      <3>1. ~Call(t) /\ ~Compute(t)
        BY DEF Call, Compute, outside
      <3>2. ~DiskAcquire(t) /\ ~DiskRequest(t) /\ ~DiskWait(t) /\ ~DiskRelease(t)
        BY DEF DiskAcquire, DiskRequest, DiskWait, DiskRelease, outside
      <3>3. ~ConsoleEnter(t) /\ ~PutWait(t) /\ ~GetWait(t) /\ ~GetChar(t) /\ ~ConsoleLeave(t)
        BY DEF ConsoleEnter, PutWait, GetWait, GetChar, ConsoleLeave, outside
      <3> QED
        BY <2>3, <3>1, <3>2, <3>3 DEF Goes
    <2> QED
      BY <2>1, <2>2, <2>3 DEF Next
  <1>2. pc[t] = "put" /\ output' = <<t, calls[t], count[t]>> /\ count[t] \in Nat
    BY SMTT(60), <1>1 DEF PutChar, At, IInv, Types
  <1>3. \/ count[t] = 0 /\ output[3] = StringLength - 1
        \/ count[t] > 0 /\ output = <<t, calls[t], count[t] - 1>>
    BY <1>2 DEF IInv, WritesOK
  <1> QED
    BY SMTT(60), <1>2, <1>3

\* A string is written in one piece, whatever other threads write: a character is
\* the next of the string that is being written or the first after a whole one
\* (SynchConsole::SynchPutString between its P and V of semThreads).
THEOREM StringsAreWhole == Spec => StringsWhole
  <1>1. IInv /\ [Next]_vars =>
            [output' # output =>
                \/ output'[3] = output[3] + 1 /\ output' = <<output[1], output[2], output'[3]>>
                \/ output'[3] = 0 /\ output[3] = StringLength - 1]_vars
    BY WrittenInOrder
  <1> QED
    BY <1>1, InitInv, NextInv, PTL DEF Spec, StringsWhole
==============================================================================
