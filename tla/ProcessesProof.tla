---------------------------- MODULE ProcessesProof ---------------------------
(***************************************************************************)
(* The safety properties of Processes, for any number of frames, pages and *)
(* ForkExecs.                                                              *)
(***************************************************************************)
EXTENDS Processes, DataLemmas

\* The frames have one owner each and are counted.
FramesOK ==
    /\ \A a, b \in Procs : a # b => frames[a] \cap frames[b] = {}
    /\ frameMap = UNION {frames[a] : a \in Procs}
    /\ \A a \in Procs : numPages[a] = Cardinality(frames[a])
    /\ nAvailFrame = NumPhysPages - Cardinality(frameMap)

\* A running process has a pid and at least one frame; as long as the kernel has
\* not failed, a pid that is in use is that of a running process.
PidsOK ==
    /\ \A p \in Running :
          pid[p] \in pidMap /\ addrspaces[pid[p]] = p /\ frames[p] # {}
    /\ \A i \in pidMap :
          ~ crashed => addrspaces[i] \in Running /\ pid[addrspaces[i]] = i

\* A process has no pid before it has started, and from then on its own address
\* space, or none if its program could not be opened.
SpacesOK ==
    /\ \A p \in Procs :
          /\ pc[p] \in {"none", "forked"} /\ ~ crashed => pid[p] = NULL
          /\ \/ pc[p] \in {"none", "forked"} \/ space[p] = p
             \/ pc[p] \in {"ending", "finished"} /\ space[p] = NULL
          /\ p \in deleted => pc[p] = "finished"
          /\ p \in Forked /\ p > nForked => pc[p] = "none"

\* Who joins has the address space of a process that has started.
JoinsOK ==
    \A p \in Procs :
        pc[p] \in {"joining", "joinWoken"} => arg[p] \in Procs /\ pid[arg[p]] \in Pids

IInv == TypeOK /\ FramesOK /\ PidsOK /\ SpacesOK /\ JoinsOK /\ ForksCounted /\ NoMissedExit

\* Zenon has a minute for a leaf; a leaf with arithmetic, functions or sequences asks
\* for the SMT solver.
USE ZenonT(60)

USE PagesAssumption

-----------------------------------------------------------------------------
(* Frames. *)

\* The types of what the frame provider and the page tables hold.
MemoryType ==
    /\ frameMap \subseteq Frames /\ nAvailFrame \in 0 .. NumPhysPages
    /\ frames \in [Procs -> SUBSET Frames] /\ numPages \in [Procs -> Nat]

\* There are NumPhysPages frames.
LEMMA FramesFinite ==
    /\ IsFiniteSet(Frames) /\ Cardinality(Frames) = NumPhysPages
    /\ Frames \subseteq Nat
    /\ \A S \in SUBSET Frames :
          IsFiniteSet(S) /\ Cardinality(S) \in 0 .. NumPhysPages
  <1>1. IsFiniteSet(Frames) /\ Cardinality(Frames) = NumPhysPages
    BY SMTT(60), FS_Interval DEF Frames, Bits
  <1>2. ASSUME NEW S \in SUBSET Frames
        PROVE  IsFiniteSet(S) /\ Cardinality(S) \in 0 .. NumPhysPages
    BY SMTT(60), <1>1, FS_Subset, FS_CardinalityType
  <1> QED
    BY SMTT(60), <1>1, <1>2 DEF Frames, Bits

\* The size of a disjoint union.
LEMMA DisjointUnion ==
    ASSUME NEW S, NEW T, IsFiniteSet(S), IsFiniteSet(T), S \cap T = {}
    PROVE  Cardinality(S \cup T) = Cardinality(S) + Cardinality(T)
  <1>1. Cardinality(S \cup T) = Cardinality(S) + Cardinality(T) - Cardinality(S \cap T)
    BY FS_Union
  <1>2. Cardinality(S) \in Nat /\ Cardinality(T) \in Nat /\ Cardinality(S \cap T) = 0
    BY FS_CardinalityType, FS_EmptySet
  <1> QED
    BY SMTT(60), <1>1, <1>2

\* Where nAvailFrame allows it, the loop takes as many frames as it has turns, and
\* nobody else's.
LEMMA AddPagesOK ==
    ASSUME MemoryType, FramesOK, NEW a \in Procs, NEW n \in Nat, n <= nAvailFrame,
           AddPages(a, n)
    PROVE  /\ MemoryType' /\ FramesOK'
           /\ \A b \in Procs : frames[b] \subseteq frames'[b]
           /\ n # 0 => frames'[a] # {}
  <1> DEFINE new == EmptyFrames(frameMap, n)
             clear == Frames \ frameMap
  <1>1. frames \in [Procs -> SUBSET Frames] /\ numPages \in [Procs -> Nat]
    BY DEF MemoryType
  <1>2. /\ frameMap \subseteq Frames /\ Cardinality(frameMap) \in Nat
        /\ IsFiniteSet(frameMap) /\ IsFiniteSet(frames[a])
    BY SMTT(60), <1>1, FramesFinite DEF MemoryType
  <1>3. IsFiniteSet(clear) /\ Cardinality(clear) = nAvailFrame
    <2>1. Frames \cap frameMap = frameMap
      BY <1>2
    <2>2. /\ IsFiniteSet(clear)
          /\ Cardinality(clear) = Cardinality(Frames) - Cardinality(Frames \cap frameMap)
      BY FramesFinite, FS_Difference
    <2> QED
      BY <2>1, <2>2, FramesFinite DEF FramesOK
  <1>4. new = FirstBits(clear, n)
    BY DEF EmptyFrames, FirstBits, Below
  <1>5. new \subseteq clear /\ Cardinality(new) = n /\ IsFiniteSet(new)
    <2>1. Cardinality(FirstBits(clear, n)) = n
      BY <1>3, FramesFinite, FirstBitsCount
    <2>2. new \in SUBSET clear
      BY <1>4 DEF FirstBits
    <2> QED
      BY <1>3, <1>4, <2>1, <2>2, FS_Subset
  <1>6. /\ frames' = [frames EXCEPT ![a] = frames[a] \cup new]
        /\ numPages' = [numPages EXCEPT ![a] = numPages[a] + n]
        /\ frameMap' = frameMap \cup new
        /\ nAvailFrame' = nAvailFrame - n
    BY <1>5 DEF AddPages
  <1> HIDE DEF new
  <1>7. frames[a] \subseteq frameMap /\ new \cap frameMap = {} /\ new \subseteq Frames
    BY <1>5 DEF FramesOK
  <1>8. Cardinality(frames[a] \cup new) = Cardinality(frames[a]) + n
    <2>1. frames[a] \cap new = {}
      BY <1>7
    <2> QED
      BY <1>2, <1>5, <2>1, DisjointUnion
  <1>9. Cardinality(frameMap \cup new) = Cardinality(frameMap) + n
    <2>1. frameMap \cap new = {}
      BY <1>7
    <2> QED
      BY <1>2, <1>5, <2>1, DisjointUnion
  <1>10. /\ frames'[a] = frames[a] \cup new
         /\ \A b \in Procs : b # a => frames'[b] = frames[b]
    BY <1>1, <1>6
  <1>11. MemoryType'
    <2>1. nAvailFrame' \in 0 .. NumPhysPages
      BY SMTT(60), <1>6 DEF MemoryType
    <2> QED
      BY SMTT(60), <1>1, <1>2, <1>6, <1>7, <2>1 DEF MemoryType
  <1>12. FramesOK'
    <2>1. ASSUME NEW b \in Procs, NEW c \in Procs, b # c PROVE frames'[b] \cap frames'[c] = {}
      <3>1. frames[b] \cap frames[c] = {} /\ new \cap frames[b] = {} /\ new \cap frames[c] = {}
        BY <1>7, <2>1 DEF FramesOK
      <3> QED
        BY <1>10, <2>1, <3>1
    <2>2. frameMap' = UNION {frames'[b] : b \in Procs}
      BY SMTT(60), <1>6, <1>10 DEF FramesOK
    <2>3. \A b \in Procs : numPages'[b] = Cardinality(frames'[b])
      BY <1>1, <1>6, <1>8, <1>10 DEF FramesOK
    <2>4. nAvailFrame' = NumPhysPages - Cardinality(frameMap')
      BY SMTT(60), <1>2, <1>6, <1>9 DEF FramesOK
    <2> QED
      BY <2>1, <2>2, <2>3, <2>4 DEF FramesOK
  <1>13. n # 0 => frames'[a] # {}
    BY <1>5, <1>10, FS_EmptySet
  <1> QED
    BY <1>10, <1>11, <1>12, <1>13

\* ReleaseFrames gives back what was taken.
LEMMA ReleaseFramesOK ==
    ASSUME MemoryType, FramesOK, NEW a \in Procs, ReleaseFrames(a)
    PROVE  MemoryType' /\ FramesOK' /\ \A b \in Procs : b # a => frames'[b] = frames[b]
  <1>1. frames \in [Procs -> SUBSET Frames] /\ numPages \in [Procs -> Nat]
    BY DEF MemoryType
  <1>2. IsFiniteSet(frameMap) /\ Cardinality(frameMap) \in Nat /\ Cardinality(frames[a]) \in Nat
    BY SMTT(60), <1>1, FramesFinite DEF MemoryType
  <1>3. /\ frameMap' = frameMap \ frames[a]
        /\ nAvailFrame' = nAvailFrame + Cardinality(frames[a])
        /\ frames' = [frames EXCEPT ![a] = {}]
        /\ numPages' = [numPages EXCEPT ![a] = 0]
    BY DEF ReleaseFrames, FramesOK
  <1>4. Cardinality(frameMap \ frames[a]) = Cardinality(frameMap) - Cardinality(frames[a])
    <2>1. frameMap \cap frames[a] = frames[a]
      BY DEF FramesOK
    <2> QED
      BY <1>2, <2>1, FS_Difference
  <1>5. frames'[a] = {} /\ \A b \in Procs : b # a => frames'[b] = frames[b]
    BY <1>1, <1>3
  <1>6. FramesOK'
    <2>1. \A b, c \in Procs : b # c => frames'[b] \cap frames'[c] = {}
      BY <1>5 DEF FramesOK
    <2>2. frameMap' = UNION {frames'[b] : b \in Procs}
      <3>1. \A b \in Procs : b # a => frames[b] \cap frames[a] = {}
        BY DEF FramesOK
      <3> QED
        BY SMTT(60), <1>3, <1>5, <3>1 DEF FramesOK
    <2>3. \A b \in Procs : numPages'[b] = Cardinality(frames'[b])
      BY <1>1, <1>3, <1>5, FS_EmptySet DEF FramesOK
    <2>4. nAvailFrame' = NumPhysPages - Cardinality(frameMap')
      BY SMTT(60), <1>2, <1>3, <1>4 DEF FramesOK
    <2> QED
      BY <2>1, <2>2, <2>3, <2>4 DEF FramesOK
  <1>7. MemoryType'
    <2>1. frameMap' \subseteq Frames
      BY <1>3 DEF MemoryType
    <2>2. nAvailFrame' \in 0 .. NumPhysPages
      BY SMTT(60), <1>6, <2>1, FramesFinite DEF FramesOK
    <2> QED
      BY <1>1, <1>3, <2>1, <2>2 DEF MemoryType
  <1> QED
    BY <1>5, <1>6, <1>7

\* As long as a frame is free, so is a pid: each pid that is in use is that of a
\* running process, which has a frame.
LEMMA PidAvailable ==
    ASSUME IInv, ~ crashed, nAvailFrame # 0
    PROVE  FindStart(pidMap, MaxProcesses, lastId) # -1
  <1> SUFFICES ASSUME FindStart(pidMap, MaxProcesses, lastId) = -1 PROVE FALSE
    OBVIOUS
  <1> DEFINE owner(i) == addrspaces[i]
             f == [i \in Pids |-> Min(frames[owner(i)])]
  <1>1. TypeOK /\ FramesOK /\ PidsOK
    BY DEF IInv
  <1>2. Pids \subseteq pidMap
    BY <1>1, FindStartFull DEF TypeOK, Pids, MaxProcesses
  <1>3. ASSUME NEW i \in Pids
        PROVE  owner(i) \in Procs /\ pid[owner(i)] = i /\ f[i] \in frames[owner(i)]
    <2>1. owner(i) \in Running /\ pid[owner(i)] = i
      BY <1>1, <1>2 DEF PidsOK
    <2>2. owner(i) \in Procs /\ frames[owner(i)] # {}
      BY <1>1, <2>1 DEF PidsOK, Running, Live
    <2>3. frames[owner(i)] \subseteq Nat
      BY <1>1, <2>2, FramesFinite DEF TypeOK
    <2> QED
      BY <2>1, <2>2, <2>3, FirstBit
  <1> HIDE DEF f
  <1>4. f \in [Pids -> frameMap]
    <2>1. \A i \in Pids : f[i] \in frameMap
      BY SMTT(60), <1>1, <1>3 DEF FramesOK
    <2> QED
      BY <2>1 DEF f
  <1>5. ASSUME NEW i \in Pids, NEW j \in Pids, f[i] = f[j] PROVE i = j
    <2>1. owner(i) = owner(j)
      BY <1>1, <1>3, <1>5 DEF FramesOK
    <2> QED
      BY <1>3, <2>1
  <1>6. f \in Injection(Pids, frameMap)
    BY <1>4, <1>5 DEF Injection, IsInjective
  <1>7. IsFiniteSet(frameMap) /\ Cardinality(Pids) <= Cardinality(frameMap)
    BY <1>1, <1>6, FramesFinite, FS_Injection DEF TypeOK
  <1>8. Cardinality(Pids) = NumPhysPages
    BY FramesFinite DEF Pids, Frames, MaxProcesses
  <1> QED
    BY SMTT(60), <1>1, <1>7, <1>8, FramesFinite DEF FramesOK, TypeOK

-----------------------------------------------------------------------------
(* Counting. *)

AliveLabels == Labels \ {"none", "finished"}
Within(f, A) == {p \in Procs : f[p] \in A}
One(l, A) == IF l \in A THEN 1 ELSE 0

Counted(f, used, units, over) ==
    /\ ~ over => used + 1 = Cardinality(Within(f, AliveLabels))
                              + Cardinality(Within(f, {"forkCounted"}))
    /\ over => Within(f, AliveLabels) = {}
    /\ Cardinality(Within(f, {"forkWait"})) = units + Cardinality(Within(f, {"forked"}))

\* What ForksCounted says of pc and of the counters.
LEMMA CountedIs ==
    ASSUME pc \in [Procs -> Labels], pc' \in [Procs -> Labels]
    PROVE  /\ ForksCounted <=> Counted(pc, nUsedAddrSpace, semFORK, halted)
           /\ ForksCounted' <=> Counted(pc', nUsedAddrSpace', semFORK', halted')
  <1>1. /\ Live = Within(pc, AliveLabels)
        /\ {p \in Procs : pc[p] = "forkCounted"} = Within(pc, {"forkCounted"})
        /\ {p \in Procs : pc[p] = "forkWait"} = Within(pc, {"forkWait"})
        /\ {c \in Procs : pc[c] = "forked"} = Within(pc, {"forked"})
    BY DEF Live, Within, AliveLabels
  <1>2. /\ Live' = Within(pc', AliveLabels)
        /\ {p \in Procs : pc'[p] = "forkCounted"} = Within(pc', {"forkCounted"})
        /\ {p \in Procs : pc'[p] = "forkWait"} = Within(pc', {"forkWait"})
        /\ {c \in Procs : pc'[c] = "forked"} = Within(pc', {"forked"})
    BY DEF Live, Within, AliveLabels
  <1> QED
    BY <1>1, <1>2 DEF ForksCounted, Counted

\* There are finitely many processes.
LEMMA CountsFinite ==
    ASSUME NEW f, NEW A
    PROVE  IsFiniteSet(Within(f, A)) /\ Cardinality(Within(f, A)) \in Nat
  <1>1. IsFiniteSet(Procs)
    <2>1. IsFiniteSet(1 .. MaxForks)
      BY SMTT(60), FS_Interval
    <2>2. Procs = (1 .. MaxForks) \cup {Boot}
      BY DEF Procs, Forked
    <2> QED
      BY <2>1, <2>2, FS_AddElement
  <1>2. Within(f, A) \subseteq Procs
    BY DEF Within
  <1> QED
    BY <1>1, <1>2, FS_Subset, FS_CardinalityType

\* A step of p to label takes it from one count to another.
LEMMA MoveCounts ==
    ASSUME NEW f \in [Procs -> Labels], NEW p \in Procs, NEW label \in Labels,
           NEW g \in [Procs -> Labels], g[p] = label,
           \A q \in Procs : q # p => g[q] = f[q], NEW A
    PROVE  Cardinality(Within(g, A))
               = Cardinality(Within(f, A)) + One(label, A) - One(f[p], A)
  <1>1. IsFiniteSet(Within(f, A)) /\ Cardinality(Within(f, A)) \in Nat
    BY CountsFinite
  <1>2. CASE label \in A /\ f[p] \notin A
    <2>1. Within(g, A) = Within(f, A) \cup {p} /\ p \notin Within(f, A)
      BY <1>2 DEF Within
    <2>2. Cardinality(Within(g, A)) = Cardinality(Within(f, A)) + 1
      BY <1>1, <2>1, FS_AddElement
    <2> QED
      BY SMTT(60), <1>1, <1>2, <2>2 DEF One
  <1>3. CASE label \notin A /\ f[p] \in A
    <2>1. Within(g, A) = Within(f, A) \ {p} /\ p \in Within(f, A)
      BY <1>3 DEF Within
    <2>2. Cardinality(Within(g, A)) = Cardinality(Within(f, A)) - 1
      BY SMTT(60), <1>1, <2>1, FS_RemoveElement
    <2> QED
      BY SMTT(60), <1>1, <1>3, <2>2 DEF One
  <1>4. CASE label \in A <=> f[p] \in A
    <2>1. Within(g, A) = Within(f, A)
      BY <1>4 DEF Within
    <2> QED
      BY SMTT(60), <1>1, <1>4, <2>1 DEF One
  <1> QED
    BY <1>2, <1>3, <1>4

\* The counts after the step, from their values before it.
LEMMA MovedCounted ==
    ASSUME NEW f \in [Procs -> Labels], NEW p \in Procs, NEW label \in Labels,
           NEW g \in [Procs -> Labels], g[p] = label,
           \A q \in Procs : q # p => g[q] = f[q],
           NEW used \in Int, NEW units \in Int, Counted(f, used, units, FALSE),
           NEW newUsed \in Int, NEW newUnits \in Int,
           newUsed = used + One(label, AliveLabels) - One(f[p], AliveLabels)
                          + One(label, {"forkCounted"}) - One(f[p], {"forkCounted"}),
           newUnits = units + One(label, {"forkWait"}) - One(f[p], {"forkWait"})
                            - One(label, {"forked"}) + One(f[p], {"forked"})
    PROVE  Counted(g, newUsed, newUnits, FALSE)
  <1> DEFINE old(A) == Cardinality(Within(f, A))
             new(A) == Cardinality(Within(g, A))
  <1>1. ASSUME NEW A
        PROVE  old(A) \in Nat /\ new(A) = old(A) + One(label, A) - One(f[p], A)
    <2>1. old(A) \in Nat
      BY CountsFinite
    <2>2. new(A) = old(A) + One(label, A) - One(f[p], A)
      BY SMTT(60), MoveCounts
    <2> QED
      BY <2>1, <2>2
  <1>2. \A l, A : One(l, A) \in {0, 1}
    BY DEF One
  <1>3. /\ used + 1 = old(AliveLabels) + old({"forkCounted"})
        /\ old({"forkWait"}) = units + old({"forked"})
    BY DEF Counted
  <1> HIDE DEF old, new
  <1>4. newUsed + 1 = new(AliveLabels) + new({"forkCounted"})
    BY SMTT(60), <1>1, <1>2, <1>3
  <1>5. new({"forkWait"}) = newUnits + new({"forked"})
    BY SMTT(60), <1>1, <1>2, <1>3
  <1> QED
    BY <1>4, <1>5 DEF Counted, old, new

\* How many processes and announced turns a step of p from old to label adds.
UsedBy(old, label) == One(label, AliveLabels) - One(old, AliveLabels)
                          + One(label, {"forkCounted"}) - One(old, {"forkCounted"})
UnitsBy(old, label) == One(label, {"forkWait"}) - One(old, {"forkWait"})
                           - One(label, {"forked"}) + One(old, {"forked"})

\* A step of one process that changes the counters as it should.
LEMMA StepCounted ==
    ASSUME IInv, ~ halted, ~ halted', NEW p \in Procs,
           pc' \in [Procs -> Labels], \A q \in Procs : q # p => pc'[q] = pc[q],
           nUsedAddrSpace' \in Nat, semFORK' \in Nat,
           nUsedAddrSpace' = nUsedAddrSpace + UsedBy(pc[p], pc'[p]),
           semFORK' = semFORK + UnitsBy(pc[p], pc'[p])
    PROVE  ForksCounted'
  <1>1. /\ pc \in [Procs -> Labels] /\ pc'[p] \in Labels
        /\ nUsedAddrSpace \in Nat /\ semFORK \in Nat
    BY SMTT(60) DEF IInv, TypeOK, MaxProcesses
  <1>2. Counted(pc, nUsedAddrSpace, semFORK, FALSE)
    <2>1. Counted(pc, nUsedAddrSpace, semFORK, halted)
      BY <1>1, CountedIs DEF IInv
    <2> QED
      BY <2>1 DEF Counted
  <1>3. \A l, A : One(l, A) \in {0, 1}
    BY DEF One
  <1>4. /\ nUsedAddrSpace' = nUsedAddrSpace
               + One(pc'[p], AliveLabels) - One(pc[p], AliveLabels)
               + One(pc'[p], {"forkCounted"}) - One(pc[p], {"forkCounted"})
        /\ semFORK' = semFORK + One(pc'[p], {"forkWait"}) - One(pc[p], {"forkWait"})
               - One(pc'[p], {"forked"}) + One(pc[p], {"forked"})
    BY SMTT(60), <1>1, <1>3 DEF UsedBy, UnitsBy
  <1>5. Counted(pc', nUsedAddrSpace', semFORK', FALSE)
    <2>1. /\ nUsedAddrSpace \in Int /\ semFORK \in Int
          /\ nUsedAddrSpace' \in Int /\ semFORK' \in Int
      BY SMTT(60), <1>1
    <2> QED
      BY <1>1, <1>2, <1>4, <2>1, MovedCounted
  <1>6. Counted(pc', nUsedAddrSpace', semFORK', halted')
    BY <1>5 DEF Counted
  <1> QED
    BY <1>1, <1>6, CountedIs

\* The values of these for the steps there are.
LEMMA StepsAdd ==
    /\ UsedBy("user", "forkCounted") = 1 /\ UnitsBy("user", "forkCounted") = 0
    /\ UsedBy("forkWait", "forkRead") = 0 /\ UnitsBy("forkWait", "forkRead") = -1
    /\ UsedBy("forkRead", "user") = 0 /\ UnitsBy("forkRead", "user") = 0
    /\ UsedBy("forked", "user") = 0 /\ UnitsBy("forked", "user") = 1
    /\ UsedBy("forked", "ending") = 0 /\ UnitsBy("forked", "ending") = 1
    /\ UsedBy("ending", "finished") = -1 /\ UnitsBy("ending", "finished") = 0
    /\ \A l, m \in {"user", "joining", "joinWoken"} : UsedBy(l, m) = 0 /\ UnitsBy(l, m) = 0
    /\ \A l, m \in {"exitWait", "exitWoken", "ending"} : UsedBy(l, m) = 0 /\ UnitsBy(l, m) = 0
  BY SMTT(60) DEF UsedBy, UnitsBy, One, AliveLabels, Labels

-----------------------------------------------------------------------------
(* The steps. *)

Leaving == {"exitWait", "exitWoken", "ending"}
Outside == {"none", "forked", "finished"}

\* A step of one process that neither starts, exits nor ends.
LEMMA Moves ==
    ASSUME IInv, ~ crashed, NEW p \in Procs, NEW label \in Labels,
           pc' = [pc EXCEPT ![p] = label],
           UNCHANGED <<memory, deleted, ids, space, nForked, halted>>,
           nThreads' \in [Procs -> Nat], nUsedAddrSpace' \in 0 .. MaxProcesses,
           semFORK' \in Nat, crashed' \in BOOLEAN,
           arg' \in [Procs -> Procs \cup {NULL}],
           \A q \in Procs : q # p => arg'[q] = arg[q],
           pc[p] \notin Outside \cup {"ending"}, label \notin Outside,
           pc[p] \in Leaving <=> label \in Leaving,
           label \in {"joining", "joinWoken"} => arg'[p] \in Procs /\ pid[arg'[p]] \in Pids,
           label = "joining" => \/ arg'[p] \in Running
                                \/ \E q \in Procs : q # arg'[p] /\ pid[q] = pid[arg'[p]],
           ForksCounted'
    PROVE  IInv'
  <1>1. TypeOK /\ FramesOK /\ PidsOK /\ SpacesOK /\ JoinsOK /\ NoMissedExit
    BY DEF IInv
  <1>2. Running' = Running
    BY <1>1 DEF TypeOK, Running, Live, Leaving, Outside
  <1>3. TypeOK'
    BY <1>1 DEF TypeOK, memory, ids
  <1>4. FramesOK'
    BY SMTT(60), <1>1 DEF FramesOK, memory
  <1>5. PidsOK'
    BY <1>1, <1>2 DEF PidsOK, memory, ids
  <1>6. SpacesOK'
    BY <1>1 DEF SpacesOK, TypeOK, ids, Outside
  <1>7. JoinsOK'
    BY <1>1 DEF JoinsOK, TypeOK, ids
  <1>8. NoMissedExit'
    BY <1>1, <1>2 DEF NoMissedExit, TypeOK, ids
  <1> QED
    BY <1>3, <1>4, <1>5, <1>6, <1>7, <1>8 DEF IInv

\* A step that changes nThreads alone, or nothing.
LEMMA ThreadsOnly ==
    ASSUME IInv, nThreads' \in [Procs -> Nat], pc' = pc,
           UNCHANGED <<memory, deleted, ids, space, nUsedAddrSpace, semFORK, nForked, arg,
                       halted, crashed>>
    PROVE  IInv'
  <1>1. TypeOK' /\ FramesOK' /\ SpacesOK' /\ JoinsOK'
    BY SMTT(60) DEF IInv, TypeOK, FramesOK, SpacesOK, JoinsOK, memory, ids
  <1>2. PidsOK' /\ NoMissedExit'
    BY DEF IInv, PidsOK, NoMissedExit, Running, Live, memory, ids
  <1>3. ForksCounted'
    BY DEF IInv, ForksCounted, Live
  <1> QED
    BY <1>1, <1>2, <1>3 DEF IInv

\* The steps of ForkExec other than the fork itself.
LEMMA ForkStepsInvariant ==
    ASSUME IInv, NEW p \in Procs, ForkExec(p) \/ ForkPasses(p) \/ ForkReturns(p)
    PROVE  IInv'
  <1> USE DEF At, Goto, Outside, Leaving
  <1>1. TypeOK /\ ~ crashed /\ ~ halted /\ pc \in [Procs -> Labels]
    BY DEF IInv, TypeOK, ForkExec, ForkPasses, ForkReturns
  <1>2. semFORK \in Nat /\ nUsedAddrSpace \in Nat
    BY SMTT(60), <1>1 DEF TypeOK, MaxProcesses
  <1>3. CASE ForkExec(p)
    <2>1. CASE nUsedAddrSpace >= MaxProcesses
      BY <1>1, <1>3, <2>1, ThreadsOnly DEF ForkExec, TypeOK
    <2>2. CASE ~ (nUsedAddrSpace >= MaxProcesses)
      <3>1. /\ pc' = [pc EXCEPT ![p] = "forkCounted"] /\ pc[p] = "user"
            /\ nUsedAddrSpace' = nUsedAddrSpace + 1 /\ semFORK' = semFORK /\ halted' = halted
        BY <1>3, <2>2 DEF ForkExec
      <3>2. ForksCounted'
        <4>1. pc' \in [Procs -> Labels] /\ pc'[p] = "forkCounted"
                 /\ \A q \in Procs : q # p => pc'[q] = pc[q]
          BY <1>1, <3>1 DEF Labels
        <4>2. /\ nUsedAddrSpace' = nUsedAddrSpace + UsedBy(pc[p], pc'[p])
              /\ semFORK' = semFORK + UnitsBy(pc[p], pc'[p])
              /\ nUsedAddrSpace' \in Nat /\ semFORK' \in Nat
          BY SMTT(60), <1>1, <1>2, <3>1, <4>1, StepsAdd
        <4> QED
          BY <1>1, <1>2, <3>1, <4>1, <4>2, StepCounted
      <3>3. nUsedAddrSpace' \in 0 .. MaxProcesses
        BY SMTT(60), <1>1, <2>2, <3>1 DEF TypeOK, MaxProcesses
      <3>4. "forkCounted" \in Labels
        BY DEF Labels
      <3> QED
        BY <1>1, <1>3, <3>1, <3>2, <3>3, <3>4, Moves DEF ForkExec, TypeOK
    <2> QED
      BY <2>1, <2>2
  <1>4. CASE ForkPasses(p)
    <2>1. /\ pc' = [pc EXCEPT ![p] = "forkRead"] /\ pc[p] = "forkWait"
          /\ nUsedAddrSpace' = nUsedAddrSpace /\ semFORK' = semFORK - 1 /\ halted' = halted
          /\ semFORK' \in Nat
      BY SMTT(60), <1>1, <1>4 DEF ForkPasses, TypeOK
    <2>2. ForksCounted'
      <3>1. pc' \in [Procs -> Labels] /\ pc'[p] = "forkRead"
               /\ \A q \in Procs : q # p => pc'[q] = pc[q]
        BY <1>1, <2>1 DEF Labels
      <3>2. /\ nUsedAddrSpace' = nUsedAddrSpace + UsedBy(pc[p], pc'[p])
            /\ semFORK' = semFORK + UnitsBy(pc[p], pc'[p])
            /\ nUsedAddrSpace' \in Nat /\ semFORK' \in Nat
        BY SMTT(60), <1>1, <1>2, <2>1, <3>1, StepsAdd
      <3> QED
        BY <1>1, <1>2, <2>1, <3>1, <3>2, StepCounted
    <2>3. "forkRead" \in Labels
      BY DEF Labels
    <2> QED
      BY <1>1, <1>4, <2>1, <2>2, <2>3, Moves DEF ForkPasses, TypeOK
  <1>5. CASE ForkReturns(p)
    <2>1. /\ pc' = [pc EXCEPT ![p] = "user"] /\ pc[p] = "forkRead"
          /\ nUsedAddrSpace' = nUsedAddrSpace /\ semFORK' = semFORK /\ halted' = halted
          /\ arg' = [arg EXCEPT ![p] = NULL]
      BY <1>5 DEF ForkReturns
    <2>2. ForksCounted'
      <3>1. pc' \in [Procs -> Labels] /\ pc'[p] = "user"
               /\ \A q \in Procs : q # p => pc'[q] = pc[q]
        BY <1>1, <2>1 DEF Labels
      <3>2. /\ nUsedAddrSpace' = nUsedAddrSpace + UsedBy(pc[p], pc'[p])
            /\ semFORK' = semFORK + UnitsBy(pc[p], pc'[p])
            /\ nUsedAddrSpace' \in Nat /\ semFORK' \in Nat
        BY SMTT(60), <1>1, <1>2, <2>1, <3>1, StepsAdd
      <3> QED
        BY <1>1, <1>2, <2>1, <3>1, <3>2, StepCounted
    <2>3. "user" \in Labels
      BY DEF Labels
    <2>4. arg' \in [Procs -> Procs \cup {NULL}] /\ \A q \in Procs : q # p => arg'[q] = arg[q]
      BY <1>1, <2>1 DEF TypeOK
    <2> QED
      BY <1>1, <1>5, <2>1, <2>2, <2>3, <2>4, Moves DEF ForkReturns, TypeOK
  <1> QED
    BY <1>3, <1>4, <1>5

\* The other threads of a process, and the main thread that waits for them.
LEMMA ThreadStepsInvariant ==
    ASSUME IInv, NEW p \in Procs, ThreadCreate(p) \/ ThreadExit(p) \/ ExitRechecks(p)
    PROVE  IInv'
  <1> USE DEF At, Goto, Outside, Leaving
  <1>1. /\ TypeOK /\ ~ crashed /\ ~ halted /\ pc \in [Procs -> Labels]
        /\ semFORK \in Nat /\ nUsedAddrSpace \in Nat /\ nThreads' \in [Procs -> Nat]
    BY SMTT(60) DEF IInv, TypeOK, ThreadCreate, ThreadExit, ExitRechecks, MaxProcesses
  <1>2. CASE pc' = pc
    BY <1>1, <1>2, ThreadsOnly DEF ThreadCreate, ThreadExit, ExitRechecks
  <1>3. CASE pc' # pc
    <2>1. PICK label \in {"exitWait", "exitWoken", "ending"} :
              pc' = [pc EXCEPT ![p] = label]
      BY <1>1, <1>3 DEF ThreadCreate, ThreadExit, ExitRechecks
    <2>2. /\ pc[p] \in {"exitWait", "exitWoken"}
          /\ UNCHANGED <<memory, deleted, ids, space, nUsedAddrSpace, semFORK, nForked, arg,
                         halted, crashed>>
      BY <1>1, <1>3 DEF ThreadCreate, ThreadExit, ExitRechecks
    <2>3. label \in Labels
      BY DEF Labels
    <2>4. ForksCounted'
      <3>1. pc' \in [Procs -> Labels] /\ pc'[p] = label
               /\ \A q \in Procs : q # p => pc'[q] = pc[q]
        BY <1>1, <2>1, <2>3
      <3>2. /\ nUsedAddrSpace' = nUsedAddrSpace + UsedBy(pc[p], pc'[p])
            /\ semFORK' = semFORK + UnitsBy(pc[p], pc'[p])
            /\ nUsedAddrSpace' \in Nat /\ semFORK' \in Nat
        BY SMTT(60), <1>1, <2>2, <3>1, StepsAdd
      <3> QED
        BY <1>1, <2>2, <3>1, <3>2, StepCounted
    <2> QED
      BY <1>1, <2>1, <2>2, <2>3, <2>4, Moves DEF TypeOK
  <1> QED
    BY <1>2, <1>3

\* A join sleeps on a process that runs; woken, it sleeps again only if the pid is
\* in use, by that process or by another.
LEMMA JoinStepsInvariant ==
    ASSUME IInv, NEW p \in Procs, (\E i \in Pids : ProcessJoin(p, i)) \/ JoinRechecks(p)
    PROVE  IInv'
  <1> USE DEF At, Goto, Outside, Leaving
  <1>1. /\ TypeOK /\ PidsOK /\ JoinsOK /\ ~ crashed /\ ~ halted /\ pc \in [Procs -> Labels]
        /\ semFORK \in Nat /\ nUsedAddrSpace \in Nat
    <2>1. At(p, "user") \/ At(p, "joinWoken")
      BY DEF ProcessJoin, JoinRechecks
    <2> QED
      BY SMTT(60), <2>1 DEF IInv, TypeOK, MaxProcesses
  <1>2. /\ pc[p] \in {"user", "joinWoken"}
        /\ UNCHANGED <<memory, deleted, ids, space, nThreads, nUsedAddrSpace, semFORK, nForked,
                       halted>>
        /\ \E label \in {"user", "joining"} : pc' = [pc EXCEPT ![p] = label]
    BY DEF ProcessJoin, JoinRechecks
  <1>3. /\ crashed' \in BOOLEAN
        /\ arg' \in [Procs -> Procs \cup {NULL}]
        /\ \A q \in Procs : q # p => arg'[q] = arg[q]
    <2>1. CASE \E i \in Pids : ProcessJoin(p, i)
      BY <1>1, <2>1 DEF ProcessJoin, TypeOK
    <2>2. CASE JoinRechecks(p)
      BY <1>1, <2>2 DEF JoinRechecks, TypeOK
    <2> QED
      BY <2>1, <2>2
  <1>4. PICK label \in {"user", "joining"} : pc' = [pc EXCEPT ![p] = label]
    BY <1>2
  <1>5. label \in Labels
    BY DEF Labels
  <1>6. ASSUME label = "joining"
        PROVE  /\ arg'[p] \in Procs /\ pid[arg'[p]] \in Pids
               /\ \/ arg'[p] \in Running
                  \/ \E q \in Procs : q # arg'[p] /\ pid[q] = pid[arg'[p]]
    <2>1. CASE \E i \in Pids : ProcessJoin(p, i)
      <3>1. PICK i \in Pids : ProcessJoin(p, i)
        BY <2>1
      <3>2. arg'[p] = addrspaces[i] /\ i \in pidMap
        BY <1>1, <3>1 DEF ProcessJoin, TypeOK
      <3>3. addrspaces[i] \in Running /\ pid[addrspaces[i]] = i
        BY <1>1, <3>2 DEF PidsOK
      <3> QED
        BY <3>2, <3>3 DEF Running, Live
    <2>2. CASE JoinRechecks(p)
      <3>1. arg' = arg /\ pid[arg[p]] \in pidMap /\ pc[p] = "joinWoken"
        BY <1>1, <1>4, <1>6, <2>2 DEF JoinRechecks
      <3>2. arg[p] \in Procs /\ pid[arg[p]] \in Pids
        BY <1>1, <3>1 DEF JoinsOK
      <3>3. addrspaces[pid[arg[p]]] \in Running /\ pid[addrspaces[pid[arg[p]]]] = pid[arg[p]]
        BY <1>1, <3>1 DEF PidsOK
      <3>4. addrspaces[pid[arg[p]]] \in Procs
        BY <3>3 DEF Running, Live
      <3> QED
        BY <3>1, <3>2, <3>3, <3>4
    <2> QED
      BY <2>1, <2>2
  <1>7. ForksCounted'
    <2>1. pc' \in [Procs -> Labels] /\ pc'[p] = label
             /\ \A q \in Procs : q # p => pc'[q] = pc[q]
      BY <1>1, <1>4, <1>5
    <2>2. /\ nUsedAddrSpace' = nUsedAddrSpace + UsedBy(pc[p], pc'[p])
          /\ semFORK' = semFORK + UnitsBy(pc[p], pc'[p])
          /\ nUsedAddrSpace' \in Nat /\ semFORK' \in Nat
      BY SMTT(60), <1>1, <1>2, <2>1, StepsAdd
    <2> QED
      BY <1>1, <1>2, <2>1, <2>2, StepCounted
  <1> QED
    BY <1>1, <1>2, <1>3, <1>4, <1>5, <1>6, <1>7, Moves DEF TypeOK

\* A program that cannot be opened: its process goes to endProcess.
LEMMA StartFailsInvariant ==
    ASSUME IInv, NEW p \in Procs, StartFails(p)
    PROVE  IInv'
  <1> USE DEF At, Goto
  <1>1. /\ TypeOK /\ FramesOK /\ PidsOK /\ SpacesOK /\ JoinsOK /\ NoMissedExit
        /\ ~ crashed /\ ~ halted /\ pc \in [Procs -> Labels]
        /\ semFORK \in Nat /\ nUsedAddrSpace \in Nat
    BY SMTT(60) DEF IInv, TypeOK, StartFails, MaxProcesses
  <1>2. /\ pc[p] = "forked" /\ pc' \in [Procs -> Labels] /\ pc'[p] = "ending"
        /\ \A q \in Procs : q # p => pc'[q] = pc[q] /\ space'[q] = space[q]
        /\ space' \in [Procs -> Procs \cup {NULL}] /\ space'[p] = NULL
        /\ semFORK' = semFORK + 1
        /\ UNCHANGED <<frameMap, nAvailFrame, frames, numPages, deleted, pidMap, lastId,
                       addrspaces, pid, nThreads, nUsedAddrSpace, nForked, arg, halted, crashed>>
    BY <1>1 DEF StartFails, TypeOK, Labels, memory, ids
  <1>3. Running' = Running
    BY <1>2 DEF Running, Live
  <1>4. ForksCounted'
    <2>1. /\ nUsedAddrSpace' = nUsedAddrSpace + UsedBy(pc[p], pc'[p])
          /\ semFORK' = semFORK + UnitsBy(pc[p], pc'[p])
          /\ nUsedAddrSpace' \in Nat /\ semFORK' \in Nat
      BY SMTT(60), <1>1, <1>2, StepsAdd
    <2> QED
      BY <1>1, <1>2, <2>1, StepCounted
  <1>5. TypeOK' /\ FramesOK'
    BY SMTT(60), <1>1, <1>2 DEF TypeOK, FramesOK
  <1>6. PidsOK'
    BY <1>1, <1>2, <1>3 DEF PidsOK
  <1>7. SpacesOK'
    BY <1>1, <1>2 DEF SpacesOK
  <1>8. JoinsOK'
    BY <1>1, <1>2 DEF JoinsOK
  <1>9. NoMissedExit'
    BY <1>1, <1>2, <1>3 DEF NoMissedExit
  <1> QED
    BY <1>4, <1>5, <1>6, <1>7, <1>8, <1>9 DEF IInv

\* A process grows.
LEMMA SbrkInvariant ==
    ASSUME IInv, NEW p \in Procs, NEW n \in 1 .. MaxPages, Sbrk(p, n)
    PROVE  IInv'
  <1>1. /\ TypeOK /\ MemoryType /\ FramesOK /\ PidsOK /\ SpacesOK /\ JoinsOK /\ NoMissedExit
        /\ n \in Nat /\ n <= nAvailFrame /\ AddPages(p, n)
    BY SMTT(60) DEF IInv, TypeOK, MemoryType, Sbrk
  <1>2. MemoryType' /\ FramesOK' /\ \A b \in Procs : frames[b] \subseteq frames'[b]
    BY <1>1, AddPagesOK
  <1>3. UNCHANGED <<deleted, pidMap, lastId, addrspaces, pid, space, nThreads, nUsedAddrSpace,
                    semFORK, nForked, pc, arg, halted, crashed>>
    BY DEF Sbrk, ids
  <1>4. Running' = Running /\ Running \subseteq Procs
    BY <1>3 DEF Running, Live
  <1>5. TypeOK' /\ SpacesOK' /\ JoinsOK'
    BY <1>1, <1>2, <1>3 DEF TypeOK, MemoryType, SpacesOK, JoinsOK
  <1>6. PidsOK'
    BY <1>1, <1>2, <1>3, <1>4 DEF PidsOK
  <1>7. NoMissedExit' /\ ForksCounted'
    BY <1>1, <1>3, <1>4 DEF IInv, NoMissedExit, ForksCounted, Live
  <1> QED
    BY <1>2, <1>5, <1>6, <1>7 DEF IInv

\* The end of a process.  With the last one nobody is left.
LEMMA EndProcessInvariant ==
    ASSUME IInv, NEW p \in Procs, EndProcess(p)
    PROVE  IInv'
  <1> USE DEF At, Goto
  <1>1. /\ TypeOK /\ MemoryType /\ FramesOK /\ PidsOK /\ SpacesOK /\ JoinsOK /\ NoMissedExit
        /\ ~ crashed /\ ~ halted /\ pc \in [Procs -> Labels]
        /\ semFORK \in Nat /\ nUsedAddrSpace \in Nat
    BY SMTT(60) DEF IInv, TypeOK, MemoryType, EndProcess, MaxProcesses
  <1>2. /\ pc[p] = "ending" /\ pc' \in [Procs -> Labels] /\ pc'[p] = "finished"
        /\ \A q \in Procs : q # p => pc'[q] = pc[q]
        /\ UNCHANGED <<pidMap, lastId, addrspaces, pid, space, nThreads, semFORK, nForked, arg,
                       crashed>>
    BY <1>1 DEF EndProcess, Labels, ids
  <1>3. Running' = Running /\ p \notin Running /\ Running \subseteq Procs
    BY <1>2 DEF Running, Live
  <1>4. /\ MemoryType' /\ FramesOK' /\ deleted' \in SUBSET (deleted \cup {p})
        /\ \A b \in Procs : b # p => frames'[b] = frames[b]
    <2>1. CASE space[p] = NULL
      <3>1. UNCHANGED <<frameMap, nAvailFrame, frames, numPages, deleted>>
        BY <2>1 DEF EndProcess, memory
      <3> QED
        BY <1>1, <3>1 DEF MemoryType, FramesOK
    <2>2. CASE space[p] # NULL
      <3>1. space[p] = p
        BY <1>1, <1>2, <2>2 DEF SpacesOK
      <3>2. ReleaseFrames(p) /\ deleted' = deleted \cup {p}
        BY <2>2, <3>1 DEF EndProcess
      <3>3. MemoryType' /\ FramesOK' /\ \A b \in Procs : b # p => frames'[b] = frames[b]
        BY <1>1, <3>2, ReleaseFramesOK
      <3> QED
        BY <3>2, <3>3
    <2> QED
      BY <2>1, <2>2
  <1>5. nUsedAddrSpace' \in 0 .. MaxProcesses /\ halted' \in BOOLEAN
    <2>1. nUsedAddrSpace' \in 0 .. MaxProcesses
      BY SMTT(60), <1>1 DEF EndProcess, TypeOK, MaxProcesses
    <2>2. halted' = TRUE \/ halted' = halted
      BY DEF EndProcess
    <2> QED
      BY <1>1, <2>1, <2>2 DEF TypeOK
  <1>6. ForksCounted'
    <2>1. CASE nUsedAddrSpace # 0
      <3>1. nUsedAddrSpace' = nUsedAddrSpace - 1 /\ nUsedAddrSpace' \in Nat /\ ~ halted'
        BY SMTT(60), <1>1, <2>1 DEF EndProcess
      <3>2. /\ nUsedAddrSpace' = nUsedAddrSpace + UsedBy(pc[p], pc'[p])
            /\ semFORK' = semFORK + UnitsBy(pc[p], pc'[p])
            /\ nUsedAddrSpace' \in Nat /\ semFORK' \in Nat
        BY SMTT(60), <1>1, <1>2, <3>1, StepsAdd
      <3> QED
        BY <1>1, <1>2, <3>1, <3>2, StepCounted
    <2>2. CASE nUsedAddrSpace = 0
      <3> DEFINE old(A) == Cardinality(Within(pc, A))
                 new(A) == Cardinality(Within(pc', A))
      <3>1. halted' = TRUE
        BY <2>2 DEF EndProcess
      <3>2. Counted(pc, nUsedAddrSpace, semFORK, halted)
        BY <1>1, <1>2, CountedIs DEF IInv
      <3>3. /\ 1 = old(AliveLabels) + old({"forkCounted"})
            /\ old({"forkWait"}) = semFORK + old({"forked"})
        BY SMTT(60), <1>1, <2>2, <3>2 DEF Counted
      <3>4. ASSUME NEW A PROVE new(A) = old(A) + One("finished", A) - One("ending", A)
        BY SMTT(60), <1>1, <1>2, MoveCounts
      <3>5. ASSUME NEW A PROVE old(A) \in Nat /\ new(A) \in Nat
        BY CountsFinite
      <3>6. /\ One("finished", AliveLabels) = 0 /\ One("ending", AliveLabels) = 1
            /\ One("finished", {"forkWait"}) = 0 /\ One("ending", {"forkWait"}) = 0
            /\ One("finished", {"forked"}) = 0 /\ One("ending", {"forked"}) = 0
        BY DEF One, AliveLabels, Labels
      <3> HIDE DEF old, new
      <3>7. new(AliveLabels) = 0
        BY SMTT(60), <3>3, <3>4, <3>5, <3>6
      <3>8. new({"forkWait"}) = semFORK' + new({"forked"})
        BY SMTT(60), <1>1, <1>2, <3>3, <3>4, <3>5, <3>6
      <3>9. Within(pc', AliveLabels) = {}
        BY <3>7, CountsFinite, FS_EmptySet DEF new
      <3>10. Counted(pc', nUsedAddrSpace', semFORK', halted')
        BY <3>1, <3>8, <3>9 DEF Counted, new
      <3> QED
        BY <1>1, <1>2, <3>10, CountedIs
    <2> QED
      BY <2>1, <2>2
  <1>7. TypeOK'
    BY <1>1, <1>2, <1>4, <1>5 DEF TypeOK, MemoryType
  <1>8. PidsOK'
    BY <1>1, <1>2, <1>3, <1>4 DEF PidsOK
  <1>9. SpacesOK'
    BY <1>1, <1>2, <1>4 DEF SpacesOK
  <1>10. JoinsOK' /\ NoMissedExit'
    BY <1>1, <1>2, <1>3 DEF JoinsOK, NoMissedExit
  <1> QED
    BY <1>4, <1>6, <1>7, <1>8, <1>9, <1>10 DEF IInv

\* The exit of a main thread: its pid is given back and its joiners are woken.
LEMMA ExitInvariant ==
    ASSUME IInv, NEW p \in Procs, Exit(p)
    PROVE  IInv'
  <1> USE DEF At
  <1>1. /\ TypeOK /\ FramesOK /\ PidsOK /\ SpacesOK /\ JoinsOK /\ NoMissedExit /\ ForksCounted
        /\ ~ crashed /\ pc \in [Procs -> Labels]
    BY DEF IInv, TypeOK, Exit
  <1>2. /\ pc[p] = "user" /\ pc' \in [Procs -> Labels] /\ pc'[p] \in {"ending", "exitWait"}
        /\ \A q \in Procs : q # p =>
              pc'[q] = IF pc[q] = "joining" /\ arg[q] = p THEN "joinWoken" ELSE pc[q]
    BY <1>1 DEF Exit, Labels, Joiners
  <1>3. /\ pidMap' = pidMap \ {pid[p]}
        /\ UNCHANGED <<frameMap, nAvailFrame, frames, numPages, deleted, lastId, addrspaces, pid,
                       space, nThreads, nUsedAddrSpace, semFORK, nForked, arg, halted, crashed>>
    BY DEF Exit, memory
  <1>4. Running' = Running \ {p} /\ p \in Running /\ Running \subseteq Procs
    BY <1>2 DEF Running, Live
  <1>5. TypeOK' /\ FramesOK'
    BY SMTT(60), <1>1, <1>2, <1>3 DEF TypeOK, FramesOK
  <1>6. PidsOK'
    <2>1. ASSUME NEW q \in Running'
          PROVE  pid'[q] \in pidMap' /\ addrspaces'[pid'[q]] = q /\ frames'[q] # {}
      BY <1>1, <1>3, <1>4 DEF PidsOK
    <2>2. ASSUME NEW i \in pidMap'
          PROVE  addrspaces'[i] \in Running' /\ pid'[addrspaces'[i]] = i
      BY <1>1, <1>3, <1>4 DEF PidsOK
    <2> QED
      BY <2>1, <2>2 DEF PidsOK
  <1>7. SpacesOK'
    BY <1>1, <1>2, <1>3 DEF SpacesOK
  <1>8. JoinsOK'
    BY <1>1, <1>2, <1>3 DEF JoinsOK
  <1>9. NoMissedExit'
    BY <1>1, <1>2, <1>3, <1>4 DEF NoMissedExit
  <1>10. ForksCounted'
    <2>1. \A A \in {AliveLabels, {"forkCounted"}, {"forkWait"}, {"forked"}} :
              Within(pc', A) = Within(pc, A)
      BY <1>2 DEF Within, AliveLabels, Labels
    <2>2. Counted(pc, nUsedAddrSpace, semFORK, halted)
      BY <1>1, <1>2, CountedIs
    <2>3. Counted(pc', nUsedAddrSpace', semFORK', halted')
      BY <1>3, <2>1, <2>2 DEF Counted
    <2> QED
      BY <1>1, <1>2, <2>3, CountedIs
  <1> QED
    BY <1>5, <1>6, <1>7, <1>8, <1>9, <1>10 DEF IInv

\* The fork: the parent waits for the child it made.
LEMMA ForkThreadInvariant ==
    ASSUME IInv, NEW p \in Procs, ForkThread(p)
    PROVE  IInv'
  <1> USE DEF At
  <1> DEFINE c == nForked + 1
             mid == [pc EXCEPT ![p] = "forkWait"]
  <1>1. /\ TypeOK /\ FramesOK /\ PidsOK /\ SpacesOK /\ JoinsOK /\ NoMissedExit
        /\ ~ crashed /\ ~ halted /\ pc \in [Procs -> Labels]
        /\ semFORK \in Nat /\ nUsedAddrSpace \in Nat /\ nForked \in Nat
    BY SMTT(60) DEF IInv, TypeOK, ForkThread, MaxProcesses
  <1>2. c \in Forked /\ c \in Procs /\ c > nForked
    BY SMTT(60), <1>1 DEF ForkThread, Procs
  <1>3. /\ pc[p] = "forkCounted" /\ pc[c] = "none" /\ c # p /\ pid[c] = NULL
        /\ c \notin deleted
    BY <1>1, <1>2 DEF ForkThread, SpacesOK
  <1>4. /\ nForked' = c
        /\ space' = [space EXCEPT ![c] = space[p]]
        /\ arg' = [arg EXCEPT ![p] = c]
        /\ pc' = [pc EXCEPT ![p] = "forkWait", ![c] = "forked"]
        /\ UNCHANGED <<frameMap, nAvailFrame, frames, numPages, deleted, pidMap, lastId,
                       addrspaces, pid, nThreads, nUsedAddrSpace, semFORK, halted, crashed>>
    BY DEF ForkThread, memory, ids
  <1> HIDE DEF c
  <1>5. /\ pc' \in [Procs -> Labels] /\ pc'[p] = "forkWait" /\ pc'[c] = "forked"
        /\ \A q \in Procs : q # p /\ q # c => pc'[q] = pc[q]
    BY <1>1, <1>2, <1>3, <1>4 DEF Labels
  <1>6. Running' = Running
    BY <1>2, <1>3, <1>5 DEF Running, Live
  <1>7. TypeOK'
    BY SMTT(60), <1>1, <1>2, <1>4, <1>5 DEF TypeOK, Forked
  <1>8. FramesOK'
    BY <1>1, <1>4 DEF FramesOK
  <1>9. PidsOK'
    BY <1>1, <1>4, <1>6 DEF PidsOK
  <1>10. SpacesOK'
    <2>1. \A q \in Procs : q # c => space'[q] = space[q]
      BY <1>1, <1>4 DEF TypeOK
    <2>2. \A q \in Procs : q \in Forked /\ q > nForked' => q # c /\ q > nForked
      BY SMTT(60), <1>1, <1>2, <1>4 DEF Forked, c
    <2>3. \A q \in Procs : q # p /\ q # c =>
             /\ pc'[q] \in {"none", "forked"} /\ ~ crashed' => pid'[q] = NULL
             /\ \/ pc'[q] \in {"none", "forked"} \/ space'[q] = q
                \/ pc'[q] \in {"ending", "finished"} /\ space'[q] = NULL
             /\ q \in deleted' => pc'[q] = "finished"
             /\ q \in Forked /\ q > nForked' => pc'[q] = "none"
      BY <1>1, <1>4, <1>5, <2>1, <2>2 DEF SpacesOK
    <2>4. /\ space'[p] = p /\ p \notin deleted' /\ (p \in Forked => ~ (p > nForked'))
      BY <1>1, <1>3, <1>4, <2>1, <2>2 DEF SpacesOK
    <2> QED
      BY <1>3, <1>4, <1>5, <2>2, <2>3, <2>4 DEF SpacesOK
  <1>11. JoinsOK' /\ NoMissedExit'
    <2>1. \A q \in Procs : q # p => arg'[q] = arg[q]
      BY <1>1, <1>4 DEF TypeOK
    <2> QED
      BY SMTT(60), <1>1, <1>4, <1>5, <1>6, <2>1 DEF JoinsOK, NoMissedExit
  <1>12. ForksCounted'
    <2>1. /\ mid \in [Procs -> Labels] /\ mid[p] = "forkWait"
          /\ mid[c] = "none" /\ "forkWait" \in Labels /\ "forked" \in Labels
          /\ \A q \in Procs : q # p => mid[q] = pc[q]
          /\ \A q \in Procs : q # c => pc'[q] = mid[q]
      BY <1>1, <1>2, <1>3, <1>5 DEF Labels
    <2> HIDE DEF mid
    <2>2. Counted(pc, nUsedAddrSpace, semFORK, FALSE)
      <3>1. Counted(pc, nUsedAddrSpace, semFORK, halted)
        BY <1>1, <1>5, CountedIs DEF IInv
      <3> QED
        BY <1>1, <3>1 DEF Counted
    <2>3. /\ nUsedAddrSpace \in Int /\ nUsedAddrSpace - 1 \in Int
          /\ semFORK \in Int /\ semFORK + 1 \in Int
      BY SMTT(60), <1>1
    <2>4. /\ One("forkWait", AliveLabels) = 1 /\ One("forkCounted", AliveLabels) = 1
          /\ One("none", AliveLabels) = 0 /\ One("forked", AliveLabels) = 1
          /\ \A l, m \in Labels : One(l, {m}) = IF l = m THEN 1 ELSE 0
          /\ {"none", "forked", "forkWait", "forkCounted"} \subseteq Labels
      BY DEF One, AliveLabels, Labels
    <2>5. /\ nUsedAddrSpace - 1
               = nUsedAddrSpace + One("forkWait", AliveLabels) - One("forkCounted", AliveLabels)
                     + One("forkWait", {"forkCounted"}) - One("forkCounted", {"forkCounted"})
          /\ semFORK + 1
               = semFORK + One("forkWait", {"forkWait"}) - One("forkCounted", {"forkWait"})
                     - One("forkWait", {"forked"}) + One("forkCounted", {"forked"})
      BY SMTT(60), <2>3, <2>4
    <2>6. Counted(mid, nUsedAddrSpace - 1, semFORK + 1, FALSE)
      BY <1>1, <1>3, <2>1, <2>2, <2>3, <2>5, MovedCounted
    <2>7. /\ nUsedAddrSpace
               = (nUsedAddrSpace - 1) + One("forked", AliveLabels) - One("none", AliveLabels)
                     + One("forked", {"forkCounted"}) - One("none", {"forkCounted"})
          /\ semFORK
               = (semFORK + 1) + One("forked", {"forkWait"}) - One("none", {"forkWait"})
                     - One("forked", {"forked"}) + One("none", {"forked"})
      BY SMTT(60), <2>3, <2>4
    <2>8. Counted(pc', nUsedAddrSpace, semFORK, FALSE)
      BY <1>2, <1>5, <2>1, <2>3, <2>6, <2>7, MovedCounted
    <2>9. Counted(pc', nUsedAddrSpace', semFORK', halted')
      BY <1>1, <1>4, <2>8 DEF Counted
    <2> QED
      BY <1>1, <1>5, <2>9, CountedIs
  <1> QED
    BY <1>7, <1>8, <1>9, <1>10, <1>11, <1>12 DEF IInv

\* The start of a program.  When its frames are there, so is a pid that no other
\* process has; when they are not, the ASSERT stops the machine.
LEMMA StartProcessInvariant ==
    ASSUME IInv, NEW p \in Procs, NEW n \in 1 .. MaxPages, StartProcess(p, n)
    PROVE  IInv'
  <1> USE DEF At, Goto
  <1> DEFINE new == FindStart(pidMap, MaxProcesses, lastId)
  <1>1. /\ TypeOK /\ MemoryType /\ FramesOK /\ PidsOK /\ SpacesOK /\ JoinsOK /\ NoMissedExit
        /\ ~ crashed /\ ~ halted /\ pc \in [Procs -> Labels] /\ pc[p] = "forked"
        /\ semFORK \in Nat /\ nUsedAddrSpace \in Nat /\ n \in Nat /\ n # 0
    BY SMTT(60) DEF IInv, TypeOK, MemoryType, StartProcess, MaxProcesses
  <1>2. new \in Pids \cup {-1} /\ new \notin pidMap
    <2>1. new = -1 \/ new \in Pids \ pidMap
      BY SMTT(60), <1>1, FindStartClear DEF TypeOK, Pids, MaxProcesses
    <2>2. -1 \notin pidMap
      BY SMTT(60), <1>1 DEF TypeOK, Pids, Bits
    <2> QED
      BY <2>1, <2>2
  <1>3. /\ pidMap' = Marked(pidMap, new) /\ lastId' = new + 1
        /\ pid' = [pid EXCEPT ![p] = new]
        /\ addrspaces' = [i \in Pids |-> IF i = new THEN p ELSE addrspaces[i]]
        /\ space' = [space EXCEPT ![p] = p]
        /\ UNCHANGED <<deleted, nThreads, nUsedAddrSpace, nForked, arg, halted>>
    BY DEF StartProcess
  <1>4. IF nAvailFrame < n
        THEN crashed' = TRUE /\ UNCHANGED <<frameMap, nAvailFrame, frames, numPages, semFORK, pc>>
        ELSE /\ AddPages(p, n) /\ semFORK' = semFORK + 1 /\ pc' = [pc EXCEPT ![p] = "user"]
             /\ crashed' = crashed
    BY DEF StartProcess, memory
  <1> HIDE DEF new
  <1>5. /\ pidMap' \subseteq Pids /\ pidMap' \subseteq pidMap \cup {new} /\ pidMap \subseteq pidMap'
        /\ (new \in Pids => new \in pidMap')
        /\ lastId' \in 0 .. MaxProcesses
    <2>1. pidMap \subseteq Pids
      BY <1>1 DEF TypeOK
    <2>2. -1 \notin Pids
      BY SMTT(60) DEF Pids, Bits
    <2>3. CASE new = -1
      <3>1. pidMap' = pidMap
        BY <1>3, <2>3 DEF Marked
      <3>2. lastId' = 0 /\ 0 \in 0 .. MaxProcesses
        BY SMTT(60), <1>3, <2>3 DEF MaxProcesses
      <3> QED
        BY <2>1, <2>2, <2>3, <3>1, <3>2
    <2>4. CASE new \in Pids
      <3>1. pidMap' = pidMap \cup {new}
        BY <1>3, <2>2, <2>4 DEF Marked
      <3>2. lastId' \in 0 .. MaxProcesses
        BY SMTT(60), <1>3, <2>4 DEF Pids, Bits, MaxProcesses
      <3> QED
        BY <2>1, <2>4, <3>1, <3>2
    <2> QED
      BY <1>2, <2>3, <2>4
  <1>6. /\ pid' \in [Procs -> Pids \cup {NULL}] /\ pid'[p] = new /\ pid[p] = NULL
        /\ space' \in [Procs -> Procs \cup {NULL}] /\ space'[p] = p
        /\ addrspaces' \in [Pids -> Procs \cup {NULL}]
        /\ \A q \in Procs : q # p => pid'[q] = pid[q] /\ space'[q] = space[q]
        /\ \A i \in pidMap : addrspaces'[i] = addrspaces[i]
        /\ (new \in Pids => addrspaces'[new] = p)
    BY <1>1, <1>2, <1>3 DEF TypeOK, NULL, SpacesOK
  <1>7. NULL \notin Pids /\ Running \subseteq Procs /\ p \notin Running
    BY SMTT(60), <1>1 DEF NULL, Pids, Bits, Running, Live
  <1>kept. /\ TypeOK /\ semFORK + 1 \in Nat
           /\ UNCHANGED <<deleted, nThreads, nUsedAddrSpace, nForked, arg, halted>>
    BY SMTT(60), <1>1, <1>3
  <1>8. ASSUME Running \subseteq Running',
               \A q \in Procs : pc'[q] = pc[q] \/ (q = p /\ pc'[q] = "user")
        PROVE  JoinsOK' /\ NoMissedExit'
    <2>1. ASSUME NEW q \in Procs, pc'[q] \in {"joining", "joinWoken"}
          PROVE  arg'[q] \in Procs /\ pid'[arg'[q]] \in Pids /\ arg'[q] # p
      BY <1>1, <1>3, <1>6, <1>7, <1>8, <2>1 DEF JoinsOK
    <2>2. ASSUME NEW q \in Procs, pc'[q] = "joining"
          PROVE  \/ arg'[q] \in Running'
                 \/ \E r \in Procs : r # arg'[q] /\ pid'[r] = pid'[arg'[q]]
      <3>1. pc[q] = "joining" /\ arg'[q] = arg[q]
        BY <1>3, <1>8, <2>2
      <3>2. arg[q] \in Procs /\ pid[arg[q]] \in Pids /\ arg[q] # p
        BY <1>1, <1>6, <1>7, <3>1 DEF JoinsOK
      <3>3. CASE arg[q] \in Running
        BY <1>8, <3>1, <3>3
      <3>4. CASE \E r \in Procs : r # arg[q] /\ pid[r] = pid[arg[q]]
        <4>1. PICK r \in Procs : r # arg[q] /\ pid[r] = pid[arg[q]]
          BY <3>4
        <4>2. r # p
          BY <1>6, <1>7, <3>2, <4>1
        <4> QED
          BY <1>6, <3>1, <3>2, <4>1, <4>2
      <3> QED
        BY <1>1, <3>1, <3>3, <3>4 DEF NoMissedExit
    <2> QED
      BY <2>1, <2>2 DEF JoinsOK, NoMissedExit
  <1>9. CASE nAvailFrame < n
    <2>1. /\ UNCHANGED <<frameMap, nAvailFrame, frames, numPages, semFORK, pc>>
          /\ crashed' = TRUE
      BY <1>4, <1>9
    <2>2. Running' = Running
      BY <2>1 DEF Running, Live
    <2>3. TypeOK'
      BY <1>5, <1>6, <1>kept, <2>1 DEF TypeOK
    <2>4. FramesOK'
      BY <1>1, <2>1 DEF FramesOK
    <2>5. PidsOK'
      <3>1. ASSUME NEW q \in Running'
            PROVE  pid'[q] \in pidMap' /\ addrspaces'[pid'[q]] = q /\ frames'[q] # {}
        <4>1. q \in Running /\ q \in Procs /\ q # p
          BY <1>7, <2>2
        <4>2. pid[q] \in pidMap /\ addrspaces[pid[q]] = q /\ frames[q] # {}
          BY <1>1, <4>1 DEF PidsOK
        <4> QED
          BY <1>5, <1>6, <2>1, <4>1, <4>2
      <3> QED
        BY <2>1, <3>1 DEF PidsOK
    <2>6. SpacesOK'
      BY <1>1, <1>3, <1>6, <2>1 DEF SpacesOK
    <2>7. ForksCounted'
      BY <1>3, <2>1 DEF IInv, ForksCounted, Live
    <2>8. JoinsOK' /\ NoMissedExit'
      <3>1. Running \subseteq Running'
        BY <2>1, <2>2
      <3>2. \A q \in Procs : pc'[q] = pc[q] \/ (q = p /\ pc'[q] = "user")
        BY <2>1, <2>2
      <3> QED
        BY <1>8, <3>1, <3>2
    <2> QED
      BY <2>3, <2>4, <2>5, <2>6, <2>7, <2>8 DEF IInv
  <1>10. CASE ~ (nAvailFrame < n)
    <2>1. /\ AddPages(p, n) /\ semFORK' = semFORK + 1 /\ pc' = [pc EXCEPT ![p] = "user"]
          /\ crashed' = crashed /\ n <= nAvailFrame /\ nAvailFrame # 0
      BY SMTT(60), <1>1, <1>4, <1>10 DEF TypeOK
    <2>2. new \in Pids
      BY <1>1, <1>2, <2>1, PidAvailable DEF new
    <2>3. /\ MemoryType' /\ FramesOK' /\ \A b \in Procs : frames[b] \subseteq frames'[b]
          /\ frames'[p] # {}
      BY <1>1, <2>1, AddPagesOK
    <2>4. /\ pc' \in [Procs -> Labels] /\ pc'[p] = "user"
          /\ \A q \in Procs : q # p => pc'[q] = pc[q]
      BY <1>1, <2>1 DEF Labels
    <2>5. Running' = Running \cup {p}
      BY <2>4 DEF Running, Live
    <2>6. TypeOK'
      BY <1>5, <1>6, <1>kept, <2>1, <2>3, <2>4 DEF TypeOK, MemoryType
    <2>7. PidsOK'
      <3>1. ASSUME NEW q \in Running'
            PROVE  pid'[q] \in pidMap' /\ addrspaces'[pid'[q]] = q /\ frames'[q] # {}
        <4>1. CASE q = p
          BY <1>5, <1>6, <2>2, <2>3, <4>1
        <4>2. CASE q # p
          <5>1. q \in Running /\ q \in Procs
            BY <1>7, <2>5, <4>2
          <5>2. pid[q] \in pidMap /\ addrspaces[pid[q]] = q /\ frames[q] # {}
            BY <1>1, <5>1 DEF PidsOK
          <5> QED
            BY <1>5, <1>6, <2>3, <4>2, <5>1, <5>2
        <4> QED
          BY <4>1, <4>2
      <3>2. ASSUME NEW i \in pidMap'
            PROVE  addrspaces'[i] \in Running' /\ pid'[addrspaces'[i]] = i
        <4>1. CASE i = new
          BY <1>6, <2>2, <2>5, <4>1
        <4>2. CASE i # new
          <5>1. i \in pidMap
            BY <1>5, <4>2
          <5>2. addrspaces[i] \in Running /\ pid[addrspaces[i]] = i
            BY <1>1, <5>1 DEF PidsOK
          <5> QED
            BY <1>6, <1>7, <2>5, <5>1, <5>2
        <4> QED
          BY <4>1, <4>2
      <3> QED
        BY <3>1, <3>2 DEF PidsOK
    <2>8. SpacesOK'
      BY <1>1, <1>3, <1>6, <2>1, <2>4 DEF SpacesOK
    <2>9. ForksCounted'
      <3>1. ~ halted' /\ semFORK' \in Nat /\ nUsedAddrSpace' = nUsedAddrSpace
        BY SMTT(60), <1>1, <1>3, <2>1
      <3>2. /\ nUsedAddrSpace' = nUsedAddrSpace + UsedBy(pc[p], pc'[p])
            /\ semFORK' = semFORK + UnitsBy(pc[p], pc'[p])
            /\ nUsedAddrSpace' \in Nat /\ semFORK' \in Nat
        BY SMTT(60), <1>1, <2>1, <2>4, <3>1, StepsAdd
      <3> QED
        BY <1>1, <2>1, <2>4, <3>1, <3>2, StepCounted
    <2>10. JoinsOK' /\ NoMissedExit'
      <3>1. Running \subseteq Running'
        BY <2>4, <2>5
      <3>2. \A q \in Procs : pc'[q] = pc[q] \/ (q = p /\ pc'[q] = "user")
        BY <2>4, <2>5
      <3> QED
        BY <1>8, <3>1, <3>2
    <2> QED
      BY <2>3, <2>6, <2>7, <2>8, <2>9, <2>10 DEF IInv
  <1> QED
    BY <1>9, <1>10

-----------------------------------------------------------------------------
(* The theorems. *)

\* The booted machine satisfies the invariant.
LEMMA InitInvariant == Init => IInv
  <1> SUFFICES ASSUME Init PROVE IInv
    OBVIOUS
  <1>1. /\ Boot \in Procs /\ 0 \in Frames /\ 0 \in Pids /\ Boot \notin Forked
        /\ \A p \in Procs : p # Boot => p \in Forked
    BY SMTT(60) DEF Procs, Forked, Boot, Frames, Pids, Bits, MaxProcesses
  <1>2. /\ Cardinality({0}) = 1 /\ Cardinality({Boot}) = 1 /\ Cardinality({}) = 0
    BY FS_Singleton, FS_EmptySet
  <1>3. /\ \A p \in Procs : pc[p] = IF p = Boot THEN "user" ELSE "none"
        /\ \A p \in Procs : frames[p] = IF p = Boot THEN {0} ELSE {}
    BY DEF Init
  <1>4. Live = {Boot} /\ Running = {Boot}
    BY <1>1, <1>3 DEF Live, Running
  <1>5. TypeOK
    <2>1. /\ frameMap \subseteq Frames /\ nAvailFrame \in 0 .. NumPhysPages
          /\ frames \in [Procs -> SUBSET Frames] /\ numPages \in [Procs -> Nat]
      BY SMTT(60), <1>1 DEF Init
    <2>2. /\ pidMap \subseteq Pids /\ lastId \in 0 .. MaxProcesses
          /\ addrspaces \in [Pids -> Procs \cup {NULL}]
          /\ pid \in [Procs -> Pids \cup {NULL}]
      BY SMTT(60), <1>1 DEF Init, MaxProcesses
    <2>3. /\ deleted \subseteq Procs
          /\ space \in [Procs -> Procs \cup {NULL}]
          /\ nThreads \in [Procs -> Nat]
          /\ arg \in [Procs -> Procs \cup {NULL}]
      BY <1>1 DEF Init
    <2>4. /\ nUsedAddrSpace \in 0 .. MaxProcesses
          /\ semFORK \in Nat
          /\ nForked \in 0 .. MaxForks
      BY SMTT(60) DEF Init, MaxProcesses
    <2>5. pc \in [Procs -> Labels] /\ halted \in BOOLEAN /\ crashed \in BOOLEAN
      BY DEF Init, Labels
    <2> QED
      BY <2>1, <2>2, <2>3, <2>4, <2>5 DEF TypeOK
  <1>6. FramesOK
    <2>1. frameMap = UNION {frames[a] : a \in Procs}
      BY <1>1, <1>3 DEF Init
    <2>2. \A a \in Procs : numPages[a] = Cardinality(frames[a])
      BY <1>2, <1>3 DEF Init
    <2>3. nAvailFrame = NumPhysPages - Cardinality(frameMap)
      BY <1>2 DEF Init
    <2>4. \A a, b \in Procs : a # b => frames[a] \cap frames[b] = {}
      BY <1>3
    <2> QED
      BY <2>1, <2>2, <2>3, <2>4 DEF FramesOK
  <1>7. PidsOK
    BY <1>1, <1>3, <1>4 DEF Init, PidsOK
  <1>8. SpacesOK /\ JoinsOK /\ NoMissedExit
    BY <1>1, <1>3 DEF Init, SpacesOK, JoinsOK, NoMissedExit
  <1>9. ForksCounted
    <2>1. /\ {p \in Procs : pc[p] = "forkCounted"} = {}
          /\ {p \in Procs : pc[p] = "forkWait"} = {}
          /\ {c \in Procs : pc[c] = "forked"} = {}
      BY <1>3
    <2> QED
      BY SMTT(60), <1>2, <1>4, <2>1 DEF Init, ForksCounted
  <1> QED
    BY <1>5, <1>6, <1>7, <1>8, <1>9 DEF IInv

\* Every step of every process preserves the invariant.
LEMMA NextInvariant == IInv /\ [Next]_vars => IInv'
  <1> SUFFICES ASSUME IInv, [Next]_vars PROVE IInv'
    OBVIOUS
  <1>1. CASE Next
    <2>1. PICK p \in Procs :
            \/ ForkExec(p) \/ ForkThread(p) \/ ForkPasses(p) \/ ForkReturns(p)
            \/ StartFails(p)
            \/ \E n \in 1 .. MaxPages : StartProcess(p, n) \/ Sbrk(p, n)
            \/ ThreadCreate(p) \/ ThreadExit(p)
            \/ Exit(p) \/ ExitRechecks(p) \/ EndProcess(p)
            \/ \E i \in Pids : ProcessJoin(p, i)
            \/ JoinRechecks(p)
      BY <1>1 DEF Next
    <2>2. CASE ForkExec(p) \/ ForkPasses(p) \/ ForkReturns(p)
      BY <2>2, ForkStepsInvariant
    <2>3. CASE ForkThread(p)
      BY <2>3, ForkThreadInvariant
    <2>4. CASE StartFails(p)
      BY <2>4, StartFailsInvariant
    <2>5. CASE \E n \in 1 .. MaxPages : StartProcess(p, n) \/ Sbrk(p, n)
      BY <2>5, StartProcessInvariant, SbrkInvariant
    <2>6. CASE ThreadCreate(p) \/ ThreadExit(p) \/ ExitRechecks(p)
      BY <2>6, ThreadStepsInvariant
    <2>7. CASE Exit(p)
      BY <2>7, ExitInvariant
    <2>8. CASE EndProcess(p)
      BY <2>8, EndProcessInvariant
    <2>9. CASE (\E i \in Pids : ProcessJoin(p, i)) \/ JoinRechecks(p)
      BY <2>9, JoinStepsInvariant
    <2> QED
      BY <2>1, <2>2, <2>3, <2>4, <2>5, <2>6, <2>7, <2>8, <2>9
  <1>2. CASE UNCHANGED vars
    <2>1. /\ pc' = pc /\ nThreads' = nThreads
          /\ UNCHANGED <<memory, deleted, ids, space, nUsedAddrSpace, semFORK, nForked, arg,
                         halted, crashed>>
      BY <1>2 DEF vars
    <2>2. nThreads' \in [Procs -> Nat]
      BY <2>1 DEF IInv, TypeOK
    <2> QED
      BY <2>1, <2>2, ThreadsOnly
  <1> QED
    BY <1>1, <1>2

\* IInv holds in every reachable state.
LEMMA Invariance == Spec => []IInv
  BY InitInvariant, NextInvariant, PTL DEF Spec

\* The ownership property is a part of the invariant.
LEMMA OwnFromInvariant == IInv => OwnFramesAndPid
  <1> SUFFICES ASSUME IInv PROVE OwnFramesAndPid
    OBVIOUS
  <1>1. \A p \in Running : pid[p] \in pidMap /\ addrspaces[pid[p]] = p
    BY DEF IInv, PidsOK
  <1>2. \A p \in Running : p \notin deleted
    BY DEF IInv, SpacesOK, Running, Live
  <1> QED
    BY <1>1, <1>2 DEF IInv, FramesOK, OwnFramesAndPid

\* No frame is in two page tables, nAvailFrame is the number of clear frames, and
\* the pid of a running process is its own: GetEmptyFrame, ReleaseFrames and
\* GetNewPid, in whatever order processes start, grow, exit and end.
THEOREM ProcessesOwnTheirFrames == Spec => []OwnFramesAndPid
  BY Invariance, OwnFromInvariant, PTL

\* nUsedAddrSpace counts the processes, the machine halts with the last one, and
\* semFORK has a unit, present or to come, for each ForkExec that waits: the
\* counting of do_ForkExec, StartProcess and endProcess.
THEOREM ForksAreCounted == Spec => []ForksCounted
  <1>1. IInv => ForksCounted
    BY DEF IInv
  <1> QED
    BY Invariance, <1>1, PTL

\* do_ProcessJoin sleeps only on a process that is still to exit, unless its pid
\* was given out again.
THEOREM NoProcessExitIsMissed == Spec => []NoMissedExit
  <1>1. IInv => NoMissedExit
    BY DEF IInv
  <1> QED
    BY Invariance, <1>1, PTL
==============================================================================
