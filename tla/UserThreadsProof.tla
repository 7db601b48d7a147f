--------------------------- MODULE UserThreadsProof --------------------------
(***************************************************************************)
(* The safety properties of UserThreads, for any number of thread ids,     *)
(* stacks and threads.                                                     *)
(***************************************************************************)
EXTENDS UserThreads, DataLemmas

\* The tables lead from the stack and from the thread id of a live thread to it,
\* and no thread has the id of the main thread.
LiveOwn ==
    \A t \in Live :
        /\ thread_id[t] \in tidMap \ failed /\ thread_id[t] # 0
        /\ threadsInfos[thread_id[t]] = t
        /\ addrspace_idx[t] \in threadsBitmap
        /\ localThreadsInfos[addrspace_idx[t]] = t

Allocated(n) == n \in Created /\ n < nextUserThreadid

\* The id of thread_info_t n was leaked by a create that failed, or is also that of
\* another.
Reused(n) ==
    \/ thread_id[n] \in failed
    \/ \E m \in Created : Allocated(m) /\ m # n /\ thread_id[m] = thread_id[n]

\* What the tables say of threads that are not live: who is in localThreadsInfos
\* without being so has no thread id, and who has exited and whose id is in use
\* does not have it alone.
TablesOK ==
    /\ 0 \in tidMap /\ failed \subseteq tidMap
    /\ \A n \in Created : ~ Allocated(n) => pc[n] = "none"
    /\ \A i \in threadsBitmap :
          /\ Allocated(localThreadsInfos[i]) /\ addrspace_idx[localThreadsInfos[i]] = i
          /\ localThreadsInfos[i] \in Live \/ thread_id[localThreadsInfos[i]] = -1
    /\ \A n \in Created :
          Allocated(n) /\ n \notin Live /\ thread_id[n] \in tidMap => Reused(n)

\* What a thread waits for or has created is a thread_info_t; the main thread is
\* neither forked nor ended by ThreadExit.
ThreadsOK ==
    /\ \A t \in Threads :
          pc[t] \in {"created", "joining", "joinWoken"} => Allocated(arg[t])
    /\ pc[Main] \notin {"none", "forked", "exited"}

IInv == TypeOK /\ LiveOwn /\ TablesOK /\ ThreadsOK /\ ExitsAreSeen /\ CrashNeedsReuse

\* Zenon has a minute for a leaf; a leaf with arithmetic, functions or sequences asks
\* for the SMT solver.
USE ZenonT(60)

USE SizeAssumption

-----------------------------------------------------------------------------
(* Steps. *)

\* There are finitely many threads.
LEMMA LiveFinite == IsFiniteSet(Live) /\ Cardinality(Live) \in Nat
  <1>1. IsFiniteSet(Created)
    BY SMTT(60), FS_Interval DEF Created
  <1>2. Live \in SUBSET Created
    BY DEF Live
  <1> QED
    BY <1>1, <1>2, FS_Subset, FS_CardinalityType

\* A thread id was handed out twice, or leaked, or none was left.
SomeReuse ==
    \E m, n \in 1 .. nextUserThreadid - 1 :
        thread_id[m] \in failed \cup {-1} \/ (m # n /\ thread_id[m] = thread_id[n])

\* A step of one thread that changes no table and ends no thread.
LEMMA Moves ==
    ASSUME IInv, UNCHANGED tables,
           NEW t \in Threads, NEW label \in Labels, NEW a \in Created \cup {NULL, -1},
           pc' = [pc EXCEPT ![t] = label], arg' = [arg EXCEPT ![t] = a],
           pc[t] # "none" /\ label # "none",
           t \in Created => (label \in {"exited", "finished"}
                                <=> pc[t] \in {"exited", "finished"}),
           label \in {"created", "joinWoken"} => Allocated(a),
           label = "joining" => a \in Live,
           t = Main => label \notin {"forked", "exited"},
           t = Main /\ label \in {"ending", "finished"} => Live = {},
           t = Main /\ label = "mainWaiting" => nThreads # 0,
           spaceDeleted' \in BOOLEAN, crashed' \in BOOLEAN, crashed' => crashed \/ SomeReuse
    PROVE  IInv'
  <1>1. TypeOK /\ LiveOwn /\ TablesOK /\ ThreadsOK /\ ExitsAreSeen /\ CrashNeedsReuse
    BY DEF IInv
  <1>2. /\ pc \in [Threads -> Labels] /\ arg \in [Threads -> Created \cup {NULL, -1}]
        /\ pc' \in [Threads -> Labels] /\ arg' \in [Threads -> Created \cup {NULL, -1}]
    BY <1>1 DEF TypeOK
  <1>3. Live' = Live
    BY <1>2 DEF Live, Threads
  <1>4. TypeOK'
    BY <1>1, <1>2 DEF TypeOK, tables
  <1>5. LiveOwn'
    BY <1>1, <1>3 DEF LiveOwn, tables
  <1>6. \A n : Allocated(n)' <=> Allocated(n)
    BY DEF Allocated, tables
  <1>7. \A n \in Created : Reused(n)' <=> Reused(n)
    BY DEF Allocated, Reused, tables
  <1>8. TablesOK'
    <2>1. \A n \in Created : ~ Allocated(n) => pc'[n] = "none"
      BY <1>1, <1>2 DEF TablesOK, Threads
    <2> QED
      BY <1>1, <1>3, <1>6, <1>7, <2>1 DEF TablesOK, tables
  <1>9. \A u \in Live : Allocated(u)
    BY <1>1 DEF TablesOK, Live
  <1>10. ThreadsOK'
    BY SMTT(60), <1>1, <1>2, <1>6, <1>9 DEF ThreadsOK
  <1>11. ExitsAreSeen'
    <2>1. Main \in Threads
      BY DEF Threads
    <2>2. nThreads' = nThreads
      BY DEF tables
    <2> QED
      BY <1>1, <1>2, <1>3, <2>1, <2>2 DEF ExitsAreSeen
  <1>12. CrashNeedsReuse'
    <2>1. SomeReuse' <=> SomeReuse
      BY DEF SomeReuse, tables
    <2> QED
      BY <1>1, <2>1 DEF CrashNeedsReuse, SomeReuse
  <1> QED
    BY <1>4, <1>5, <1>8, <1>10, <1>11, <1>12 DEF IInv

\* The initial tables are empty.
LEMMA InitInvariant == Init => IInv
  <1> SUFFICES ASSUME Init PROVE IInv
    OBVIOUS
  <1>1. Main \in Threads /\ Main \notin Created /\ NULL \notin Created
    BY SMTT(60) DEF Main, Threads, Created, NULL
  <1>2. pc[Main] = "user" /\ \A n \in Created : pc[n] = "none"
    BY <1>1 DEF Init, Threads
  <1>3. Live = {}
    BY <1>2 DEF Live
  <1>4. TypeOK
    <2>1. 0 \in Tids
      BY SMTT(60) DEF Tids, Bits
    <2>2. tidMap \subseteq Tids
      BY <2>1 DEF Init
    <2>3. pc \in [Threads -> Labels]
      BY DEF Init, Labels
    <2>4. lastId \in 0 .. MaxThreads /\ nextUserThreadid \in 1 .. MaxCreates + 1
      BY SMTT(60) DEF Init
    <2> QED
      BY <2>2, <2>3, <2>4 DEF Init, TypeOK
  <1>5. LiveOwn
    BY <1>3 DEF LiveOwn
  <1>6. TablesOK
    BY SMTT(60), <1>2, <1>3 DEF Init, TablesOK, Allocated, Created
  <1>7. ThreadsOK
    BY <1>1, <1>2 DEF Init, ThreadsOK, Threads
  <1>8. ExitsAreSeen
    BY <1>1, <1>2, <1>3, FS_EmptySet DEF Init, ExitsAreSeen, Threads
  <1>9. CrashNeedsReuse
    BY DEF Init, CrashNeedsReuse
  <1> QED
    BY <1>4, <1>5, <1>6, <1>7, <1>8, <1>9 DEF IInv

\* Leaving ThreadCreate, StartUserThread and Finish, and the main thread's exit.
\* StartUserThread finds the thread's own thread_info_t.
LEMMA SimpleInvariant ==
    ASSUME IInv, NEW t \in Threads,
           \/ CreateReturns(t) \/ Start(t) \/ Finish(t)
           \/ MainExit \/ MainRechecks \/ EndProcess
    PROVE  IInv'
  <1>1. TypeOK /\ LiveOwn /\ TablesOK /\ ThreadsOK /\ ExitsAreSeen
    BY DEF IInv
  <1>2. /\ pc \in [Threads -> Labels] /\ arg \in [Threads -> Created \cup {NULL, -1}]
        /\ spaceDeleted \in BOOLEAN /\ crashed \in BOOLEAN
        /\ arg[t] \in Created \cup {NULL, -1}
    BY <1>1 DEF TypeOK
  <1>3. Main \in Threads /\ Main \notin Created /\ NULL \notin Created
    BY SMTT(60) DEF Main, Threads, Created, NULL
  <1>4. CASE CreateReturns(t)
    <2>1. PICK id \in CreateResults(t) : arg' = [arg EXCEPT ![t] = id]
      BY <1>4 DEF CreateReturns
    <2>2. arg[t] \in Created /\ thread_id[arg[t]] \in Tids \cup {-1}
      BY <1>1, <1>4 DEF ThreadsOK, Allocated, CreateReturns, At, TypeOK
    <2>3. id \in Created \cup {-1}
      BY <1>1, <2>1, <2>2
      DEF CreateResults, GetUserThreadId, GetThreadInfoFromTid, TypeOK, NULL, Tids, Bits
    <2> QED
      BY <1>2, <1>4, <2>1, <2>3, Moves DEF CreateReturns, At, Labels
  <1>5. CASE Start(t)
    <2>1. t \in Live
      BY <1>1, <1>2, <1>5 DEF Start, At, Live, ThreadsOK, Threads
    <2>2. GetThreadInfoFromTid(thread_id[t]) = t
      BY SMTT(60), <1>1, <2>1 DEF LiveOwn, GetThreadInfoFromTid, TypeOK, Tids, Bits, Live
    <2>3. ~ crashed'
      BY <1>3, <1>5, <2>1, <2>2 DEF Start, Live
    <2>4. arg' = [arg EXCEPT ![t] = arg[t]]
      BY <1>2, <1>5 DEF Start
    <2> QED
      BY <1>2, <1>5, <2>3, <2>4, Moves DEF Start, At, Labels
  <1>6. CASE Finish(t)
    <2>1. arg' = [arg EXCEPT ![t] = arg[t]]
      BY <1>2, <1>6 DEF Finish
    <2>2. t # Main
      BY <1>1, <1>6 DEF Finish, At, ThreadsOK
    <2> QED
      BY <1>2, <1>6, <2>1, <2>2, Moves DEF Finish, At, Labels
  <1>7. CASE MainExit \/ MainRechecks
    <2>1. arg' = [arg EXCEPT ![Main] = arg[Main]] /\ arg[Main] \in Created \cup {NULL, -1}
      BY <1>2, <1>3, <1>7 DEF MainExit, MainRechecks
    <2>2. /\ UNCHANGED tables /\ spaceDeleted' = spaceDeleted /\ crashed' = crashed
          /\ pc[Main] # "none"
      BY <1>7 DEF MainExit, MainRechecks, At
    <2>3. CASE nThreads # 0
      <3>1. pc' = [pc EXCEPT ![Main] = "mainWaiting"]
        BY <1>7, <2>3 DEF MainExit, MainRechecks
      <3> QED
        BY <1>2, <1>3, <2>1, <2>3, <2>2, <3>1, Moves DEF Labels
    <2>4. CASE nThreads = 0
      <3>1. pc' = [pc EXCEPT ![Main] = "ending"]
        BY <1>7, <2>4 DEF MainExit, MainRechecks
      <3>2. Live = {}
        BY <1>1, <2>4, LiveFinite, FS_EmptySet DEF ExitsAreSeen
      <3> QED
        BY <1>2, <1>3, <2>1, <2>2, <3>1, <3>2, Moves DEF Labels
    <2> QED
      BY <2>3, <2>4
  <1>8. CASE EndProcess
    <2>1. arg' = [arg EXCEPT ![Main] = arg[Main]] /\ arg[Main] \in Created \cup {NULL, -1}
      BY <1>2, <1>3, <1>8 DEF EndProcess
    <2>2. Live = {}
      BY <1>1, <1>8 DEF ExitsAreSeen, EndProcess, At
    <2> QED
      BY <1>2, <1>3, <1>8, <2>1, <2>2, Moves DEF EndProcess, At, Labels
  <1> QED
    BY <1>4, <1>5, <1>6, <1>7, <1>8

\* ThreadJoin sleeps only on a live thread, and fails only on an id that was
\* handed out again.
LEMMA JoinInvariant ==
    ASSUME IInv, NEW t \in Threads,
           JoinRechecks(t) \/ \E u \in Created : Join(t, u)
    PROVE  IInv'
  <1>1. TypeOK /\ LiveOwn /\ TablesOK /\ ThreadsOK
    BY DEF IInv
  <1>2. /\ pc \in [Threads -> Labels] /\ arg \in [Threads -> Created \cup {NULL, -1}]
        /\ spaceDeleted \in BOOLEAN /\ crashed \in BOOLEAN
    BY <1>1 DEF TypeOK
  <1>3. NULL \notin Created /\ {"user", "joining", "joinWoken"} \subseteq Labels
    BY SMTT(60) DEF Created, NULL, Labels
  <1>4. \A n : Allocated(n) => n \in 1 .. nextUserThreadid - 1
    BY SMTT(60), <1>1 DEF Allocated, Created, TypeOK
  <1>5. ASSUME NEW u \in Created, GetThreadInfoFromUserthreadId(u) # NULL
        PROVE  Allocated(u) /\ (u \in Live \/ thread_id[u] = -1)
    BY <1>1, <1>5 DEF GetThreadInfoFromUserthreadId, TablesOK
  <1>6. ASSUME NEW u \in Created, Allocated(u), u \notin Live, thread_id[u] \in tidMap
        PROVE  SomeReuse
    <2>1. Reused(u)
      BY <1>1, <1>6 DEF TablesOK
    <2> QED
      BY <1>4, <1>6, <2>1 DEF Reused, SomeReuse
  <1>7. ASSUME NEW u \in Created, Allocated(u), thread_id[u] = -1 PROVE SomeReuse
    BY <1>4, <1>7 DEF SomeReuse
  <1>8. ASSUME NEW u \in Live PROVE GetThreadInfoFromUserthreadId(u) = u
    BY <1>1 DEF LiveOwn, GetThreadInfoFromUserthreadId
  <1>9. ASSUME NEW u \in Created, Join(t, u) PROVE IInv'
    <2>1. /\ pc[t] = "user" /\ crashed = FALSE /\ UNCHANGED tables /\ spaceDeleted' = spaceDeleted
          /\ JoinLoop(t, GetThreadInfoFromUserthreadId(u), u)
          /\ arg' = [arg EXCEPT ![t] = IF pc'[t] = "joining" THEN u ELSE NULL]
      BY <1>2, <1>9 DEF Join, At
    <2>2. CASE pc' = [pc EXCEPT ![t] = "joining"] /\ crashed' = FALSE
      <3>1. u \in Live /\ arg' = [arg EXCEPT ![t] = u]
        BY <1>2, <1>3, <1>5, <2>1, <2>2 DEF JoinLoop, GetThreadInfoFromUserthreadId
      <3> QED
        BY <1>2, <1>3, <2>1, <2>2, <3>1, Moves
    <2>3. CASE pc' = [pc EXCEPT ![t] = "user"] /\ (crashed' => SomeReuse) /\ crashed' \in BOOLEAN
      <3>1. arg' = [arg EXCEPT ![t] = NULL]
        BY <1>2, <2>1, <2>3
      <3> QED
        BY <1>2, <1>3, <2>1, <2>3, <3>1, Moves
    <2>4. pc = [pc EXCEPT ![t] = "user"]
      BY <1>2, <2>1
    <2> QED
      BY <1>5, <1>7, <2>1, <2>2, <2>3, <2>4 DEF JoinLoop, GetThreadInfoFromUserthreadId
  <1>10. ASSUME JoinRechecks(t) PROVE IInv'
    <2>1. /\ pc[t] = "joinWoken" /\ crashed = FALSE /\ UNCHANGED tables
          /\ spaceDeleted' = spaceDeleted
          /\ JoinLoop(t, arg[t], arg[t])
          /\ arg' = [arg EXCEPT ![t] = IF pc'[t] = "user" THEN NULL ELSE arg[t]]
      BY <1>2, <1>10 DEF JoinRechecks, At
    <2>2. Allocated(arg[t]) /\ arg[t] \in Created
      BY <1>1, <2>1 DEF ThreadsOK, Allocated
    <2>3. CASE pc' = [pc EXCEPT ![t] = "joining"] /\ crashed' = FALSE
      <3>1. arg[t] \in Live /\ arg' = [arg EXCEPT ![t] = arg[t]]
        BY <1>2, <1>3, <1>5, <2>1, <2>2, <2>3 DEF JoinLoop
      <3> QED
        BY <1>2, <1>3, <2>1, <2>3, <3>1, Moves
    <2>4. CASE pc' = [pc EXCEPT ![t] = "user"] /\ crashed' = FALSE
      <3>1. arg' = [arg EXCEPT ![t] = NULL]
        BY <1>2, <2>1, <2>4
      <3> QED
        BY <1>2, <1>3, <2>1, <2>4, <3>1, Moves
    <2>5. CASE pc' = pc /\ crashed' = TRUE /\ SomeReuse
      <3>1. pc' = [pc EXCEPT ![t] = "joinWoken"] /\ arg' = [arg EXCEPT ![t] = arg[t]]
        BY <1>2, <2>1, <2>5
      <3>2. crashed' \in BOOLEAN /\ SomeReuse
        BY <2>5
      <3> QED
        BY <1>2, <1>3, <2>1, <2>2, <3>1, <3>2, Moves
    <2> QED
      BY <1>2, <1>3, <1>6, <1>7, <1>8, <2>1, <2>2, <2>3, <2>4, <2>5 DEF JoinLoop
  <1> QED
    BY <1>9, <1>10

\* The stack, the thread_info_t and the thread id of a create, when there are any,
\* are free.
LEMMA CreateFacts ==
    ASSUME IInv, NEW t \in Threads, At(t, "user")
    PROVE  /\ Find(threadsBitmap, MaxThreadsPerProcess) \in (Slots \ threadsBitmap) \cup {-1}
           /\ NewTid \in (Tids \ tidMap) \cup {-1} /\ NewTid # 0
           /\ NewTid + 1 \in 0 .. MaxThreads
           /\ \A n \in Created :
                 n >= nextUserThreadid => ~ Allocated(n) /\ n \notin Live /\ pc[n] = "none"
           /\ t = Main \/ t \in Live
           /\ crashed = FALSE
  <1>1. TypeOK /\ TablesOK
    BY DEF IInv
  <1>2. Find(threadsBitmap, MaxThreadsPerProcess) \in (Slots \ threadsBitmap) \cup {-1}
    BY FindClear DEF Slots
  <1>3. lastId \in Nat
    BY SMTT(60), <1>1 DEF TypeOK
  <1>4. NewTid \in (Tids \ tidMap) \cup {-1}
    BY <1>3, FindStartClear DEF NewTid, Tids
  <1>5. NewTid # 0 /\ NewTid + 1 \in 0 .. MaxThreads
    BY SMTT(60), <1>1, <1>4 DEF TablesOK, Tids, Bits
  <1>6. ASSUME NEW n \in Created, n >= nextUserThreadid
        PROVE  ~ Allocated(n) /\ n \notin Live /\ pc[n] = "none"
    BY SMTT(60), <1>1, <1>6 DEF Allocated, TablesOK, Live, Created, TypeOK
  <1>7. t = Main \/ t \in Live
    BY DEF At, Live, Threads
  <1>8. crashed = FALSE
    BY <1>1 DEF At, TypeOK
  <1> QED
    BY <1>2, <1>4, <1>5, <1>6, <1>7, <1>8

\* A thread that is created gets a stack and a thread id that nobody has.
LEMMA CreateInvariant ==
    ASSUME IInv, NEW t \in Threads, Create(t)
    PROVE  IInv'
  <1> DEFINE slot == Find(threadsBitmap, MaxThreadsPerProcess)
             n == nextUserThreadid
             tid == NewTid
  <1>1. TypeOK /\ LiveOwn /\ TablesOK /\ ThreadsOK /\ ExitsAreSeen
    BY DEF IInv
  <1>2. /\ n \in Created /\ slot \in Slots \ threadsBitmap
        /\ tid \in Tids \ tidMap /\ tid # 0 /\ tid # -1 /\ tid + 1 \in 0 .. MaxThreads
        /\ n \notin Live /\ pc[n] = "none" /\ pc[t] = "user" /\ t # n
        /\ crashed = FALSE /\ (t = Main \/ t \in Live)
    <2>1. At(t, "user") /\ n \in Created /\ slot # -1 /\ tid # -1
      BY DEF Create
    <2>2. n >= nextUserThreadid
      BY SMTT(60), <1>1 DEF TypeOK
    <2>3. pc[t] = "user"
      BY <2>1 DEF At
    <2> HIDE DEF n
    <2> QED
      BY <2>1, <2>2, <2>3, CreateFacts
  <1> HIDE DEF slot, tid
  <1>3. /\ tidMap' = tidMap \cup {tid} /\ lastId' = tid + 1
        /\ threadsBitmap' = threadsBitmap \cup {slot}
        /\ localThreadsInfos' = [localThreadsInfos EXCEPT ![slot] = n]
        /\ threadsInfos' = [i \in Tids |-> IF i = tid THEN n ELSE threadsInfos[i]]
        /\ thread_id' = [thread_id EXCEPT ![n] = tid]
        /\ addrspace_idx' = [addrspace_idx EXCEPT ![n] = slot]
        /\ nextUserThreadid' = n + 1 /\ nThreads' = nThreads + 1
        /\ pc' = [pc EXCEPT ![t] = "created", ![n] = "forked"]
        /\ arg' = [arg EXCEPT ![t] = n]
        /\ failed' = failed /\ spaceDeleted' = spaceDeleted /\ crashed' = crashed
    BY <1>2 DEF Create, TakeTid, AllocateThreadData, Marked, slot, tid, Slots, Bits
  <1> HIDE DEF n
  <1>4. /\ n \in Nat /\ Main \in Threads /\ Main \notin Created
        /\ Created \subseteq Threads /\ Created \subseteq Nat
    BY SMTT(60), <1>2 DEF Main, Threads, Created
  <1>5. TypeOK'
    <2>1. /\ tidMap' \subseteq Tids /\ threadsBitmap' \subseteq Slots
          /\ lastId' \in 0 .. MaxThreads /\ failed' \subseteq Tids
      BY <1>1, <1>2, <1>3 DEF TypeOK
    <2>2. /\ localThreadsInfos' \in [Slots -> Created \cup {NULL}]
          /\ threadsInfos' \in [Tids -> Created \cup {NULL}]
          /\ thread_id' \in [Created -> Tids \cup {-1}]
          /\ addrspace_idx' \in [Created -> Slots \cup {-1}]
      BY <1>1, <1>2, <1>3 DEF TypeOK
    <2>3. nThreads' \in Nat /\ nextUserThreadid' \in 1 .. MaxCreates + 1
      BY SMTT(60), <1>1, <1>2, <1>3 DEF TypeOK, Created
    <2>4. /\ pc' \in [Threads -> Labels]
          /\ arg' \in [Threads -> Created \cup {NULL, -1}]
      BY <1>1, <1>2, <1>3, <1>4 DEF TypeOK, Labels
    <2> QED
      BY <1>1, <1>3, <2>1, <2>2, <2>3, <2>4 DEF TypeOK
  <1>6. /\ pc \in [Threads -> Labels] /\ arg \in [Threads -> Created \cup {NULL, -1}]
        /\ thread_id \in [Created -> Tids \cup {-1}]
        /\ addrspace_idx \in [Created -> Slots \cup {-1}]
        /\ localThreadsInfos \in [Slots -> Created \cup {NULL}]
        /\ threadsInfos \in [Tids -> Created \cup {NULL}]
        /\ tidMap \subseteq Tids /\ threadsBitmap \subseteq Slots
    BY <1>1 DEF TypeOK
  <1>7. Live' = Live \cup {n} /\ Live \subseteq Created
    BY <1>2, <1>3, <1>4, <1>6 DEF Live
  <1>8. \A m \in Created : Allocated(m)' <=> Allocated(m) \/ m = n
    BY SMTT(60), <1>3, <1>4 DEF Allocated, n
  <1>9. \A m \in Created : m # n => thread_id'[m] = thread_id[m]
                                  /\ addrspace_idx'[m] = addrspace_idx[m]
    BY <1>3, <1>6
  <1>10. ~ Allocated(n) /\ \A m : Allocated(m) => m \in Created /\ m < nextUserThreadid'
    <2>1. ~ Allocated(n)
      BY SMTT(60), <1>4 DEF Allocated, n
    <2>2. ASSUME NEW m, Allocated(m) PROVE m \in Created /\ m < nextUserThreadid'
      <3>1. m \in Nat /\ m < n /\ m \in Created
        BY <1>4, <2>2 DEF Allocated, n
      <3> QED
        BY SMTT(60), <1>3, <1>4, <3>1
    <2> QED
      BY <2>1, <2>2
  <1>11. LiveOwn'
    BY SMTT(60), <1>1, <1>2, <1>3, <1>6, <1>7, <1>9 DEF LiveOwn, TablesOK
  <1>12. TablesOK'
    <2>1. 0 \in tidMap' /\ failed' \subseteq tidMap'
      BY <1>1, <1>3 DEF TablesOK
    <2>2. \A m \in Created : ~ Allocated(m)' => pc'[m] = "none"
      BY <1>1, <1>2, <1>3, <1>4, <1>6, <1>8 DEF TablesOK
    <2>3. ASSUME NEW i \in threadsBitmap'
          PROVE  LET m == localThreadsInfos'[i]
                 IN  /\ m \in Created /\ m < nextUserThreadid' /\ addrspace_idx'[m] = i
                     /\ m \in Live' \/ thread_id'[m] = -1
      <3>1. CASE i = slot
        BY SMTT(60), <1>2, <1>3, <1>4, <1>6, <1>7, <3>1
      <3>2. CASE i # slot
        <4>1. i \in threadsBitmap /\ localThreadsInfos'[i] = localThreadsInfos[i]
          BY <1>3, <1>6, <2>3, <3>2
        <4>2. /\ Allocated(localThreadsInfos[i]) /\ addrspace_idx[localThreadsInfos[i]] = i
              /\ localThreadsInfos[i] \in Live \/ thread_id[localThreadsInfos[i]] = -1
          BY <1>1, <4>1 DEF TablesOK
        <4>3. localThreadsInfos[i] \in Created /\ localThreadsInfos[i] # n
          BY <1>10, <4>2 DEF Allocated
        <4> QED
          BY <1>7, <1>9, <1>10, <4>1, <4>2, <4>3
      <3> QED
        BY <3>1, <3>2
    <2>4. ASSUME NEW m \in Created, Allocated(m)', m \notin Live', thread_id'[m] \in tidMap'
          PROVE  Reused(m)'
      <3>1. Allocated(m) /\ m # n /\ m \notin Live /\ thread_id'[m] = thread_id[m]
        BY <1>7, <1>8, <1>9, <2>4
      <3>2. CASE thread_id[m] = tid
        BY <1>2, <1>3, <1>6, <1>8, <3>1, <3>2 DEF Reused
      <3>3. CASE thread_id[m] \in tidMap
        <4>1. Reused(m)
          BY <1>1, <3>1, <3>3 DEF TablesOK
        <4> QED
          BY SMTT(60), <1>3, <1>8, <1>9, <1>10, <3>1, <4>1 DEF Reused
      <3> QED
        BY SMTT(60), <1>3, <2>4, <3>1, <3>2, <3>3
    <2> QED
      BY <2>1, <2>2, <2>3, <2>4 DEF TablesOK, Allocated
  <1>13. ThreadsOK'
    <2>1. pc'[Main] \notin {"none", "forked", "exited"}
      BY <1>1, <1>2, <1>3, <1>4, <1>6 DEF ThreadsOK
    <2>2. ASSUME NEW u \in Threads, pc'[u] \in {"created", "joining", "joinWoken"}
          PROVE  arg'[u] \in Created /\ arg'[u] < nextUserThreadid'
      <3>1. CASE u = t
        BY SMTT(60), <1>2, <1>3, <1>4, <1>6, <3>1
      <3>2. CASE u # t
        <4>1. pc'[u] = pc[u] /\ arg'[u] = arg[u]
          BY <1>3, <1>6, <2>2, <3>2
        <4>2. Allocated(arg[u])
          BY <1>1, <2>2, <4>1 DEF ThreadsOK
        <4> QED
          BY <1>10, <4>1, <4>2
      <3> QED
        BY <3>1, <3>2
    <2> QED
      BY <2>1, <2>2 DEF ThreadsOK, Allocated
  <1>14. ExitsAreSeen'
    <2>1. nThreads' = Cardinality(Live')
      BY <1>1, <1>2, <1>3, <1>7, LiveFinite, FS_AddElement DEF ExitsAreSeen
    <2>2. nThreads \in Nat /\ nThreads' # 0
      BY SMTT(60), <1>1, <1>3 DEF TypeOK
    <2>3. pc'[Main] \notin {"ending", "finished"}
      BY <1>1, <1>2, <1>3, <1>4, <1>6 DEF ExitsAreSeen
    <2>4. \A u \in Threads : pc'[u] = "joining" => arg'[u] \in Live'
      BY <1>1, <1>3, <1>6, <1>7 DEF ExitsAreSeen
    <2> QED
      BY <2>1, <2>2, <2>3, <2>4 DEF ExitsAreSeen
  <1>15. CrashNeedsReuse'
    BY <1>2, <1>3 DEF CrashNeedsReuse
  <1> QED
    BY <1>5, <1>11, <1>12, <1>13, <1>14, <1>15 DEF IInv

\* A create without a stack leaks at most a thread id.
LEMMA NoStackInvariant ==
    ASSUME IInv, NEW t \in Threads, CreateFailsNoStack(t)
    PROVE  IInv'
  <1> DEFINE leaked == IF NewTid = -1 THEN {} ELSE {NewTid}
  <1>1. TypeOK /\ LiveOwn /\ TablesOK /\ ThreadsOK /\ ExitsAreSeen
    BY DEF IInv
  <1>2. /\ leaked \subseteq Tids \ tidMap /\ lastId' \in 0 .. MaxThreads /\ crashed = FALSE
        /\ tidMap' = tidMap \cup leaked /\ failed' = failed \cup leaked
    BY CreateFacts DEF CreateFailsNoStack, TakeTid, Marked
  <1>3. UNCHANGED <<threadsBitmap, localThreadsInfos, threadsInfos, thread_id, addrspace_idx,
                    nThreads, nextUserThreadid, pc, arg, spaceDeleted, crashed>>
    BY DEF CreateFailsNoStack
  <1> HIDE DEF leaked
  <1>4. TypeOK'
    BY <1>1, <1>2, <1>3 DEF TypeOK
  <1>5. Live' = Live /\ \A m : Allocated(m)' <=> Allocated(m)
    BY <1>3 DEF Live, Allocated
  <1>6. LiveOwn'
    BY <1>1, <1>2, <1>3, <1>5 DEF LiveOwn
  <1>7. TablesOK'
    <2>1. ASSUME NEW m \in Created, Allocated(m), m \notin Live, thread_id[m] \in tidMap'
          PROVE  Reused(m)'
      <3>1. CASE thread_id[m] \in tidMap
        <4>1. Reused(m)
          BY <1>1, <2>1, <3>1 DEF TablesOK
        <4> QED
          BY <1>2, <1>3, <1>5, <4>1 DEF Reused
      <3>2. CASE thread_id[m] \in leaked
        BY <1>2, <1>3, <3>2 DEF Reused
      <3> QED
        BY <1>2, <2>1, <3>1, <3>2
    <2>2. /\ 0 \in tidMap' /\ failed' \subseteq tidMap'
          /\ \A n \in Created : ~ Allocated(n) => pc'[n] = "none"
      BY <1>1, <1>2, <1>3 DEF TablesOK
    <2>3. ASSUME NEW i \in threadsBitmap
          PROVE  /\ Allocated(localThreadsInfos[i])' /\ addrspace_idx[localThreadsInfos[i]] = i
                 /\ localThreadsInfos[i] \in Live \/ thread_id[localThreadsInfos[i]] = -1
      BY <1>1, <1>3 DEF TablesOK, Allocated
    <2> QED
      BY <1>3, <1>5, <2>1, <2>2, <2>3 DEF TablesOK
  <1>8. ThreadsOK' /\ ExitsAreSeen'
    BY <1>1, <1>3, <1>5 DEF ThreadsOK, ExitsAreSeen, Allocated
  <1>9. CrashNeedsReuse'
    BY <1>2, <1>3 DEF CrashNeedsReuse
  <1> QED
    BY <1>4, <1>6, <1>7, <1>8, <1>9 DEF IInv

\* A create without a thread id leaks a stack, and a thread_info_t without an id.
LEMMA NoTidInvariant ==
    ASSUME IInv, NEW t \in Threads, CreateFailsNoTid(t)
    PROVE  IInv'
  <1> DEFINE slot == Find(threadsBitmap, MaxThreadsPerProcess)
             n == nextUserThreadid
  <1>1. TypeOK /\ LiveOwn /\ TablesOK /\ ThreadsOK /\ ExitsAreSeen
    BY DEF IInv
  <1>2. /\ n \in Created /\ slot \in Slots \ threadsBitmap
        /\ n \notin Live /\ ~ Allocated(n) /\ crashed = FALSE
    <2>1. At(t, "user") /\ n \in Created /\ slot # -1
      BY DEF CreateFailsNoTid
    <2>2. n >= nextUserThreadid
      BY SMTT(60), <1>1 DEF TypeOK
    <2> HIDE DEF n
    <2> QED
      BY <2>1, <2>2, CreateFacts
  <1> HIDE DEF slot
  <1>3. /\ tidMap' = tidMap /\ lastId' = 0
        /\ threadsBitmap' = threadsBitmap \cup {slot}
        /\ localThreadsInfos' = [localThreadsInfos EXCEPT ![slot] = n]
        /\ threadsInfos' = threadsInfos
        /\ thread_id' = [thread_id EXCEPT ![n] = -1]
        /\ addrspace_idx' = [addrspace_idx EXCEPT ![n] = slot]
        /\ nextUserThreadid' = n + 1
        /\ UNCHANGED <<nThreads, failed, pc, arg, spaceDeleted, crashed>>
    <2>1. /\ NewTid = -1 /\ TakeTid /\ AllocateThreadData(-1, slot, n)
          /\ UNCHANGED <<nThreads, failed, pc, arg, spaceDeleted, crashed>>
      BY DEF CreateFailsNoTid, slot
    <2>2. threadsInfos' = threadsInfos
      BY SMTT(60), <1>1, <2>1 DEF AllocateThreadData, TypeOK, Tids, Bits
    <2> QED
      BY SMTT(60), <1>2, <2>1, <2>2 DEF TakeTid, AllocateThreadData, Marked, Slots, Bits
  <1> HIDE DEF n
  <1>4. n \in Nat /\ Created \subseteq Nat
    BY SMTT(60), <1>2 DEF Created
  <1>5. TypeOK'
    <2>1. nextUserThreadid' \in 1 .. MaxCreates + 1 /\ lastId' \in 0 .. MaxThreads
      BY SMTT(60), <1>2, <1>3 DEF Created
    <2>2. /\ localThreadsInfos' \in [Slots -> Created \cup {NULL}]
          /\ thread_id' \in [Created -> Tids \cup {-1}]
          /\ addrspace_idx' \in [Created -> Slots \cup {-1}]
      BY <1>1, <1>2, <1>3 DEF TypeOK
    <2> QED
      BY <1>1, <1>2, <1>3, <2>1, <2>2 DEF TypeOK
  <1>6. /\ thread_id \in [Created -> Tids \cup {-1}]
        /\ addrspace_idx \in [Created -> Slots \cup {-1}]
        /\ localThreadsInfos \in [Slots -> Created \cup {NULL}]
        /\ tidMap \subseteq Tids /\ threadsBitmap \subseteq Slots
    BY <1>1 DEF TypeOK
  <1>7. Live' = Live /\ Live \subseteq Created
    BY <1>3 DEF Live
  <1>8. \A m \in Created : Allocated(m)' <=> Allocated(m) \/ m = n
    BY SMTT(60), <1>3, <1>4 DEF Allocated, n
  <1>9. \A m \in Created : m # n => thread_id'[m] = thread_id[m]
                                  /\ addrspace_idx'[m] = addrspace_idx[m]
    BY <1>3, <1>6
  <1>10. ASSUME NEW m, Allocated(m) PROVE m \in Created /\ m < nextUserThreadid'
    <2>1. m \in Nat /\ m < n /\ m \in Created
      BY <1>4, <1>10 DEF Allocated, n
    <2> QED
      BY SMTT(60), <1>3, <1>4, <2>1
  <1>11. LiveOwn'
    BY SMTT(60), <1>1, <1>2, <1>3, <1>6, <1>7, <1>9 DEF LiveOwn
  <1>12. TablesOK'
    <2>1. 0 \in tidMap' /\ failed' \subseteq tidMap'
      BY <1>1, <1>3 DEF TablesOK
    <2>2. \A m \in Created : ~ Allocated(m)' => pc'[m] = "none"
      BY <1>1, <1>3, <1>8 DEF TablesOK
    <2>3. ASSUME NEW i \in threadsBitmap'
          PROVE  LET m == localThreadsInfos'[i]
                 IN  /\ m \in Created /\ m < nextUserThreadid' /\ addrspace_idx'[m] = i
                     /\ m \in Live' \/ thread_id'[m] = -1
      <3>1. CASE i = slot
        BY SMTT(60), <1>2, <1>3, <1>4, <1>6, <3>1
      <3>2. CASE i # slot
        <4>1. i \in threadsBitmap /\ localThreadsInfos'[i] = localThreadsInfos[i]
          BY <1>3, <1>6, <2>3, <3>2
        <4>2. /\ Allocated(localThreadsInfos[i]) /\ addrspace_idx[localThreadsInfos[i]] = i
              /\ localThreadsInfos[i] \in Live \/ thread_id[localThreadsInfos[i]] = -1
          BY <1>1, <4>1 DEF TablesOK
        <4>3. localThreadsInfos[i] \in Created /\ localThreadsInfos[i] # n
          BY <1>2, <4>2 DEF Allocated
        <4> QED
          BY <1>7, <1>9, <1>10, <4>1, <4>2, <4>3
      <3> QED
        BY <3>1, <3>2
    <2>4. ASSUME NEW m \in Created, Allocated(m)', m \notin Live', thread_id'[m] \in tidMap'
          PROVE  Reused(m)'
      <3>1. -1 \notin tidMap
        BY SMTT(60), <1>6 DEF Tids, Bits
      <3>2. m # n
        BY <1>2, <1>3, <1>6, <2>4, <3>1
      <3>3. Allocated(m) /\ m \notin Live /\ thread_id[m] \in tidMap
        BY SMTT(60), <1>3, <1>7, <1>8, <1>9, <2>4, <3>2
      <3>4. Reused(m)
        BY <1>1, <3>3 DEF TablesOK
      <3> QED
        BY SMTT(60), <1>2, <1>3, <1>8, <1>9, <3>2, <3>4 DEF Reused
    <2> QED
      BY <2>1, <2>2, <2>3, <2>4 DEF TablesOK, Allocated
  <1>13. ThreadsOK'
    <2>1. \A u \in Threads : pc[u] \in {"created", "joining", "joinWoken"} =>
                                 arg[u] \in Created /\ arg[u] < nextUserThreadid'
      BY <1>1, <1>10 DEF ThreadsOK
    <2> QED
      BY <1>1, <1>3, <2>1 DEF ThreadsOK, Allocated
  <1>14. ExitsAreSeen'
    BY <1>1, <1>3, <1>7 DEF ExitsAreSeen
  <1>15. CrashNeedsReuse'
    BY <1>2, <1>3 DEF CrashNeedsReuse
  <1> QED
    BY <1>5, <1>11, <1>12, <1>13, <1>14, <1>15 DEF IInv

\* ThreadExit gives back what is the thread's own, and wakes who waits for it.
LEMMA ExitInvariant ==
    ASSUME IInv, NEW t \in Threads, Exit(t)
    PROVE  IInv'
  <1> DEFINE i == thread_id[t]
             idx == addrspace_idx[t]
  <1>1. TypeOK /\ LiveOwn /\ TablesOK /\ ThreadsOK /\ ExitsAreSeen
    BY DEF IInv
  <1>2. /\ pc \in [Threads -> Labels] /\ thread_id \in [Created -> Tids \cup {-1}]
        /\ addrspace_idx \in [Created -> Slots \cup {-1}]
        /\ localThreadsInfos \in [Slots -> Created \cup {NULL}]
        /\ tidMap \subseteq Tids /\ threadsBitmap \subseteq Slots
    BY <1>1 DEF TypeOK
  <1>3. /\ Main \in Threads /\ Main \notin Created /\ NULL \notin Created
        /\ Created \subseteq Threads
    BY SMTT(60) DEF Main, Threads, Created, NULL
  <1>4. t \in Live /\ t \in Created /\ t # Main /\ pc[t] = "user" /\ crashed = FALSE
    <2>1. pc[t] = "user" /\ t # Main /\ t \in Created
      BY DEF Exit, At, Threads
    <2>2. crashed = FALSE
      BY <1>1 DEF Exit, At, TypeOK
    <2> QED
      BY <2>1, <2>2 DEF Live
  <1>5. /\ i \in tidMap \ failed /\ i # 0 /\ threadsInfos[i] = t
        /\ idx \in threadsBitmap /\ localThreadsInfos[idx] = t
    BY <1>1, <1>4 DEF LiveOwn
  <1>6. GetThreadInfoFromTid(i) = t /\ t # NULL
    BY SMTT(60), <1>2, <1>3, <1>4, <1>5 DEF GetThreadInfoFromTid, Tids, Bits
  <1> HIDE DEF i
  <1>7. /\ localThreadsInfos' = [localThreadsInfos EXCEPT ![idx] = NULL]
        /\ threadsBitmap' = threadsBitmap \ {idx} /\ tidMap' = tidMap \ {i}
        /\ nThreads' = nThreads - 1
        /\ pc' = [u \in Threads |->
                    CASE u = t -> "exited"
                      [] u \in Joiners(t) -> "joinWoken"
                      [] u = Main /\ pc[u] = "mainWaiting" /\ nThreads - 1 = 0 -> "mainWoken"
                      [] OTHER -> pc[u]]
        /\ UNCHANGED <<lastId, threadsInfos, thread_id, addrspace_idx, nextUserThreadid,
                       failed, crashed, arg, spaceDeleted>>
    BY <1>5, <1>6 DEF Exit, i
  <1> HIDE DEF idx
  <1>8. /\ pc'[t] = "exited"
        /\ \A u \in Threads \ {t} :
              \/ pc[u] = "joining" /\ arg[u] = t /\ pc'[u] = "joinWoken"
              \/ u = Main /\ pc[u] = "mainWaiting" /\ nThreads - 1 = 0 /\ pc'[u] = "mainWoken"
              \/ /\ pc'[u] = pc[u] /\ ~ (pc[u] = "joining" /\ arg[u] = t)
                 /\ ~ (u = Main /\ pc[u] = "mainWaiting" /\ nThreads - 1 = 0)
    BY <1>4, <1>7 DEF Joiners
  <1>9. Live' = Live \ {t} /\ Live \subseteq Created
    BY <1>3, <1>8 DEF Live
  <1>10. \A u \in Live \ {t} : thread_id[u] # i /\ addrspace_idx[u] # idx
    BY <1>1, <1>5 DEF LiveOwn
  <1>11. nThreads \in Nat /\ nThreads' \in Nat /\ nThreads' = Cardinality(Live')
    <2>1. nThreads = Cardinality(Live) /\ Cardinality(Live \ {t}) = Cardinality(Live) - 1
      BY <1>1, <1>4, LiveFinite, FS_RemoveElement DEF ExitsAreSeen
    <2>2. Cardinality(Live \ {t}) \in Nat
      BY LiveFinite, FS_RemoveElement, FS_CardinalityType
    <2> QED
      BY <1>7, <1>9, <2>1, <2>2, LiveFinite
  <1>12. TypeOK'
    <2>1. pc' \in [Threads -> Labels]
      BY <1>2, <1>7 DEF Labels
    <2>2. localThreadsInfos' \in [Slots -> Created \cup {NULL}]
      BY <1>2, <1>7
    <2> QED
      BY <1>1, <1>7, <1>11, <2>1, <2>2 DEF TypeOK
  <1>13. LiveOwn'
    BY <1>1, <1>2, <1>7, <1>9, <1>10 DEF LiveOwn
  <1>14. TablesOK'
    <2>1. 0 \in tidMap' /\ failed' \subseteq tidMap'
      BY <1>1, <1>5, <1>7 DEF TablesOK
    <2>2. \A n : Allocated(n)' <=> Allocated(n)
      BY <1>7 DEF Allocated
    <2>3. ASSUME NEW n \in Created, ~ Allocated(n) PROVE pc'[n] = "none"
      <3>1. pc[n] = "none"
        BY <1>1, <2>3 DEF TablesOK
      <3> QED
        BY <1>3, <1>4, <1>8, <3>1
    <2>4. ASSUME NEW k \in threadsBitmap'
          PROVE  LET m == localThreadsInfos'[k]
                 IN  /\ m \in Created /\ m < nextUserThreadid' /\ addrspace_idx'[m] = k
                     /\ m \in Live' \/ thread_id'[m] = -1
      <3>1. k \in threadsBitmap /\ k # idx /\ localThreadsInfos'[k] = localThreadsInfos[k]
        BY <1>2, <1>7, <2>4
      <3>2. /\ Allocated(localThreadsInfos[k]) /\ addrspace_idx[localThreadsInfos[k]] = k
            /\ localThreadsInfos[k] \in Live \/ thread_id[localThreadsInfos[k]] = -1
        BY <1>1, <3>1 DEF TablesOK
      <3>3. localThreadsInfos[k] # t
        BY <3>1, <3>2 DEF idx
      <3> QED
        BY SMTT(60), <1>7, <1>9, <3>1, <3>2, <3>3 DEF Allocated
    <2>5. ASSUME NEW m \in Created, Allocated(m), m \notin Live', thread_id[m] \in tidMap'
          PROVE  Reused(m)'
      <3>1. m # t
        BY <1>7, <2>5 DEF i
      <3>2. Reused(m)
        BY <1>1, <1>7, <1>9, <2>5, <3>1 DEF TablesOK
      <3> QED
        BY <1>7, <2>2, <3>2 DEF Reused
    <2> QED
      BY <1>7, <2>1, <2>2, <2>3, <2>4, <2>5 DEF TablesOK, Allocated
  <1>15. ThreadsOK'
    <2>1. pc'[Main] \notin {"none", "forked", "exited"}
      BY <1>1, <1>3, <1>4, <1>8 DEF ThreadsOK
    <2>2. ASSUME NEW u \in Threads, pc'[u] \in {"created", "joining", "joinWoken"}
          PROVE  arg[u] \in Created /\ arg[u] < nextUserThreadid
      <3>1. pc[u] \in {"created", "joining", "joinWoken"}
        BY <1>8, <2>2
      <3> QED
        BY <1>1, <3>1 DEF ThreadsOK, Allocated
    <2> QED
      BY <1>7, <2>1, <2>2 DEF ThreadsOK, Allocated
  <1>16. ExitsAreSeen'
    <2>1. pc'[Main] \notin {"ending", "finished"}
      BY <1>1, <1>3, <1>4, <1>8 DEF ExitsAreSeen
    <2>2. pc'[Main] = "mainWaiting" => nThreads' # 0
      BY <1>3, <1>4, <1>7, <1>8
    <2>3. \A u \in Threads : pc'[u] = "joining" => arg'[u] \in Live'
      BY <1>1, <1>7, <1>8, <1>9 DEF ExitsAreSeen
    <2> QED
      BY <1>11, <2>1, <2>2, <2>3 DEF ExitsAreSeen
  <1>17. CrashNeedsReuse'
    BY <1>4, <1>7 DEF CrashNeedsReuse
  <1> QED
    BY <1>12, <1>13, <1>14, <1>15, <1>16, <1>17 DEF IInv

-----------------------------------------------------------------------------
(* The theorems. *)

\* Nothing happens.
LEMMA StutterInvariant == IInv /\ UNCHANGED vars => IInv'
  BY SMTT(60) DEF IInv, TypeOK, LiveOwn, TablesOK, ThreadsOK, ExitsAreSeen, CrashNeedsReuse, Live,
         Allocated, Reused, vars, tables

\* Every step of the system calls preserves the invariant.
THEOREM NextInvariant == IInv /\ [Next]_vars => IInv'
  <1> SUFFICES ASSUME IInv, [Next]_vars PROVE IInv'
    OBVIOUS
  <1>1. Main \in Threads
    BY DEF Threads
  <1>2. CASE MainExit \/ MainRechecks \/ EndProcess
    BY <1>1, <1>2, SimpleInvariant
  <1>3. ASSUME NEW t \in Threads, CreateReturns(t) \/ Start(t) \/ Finish(t) PROVE IInv'
    BY <1>3, SimpleInvariant
  <1>4. ASSUME NEW t \in Threads, Create(t) PROVE IInv'
    BY <1>4, CreateInvariant
  <1>5. ASSUME NEW t \in Threads, CreateFailsNoStack(t) PROVE IInv'
    BY <1>5, NoStackInvariant
  <1>6. ASSUME NEW t \in Threads, CreateFailsNoTid(t) PROVE IInv'
    BY <1>6, NoTidInvariant
  <1>7. ASSUME NEW t \in Threads, Exit(t) PROVE IInv'
    BY <1>7, ExitInvariant
  <1>8. ASSUME NEW t \in Threads, JoinRechecks(t) \/ \E u \in Created : Join(t, u) PROVE IInv'
    BY <1>8, JoinInvariant
  <1>9. CASE UNCHANGED vars
    BY <1>9, StutterInvariant
  <1> QED
    BY <1>2, <1>3, <1>4, <1>5, <1>6, <1>7, <1>8, <1>9 DEF Next

\* The invariant holds in every reachable state.
LEMMA Invariance == Spec => []IInv
  BY InitInvariant, NextInvariant, PTL DEF Spec

\* The tables leave each live thread its own stack and id.
LEMMA OwnFromInvariant == IInv => OwnStackAndTid
  <1> SUFFICES ASSUME IInv PROVE OwnStackAndTid
    OBVIOUS
  <1>1. TypeOK /\ LiveOwn
    BY DEF IInv
  <1>2. ASSUME NEW t \in Live PROVE GetUserThreadId(thread_id[t]) = t
    <2>1. thread_id[t] \in tidMap /\ thread_id[t] > 0 /\ threadsInfos[thread_id[t]] = t
      BY SMTT(60), <1>1 DEF LiveOwn, TypeOK, Tids, Bits, Live
    <2>2. t # NULL
      BY SMTT(60) DEF Live, Created, NULL
    <2> QED
      BY <2>1, <2>2 DEF GetUserThreadId, GetThreadInfoFromTid
  <1>3. ASSUME NEW t \in Threads, pc[t] = "created", arg[t] \in Live
        PROVE  CreateResults(t) = {arg[t]}
    BY <1>2, <1>3 DEF CreateResults, Live
  <1> QED
    BY <1>1, <1>3 DEF OwnStackAndTid, LiveOwn

\* With any number of thread ids, stacks and threads: whatever the order of creates,
\* joins and exits, live threads have stacks and ids of their own.
THEOREM ThreadsOwnTheirStacks == Spec => []OwnStackAndTid
  BY Invariance, OwnFromInvariant, PTL

\* nThreads counts the live threads, and who waits for an exit waits for one that
\* is still to come.
THEOREM NoExitIsMissed == Spec => []ExitsAreSeen
  <1>1. IInv => ExitsAreSeen
    BY DEF IInv
  <1> QED
    BY <1>1, Invariance, PTL

\* The kernel fails in these calls only after a thread id was handed out again,
\* leaked or could not be had.
THEOREM CrashesNeedReuse == Spec => []CrashNeedsReuse
  <1>1. IInv => CrashNeedsReuse
    BY DEF IInv
  <1> QED
    BY <1>1, Invariance, PTL
==============================================================================
