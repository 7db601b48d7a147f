----------------------------- MODULE UserThreads -----------------------------
(***************************************************************************)
(* The user threads of one process: ThreadCreate, ThreadExit, ThreadJoin   *)
(* and the exit of the main thread (userprog/userthread.cc, addrspace.cc,  *)
(* exception.cc).                                                          *)
(*                                                                         *)
(* Every access to the thread tables is made under threadsLock, so a       *)
(* critical section is one step (Monitor, which Synch implements); what a  *)
(* thread does after it has released the lock is a step of its own.  A     *)
(* thread that waits on a condition is asleep until a broadcast or signal, *)
(* then woken, and rechecks when it has the lock again.                    *)
(*                                                                         *)
(* The n-th thread that got a thread_info_t has user thread id n and is    *)
(* called n here; 0 is the main thread.  Its thread_info_t is never freed. *)
(***************************************************************************)
EXTENDS BitMap, FiniteSets

CONSTANTS
    MaxThreads,            \* size of tidMap
    MaxThreadsPerProcess,  \* stacks in the address space
    MaxCreates             \* bound on the thread_info_t's a run may allocate

ASSUME SizeAssumption ==
    MaxThreads \in Nat \ {0} /\ MaxThreadsPerProcess \in Nat \ {0} /\ MaxCreates \in Nat

Main == 0
Created == 1 .. MaxCreates
Threads == {Main} \cup Created
Tids == Bits(MaxThreads)
Slots == Bits(MaxThreadsPerProcess)
NULL == 0

VARIABLES
    tidMap, lastId,        \* the thread ids in use, GetNewThreadId's static
    threadsBitmap,         \* the stacks in use
    localThreadsInfos,     \* localThreadsInfos[slot]: a thread_info_t or NULL
    threadsInfos,          \* threadsInfos[tid]
    thread_id,             \* thread_id[n], addrspace_idx[n]: fields of the n-th
    addrspace_idx,         \*   thread_info_t
    nThreads,
    nextUserThreadid,
    failed,                \* history: threads whose creation failed
    pc,
    arg,                   \* the new thread of a create, then its result; the target of a
                           \*   join
    spaceDeleted,          \* endProcess has deleted the address space
    crashed                \* the kernel has dereferenced NULL or failed an ASSERT

tables == <<tidMap, lastId, threadsBitmap, localThreadsInfos, threadsInfos, thread_id,
            addrspace_idx, nThreads, nextUserThreadid, failed>>
vars == <<tables, pc, arg, spaceDeleted, crashed>>

Labels == {"none", "forked", "user", "created", "joining", "joinWoken", "exited",
           "mainWaiting", "mainWoken", "ending", "finished"}

\* The main thread has got thread id 0 at boot and has no thread_info_t.  Threads
\* of other processes may hold any of the other thread ids.
Init ==
    /\ tidMap \in {{0} \cup others : others \in SUBSET Tids}
    /\ lastId = 1
    /\ threadsBitmap = {}
    /\ localThreadsInfos = [i \in Slots |-> NULL]
    /\ threadsInfos = [i \in Tids |-> NULL]
    /\ thread_id = [n \in Created |-> -1]
    /\ addrspace_idx = [n \in Created |-> -1]
    /\ nThreads = 0
    /\ nextUserThreadid = 1
    /\ failed = {}
    /\ pc = [t \in Threads |-> IF t = Main THEN "user" ELSE "none"]
    /\ arg = [t \in Threads |-> NULL]
    /\ spaceDeleted = FALSE
    /\ crashed = FALSE

At(t, label) == pc[t] = label /\ ~crashed

-----------------------------------------------------------------------------
(* ThreadCreate. *)

\* (Mutant of GetThreadInfoFromTid: the first user thread's id is refused too.)
GetThreadInfoFromTidAboveOne(i) == IF i > 1 /\ i \in tidMap THEN threadsInfos[i] ELSE NULL

GetThreadInfoFromTid(i) == IF i > 0 /\ i \in tidMap THEN threadsInfos[i] ELSE NULL

GetThreadInfoFromUserthreadId(u) ==
    IF \E i \in threadsBitmap : localThreadsInfos[i] = u THEN u ELSE NULL

\* Thread::GetUserThreadId of the thread with thread id i.
GetUserThreadId(i) ==
    IF GetThreadInfoFromTid(i) # NULL THEN GetThreadInfoFromTid(i) ELSE -1

\* new Thread: the thread id it gets, -1 when tidMap is full.
NewTid == FindStart(tidMap, MaxThreads, lastId)

TakeTid == tidMap' = Marked(tidMap, NewTid) /\ lastId' = NewTid + 1

\* (Mutant of AllocateThreadData: the stack is not marked.)
AllocateUnmarked(tid, slot, n) ==
    /\ localThreadsInfos' = [localThreadsInfos EXCEPT ![slot] = n]
    /\ threadsInfos' = [i \in Tids |-> IF i = tid THEN n ELSE threadsInfos[i]]
    /\ thread_id' = [thread_id EXCEPT ![n] = tid]
    /\ addrspace_idx' = [addrspace_idx EXCEPT ![n] = slot]
    /\ nextUserThreadid' = n + 1
    /\ UNCHANGED threadsBitmap

\* AllocateThreadData(tid) for stack slot: thread_info_t n.  With tid -1 the
\* code also writes threadsInfos[-1], outside the table.
AllocateThreadData(tid, slot, n) ==
    /\ threadsBitmap' = Marked(threadsBitmap, slot)
    /\ localThreadsInfos' = [localThreadsInfos EXCEPT ![slot] = n]
    /\ threadsInfos' = [i \in Tids |-> IF i = tid THEN n ELSE threadsInfos[i]]
    /\ thread_id' = [thread_id EXCEPT ![n] = tid]
    /\ addrspace_idx' = [addrspace_idx EXCEPT ![n] = slot]
    /\ nextUserThreadid' = n + 1

\* do_UserThreadCreate up to the release of threadsLock, all well.
Create(t) ==
    LET slot == Find(threadsBitmap, MaxThreadsPerProcess)
        n == nextUserThreadid
    IN  /\ At(t, "user")
        /\ n \in Created
        /\ TakeTid
        /\ slot # -1 /\ NewTid # -1
        /\ AllocateThreadData(NewTid, slot, n)
        /\ nThreads' = nThreads + 1
        /\ pc' = [pc EXCEPT ![t] = "created", ![n] = "forked"]
        /\ arg' = [arg EXCEPT ![t] = n]
        /\ UNCHANGED <<failed, spaceDeleted, crashed>>

\* The stacks are all in use: the Thread object, and with it its id, leaks.
CreateFailsNoStack(t) ==
    /\ At(t, "user")
    /\ Find(threadsBitmap, MaxThreadsPerProcess) = -1
    /\ TakeTid
    /\ failed' = failed \cup (IF NewTid = -1 THEN {} ELSE {NewTid})
    /\ UNCHANGED <<threadsBitmap, localThreadsInfos, threadsInfos, thread_id, addrspace_idx,
                   nThreads, nextUserThreadid, pc, arg, spaceDeleted, crashed>>

\* The thread ids are all in use: the stack that was allocated stays so.
CreateFailsNoTid(t) ==
    LET slot == Find(threadsBitmap, MaxThreadsPerProcess)
        n == nextUserThreadid
    IN  /\ At(t, "user")
        /\ n \in Created
        /\ slot # -1 /\ NewTid = -1
        /\ TakeTid
        /\ AllocateThreadData(-1, slot, n)
        /\ UNCHANGED <<nThreads, failed, pc, arg, spaceDeleted, crashed>>

\* What the last line of do_UserThreadCreate returns, without the lock: it asks
\* the Thread object for its user thread id.  Once that thread has finished the
\* object is deleted and anything may come back.
CreateResults(t) ==
    IF pc[arg[t]] = "finished" THEN Created \cup {-1} ELSE {GetUserThreadId(thread_id[arg[t]])}

CreateReturns(t) ==
    /\ At(t, "created")
    /\ pc' = [pc EXCEPT ![t] = "user"]
    /\ \E id \in CreateResults(t) : arg' = [arg EXCEPT ![t] = id]
    /\ UNCHANGED <<tables, spaceDeleted, crashed>>

\* StartUserThread.
Start(t) ==
    /\ At(t, "forked")
    /\ pc' = [pc EXCEPT ![t] = "user"]
    /\ crashed' = (GetThreadInfoFromTid(thread_id[t]) = NULL)
    /\ UNCHANGED <<tables, arg, spaceDeleted>>

-----------------------------------------------------------------------------
(* ThreadExit. *)

\* The threads asleep on the condition of thread_info_t n.
\* (Mutant: nobody is on it.)
NoJoiners(n) == {}

Joiners(n) == {t \in Threads : pc[t] = "joining" /\ arg[t] = n}

\* do_UserThreadExit up to the release of the lock.  The main thread waits on
\* nThreadsCond, which is signalled when no other thread is left.
Exit(t) ==
    LET i == thread_id[t]
        n == GetThreadInfoFromTid(i)
        left == nThreads - 1
        woken == [u \in Threads |->
                    CASE u = t -> "exited"
                      [] u \in Joiners(n) -> "joinWoken"
                      [] u = Main /\ pc[u] = "mainWaiting" /\ left = 0 -> "mainWoken"
                      [] OTHER -> pc[u]]
    IN  /\ At(t, "user")
        /\ t # Main
        /\ IF n = NULL \/ addrspace_idx[n] \notin threadsBitmap
           THEN /\ crashed' = TRUE
                /\ UNCHANGED <<tables, pc>>
           ELSE /\ localThreadsInfos' = [localThreadsInfos EXCEPT ![addrspace_idx[n]] = NULL]
                /\ threadsBitmap' = threadsBitmap \ {addrspace_idx[n]}
                /\ tidMap' = tidMap \ {i}
                /\ nThreads' = left
                /\ pc' = woken
                /\ UNCHANGED <<lastId, threadsInfos, thread_id, addrspace_idx,
                               nextUserThreadid, failed, crashed>>
        /\ UNCHANGED <<arg, spaceDeleted>>

\* Thread::Finish: the next thread deletes the Thread object.
Finish(t) ==
    /\ At(t, "exited")
    /\ pc' = [pc EXCEPT ![t] = "finished"]
    /\ UNCHANGED <<tables, arg, spaceDeleted, crashed>>

-----------------------------------------------------------------------------
(* ThreadJoin: while the target's id is in use, sleep on its condition. *)

\* The loop of do_UserThreadJoin from a test of its condition on, for a caller
\* t whose tinfo is n and whose argument is u.
JoinLoop(t, n, u) ==
    IF n = NULL THEN pc' = [pc EXCEPT ![t] = "user"] /\ UNCHANGED crashed
    ELSE IF thread_id[n] = -1 THEN crashed' = TRUE /\ UNCHANGED pc
    ELSE IF thread_id[n] \notin tidMap
         THEN pc' = [pc EXCEPT ![t] = "user"] /\ UNCHANGED crashed
    ELSE IF GetThreadInfoFromUserthreadId(u) = NULL
         THEN crashed' = TRUE /\ UNCHANGED pc
         ELSE pc' = [pc EXCEPT ![t] = "joining"] /\ UNCHANGED crashed

\* A call with user thread id u.
Join(t, u) ==
    /\ At(t, "user")
    /\ JoinLoop(t, GetThreadInfoFromUserthreadId(u), u)
    /\ arg' = [arg EXCEPT ![t] = IF pc'[t] = "joining" THEN u ELSE NULL]
    /\ UNCHANGED <<tables, spaceDeleted>>

\* A joiner that was woken has the lock again and tests the loop's condition.
JoinRechecks(t) ==
    /\ At(t, "joinWoken")
    /\ JoinLoop(t, arg[t], arg[t])
    /\ arg' = [arg EXCEPT ![t] = IF pc'[t] = "user" THEN NULL ELSE arg[t]]
    /\ UNCHANGED <<tables, spaceDeleted>>

-----------------------------------------------------------------------------
(* The main thread exits when the other threads have, and the process ends. *)

\* synchThreadsMainExit: the first test of its loop.
MainExit ==
    /\ At(Main, "user")
    /\ pc' = [pc EXCEPT ![Main] = IF nThreads # 0 THEN "mainWaiting" ELSE "ending"]
    /\ UNCHANGED <<tables, arg, spaceDeleted, crashed>>

\* (Mutant of MainRechecks: off by one in the test.)
MainSleepsAgain ==
    /\ At(Main, "mainWoken")
    /\ pc' = [pc EXCEPT ![Main] = IF nThreads >= 0 THEN "mainWaiting" ELSE "ending"]
    /\ UNCHANGED <<tables, arg, spaceDeleted, crashed>>

\* The test after the main thread was signalled.
MainRechecks ==
    /\ At(Main, "mainWoken")
    /\ pc' = [pc EXCEPT ![Main] = IF nThreads # 0 THEN "mainWaiting" ELSE "ending"]
    /\ UNCHANGED <<tables, arg, spaceDeleted, crashed>>

\* endProcess of a process that is not the last one.
EndProcess ==
    /\ At(Main, "ending")
    /\ spaceDeleted' = TRUE
    /\ pc' = [pc EXCEPT ![Main] = "finished"]
    /\ UNCHANGED <<tables, arg, crashed>>

-----------------------------------------------------------------------------
Next ==
    \/ MainExit \/ MainRechecks \/ EndProcess
    \/ \E t \in Threads :
        \/ Create(t) \/ CreateFailsNoStack(t) \/ CreateFailsNoTid(t) \/ CreateReturns(t)
        \/ Start(t) \/ Exit(t) \/ Finish(t)
        \/ JoinRechecks(t)
        \/ \E u \in Created : Join(t, u)

Spec == Init /\ [][Next]_vars

\* What a thread does in the kernel until it waits or is back in user code.
KernelStep(t) ==
    \/ CreateReturns(t) \/ Start(t) \/ Finish(t) \/ JoinRechecks(t)
    \/ t = Main /\ (MainRechecks \/ EndProcess)

\* Every ready thread gets the CPU (ReadyRuns of Synch); user code promises
\* nothing, so no fairness on what a thread at "user" does.
FairSpec == Spec /\ \A t \in Threads : WF_vars(KernelStep(t))

-----------------------------------------------------------------------------
(* Properties. *)

\* Threads that have been forked and have not gone through Exit.
Live == {t \in Created : pc[t] \notin {"none", "exited", "finished"}}

TypeOK ==
    /\ tidMap \subseteq Tids /\ lastId \in 0 .. MaxThreads
    /\ threadsBitmap \subseteq Slots
    /\ localThreadsInfos \in [Slots -> Created \cup {NULL}]
    /\ threadsInfos \in [Tids -> Created \cup {NULL}]
    /\ thread_id \in [Created -> Tids \cup {-1}]
    /\ addrspace_idx \in [Created -> Slots \cup {-1}]
    /\ nThreads \in Nat
    /\ nextUserThreadid \in 1 .. MaxCreates + 1
    /\ failed \subseteq Tids
    /\ pc \in [Threads -> Labels]
    /\ arg \in [Threads -> Created \cup {NULL, -1}]
    /\ spaceDeleted \in BOOLEAN /\ crashed \in BOOLEAN

\* Every live thread has a stack and a thread id of its own, and the tables
\* lead from either to it; so no two live threads run on one stack, and a
\* ThreadCreate that returns before its thread has exited returns that thread's
\* id, although it looks it up without the lock.
OwnStackAndTid ==
    /\ TypeOK
    /\ \A t \in Live :
        /\ thread_id[t] \in tidMap \ failed
        /\ threadsInfos[thread_id[t]] = t
        /\ addrspace_idx[t] \in threadsBitmap
        /\ localThreadsInfos[addrspace_idx[t]] = t
    /\ \A t, u \in Live :
        t # u => thread_id[t] # thread_id[u] /\ addrspace_idx[t] # addrspace_idx[u]
    /\ \A t \in Threads : pc[t] = "created" /\ arg[t] \in Live => CreateResults(t) = {arg[t]}

\* nThreads is the "Number of thread that didn't terminate" (addrspace.h), the
\* process ends only when every thread it created has exited, and nobody sleeps
\* through an exit: a joiner sleeps only on a thread that is still to exit, and
\* the main thread only while some thread is.
ExitsAreSeen ==
    /\ nThreads = Cardinality(Live)
    /\ pc[Main] \in {"ending", "finished"} => Live = {}
    /\ pc[Main] = "mainWaiting" => nThreads # 0
    /\ \A t \in Threads : pc[t] = "joining" => arg[t] \in Live

\* Only when a thread id is handed out a second time, or none is left, can an
\* ASSERT of Test or DeleteThreadData fail, or join or start dereference a NULL
\* thread_info_t.
CrashNeedsReuse ==
    crashed => \E m, n \in 1 .. nextUserThreadid - 1 :
                   thread_id[m] \in failed \cup {-1} \/ (m # n /\ thread_id[m] = thread_id[n])

\* Who waits for an exit goes on after it, unless the kernel crashes on a thread id
\* that was handed out again: a joiner whose target has exited gets out of
\* ThreadJoin, and a main thread ends the process once all threads have exited.
WaitersGoOn ==
    /\ \A t \in Threads :
          (pc[t] \in {"joining", "joinWoken"} /\ arg[t] \notin Live) ~>
              (pc[t] = "user" \/ crashed)
    /\ (pc[Main] \in {"mainWaiting", "mainWoken"} /\ Live = {}) ~> (spaceDeleted \/ crashed)
==============================================================================
