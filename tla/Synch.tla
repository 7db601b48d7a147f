-------------------------------- MODULE Synch --------------------------------
(***************************************************************************)
(* The thread system of threads/thread.cc and threads/scheduler.cc and the *)
(* synchronisation primitives of threads/synch.cc.                         *)
(*                                                                         *)
(* The machine is a uniprocessor.  A primitive disables interrupts on      *)
(* entry and restores them on exit, so between two points where a thread   *)
(* can lose the CPU (it sleeps, or interrupts come back on) everything it  *)
(* does is one step.  Outside the primitives a thread is at "user": there  *)
(* interrupts are on, an interrupt handler may run and the timer may make  *)
(* the thread yield.  A thread that has slept inside a primitive carries   *)
(* the primitive in pc and its object in obj, and continues there with     *)
(* interrupts still off when it gets the CPU back.                         *)
(*                                                                         *)
(* A lock owns one semaphore (Lock::sem), named here by the lock itself.   *)
(***************************************************************************)
EXTENDS WaitList

CONSTANTS
    Threads,        \* the Thread objects
    MainThread,     \* the thread Initialize() makes out of the boot context
    NoThread,       \* the NULL thread pointer
    Semaphores,     \* semaphores used as such
    Devices,        \* those of them that interrupt handlers V()
    Locks,
    Conditions,
    NoObject,       \* obj of a thread that is in no primitive
    initialValue,   \* initialValue[s]: second argument of Semaphore::Semaphore
    conditionLock,  \* conditionLock[c]: the lock every use of c passes
    tid,            \* tid[t]: Thread::threadId
    MaxValue        \* bound on the value of a plain semaphore

AllSems == Semaphores \cup Locks

ASSUME ThreadAssumption ==
    /\ MainThread \in Threads
    /\ NoThread \notin Threads

ASSUME ObjectAssumption ==
    /\ Devices \subseteq Semaphores
    /\ Semaphores \cap Locks = {}
    /\ AllSems \cap Conditions = {}
    /\ NoObject \notin AllSems \cup Conditions
    /\ initialValue \in [Semaphores -> Int]
    /\ conditionLock \in [Conditions -> Locks]
    /\ MaxValue \in Nat

\* Thread ids are handed out once and -1 (no id left) is not among them.
ASSUME TidAssumption ==
    /\ tid \in [Threads -> Int]
    /\ \A t \in Threads : tid[t] # -1
    /\ \A t, u \in Threads : tid[t] = tid[u] => t = u

VARIABLES
    currentThread,
    readyList,
    status,               \* Thread::status, "DELETED" once ~Thread has run
    threadToBeDestroyed,
    value,                \* Semaphore::value
    queue,                \* Semaphore::queue
    lockOwner,            \* Lock::lockOwner
    waitQueue,            \* Condition::waitQueue
    pc,                   \* the primitive the thread is in
    obj,                  \* and the object it is in it with
    holding               \* history: locks whose Acquire returned to the thread

schedVars == <<currentThread, readyList, status, threadToBeDestroyed>>
vars == <<schedVars, value, queue, lockOwner, waitQueue, pc, obj, holding>>

Statuses == {"JUST_CREATED", "RUNNING", "READY", "BLOCKED", "DELETED"}
Labels == {"new", "user", "P", "Acquire", "Wait", "finished"}

-----------------------------------------------------------------------------
(* Initialize(): only the main thread exists and it is running. *)

Init ==
    /\ currentThread = MainThread
    /\ readyList = <<>>
    /\ status = [t \in Threads |->
                    IF t = MainThread THEN "RUNNING" ELSE "JUST_CREATED"]
    /\ threadToBeDestroyed = NoThread
    /\ value = [s \in AllSems |-> IF s \in Locks THEN 1 ELSE initialValue[s]]
    /\ queue = [s \in AllSems |-> <<>>]
    /\ lockOwner = [l \in Locks |-> -1]
    /\ waitQueue = [c \in Conditions |-> <<>>]
    /\ pc = [t \in Threads |-> IF t = MainThread THEN "user" ELSE "new"]
    /\ obj = [t \in Threads |-> NoObject]
    /\ holding = [t \in Threads |-> {}]

-----------------------------------------------------------------------------
(* The scheduler.  ts is a sequence of threads taken off a wait list.      *)

\* The ready list and the statuses after ReadyToRun of every thread of ts.
ReadyListWith(ts) == readyList \o ts
StatusWith(ts) == [t \in Threads |-> IF t \in Range(ts) THEN "READY" ELSE status[t]]

\* Scheduler::Run(next): next gets the CPU and deletes the carcass, if any.
Run(next, rl, st, carcass) ==
    /\ currentThread' = next
    /\ readyList' = rl
    /\ status' = [t \in Threads |-> CASE t = next -> "RUNNING"
                                      [] t # next /\ t = carcass -> "DELETED"
                                      [] OTHER -> st[t]]
    /\ threadToBeDestroyed' = NoThread

\* Thread::Sleep by t: run the first ready thread; if there is none the CPU
\* idles in t's context until an interrupt handler makes one ready.
Sleep(t, rl, st, carcass) ==
    LET blocked == [st EXCEPT ![t] = "BLOCKED"]
    IN  IF rl = <<>>
        THEN /\ currentThread' = t
             /\ readyList' = rl
             /\ status' = blocked
             /\ threadToBeDestroyed' = carcass
        ELSE Run(Head(rl), Tail(rl), blocked, carcass)

\* t has the CPU; at "user" interrupts are enabled.
Executing(t) == currentThread = t /\ status[t] = "RUNNING"
AtUser(t) == Executing(t) /\ pc[t] = "user"

\* The CPU idles in the loop of Thread::Sleep.  A handler may already have made
\* ready the very thread whose context the CPU idles in.
Idling == status[currentThread] # "RUNNING"

\* The loop of Thread::Sleep ends: a handler has made a thread ready.
LeaveIdle ==
    /\ Idling
    /\ readyList # <<>>
    /\ Run(Head(readyList), Tail(readyList), status, threadToBeDestroyed)
    /\ UNCHANGED <<value, queue, lockOwner, waitQueue, pc, obj, holding>>

\* Mutant of Yield: the yielding thread goes to the front of the ready list.
YieldToFront(t) ==
    /\ AtUser(t)
    /\ readyList # <<>>
    /\ Run(Head(readyList), <<t>> \o Tail(readyList),
           [status EXCEPT ![t] = "READY"], threadToBeDestroyed)
    /\ UNCHANGED <<value, queue, lockOwner, waitQueue, pc, obj, holding>>

\* Thread::Yield, called by the thread or on return from the timer handler.
Yield(t) ==
    /\ AtUser(t)
    /\ readyList # <<>>
    /\ Run(Head(readyList), Append(Tail(readyList), t),
           [status EXCEPT ![t] = "READY"], threadToBeDestroyed)
    /\ UNCHANGED <<value, queue, lockOwner, waitQueue, pc, obj, holding>>

\* Thread::Fork of the newly created thread u.
Fork(t, u) ==
    /\ AtUser(t)
    /\ pc[u] = "new"
    /\ readyList' = ReadyListWith(<<u>>)
    /\ status' = StatusWith(<<u>>)
    /\ pc' = [pc EXCEPT ![u] = "user"]
    /\ UNCHANGED <<currentThread, threadToBeDestroyed, value, queue, lockOwner,
                   waitQueue, obj, holding>>

\* Thread::Finish; AssertsHold covers its ASSERT(threadToBeDestroyed == NULL).
Finish(t) ==
    /\ AtUser(t)
    /\ pc' = [pc EXCEPT ![t] = "finished"]
    /\ Sleep(t, readyList, status, t)
    /\ UNCHANGED <<value, queue, lockOwner, waitQueue, obj, holding>>

-----------------------------------------------------------------------------
(* Semaphore.  P is a loop: a thread that finds value 0 queues itself and  *)
(* sleeps, and looks again when it has been woken.                         *)

\* Whether t executes the primitive label on object o: it calls it now, or it
\* was asleep in it and continues.
In(t, label, o) ==
    /\ Executing(t)
    /\ pc[t] = "user" \/ (pc[t] = label /\ obj[t] = o)

\* Semaphore::P on s finds value 0: queue->Append, Sleep.
PSleeps(t, s, label) ==
    /\ value[s] = 0
    /\ queue' = [queue EXCEPT ![s] = Append(@, t)]
    /\ pc' = [pc EXCEPT ![t] = label]
    /\ obj' = [obj EXCEPT ![t] = s]
    /\ Sleep(t, readyList, status, threadToBeDestroyed)
    /\ UNCHANGED <<value, lockOwner, waitQueue, holding>>

\* Mutant of PPasses: the loop condition is gone.
PPassesUnchecked(t, s) ==
    /\ value' = [value EXCEPT ![s] = @ - 1]
    /\ pc' = [pc EXCEPT ![t] = "user"]
    /\ obj' = [obj EXCEPT ![t] = NoObject]
    /\ UNCHANGED <<schedVars, queue, waitQueue>>

\* Semaphore::P on s finds it available and returns.
PPasses(t, s) ==
    /\ value[s] # 0
    /\ value' = [value EXCEPT ![s] = @ - 1]
    /\ pc' = [pc EXCEPT ![t] = "user"]
    /\ obj' = [obj EXCEPT ![t] = NoObject]
    /\ UNCHANGED <<schedVars, queue, waitQueue>>

P(t, s) ==
    /\ In(t, "P", s)
    /\ \/ PSleeps(t, s, "P")
       \/ PPasses(t, s) /\ UNCHANGED <<lockOwner, holding>>

\* What Semaphore::V does to s and to the thread it wakes.
VBody(s) ==
    /\ queue' = [queue EXCEPT ![s] = Remaining(@)]
    /\ value' = [value EXCEPT ![s] = @ + 1]

\* Mutant of V: a waiter is woken only when the value was 0.
VWakesFromZero(t, s) ==
    LET woken == IF value[s] = 0 THEN Removed(queue[s]) ELSE <<>>
    IN  /\ AtUser(t)
        /\ value[s] < MaxValue
        /\ queue' = [queue EXCEPT ![s] = IF value[s] = 0 THEN Remaining(@) ELSE @]
        /\ value' = [value EXCEPT ![s] = @ + 1]
        /\ readyList' = ReadyListWith(woken)
        /\ status' = StatusWith(woken)
        /\ UNCHANGED <<currentThread, threadToBeDestroyed, lockOwner, waitQueue,
                       pc, obj, holding>>

\* Semaphore::V called by a thread.
V(t, s) ==
    /\ AtUser(t)
    /\ value[s] < MaxValue
    /\ VBody(s)
    /\ readyList' = ReadyListWith(Removed(queue[s]))
    /\ status' = StatusWith(Removed(queue[s]))
    /\ UNCHANGED <<currentThread, threadToBeDestroyed, lockOwner, waitQueue, pc,
                   obj, holding>>

\* A device's interrupt handler calls V; it runs in the context of whatever
\* thread the interrupt finds, or of the idle loop.
HandlerV(s) ==
    /\ AtUser(currentThread) \/ Idling
    /\ value[s] < MaxValue
    /\ VBody(s)
    /\ readyList' = ReadyListWith(Removed(queue[s]))
    /\ status' = StatusWith(Removed(queue[s]))
    /\ UNCHANGED <<currentThread, threadToBeDestroyed, lockOwner, waitQueue, pc,
                   obj, holding>>

-----------------------------------------------------------------------------
(* Lock.  Callers release what they hold ("by convention, only the thread  *)
(* that acquired the lock may release it"); that the ASSERT on lockOwner   *)
(* then never fires is AssertsHold.                                        *)

\* Mutant of Acquire: lockOwner is not set.
AcquireUnowned(t, l) ==
    /\ \/ In(t, "Acquire", l)
       \/ Executing(t) /\ pc[t] = "Wait" /\ conditionLock[obj[t]] = l
    /\ \/ PSleeps(t, l, "Acquire")
       \/ /\ PPasses(t, l)
          /\ holding' = [holding EXCEPT ![t] = @ \cup {l}]
          /\ UNCHANGED lockOwner

\* Lock::Acquire, called by t or as the last part of Condition::Wait.
Acquire(t, l) ==
    /\ \/ In(t, "Acquire", l)
       \/ Executing(t) /\ pc[t] = "Wait" /\ conditionLock[obj[t]] = l
    /\ \/ PSleeps(t, l, "Acquire")
       \/ /\ PPasses(t, l)
          /\ lockOwner' = [lockOwner EXCEPT ![l] = tid[t]]
          /\ holding' = [holding EXCEPT ![t] = @ \cup {l}]

\* Lock::Release without the scheduling of the thread it wakes.
ReleaseBody(t, l) ==
    /\ lockOwner' = [lockOwner EXCEPT ![l] = -1]
    /\ VBody(l)
    /\ holding' = [holding EXCEPT ![t] = @ \ {l}]

\* Mutant of Release: the lock becomes free but nobody is woken.
ReleaseSilently(t, l) ==
    /\ AtUser(t)
    /\ l \in holding[t]
    /\ lockOwner' = [lockOwner EXCEPT ![l] = -1]
    /\ value' = [value EXCEPT ![l] = @ + 1]
    /\ holding' = [holding EXCEPT ![t] = @ \ {l}]
    /\ UNCHANGED <<schedVars, queue, waitQueue, pc, obj>>

\* Lock::Release.
Release(t, l) ==
    /\ AtUser(t)
    /\ l \in holding[t]
    /\ ReleaseBody(t, l)
    /\ readyList' = ReadyListWith(Removed(queue[l]))
    /\ status' = StatusWith(Removed(queue[l]))
    /\ UNCHANGED <<currentThread, threadToBeDestroyed, waitQueue, pc, obj>>

-----------------------------------------------------------------------------
(* Condition. *)

\* Condition::Wait up to its Sleep: queue, release (which may make a thread
\* ready) and sleep, all with interrupts off.
Wait(t, c) ==
    LET l == conditionLock[c]
        woken == Removed(queue[l])
    IN  /\ AtUser(t)
        /\ l \in holding[t]
        /\ waitQueue' = [waitQueue EXCEPT ![c] = Append(@, t)]
        /\ ReleaseBody(t, l)
        /\ pc' = [pc EXCEPT ![t] = "Wait"]
        /\ obj' = [obj EXCEPT ![t] = c]
        /\ Sleep(t, ReadyListWith(woken), StatusWith(woken), threadToBeDestroyed)

\* Make the threads ts, the first ones of c's queue, ready.
WakeWaiters(c, ts, rest) ==
    /\ waitQueue' = [waitQueue EXCEPT ![c] = rest]
    /\ readyList' = ReadyListWith(ts)
    /\ status' = StatusWith(ts)
    /\ UNCHANGED <<currentThread, threadToBeDestroyed, value, queue, lockOwner,
                   pc, obj, holding>>

\* Mutants of Signal: the woken thread stays queued; the lock is not needed.
SignalKeepsQueued(t, c) ==
    /\ AtUser(t)
    /\ conditionLock[c] \in holding[t]
    /\ WakeWaiters(c, Removed(waitQueue[c]), waitQueue[c])

SignalUnlocked(t, c) ==
    /\ AtUser(t)
    /\ WakeWaiters(c, Removed(waitQueue[c]), Remaining(waitQueue[c]))

Signal(t, c) ==
    /\ AtUser(t)
    /\ conditionLock[c] \in holding[t]
    /\ WakeWaiters(c, Removed(waitQueue[c]), Remaining(waitQueue[c]))

Broadcast(t, c) ==
    /\ AtUser(t)
    /\ conditionLock[c] \in holding[t]
    /\ WakeWaiters(c, waitQueue[c], <<>>)

-----------------------------------------------------------------------------
Next ==
    \/ LeaveIdle
    \/ \E s \in Devices : HandlerV(s)
    \/ \E t \in Threads :
        \/ Yield(t)
        \/ Finish(t)
        \/ \E u \in Threads : Fork(t, u)
        \/ \E s \in Semaphores : P(t, s) \/ V(t, s)
        \/ \E l \in Locks : Acquire(t, l) \/ Release(t, l)
        \/ \E c \in Conditions : Wait(t, c) \/ Signal(t, c) \/ Broadcast(t, c)

Spec == Init /\ [][Next]_vars

\* t, inside a primitive with interrupts off, goes on with it.
Continue(t) ==
    /\ pc[t] # "user"
    /\ \/ \E s \in Semaphores : P(t, s)
       \/ \E l \in Locks : Acquire(t, l)

\* With the timer on (-rs) a running thread keeps being made to yield, so a
\* ready thread gets the CPU; with interrupts off nothing can stop a thread.
FairSpec ==
    /\ Spec
    /\ WF_vars(LeaveIdle)
    /\ \A t \in Threads : WF_vars(Yield(t)) /\ WF_vars(Continue(t))

-----------------------------------------------------------------------------
(* Properties. *)

\* Every variable has its type: no list holds the NULL that List::Remove
\* returns when it finds nobody.
TypeOK ==
    /\ currentThread \in Threads
    /\ readyList \in Seq(Threads)
    /\ status \in [Threads -> Statuses]
    /\ threadToBeDestroyed \in Threads \cup {NoThread}
    /\ value \in [AllSems -> Int]
    /\ queue \in [AllSems -> Seq(Threads)]
    /\ lockOwner \in [Locks -> Int]
    /\ waitQueue \in [Conditions -> Seq(Threads)]
    /\ pc \in [Threads -> Labels]
    /\ obj \in [Threads -> AllSems \cup Conditions \cup {NoObject}]
    /\ holding \in [Threads -> SUBSET Locks]

\* The ready list rl holds the threads that are READY in st, once each.
ReadyOK(rl, st) ==
    /\ NoDuplicates(rl)
    /\ \A t \in Threads : (st[t] = "READY") <=> (t \in Range(rl))

\* A thread is in exactly one place, the one its status and its stack say:
\* the CPU, the ready list, the wait list of the object it sleeps on, or the
\* hands of Finish.  So no wake-up (V, Signal, Broadcast, Fork) ever puts a
\* thread on the ready list twice, and no list holds a deleted thread.
OnePlace ==
    /\ ReadyOK(readyList, status)
    /\ \A s \in AllSems : NoDuplicates(queue[s])
    /\ \A c \in Conditions : NoDuplicates(waitQueue[c])
    /\ status[currentThread] \in {"RUNNING", "BLOCKED", "READY"}
    /\ \A t \in Threads :
        /\ (status[t] = "RUNNING") => (t = currentThread)
        /\ (status[t] = "JUST_CREATED") <=> (pc[t] = "new")
        /\ (status[t] = "DELETED") => (pc[t] = "finished")
        /\ (pc[t] = "finished") => (status[t] = "DELETED" \/ threadToBeDestroyed = t)
        /\ \A s \in AllSems :
            (t \in Range(queue[s])) <=> (/\ status[t] = "BLOCKED"
                                         /\ pc[t] \in {"P", "Acquire"}
                                         /\ obj[t] = s)
        /\ \A c \in Conditions :
            (t \in Range(waitQueue[c])) <=> (/\ status[t] = "BLOCKED"
                                             /\ pc[t] = "Wait"
                                             /\ obj[t] = c)

\* The ASSERTs of Release, Wait, Signal and Broadcast (the lock is held by the
\* current thread), of Finish (no thread to be destroyed is lost) and of
\* ~Thread (a thread never deletes itself) do not fire.
AssertsHold ==
    /\ \A t \in Threads : \A l \in holding[t] : lockOwner[l] = tid[t]
    /\ status[currentThread] = "RUNNING" => threadToBeDestroyed = NoThread
    /\ threadToBeDestroyed # NoThread =>
            /\ threadToBeDestroyed = currentThread
            /\ pc[currentThread] = "finished"
            /\ status[currentThread] = "BLOCKED"

\* Two threads are never both between Acquire and Release of a lock, although
\* the lock is taken by whoever finds the semaphore at 1 and not handed over:
\* the semaphore is at 1 exactly while the lock has no owner.
MutualExclusion ==
    \A l \in Locks :
        /\ value[l] = IF lockOwner[l] = -1 THEN 1 ELSE 0
        /\ \A t, u \in Threads : l \in holding[t] /\ l \in holding[u] => t = u

\* Threads V has taken off s's queue that have not looked at value since.
Woken(s) == {t \in Threads : /\ pc[t] \in {"P", "Acquire"}
                             /\ obj[t] = s
                             /\ status[t] # "BLOCKED"}

\* No V is lost: while threads sleep on s, every unit of its value has a woken
\* thread of its own that will look at it, although any thread may take the
\* unit first and the woken one then goes back to sleep.
NoLostWakeup ==
    \A s \in AllSems : queue[s] # <<>> => ExistsInjection(1 .. value[s], Woken(s))

\* The FIFO ready list and the timer starve nobody.
ReadyRuns == \A t \in Threads : status[t] = "READY" ~> status[t] = "RUNNING"

\* A free lock somebody is queued for gets taken by somebody.
FreeLockIsTaken ==
    \A l \in Locks : (value[l] = 1 /\ queue[l] # <<>>) ~> (value[l] = 0)

\* The primitives implement the lock and condition of synch.h: in particular
\* releasing the lock and starting to wait are one step of Wait, and a waiter
\* leaves the condition only by a Signal or Broadcast of the lock's holder.
MonitorImpl == INSTANCE Monitor WITH
    holder <- [l \in Locks |-> {t \in Threads : lockOwner[l] = tid[t]}],
    waiting <- [c \in Conditions |-> Range(waitQueue[c])]
MonitorSpec == MonitorImpl!Spec
==============================================================================
