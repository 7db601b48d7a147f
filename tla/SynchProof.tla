----------------------------- MODULE SynchProof ------------------------------
(***************************************************************************)
(* The safety properties of Synch, for any number of threads, semaphores,  *)
(* locks and conditions: their conjunction is inductive, which is shown    *)
(* action by action, and Synch implements Monitor.                         *)
(***************************************************************************)
EXTENDS Synch, DataLemmas

IInv == TypeOK /\ OnePlace /\ AssertsHold /\ MutualExclusion /\ NoLostWakeup

\* Zenon has a minute for a leaf; a leaf with arithmetic, functions or sequences asks
\* for the SMT solver.
USE ZenonT(60)

USE ThreadAssumption, ObjectAssumption

-----------------------------------------------------------------------------
(* The scheduler. *)

\* What List::Remove returns and leaves on a wait list.
LEMMA RemoveList ==
    ASSUME NEW q \in Seq(Threads), NoDuplicates(q)
    PROVE  /\ Removed(q) \in Seq(Threads) /\ Remaining(q) \in Seq(Threads)
           /\ NoDuplicates(Removed(q)) /\ NoDuplicates(Remaining(q))
           /\ Range(Removed(q)) \subseteq Range(q)
           /\ Range(Remaining(q)) = Range(q) \ Range(Removed(q))
           /\ q # <<>> => \E t \in Range(q) : Range(Removed(q)) = {t}
           /\ q = <<>> => Range(Removed(q)) = {} /\ Remaining(q) = <<>>
  <1>1. CASE q = <<>>
    BY <1>1, EmptyList DEF Removed, Remaining, NoDuplicates
  <1>2. CASE q # <<>>
    <2>1. /\ Head(q) \in Threads /\ Head(q) \in Range(q)
          /\ Tail(q) \in Seq(Threads) /\ NoDuplicates(Tail(q))
          /\ Range(Tail(q)) = Range(q) \ {Head(q)}
      BY <1>2, RemoveHead
    <2>2. <<Head(q)>> \in Seq(Threads) /\ Len(<<Head(q)>>) = 1
      BY SMTT(60), <2>1
    <2>3. NoDuplicates(<<Head(q)>>)
      BY SMTT(60), <2>2 DEF NoDuplicates
    <2>4. Range(<<Head(q)>>) = {Head(q)}
      BY SMTT(60), <2>2 DEF Range
    <2> QED
      BY <1>2, <2>1, <2>2, <2>3, <2>4 DEF Removed, Remaining
  <1> QED
    BY <1>1, <1>2

\* ReadyToRun of threads that are not ready yet.
LEMMA WakeReady ==
    ASSUME TypeOK, ReadyOK(readyList, status),
           NEW ts \in Seq(Threads), NoDuplicates(ts),
           \A t \in Range(ts) : status[t] # "READY"
    PROVE  /\ ReadyListWith(ts) \in Seq(Threads)
           /\ StatusWith(ts) \in [Threads -> Statuses]
           /\ ReadyOK(ReadyListWith(ts), StatusWith(ts))
           /\ \A t \in Threads : t \in Range(ts) => StatusWith(ts)[t] = "READY"
           /\ \A t \in Threads : t \notin Range(ts) => StatusWith(ts)[t] = status[t]
  <1>1. readyList \in Seq(Threads) /\ status \in [Threads -> Statuses]
    BY DEF TypeOK
  <1>2. \A t \in Range(ts) : t \in Threads
    BY SMTT(60) DEF Range
  <1>3. Range(readyList) \cap Range(ts) = {}
    BY <1>2 DEF ReadyOK
  <1>4. /\ ReadyListWith(ts) \in Seq(Threads)
        /\ Range(ReadyListWith(ts)) = Range(readyList) \cup Range(ts)
        /\ NoDuplicates(ReadyListWith(ts))
    BY SMTT(60), <1>1, <1>3, ConcatList DEF ReadyListWith, ReadyOK
  <1>5. /\ StatusWith(ts) \in [Threads -> Statuses]
        /\ \A t \in Threads : t \in Range(ts) => StatusWith(ts)[t] = "READY"
        /\ \A t \in Threads : t \notin Range(ts) => StatusWith(ts)[t] = status[t]
    BY <1>1 DEF StatusWith, Statuses
  <1> QED
    BY <1>4, <1>5 DEF ReadyOK

\* Scheduler::Run of the first thread of a ready list.
LEMMA RunReady ==
    ASSUME NEW rl \in Seq(Threads), NEW st \in [Threads -> Statuses], rl # <<>>,
           ReadyOK(rl, st), NEW carcass, carcass \notin Range(rl),
           \A u \in Threads : st[u] # "RUNNING",
           Run(Head(rl), Tail(rl), st, carcass)
    PROVE  /\ currentThread' \in Threads
           /\ readyList' \in Seq(Threads)
           /\ status' \in [Threads -> Statuses]
           /\ ReadyOK(readyList', status')
           /\ threadToBeDestroyed' = NoThread
           /\ st[currentThread'] = "READY" /\ status'[currentThread'] = "RUNNING"
           /\ \A u \in Threads :
                 u # currentThread' => status'[u] = IF u = carcass THEN "DELETED" ELSE st[u]
  <1>1. /\ Head(rl) \in Threads /\ Head(rl) \in Range(rl)
        /\ Tail(rl) \in Seq(Threads) /\ NoDuplicates(Tail(rl))
        /\ Range(Tail(rl)) = Range(rl) \ {Head(rl)}
    BY RemoveHead DEF ReadyOK
  <1>2. /\ currentThread' = Head(rl) /\ readyList' = Tail(rl)
        /\ threadToBeDestroyed' = NoThread
        /\ status' = [t \in Threads |-> CASE t = Head(rl) -> "RUNNING"
                                          [] t # Head(rl) /\ t = carcass -> "DELETED"
                                          [] OTHER -> st[t]]
    BY DEF Run
  <1>3. \A u \in Threads :
            status'[u] = IF u = Head(rl) THEN "RUNNING"
                         ELSE IF u = carcass THEN "DELETED" ELSE st[u]
    BY <1>2
  <1>4. status' \in [Threads -> Statuses]
    BY <1>2, <1>3 DEF Statuses
  <1>5. st[Head(rl)] = "READY"
    BY <1>1 DEF ReadyOK
  <1>6. ReadyOK(readyList', status')
    <2>1. ASSUME NEW u \in Threads
          PROVE  (status'[u] = "READY") <=> (u \in Range(Tail(rl)))
      BY <1>1, <1>3 DEF ReadyOK
    <2> QED
      BY <1>1, <1>2, <2>1 DEF ReadyOK
  <1> QED
    BY <1>1, <1>2, <1>3, <1>4, <1>5, <1>6

\* Thread::Sleep by the running thread t, whose carcass is at most t itself:
\* t blocks (or, having finished, is deleted by its successor), at most one
\* ready thread starts to run, and nobody else's status changes.
LEMMA SleepReady ==
    ASSUME NEW t \in Threads, NEW rl \in Seq(Threads), NEW st \in [Threads -> Statuses],
           NEW carcass \in {NoThread, t}, ReadyOK(rl, st),
           \A u \in Threads : st[u] = "RUNNING" => u = t, st[t] = "RUNNING",
           Sleep(t, rl, st, carcass)
    PROVE  /\ currentThread' \in Threads
           /\ readyList' \in Seq(Threads)
           /\ status' \in [Threads -> Statuses]
           /\ ReadyOK(readyList', status')
           /\ \/ /\ currentThread' = t /\ status'[t] = "BLOCKED"
                 /\ threadToBeDestroyed' = carcass
              \/ /\ currentThread' # t /\ status'[currentThread'] = "RUNNING"
                 /\ threadToBeDestroyed' = NoThread
                 /\ status'[t] = IF t = carcass THEN "DELETED" ELSE "BLOCKED"
           /\ \A u \in Threads \ {t} :
                 \/ status'[u] = st[u] /\ st[u] # "RUNNING"
                 \/ st[u] = "READY" /\ status'[u] = "RUNNING" /\ u = currentThread'
  <1> DEFINE blocked == [st EXCEPT ![t] = "BLOCKED"]
  <1>1. /\ blocked \in [Threads -> Statuses]
        /\ blocked[t] = "BLOCKED"
        /\ \A u \in Threads \ {t} : blocked[u] = st[u]
        /\ \A u \in Threads : blocked[u] # "RUNNING"
    BY DEF Statuses
  <1>2. t \notin Range(rl)
    BY DEF ReadyOK
  <1>3. ReadyOK(rl, blocked)
    BY <1>1, <1>2 DEF ReadyOK
  <1>4. carcass \notin Range(rl)
    BY SMTT(60), <1>2 DEF Range
  <1>5. CASE rl = <<>>
    <2>1. /\ currentThread' = t /\ readyList' = rl
          /\ status' = blocked /\ threadToBeDestroyed' = carcass
      BY <1>5 DEF Sleep
    <2> QED
      BY <1>1, <1>3, <2>1
  <1>6. CASE rl # <<>>
    <2>1. Run(Head(rl), Tail(rl), blocked, carcass)
      BY <1>6 DEF Sleep
    <2> HIDE DEF blocked
    <2>2. /\ currentThread' \in Threads
          /\ readyList' \in Seq(Threads)
          /\ status' \in [Threads -> Statuses]
          /\ ReadyOK(readyList', status')
          /\ threadToBeDestroyed' = NoThread
          /\ blocked[currentThread'] = "READY" /\ status'[currentThread'] = "RUNNING"
          /\ \A u \in Threads : u # currentThread' =>
                status'[u] = IF u = carcass THEN "DELETED" ELSE blocked[u]
      BY SMTT(60), <1>1, <1>3, <1>4, <1>6, <2>1, RunReady
    <2>3. currentThread' # t
      BY <1>1, <2>2
    <2>4. \A u \in Threads \ {t} : u # carcass
      OBVIOUS
    <2> QED
      BY <1>1, <2>2, <2>3, <2>4
  <1> QED
    BY <1>5, <1>6

\* The same for a thread that has not finished.
LEMMA BlockReady ==
    ASSUME NEW t \in Threads, NEW rl \in Seq(Threads), NEW st \in [Threads -> Statuses],
           ReadyOK(rl, st), \A u \in Threads : st[u] = "RUNNING" => u = t,
           st[t] = "RUNNING", Sleep(t, rl, st, NoThread)
    PROVE  /\ currentThread' \in Threads
           /\ readyList' \in Seq(Threads)
           /\ status' \in [Threads -> Statuses]
           /\ ReadyOK(readyList', status')
           /\ status'[currentThread'] \in {"RUNNING", "BLOCKED"}
           /\ threadToBeDestroyed' = NoThread
           /\ status'[t] = "BLOCKED"
           /\ \A u \in Threads \ {t} :
                 \/ status'[u] = st[u] /\ st[u] # "RUNNING"
                 \/ st[u] = "READY" /\ status'[u] = "RUNNING" /\ u = currentThread'
  <1>1. NoThread \in {NoThread, t} /\ t # NoThread
    OBVIOUS
  <1>2. /\ currentThread' \in Threads
        /\ readyList' \in Seq(Threads)
        /\ status' \in [Threads -> Statuses]
        /\ ReadyOK(readyList', status')
        /\ \/ /\ currentThread' = t /\ status'[t] = "BLOCKED"
              /\ threadToBeDestroyed' = NoThread
           \/ /\ currentThread' # t /\ status'[currentThread'] = "RUNNING"
              /\ threadToBeDestroyed' = NoThread
              /\ status'[t] = IF t = NoThread THEN "DELETED" ELSE "BLOCKED"
        /\ \A u \in Threads \ {t} :
              \/ status'[u] = st[u] /\ st[u] # "RUNNING"
              \/ st[u] = "READY" /\ status'[u] = "RUNNING" /\ u = currentThread'
    BY <1>1, SleepReady, ZenonT(60)
  <1> QED
    BY <1>1, <1>2

-----------------------------------------------------------------------------
(* NoLostWakeup. *)

\* A step that changes no value, queues nobody and lets no woken thread go.
LEMMA WakeupsKept ==
    ASSUME TypeOK, NoLostWakeup, value' = value,
           \A s \in AllSems : queue'[s] # <<>> => queue[s] # <<>>,
           \A s \in AllSems : Woken(s) \subseteq Woken(s)'
    PROVE  NoLostWakeup'
  <1> SUFFICES ASSUME NEW s \in AllSems, queue'[s] # <<>>
               PROVE  ExistsInjection(1 .. value'[s], Woken(s)')
    BY DEF NoLostWakeup
  <1>1. value[s] \in Int /\ value'[s] = value[s] /\ ExistsInjection(1 .. value[s], Woken(s))
    BY DEF NoLostWakeup, TypeOK
  <1> QED
    BY <1>1, MatchLarger

\* Semaphore::V: the new unit is matched by the thread it wakes.
LEMMA VKeepsWakeups ==
    ASSUME TypeOK, OnePlace, NoLostWakeup, NEW s \in AllSems, VBody(s),
           \A t \in Range(Removed(queue[s])) : t \in Woken(s)',
           \A r \in AllSems : Woken(r) \subseteq Woken(r)'
    PROVE  NoLostWakeup'
  <1> SUFFICES ASSUME NEW r \in AllSems, queue'[r] # <<>>
               PROVE  ExistsInjection(1 .. value'[r], Woken(r)')
    BY DEF NoLostWakeup
  <1>1. /\ value \in [AllSems -> Int] /\ queue \in [AllSems -> Seq(Threads)]
        /\ NoDuplicates(queue[s])
    BY DEF TypeOK, OnePlace
  <1>2. CASE r # s
    <2>1. value'[r] = value[r] /\ queue'[r] = queue[r] /\ value[r] \in Int
      BY <1>1, <1>2 DEF VBody
    <2>2. ExistsInjection(1 .. value[r], Woken(r))
      BY <2>1 DEF NoLostWakeup
    <2> QED
      BY <2>1, <2>2, MatchLarger
  <1>3. CASE r = s
    <2>1. /\ value'[s] = value[s] + 1 /\ value[s] \in Int
          /\ queue'[s] = Remaining(queue[s])
      BY <1>1 DEF VBody
    <2>2. queue[s] # <<>>
      BY <1>3, <2>1 DEF Remaining
    <2>3. PICK t \in Range(queue[s]) : Range(Removed(queue[s])) = {t}
      BY <1>1, <2>2, RemoveList
    <2>4. t \in Threads /\ t \notin Woken(s)
      BY SMTT(60), <1>1, <2>3 DEF OnePlace, Woken, Range
    <2>5. Woken(s) \cup {t} \subseteq Woken(s)'
      BY <2>3
    <2>6. ExistsInjection(1 .. value[s], Woken(s))
      BY <2>2 DEF NoLostWakeup
    <2>7. ExistsInjection(1 .. (value[s] + 1), Woken(s) \cup {t})
      BY <2>1, <2>4, <2>6, MatchOneMore
    <2> QED
      BY SMTT(60), <1>3, <2>1, <2>5, <2>7, MatchLarger
  <1> QED
    BY <1>2, <1>3

\* Semaphore::P that finds the semaphore available takes one unit, and with it
\* at most one of the woken threads.
LEMMA PKeepsWakeups ==
    ASSUME TypeOK, NoLostWakeup, NEW t \in Threads, NEW s \in AllSems,
           value' = [value EXCEPT ![s] = @ - 1], queue' = queue,
           Woken(s) \ {t} \subseteq Woken(s)',
           \A r \in AllSems \ {s} : Woken(r) \subseteq Woken(r)'
    PROVE  NoLostWakeup'
  <1> SUFFICES ASSUME NEW r \in AllSems, queue[r] # <<>>
               PROVE  ExistsInjection(1 .. value'[r], Woken(r)')
    BY DEF NoLostWakeup
  <1>1. value \in [AllSems -> Int]
    BY DEF TypeOK
  <1>2. ExistsInjection(1 .. value[r], Woken(r))
    BY DEF NoLostWakeup
  <1>3. CASE r # s
    <2>1. value'[r] = value[r] /\ value[r] \in Int
      BY <1>1, <1>3
    <2> QED
      BY <1>2, <1>3, <2>1, MatchLarger
  <1>4. CASE r = s
    <2>1. value'[s] = value[s] - 1 /\ value[s] \in Int
      BY <1>1
    <2>2. ExistsInjection(1 .. (value[s] - 1), Woken(s) \ {t})
      BY <1>2, <1>4, <2>1, MatchOneLess
    <2> QED
      BY SMTT(60), <1>4, <2>1, <2>2, MatchLarger
  <1> QED
    BY <1>3, <1>4

-----------------------------------------------------------------------------
(* One lemma per action. *)

\* Before the first Fork the invariant holds.
LEMMA InitInvariant == Init => IInv
  <1> SUFFICES ASSUME Init PROVE IInv
    OBVIOUS
  <1> USE DEF Init
  <1>1. TypeOK
    BY SMTT(60) DEF TypeOK, Statuses, Labels, AllSems
  <1>2. OnePlace
    BY SMTT(60), EmptyList DEF OnePlace, ReadyOK, NoDuplicates, Range
  <1>3. AssertsHold /\ MutualExclusion
    BY DEF AssertsHold, MutualExclusion, AllSems
  <1>4. NoLostWakeup
    BY DEF NoLostWakeup
  <1> QED
    BY <1>1, <1>2, <1>3, <1>4 DEF IInv

\* Idle, and the interrupt that ends it, keep the invariant.
LEMMA LeaveIdleInvariant == IInv /\ LeaveIdle => IInv'
  <1> SUFFICES ASSUME IInv, LeaveIdle PROVE IInv'
    OBVIOUS
  <1> USE DEF IInv
  <1>1. \A u \in Threads : status[u] # "RUNNING"
    BY DEF OnePlace, LeaveIdle, Idling, TypeOK
  <1>2. threadToBeDestroyed \notin Range(readyList)
    BY SMTT(60) DEF AssertsHold, OnePlace, ReadyOK, Range, TypeOK
  <1>3. /\ currentThread' \in Threads
        /\ readyList' \in Seq(Threads)
        /\ status' \in [Threads -> Statuses]
        /\ ReadyOK(readyList', status')
        /\ threadToBeDestroyed' = NoThread
        /\ status[currentThread'] = "READY" /\ status'[currentThread'] = "RUNNING"
        /\ \A u \in Threads : u # currentThread' =>
              status'[u] = IF u = threadToBeDestroyed THEN "DELETED" ELSE status[u]
    <2>1. /\ readyList # <<>>
          /\ Run(Head(readyList), Tail(readyList), status, threadToBeDestroyed)
      BY DEF LeaveIdle
    <2>2. /\ readyList \in Seq(Threads) /\ status \in [Threads -> Statuses]
          /\ ReadyOK(readyList, status)
      BY DEF TypeOK, OnePlace
    <2> QED
      BY SMTT(60), <1>1, <1>2, <2>1, <2>2, RunReady
  <1>4. UNCHANGED <<value, queue, lockOwner, waitQueue, pc, obj, holding>>
    BY DEF LeaveIdle
  <1>5. TypeOK'
    BY <1>3, <1>4 DEF TypeOK
  <1>6. OnePlace'
    <2>1. ASSUME NEW u \in Threads
          PROVE  /\ (status'[u] = "RUNNING") => (u = currentThread')
                 /\ (status'[u] = "JUST_CREATED") <=> (pc[u] = "new")
                 /\ (status'[u] = "DELETED") => (pc[u] = "finished")
                 /\ (pc[u] = "finished") => (status'[u] = "DELETED")
                 /\ (status'[u] = "BLOCKED" /\ pc[u] # "finished")
                        <=> (status[u] = "BLOCKED" /\ pc[u] # "finished")
      <3>1. /\ status[u] # "RUNNING"
            /\ (status[u] = "JUST_CREATED") <=> (pc[u] = "new")
            /\ (status[u] = "DELETED") => (pc[u] = "finished")
            /\ (pc[u] = "finished") => (status[u] = "DELETED" \/ threadToBeDestroyed = u)
        BY <1>1 DEF OnePlace
      <3>2. u = threadToBeDestroyed => pc[u] = "finished" /\ status[u] = "BLOCKED"
        BY DEF AssertsHold
      <3>3. CASE u = currentThread'
        BY <1>3, <3>1, <3>2, <3>3
      <3>4. CASE u # currentThread'
        <4>1. status'[u] = IF u = threadToBeDestroyed THEN "DELETED" ELSE status[u]
          BY <1>3, <3>4
        <4> QED
          BY <3>1, <3>2, <3>4, <4>1
      <3> QED
        BY <3>3, <3>4
    <2> QED
      BY <1>3, <1>4, <2>1 DEF OnePlace, TypeOK
  <1>7. AssertsHold' /\ MutualExclusion'
    BY <1>3, <1>4 DEF AssertsHold, MutualExclusion
  <1>8. NoLostWakeup'
    <2>1. \A s \in AllSems : Woken(s) \subseteq Woken(s)'
      BY <1>3, <1>4 DEF Woken, AssertsHold
    <2> QED
      BY <1>4, <2>1, WakeupsKept
  <1> QED
    BY <1>5, <1>6, <1>7, <1>8

\* Thread::Yield keeps the invariant.
LEMMA YieldInvariant == ASSUME IInv, NEW t \in Threads, Yield(t) PROVE IInv'
  <1> USE DEF IInv
  <1> DEFINE rl == Append(readyList, t)
             st == [status EXCEPT ![t] = "READY"]
  <1>1. /\ readyList \in Seq(Threads) /\ status \in [Threads -> Statuses]
        /\ ReadyOK(readyList, status) /\ status[t] = "RUNNING" /\ t = currentThread
        /\ threadToBeDestroyed = NoThread /\ readyList # <<>> /\ pc[t] = "user"
    BY DEF TypeOK, OnePlace, AssertsHold, Yield, AtUser, Executing
  <1>2. rl \in Seq(Threads) /\ st \in [Threads -> Statuses] /\ rl # <<>>
    BY <1>1, AppendList DEF Statuses
  <1>3. ReadyOK(rl, st)
    <2>1. t \notin Range(readyList)
      BY <1>1 DEF ReadyOK
    <2>2. NoDuplicates(rl) /\ Range(rl) = Range(readyList) \cup {t}
      BY SMTT(60), <1>1, <2>1, AppendList DEF ReadyOK
    <2> QED
      BY <1>1, <2>2 DEF ReadyOK
  <1>4. \A u \in Threads : st[u] # "RUNNING"
    BY <1>1 DEF OnePlace
  <1>5. Run(Head(rl), Tail(rl), st, NoThread)
    <2>1. Head(rl) = Head(readyList) /\ Tail(rl) = Append(Tail(readyList), t)
      BY SMTT(60), <1>1
    <2> QED
      BY <1>1, <2>1 DEF Yield
  <1>6. /\ currentThread' \in Threads
        /\ readyList' \in Seq(Threads)
        /\ status' \in [Threads -> Statuses]
        /\ ReadyOK(readyList', status')
        /\ threadToBeDestroyed' = NoThread
        /\ st[currentThread'] = "READY" /\ status'[currentThread'] = "RUNNING"
        /\ \A u \in Threads : u # currentThread' =>
              status'[u] = IF u = NoThread THEN "DELETED" ELSE st[u]
    <2>1. NoThread \notin Range(rl)
      BY SMTT(60), <1>2 DEF Range
    <2> HIDE DEF rl, st
    <2> QED
      BY SMTT(60), <1>2, <1>3, <1>4, <1>5, <2>1, RunReady
  <1>7. \A u \in Threads : \/ (status'[u] = status[u] /\ u # t)
                            \/ /\ status[u] \in {"READY", "RUNNING"}
                               /\ status'[u] \in {"READY", "RUNNING"}
    BY <1>1, <1>6
  <1>8. UNCHANGED <<value, queue, lockOwner, waitQueue, pc, obj, holding>>
    BY DEF Yield
  <1>9. TypeOK'
    BY <1>6, <1>8 DEF TypeOK
  <1>10. OnePlace'
    <2>1. \A u \in Threads : (status'[u] = "RUNNING") => (u = currentThread')
      BY <1>1, <1>4, <1>6
    <2> QED
      <3>1. ASSUME NEW u \in Threads
            PROVE  /\ (status'[u] = "JUST_CREATED") <=> (status[u] = "JUST_CREATED")
                   /\ (status'[u] = "DELETED") <=> (status[u] = "DELETED")
                   /\ (status'[u] = "BLOCKED") <=> (status[u] = "BLOCKED")
        BY <1>7
      <3>2. status'[currentThread'] = "RUNNING" /\ ReadyOK(readyList', status')
        BY <1>6
      <3>3. threadToBeDestroyed' = threadToBeDestroyed
        BY <1>1, <1>6
      <3> QED
        BY <1>8, <2>1, <3>1, <3>2, <3>3 DEF OnePlace
  <1>11. AssertsHold' /\ MutualExclusion'
    BY <1>6, <1>8 DEF AssertsHold, MutualExclusion
  <1>12. NoLostWakeup'
    <2>1. \A s \in AllSems : Woken(s) \subseteq Woken(s)'
      BY <1>7, <1>8 DEF Woken
    <2> QED
      BY <1>8, <2>1, WakeupsKept
  <1> QED
    BY <1>9, <1>10, <1>11, <1>12

\* Thread::Fork keeps the invariant.
LEMMA ForkInvariant ==
    ASSUME IInv, NEW t \in Threads, NEW u \in Threads, Fork(t, u) PROVE IInv'
  <1> USE DEF IInv
  <1>1. /\ pc[u] = "new" /\ status[u] = "JUST_CREATED" /\ pc \in [Threads -> Labels]
        /\ status[t] = "RUNNING" /\ t = currentThread /\ t # u
    BY DEF Fork, OnePlace, TypeOK, AtUser, Executing
  <1>2. <<u>> \in Seq(Threads) /\ NoDuplicates(<<u>>) /\ Range(<<u>>) = {u}
    BY SMTT(60) DEF NoDuplicates, Range
  <1>3. /\ readyList' \in Seq(Threads)
        /\ status' \in [Threads -> Statuses]
        /\ ReadyOK(readyList', status')
        /\ status'[u] = "READY"
        /\ \A v \in Threads : v # u => status'[v] = status[v]
    <2>1. readyList' = ReadyListWith(<<u>>) /\ status' = StatusWith(<<u>>)
      BY DEF Fork
    <2>2. ReadyOK(readyList, status)
      BY DEF OnePlace
    <2>3. \A v \in Range(<<u>>) : status[v] # "READY"
      BY <1>1, <1>2
    <2>4. /\ ReadyListWith(<<u>>) \in Seq(Threads)
          /\ StatusWith(<<u>>) \in [Threads -> Statuses]
          /\ ReadyOK(ReadyListWith(<<u>>), StatusWith(<<u>>))
          /\ \A v \in Threads : v \in Range(<<u>>) => StatusWith(<<u>>)[v] = "READY"
          /\ \A v \in Threads : v \notin Range(<<u>>) => StatusWith(<<u>>)[v] = status[v]
      BY <1>2, <2>2, <2>3, WakeReady
    <2> QED
      BY <1>2, <2>1, <2>4
  <1>4. /\ pc' = [pc EXCEPT ![u] = "user"]
        /\ UNCHANGED <<currentThread, threadToBeDestroyed, value, queue, lockOwner,
                       waitQueue, obj, holding>>
    BY DEF Fork
  <1>5. TypeOK'
    BY <1>3, <1>4 DEF TypeOK, Labels
  <1>6. OnePlace'
    <2>1. ASSUME NEW v \in Threads
          PROVE  /\ (status'[v] = "RUNNING") <=> (status[v] = "RUNNING")
                 /\ (status'[v] = "JUST_CREATED") <=> (status[v] = "JUST_CREATED" /\ v # u)
                 /\ (status'[v] = "DELETED") <=> (status[v] = "DELETED")
                 /\ (status'[v] = "BLOCKED") <=> (status[v] = "BLOCKED")
      BY <1>1, <1>3
    <2>2. ASSUME NEW v \in Threads
          PROVE  /\ (pc'[v] = "new") <=> (pc[v] = "new" /\ v # u)
                 /\ (pc'[v] = "finished") <=> (pc[v] = "finished")
                 /\ (pc'[v] = "Wait") <=> (pc[v] = "Wait")
                 /\ (pc'[v] \in {"P", "Acquire"}) <=> (pc[v] \in {"P", "Acquire"})
      BY <1>1, <1>4
    <2>3. status'[currentThread'] \in {"RUNNING", "BLOCKED", "READY"}
      BY <1>1, <1>3, <1>4
    <2> QED
      BY <1>3, <1>4, <2>1, <2>2, <2>3 DEF OnePlace
  <1>7. AssertsHold' /\ MutualExclusion'
    BY <1>1, <1>3, <1>4 DEF AssertsHold, MutualExclusion, TypeOK
  <1>8. NoLostWakeup'
    <2>1. \A s \in AllSems : Woken(s) \subseteq Woken(s)'
      BY <1>1, <1>3, <1>4 DEF Woken, TypeOK
    <2> QED
      BY <1>4, <2>1, WakeupsKept
  <1> QED
    BY <1>5, <1>6, <1>7, <1>8

\* Thread::Finish keeps the invariant.
LEMMA FinishInvariant == ASSUME IInv, NEW t \in Threads, Finish(t) PROVE IInv'
  <1> USE DEF IInv
  <1>1. /\ readyList \in Seq(Threads) /\ status \in [Threads -> Statuses]
        /\ ReadyOK(readyList, status) /\ status[t] = "RUNNING" /\ pc[t] = "user"
        /\ \A u \in Threads : status[u] = "RUNNING" => u = t
        /\ threadToBeDestroyed = NoThread /\ t # NoThread
        /\ pc \in [Threads -> Labels]
    BY DEF TypeOK, OnePlace, AssertsHold, Finish, AtUser, Executing
  <1>2. /\ Sleep(t, readyList, status, t)
        /\ pc' = [pc EXCEPT ![t] = "finished"]
        /\ UNCHANGED <<value, queue, lockOwner, waitQueue, obj, holding>>
    BY DEF Finish
  <1>3. /\ currentThread' \in Threads
        /\ readyList' \in Seq(Threads)
        /\ status' \in [Threads -> Statuses]
        /\ ReadyOK(readyList', status')
        /\ \/ /\ currentThread' = t /\ status'[t] = "BLOCKED"
              /\ threadToBeDestroyed' = t
           \/ /\ currentThread' # t /\ status'[currentThread'] = "RUNNING"
              /\ threadToBeDestroyed' = NoThread
              /\ status'[t] = "DELETED"
        /\ \A u \in Threads \ {t} :
              \/ status'[u] = status[u] /\ status[u] # "RUNNING"
              \/ status[u] = "READY" /\ status'[u] = "RUNNING" /\ u = currentThread'
    BY SMTT(60), <1>1, <1>2, SleepReady
  <1>4. TypeOK'
    BY <1>1, <1>2, <1>3 DEF TypeOK, Labels
  <1>5. OnePlace'
    <2>1. ASSUME NEW u \in Threads
          PROVE  /\ (status'[u] = "RUNNING") => (u = currentThread')
                 /\ (status'[u] = "JUST_CREATED") <=> (pc'[u] = "new")
                 /\ (status'[u] = "DELETED") => (pc'[u] = "finished")
                 /\ (pc'[u] = "finished") =>
                        (status'[u] = "DELETED" \/ threadToBeDestroyed' = u)
      BY <1>1, <1>2, <1>3 DEF OnePlace
    <2>2. ASSUME NEW u \in Threads
          PROVE  /\ \A s \in AllSems :
                       (u \in Range(queue[s])) <=> (/\ status'[u] = "BLOCKED"
                                                    /\ pc'[u] \in {"P", "Acquire"}
                                                    /\ obj[u] = s)
                 /\ \A c \in Conditions :
                       (u \in Range(waitQueue[c])) <=> (/\ status'[u] = "BLOCKED"
                                                        /\ pc'[u] = "Wait"
                                                        /\ obj[u] = c)
      <3>1. /\ \A s \in AllSems :
                  (u \in Range(queue[s])) <=> (/\ status[u] = "BLOCKED"
                                               /\ pc[u] \in {"P", "Acquire"}
                                               /\ obj[u] = s)
            /\ \A c \in Conditions :
                  (u \in Range(waitQueue[c])) <=> (/\ status[u] = "BLOCKED"
                                                   /\ pc[u] = "Wait"
                                                   /\ obj[u] = c)
        BY DEF OnePlace
      <3>2. CASE u = t
        <4>1. pc[u] = "user" /\ pc'[u] = "finished"
          BY <1>1, <1>2, <3>2
        <4> QED
          BY <3>1, <4>1
      <3>3. CASE u # t
        <4>1. pc'[u] = pc[u] /\ (status'[u] = "BLOCKED" <=> status[u] = "BLOCKED")
          BY <1>1, <1>2, <1>3, <3>3
        <4> QED
          BY <3>1, <4>1
      <3> QED
        BY <3>2, <3>3
    <2> QED
      BY <1>2, <1>3, <2>1, <2>2 DEF OnePlace
  <1>6. AssertsHold' /\ MutualExclusion'
    BY <1>1, <1>2, <1>3 DEF AssertsHold, MutualExclusion
  <1>7. NoLostWakeup'
    <2>1. \A s \in AllSems : Woken(s) \subseteq Woken(s)'
      BY <1>1, <1>2, <1>3 DEF Woken
    <2> QED
      BY <1>2, <2>1, WakeupsKept
  <1> QED
    BY <1>4, <1>5, <1>6, <1>7

-----------------------------------------------------------------------------
(* P, V, Acquire and Release. *)

\* Semaphore::P that queues the caller, on its own or inside Lock::Acquire.
LEMMA PSleepsInvariant ==
    ASSUME IInv, NEW t \in Threads, NEW s \in AllSems, NEW label \in {"P", "Acquire"},
           Executing(t), pc[t] \in {"user", "Wait"} \/ obj[t] = s, PSleeps(t, s, label)
    PROVE  IInv'
  <1> USE DEF IInv
  <1>1. /\ readyList \in Seq(Threads) /\ status \in [Threads -> Statuses]
        /\ ReadyOK(readyList, status) /\ status[t] = "RUNNING"
        /\ \A u \in Threads : status[u] = "RUNNING" => u = t
        /\ threadToBeDestroyed = NoThread /\ t # NoThread
        /\ pc \in [Threads -> Labels] /\ pc[t] \notin {"new", "finished"}
        /\ queue \in [AllSems -> Seq(Threads)]
        /\ obj \in [Threads -> AllSems \cup Conditions \cup {NoObject}]
    BY DEF TypeOK, OnePlace, AssertsHold, Executing
  <1>2. /\ Sleep(t, readyList, status, NoThread) /\ value[s] = 0
        /\ queue' = [queue EXCEPT ![s] = Append(@, t)]
        /\ pc' = [pc EXCEPT ![t] = label]
        /\ obj' = [obj EXCEPT ![t] = s]
        /\ UNCHANGED <<value, lockOwner, waitQueue, holding>>
    BY <1>1 DEF PSleeps
  <1>3. /\ currentThread' \in Threads
        /\ readyList' \in Seq(Threads)
        /\ status' \in [Threads -> Statuses]
        /\ ReadyOK(readyList', status')
        /\ status'[currentThread'] \in {"RUNNING", "BLOCKED"}
        /\ threadToBeDestroyed' = NoThread
        /\ status'[t] = "BLOCKED"
        /\ \A u \in Threads \ {t} :
              \/ status'[u] = status[u] /\ status[u] # "RUNNING"
              \/ status[u] = "READY" /\ status'[u] = "RUNNING" /\ u = currentThread'
    <2>1. Sleep(t, readyList, status, NoThread)
      BY <1>2
    <2> QED
      BY SMTT(60), <1>1, <2>1, BlockReady
  <1>4. TypeOK'
    <2>1. queue' \in [AllSems -> Seq(Threads)]
      BY SMTT(60), <1>1, <1>2
    <2>2. pc' \in [Threads -> Labels]
      BY <1>1, <1>2 DEF Labels
    <2>3. obj' \in [Threads -> AllSems \cup Conditions \cup {NoObject}]
      BY <1>1, <1>2
    <2> QED
      BY <1>2, <1>3, <2>1, <2>2, <2>3 DEF TypeOK
  <1>5. \A r \in AllSems : t \notin Range(queue[r])
    BY <1>1 DEF OnePlace
  <1>6. /\ NoDuplicates(queue'[s]) /\ Range(queue'[s]) = Range(queue[s]) \cup {t}
        /\ \A r \in AllSems \ {s} : queue'[r] = queue[r]
    <2>1. queue'[s] = Append(queue[s], t) /\ queue[s] \in Seq(Threads)
      BY <1>1, <1>2
    <2>2. NoDuplicates(queue[s])
      BY DEF OnePlace
    <2>3. /\ NoDuplicates(Append(queue[s], t))
          /\ Range(Append(queue[s], t)) = Range(queue[s]) \cup {t}
      BY SMTT(60), <1>5, <2>1, <2>2, AppendList
    <2>4. \A r \in AllSems \ {s} : queue'[r] = queue[r]
      BY <1>1, <1>2
    <2> QED
      BY <2>1, <2>3, <2>4
  <1>7. OnePlace'
    <2>1. ASSUME NEW u \in Threads
          PROVE  /\ (status'[u] = "RUNNING") => (u = currentThread')
                 /\ (status'[u] = "JUST_CREATED") <=> (pc'[u] = "new")
                 /\ (status'[u] = "DELETED") => (pc'[u] = "finished")
                 /\ (pc'[u] = "finished") => (status'[u] = "DELETED")
      BY <1>1, <1>2, <1>3 DEF OnePlace
    <2>2. ASSUME NEW u \in Threads, NEW r \in AllSems
          PROVE  (u \in Range(queue'[r])) <=> (/\ status'[u] = "BLOCKED"
                                               /\ pc'[u] \in {"P", "Acquire"}
                                               /\ obj'[u] = r)
      <3>1. CASE u = t
        BY <1>1, <1>2, <1>3, <1>5, <1>6, <3>1
      <3>2. CASE u # t
        <4>1. /\ status'[u] = "BLOCKED" <=> status[u] = "BLOCKED"
              /\ pc'[u] = pc[u] /\ obj'[u] = obj[u]
          BY <1>1, <1>2, <1>3, <3>2
        <4>2. (u \in Range(queue'[r])) <=> (u \in Range(queue[r]))
          BY <1>6, <3>2
        <4> QED
          BY <4>1, <4>2 DEF OnePlace
      <3> QED
        BY <3>1, <3>2
    <2>3. ASSUME NEW u \in Threads, NEW c \in Conditions
          PROVE  (u \in Range(waitQueue[c])) <=> (/\ status'[u] = "BLOCKED"
                                                  /\ pc'[u] = "Wait"
                                                  /\ obj'[u] = c)
      <3>1. (u \in Range(waitQueue[c])) <=> (/\ status[u] = "BLOCKED"
                                             /\ pc[u] = "Wait"
                                             /\ obj[u] = c)
        BY DEF OnePlace
      <3>2. CASE u = t
        BY <1>1, <1>2, <3>1, <3>2
      <3>3. CASE u # t
        <4>1. /\ status'[u] = "BLOCKED" <=> status[u] = "BLOCKED"
              /\ pc'[u] = pc[u] /\ obj'[u] = obj[u]
          BY <1>1, <1>2, <1>3, <3>3
        <4> QED
          BY <3>1, <4>1
      <3> QED
        BY <3>2, <3>3
    <2>4. \A r \in AllSems : NoDuplicates(queue'[r])
      BY <1>6 DEF OnePlace
    <2>5. waitQueue' = waitQueue /\ \A c \in Conditions : NoDuplicates(waitQueue[c])
      BY <1>2 DEF OnePlace
    <2>6. ReadyOK(readyList', status') /\ status'[currentThread'] \in {"RUNNING", "BLOCKED"}
      BY <1>3
    <2> QED
      BY ONLY ZenonT(60), <2>1, <2>2, <2>3, <2>4, <2>5, <2>6 DEF OnePlace
  <1>8. AssertsHold' /\ MutualExclusion'
    BY <1>1, <1>2, <1>3 DEF AssertsHold, MutualExclusion
  <1>9. NoLostWakeup'
    <2> SUFFICES ASSUME NEW r \in AllSems, queue'[r] # <<>>
                 PROVE  ExistsInjection(1 .. value'[r], Woken(r)')
      BY DEF NoLostWakeup
    <2>1. CASE r = s
      BY SMTT(60), <1>2, <2>1, MatchNone
    <2>2. CASE r # s
      <3>1. Woken(r) \subseteq Woken(r)'
        BY SMTT(60), <1>1, <1>2, <1>3, <2>2 DEF Woken
      <3>2. /\ ExistsInjection(1 .. value[r], Woken(r)) /\ value[r] \in Int
            /\ value'[r] = value[r]
        BY <1>2, <1>6, <2>2 DEF NoLostWakeup, TypeOK
      <3> QED
        BY <3>1, <3>2, MatchLarger
    <2> QED
      BY <2>1, <2>2
  <1> QED
    BY <1>4, <1>7, <1>8, <1>9

\* Semaphore::P that returns, on its own or inside Lock::Acquire.
LEMMA PPassesKeeps ==
    ASSUME IInv, NEW t \in Threads, NEW s \in AllSems, Executing(t),
           pc[t] \in {"user", "Wait"} \/ obj[t] = s, PPasses(t, s)
    PROVE  /\ OnePlace' /\ NoLostWakeup'
           /\ value' \in [AllSems -> Int]
           /\ pc' \in [Threads -> Labels]
           /\ obj' \in [Threads -> AllSems \cup Conditions \cup {NoObject}]
           /\ pc[currentThread] # "finished" /\ threadToBeDestroyed = NoThread
  <1> USE DEF IInv
  <1>1. /\ status \in [Threads -> Statuses] /\ t = currentThread
        /\ status[t] = "RUNNING" /\ threadToBeDestroyed = NoThread
        /\ pc \in [Threads -> Labels] /\ pc[t] \notin {"new", "finished"}
        /\ value \in [AllSems -> Int]
        /\ obj \in [Threads -> AllSems \cup Conditions \cup {NoObject}]
    BY DEF TypeOK, OnePlace, AssertsHold, Executing
  <1>2. /\ value' = [value EXCEPT ![s] = @ - 1]
        /\ pc' = [pc EXCEPT ![t] = "user"]
        /\ obj' = [obj EXCEPT ![t] = NoObject]
        /\ UNCHANGED <<currentThread, readyList, status, threadToBeDestroyed, queue, waitQueue>>
    BY DEF PPasses, schedVars
  <1>3. OnePlace'
    BY SMTT(60), <1>1, <1>2 DEF OnePlace
  <1>4. NoLostWakeup'
    <2>1. Woken(s) \ {t} \subseteq Woken(s)'
      BY <1>1, <1>2 DEF Woken
    <2>2. \A r \in AllSems \ {s} : Woken(r) \subseteq Woken(r)'
      BY <1>1, <1>2 DEF Woken
    <2> QED
      BY <1>2, <2>1, <2>2, PKeepsWakeups
  <1>5. /\ value' \in [AllSems -> Int] /\ pc' \in [Threads -> Labels]
        /\ obj' \in [Threads -> AllSems \cup Conditions \cup {NoObject}]
    BY SMTT(60), <1>1, <1>2 DEF Labels
  <1> QED
    BY <1>1, <1>3, <1>4, <1>5

\* A turn of Semaphore::P keeps the invariant.
LEMMA PInvariant ==
    ASSUME IInv, NEW t \in Threads, NEW s \in Semaphores, P(t, s) PROVE IInv'
  <1>1. /\ s \in AllSems /\ s \notin Locks
        /\ Executing(t) /\ (pc[t] \in {"user", "Wait"} \/ obj[t] = s)
    BY DEF P, In, AllSems
  <1>2. CASE PSleeps(t, s, "P")
    BY <1>1, <1>2, PSleepsInvariant
  <1>3. CASE PPasses(t, s) /\ UNCHANGED <<lockOwner, holding>>
    <2>1. /\ OnePlace' /\ NoLostWakeup'
          /\ value' \in [AllSems -> Int]
          /\ pc' \in [Threads -> Labels]
          /\ obj' \in [Threads -> AllSems \cup Conditions \cup {NoObject}]
          /\ pc[currentThread] # "finished" /\ threadToBeDestroyed = NoThread
      BY <1>1, <1>3, PPassesKeeps
    <2>2. /\ value' = [value EXCEPT ![s] = @ - 1]
          /\ UNCHANGED <<currentThread, readyList, status, threadToBeDestroyed, queue,
                         waitQueue, lockOwner, holding>>
      BY <1>3 DEF PPasses, schedVars
    <2>3. TypeOK'
      BY <2>1, <2>2 DEF IInv, TypeOK
    <2>4. AssertsHold' /\ MutualExclusion'
      BY <1>1, <2>1, <2>2 DEF IInv, TypeOK, AssertsHold, MutualExclusion, AllSems
    <2> QED
      BY <2>1, <2>3, <2>4 DEF IInv
  <1> QED
    BY <1>2, <1>3 DEF P

\* Lock::Acquire, a turn of its P, keeps the invariant.
LEMMA AcquireInvariant ==
    ASSUME IInv, NEW t \in Threads, NEW l \in Locks, Acquire(t, l) PROVE IInv'
  <1>1. /\ l \in AllSems
        /\ Executing(t) /\ (pc[t] \in {"user", "Wait"} \/ obj[t] = l)
    BY DEF Acquire, In, AllSems
  <1>2. CASE PSleeps(t, l, "Acquire")
    BY <1>1, <1>2, PSleepsInvariant
  <1>3. CASE /\ PPasses(t, l)
             /\ lockOwner' = [lockOwner EXCEPT ![l] = tid[t]]
             /\ holding' = [holding EXCEPT ![t] = @ \cup {l}]
    <2>1. /\ OnePlace' /\ NoLostWakeup'
          /\ value' \in [AllSems -> Int]
          /\ pc' \in [Threads -> Labels]
          /\ obj' \in [Threads -> AllSems \cup Conditions \cup {NoObject}]
          /\ pc[currentThread] # "finished" /\ threadToBeDestroyed = NoThread
      BY <1>1, <1>3, PPassesKeeps
    <2>2. /\ value[l] # 0
          /\ value' = [value EXCEPT ![l] = @ - 1]
          /\ UNCHANGED <<currentThread, readyList, status, threadToBeDestroyed, queue, waitQueue>>
      BY <1>3 DEF PPasses, schedVars
    <2>3. TypeOK'
      BY <1>3, <2>1, <2>2, TidAssumption DEF IInv, TypeOK
    <2>4. /\ value[l] = 1 /\ lockOwner[l] = -1
          /\ \A u \in Threads : l \notin holding[u]
      BY <2>2, TidAssumption DEF IInv, AssertsHold, MutualExclusion
    <2>5. AssertsHold'
      BY SMTT(60), <1>3, <2>1, <2>2, <2>4 DEF IInv, TypeOK, AssertsHold
    <2>6. MutualExclusion'
      <3>1. \A k \in Locks : k \in AllSems
        BY DEF AllSems
      <3>2. \A k \in Locks : value'[k] = IF lockOwner'[k] = -1 THEN 1 ELSE 0
        BY SMTT(60), <1>3, <2>2, <2>4, <3>1, TidAssumption DEF IInv, TypeOK, MutualExclusion
      <3>3. \A k \in Locks : \A u, v \in Threads :
                k \in holding'[u] /\ k \in holding'[v] => u = v
        BY SMTT(60), <1>3, <2>4 DEF IInv, TypeOK, MutualExclusion
      <3> QED
        BY <3>2, <3>3 DEF MutualExclusion
    <2> QED
      BY <2>1, <2>3, <2>5, <2>6 DEF IInv
  <1> QED
    BY <1>2, <1>3 DEF Acquire

\* The thread V takes off the queue of s, and the ready list and statuses with
\* it made ready.
LEMMA VWakes ==
    ASSUME IInv, NEW s \in AllSems
    PROVE  /\ ReadyListWith(Removed(queue[s])) \in Seq(Threads)
           /\ StatusWith(Removed(queue[s])) \in [Threads -> Statuses]
           /\ ReadyOK(ReadyListWith(Removed(queue[s])), StatusWith(Removed(queue[s])))
           /\ \A u \in Range(Removed(queue[s])) :
                /\ u \in Threads /\ status[u] = "BLOCKED"
                /\ pc[u] \in {"P", "Acquire"} /\ obj[u] = s
           /\ \A u \in Threads : u \in Range(Removed(queue[s])) =>
                StatusWith(Removed(queue[s]))[u] = "READY"
           /\ \A u \in Threads : u \notin Range(Removed(queue[s])) =>
                StatusWith(Removed(queue[s]))[u] = status[u]
  <1> DEFINE ts == Removed(queue[s])
  <1>1. queue[s] \in Seq(Threads) /\ NoDuplicates(queue[s]) /\ ReadyOK(readyList, status)
    BY DEF IInv, TypeOK, OnePlace
  <1>2. ts \in Seq(Threads) /\ NoDuplicates(ts) /\ Range(ts) \subseteq Range(queue[s])
    BY <1>1, RemoveList
  <1>3. \A u \in Range(queue[s]) : u \in Threads
    BY SMTT(60), <1>1 DEF Range
  <1>4. \A u \in Range(ts) : /\ u \in Threads /\ status[u] = "BLOCKED"
                             /\ pc[u] \in {"P", "Acquire"} /\ obj[u] = s
    BY <1>2, <1>3 DEF IInv, OnePlace
  <1>5. \A u \in Range(ts) : status[u] # "READY"
    BY <1>4
  <1>6. TypeOK
    BY DEF IInv
  <1> QED
    BY <1>1, <1>2, <1>4, <1>5, <1>6, WakeReady

\* What VBody leaves of the queues and the values.
LEMMA VQueues ==
    ASSUME IInv, NEW s \in AllSems, VBody(s)
    PROVE  /\ queue' \in [AllSems -> Seq(Threads)]
           /\ value' \in [AllSems -> Int]
           /\ value'[s] = value[s] + 1
           /\ Range(queue'[s]) = Range(queue[s]) \ Range(Removed(queue[s]))
           /\ \A r \in AllSems : NoDuplicates(queue'[r])
           /\ \A r \in AllSems \ {s} : queue'[r] = queue[r] /\ value'[r] = value[r]
  <1>1. /\ queue \in [AllSems -> Seq(Threads)] /\ value \in [AllSems -> Int]
        /\ \A r \in AllSems : NoDuplicates(queue[r])
    BY DEF IInv, TypeOK, OnePlace
  <1>2. /\ Remaining(queue[s]) \in Seq(Threads) /\ NoDuplicates(Remaining(queue[s]))
        /\ Range(Remaining(queue[s])) = Range(queue[s]) \ Range(Removed(queue[s]))
    BY SMTT(60), <1>1, RemoveList
  <1>3. /\ queue' = [queue EXCEPT ![s] = Remaining(queue[s])]
        /\ value' = [value EXCEPT ![s] = value[s] + 1]
    BY DEF VBody
  <1> QED
    BY SMTT(60), <1>1, <1>2, <1>3

\* Semaphore::V by a running thread, by a handler or inside Lock::Release.
LEMMA VKeeps ==
    ASSUME IInv, NEW s \in AllSems, VBody(s),
           readyList' = ReadyListWith(Removed(queue[s])),
           status' = StatusWith(Removed(queue[s])),
           UNCHANGED <<currentThread, threadToBeDestroyed, waitQueue, pc, obj>>
    PROVE  /\ OnePlace' /\ NoLostWakeup'
           /\ readyList' \in Seq(Threads) /\ status' \in [Threads -> Statuses]
           /\ status'[currentThread] = "RUNNING" => status[currentThread] = "RUNNING"
           /\ pc[currentThread] = "finished" => status'[currentThread] = status[currentThread]
  <1> DEFINE ts == Removed(queue[s])
  <1>1. /\ readyList' \in Seq(Threads) /\ status' \in [Threads -> Statuses]
        /\ ReadyOK(readyList', status')
        /\ \A u \in Range(ts) : /\ u \in Threads /\ status[u] = "BLOCKED"
                                 /\ pc[u] \in {"P", "Acquire"} /\ obj[u] = s
        /\ \A u \in Threads : u \in Range(ts) => status'[u] = "READY"
        /\ \A u \in Threads : u \notin Range(ts) => status'[u] = status[u]
    <2>1. /\ ReadyListWith(ts) \in Seq(Threads)
          /\ StatusWith(ts) \in [Threads -> Statuses]
          /\ ReadyOK(ReadyListWith(ts), StatusWith(ts))
          /\ \A u \in Range(ts) : /\ u \in Threads /\ status[u] = "BLOCKED"
                                   /\ pc[u] \in {"P", "Acquire"} /\ obj[u] = s
          /\ \A u \in Threads : u \in Range(ts) => StatusWith(ts)[u] = "READY"
          /\ \A u \in Threads : u \notin Range(ts) => StatusWith(ts)[u] = status[u]
      BY VWakes
    <2>2. readyList' = ReadyListWith(ts) /\ status' = StatusWith(ts)
      OBVIOUS
    <2> HIDE DEF ts
    <2> QED
      BY <2>1, <2>2
  <1>2. /\ queue' \in [AllSems -> Seq(Threads)]
        /\ Range(queue'[s]) = Range(queue[s]) \ Range(ts)
        /\ \A r \in AllSems : NoDuplicates(queue'[r])
        /\ \A r \in AllSems \ {s} : queue'[r] = queue[r]
    BY VQueues
  <1> HIDE DEF ts
  <1>3. currentThread \in Threads
    BY DEF IInv, TypeOK
  <1>4. OnePlace'
    <2>1. ASSUME NEW u \in Threads
          PROVE  /\ (status'[u] = "RUNNING") => (u = currentThread)
                 /\ (status'[u] = "JUST_CREATED") <=> (pc[u] = "new")
                 /\ (status'[u] = "DELETED") => (pc[u] = "finished")
                 /\ (pc[u] = "finished") => (status'[u] = "DELETED" \/ threadToBeDestroyed = u)
      BY <1>1 DEF IInv, OnePlace
    <2>2. ASSUME NEW u \in Threads, NEW r \in AllSems
          PROVE  (u \in Range(queue'[r])) <=> (/\ status'[u] = "BLOCKED"
                                               /\ pc[u] \in {"P", "Acquire"}
                                               /\ obj[u] = r)
      <3>1. (u \in Range(queue[r])) <=> (/\ status[u] = "BLOCKED"
                                         /\ pc[u] \in {"P", "Acquire"}
                                         /\ obj[u] = r)
        BY DEF IInv, OnePlace
      <3>2. CASE u \in Range(ts)
        BY <1>1, <1>2, <3>1, <3>2
      <3>3. CASE u \notin Range(ts)
        BY <1>1, <1>2, <3>1, <3>3
      <3> QED
        BY <3>2, <3>3
    <2>3. ASSUME NEW u \in Threads, NEW c \in Conditions
          PROVE  (u \in Range(waitQueue[c])) <=> (/\ status'[u] = "BLOCKED"
                                                  /\ pc[u] = "Wait"
                                                  /\ obj[u] = c)
      BY <1>1 DEF IInv, OnePlace
    <2>4. status'[currentThread] \in {"RUNNING", "BLOCKED", "READY"}
      BY <1>1, <1>3 DEF IInv, OnePlace
    <2> QED
      <3>1. \A c \in Conditions : NoDuplicates(waitQueue'[c])
        BY DEF IInv, OnePlace
      <3>2. ReadyOK(readyList', status') /\ \A r \in AllSems : NoDuplicates(queue'[r])
        BY <1>1, <1>2
      <3>3. ASSUME NEW u \in Threads
            PROVE  /\ (status'[u] = "RUNNING") => (u = currentThread')
                   /\ (status'[u] = "JUST_CREATED") <=> (pc'[u] = "new")
                   /\ (status'[u] = "DELETED") => (pc'[u] = "finished")
                   /\ (pc'[u] = "finished")
                        => (status'[u] = "DELETED" \/ threadToBeDestroyed' = u)
        BY <2>1
      <3>4. \A u \in Threads : \A r \in AllSems :
                (u \in Range(queue'[r])) <=> (/\ status'[u] = "BLOCKED"
                                             /\ pc'[u] \in {"P", "Acquire"}
                                             /\ obj'[u] = r)
        BY <2>2
      <3>5. \A u \in Threads : \A c \in Conditions :
                (u \in Range(waitQueue'[c])) <=> (/\ status'[u] = "BLOCKED"
                                                 /\ pc'[u] = "Wait"
                                                 /\ obj'[u] = c)
        BY <2>3
      <3>6. status'[currentThread'] \in {"RUNNING", "BLOCKED", "READY"}
        BY <2>4
      <3> QED
        BY ONLY ZenonT(60), <3>1, <3>2, <3>3, <3>4, <3>5, <3>6 DEF OnePlace
  <1>5. NoLostWakeup'
    <2>1. \A u \in Range(Removed(queue[s])) : u \in Woken(s)'
      BY <1>1 DEF Woken, ts
    <2>2. \A r \in AllSems : Woken(r) \subseteq Woken(r)'
      BY <1>1 DEF Woken
    <2> QED
      BY <2>1, <2>2, VKeepsWakeups DEF IInv
  <1>6. /\ status'[currentThread] = "RUNNING" => status[currentThread] = "RUNNING"
        /\ pc[currentThread] = "finished" => status'[currentThread] = status[currentThread]
    BY <1>1, <1>3
  <1> QED
    BY <1>1, <1>4, <1>5, <1>6

\* V on a semaphore that is not a lock's, whoever calls it.
LEMMA VInvariant ==
    ASSUME IInv, NEW s \in Semaphores, VBody(s),
           readyList' = ReadyListWith(Removed(queue[s])),
           status' = StatusWith(Removed(queue[s])),
           UNCHANGED <<currentThread, threadToBeDestroyed, lockOwner, waitQueue, pc,
                       obj, holding>>
    PROVE  IInv'
  <1>1. s \in AllSems /\ \A l \in Locks : l \in AllSems /\ l # s
    BY DEF AllSems
  <1>2. /\ OnePlace' /\ NoLostWakeup'
        /\ readyList' \in Seq(Threads) /\ status' \in [Threads -> Statuses]
        /\ status'[currentThread] = "RUNNING" => status[currentThread] = "RUNNING"
        /\ pc[currentThread] = "finished" => status'[currentThread] = status[currentThread]
    BY <1>1, VKeeps
  <1>3. /\ queue' \in [AllSems -> Seq(Threads)] /\ value' \in [AllSems -> Int]
        /\ \A r \in AllSems \ {s} : value'[r] = value[r]
    BY <1>1, VQueues
  <1>4. TypeOK'
    BY <1>2, <1>3 DEF IInv, TypeOK
  <1>5. AssertsHold' /\ MutualExclusion'
    BY <1>1, <1>2, <1>3 DEF IInv, AssertsHold, MutualExclusion
  <1> QED
    BY <1>2, <1>4, <1>5 DEF IInv

\* Lock::Release keeps the invariant.
LEMMA ReleaseInvariant ==
    ASSUME IInv, NEW t \in Threads, NEW l \in Locks, Release(t, l) PROVE IInv'
  <1>1. /\ AtUser(t) /\ l \in holding[t] /\ VBody(l)
        /\ lockOwner' = [lockOwner EXCEPT ![l] = -1]
        /\ holding' = [holding EXCEPT ![t] = @ \ {l}]
        /\ readyList' = ReadyListWith(Removed(queue[l]))
        /\ status' = StatusWith(Removed(queue[l]))
        /\ UNCHANGED <<currentThread, threadToBeDestroyed, waitQueue, pc, obj>>
    BY DEF Release, ReleaseBody
  <1>2. \A k \in Locks : k \in AllSems
    BY DEF AllSems
  <1>3. /\ OnePlace' /\ NoLostWakeup'
        /\ readyList' \in Seq(Threads) /\ status' \in [Threads -> Statuses]
        /\ status'[currentThread] = "RUNNING" => status[currentThread] = "RUNNING"
        /\ pc[currentThread] = "finished" => status'[currentThread] = status[currentThread]
    BY <1>1, <1>2, VKeeps
  <1>4. /\ queue' \in [AllSems -> Seq(Threads)] /\ value' \in [AllSems -> Int]
        /\ value'[l] = value[l] + 1
        /\ \A r \in AllSems \ {l} : value'[r] = value[r]
    BY <1>1, <1>2, VQueues
  <1>5. TypeOK'
    BY SMTT(60), <1>1, <1>3, <1>4 DEF IInv, TypeOK
  <1>6. /\ lockOwner[l] = tid[t] /\ lockOwner[l] # -1 /\ value[l] = 0
        /\ lockOwner \in [Locks -> Int] /\ holding \in [Threads -> SUBSET Locks]
    BY <1>1, TidAssumption DEF IInv, TypeOK, AssertsHold, MutualExclusion
  <1>7. \A u \in Threads : l \in holding[u] => u = t
    BY <1>1 DEF IInv, MutualExclusion
  <1>8. AssertsHold'
    <2>1. ASSUME NEW u \in Threads, NEW k \in holding'[u]
          PROVE  lockOwner'[k] = tid[u]
      <3>1. k \in holding[u] /\ k # l
        <4>1. CASE u = t
          BY <1>1, <1>6, <4>1
        <4>2. CASE u # t
          BY <1>1, <1>6, <1>7, <4>2
        <4> QED
          BY <4>1, <4>2
      <3>2. lockOwner[k] = tid[u]
        BY <3>1 DEF IInv, AssertsHold
      <3>3. k \in Locks
        BY <1>6, <3>1
      <3> QED
        BY <1>1, <1>6, <3>1, <3>2, <3>3
    <2> QED
      BY <1>1, <1>3, <2>1 DEF IInv, AssertsHold
  <1>9. MutualExclusion'
    <2>1. ASSUME NEW k \in Locks
          PROVE  value'[k] = IF lockOwner'[k] = -1 THEN 1 ELSE 0
      <3>1. CASE k = l
        <4>1. lockOwner'[k] = -1
          BY <1>1, <1>6, <3>1
        <4>2. value'[k] = 1
          BY ONLY <1>4, <1>6, <3>1
        <4> QED
          BY <4>1, <4>2
      <3>2. CASE k # l
        BY <1>1, <1>2, <1>4, <1>6, <3>2 DEF IInv, MutualExclusion
      <3> QED
        BY <3>1, <3>2
    <2>2. \A k \in Locks : \A u, v \in Threads :
              k \in holding'[u] /\ k \in holding'[v] => u = v
      BY <1>1, <1>6 DEF IInv, MutualExclusion
    <2> QED
      BY <2>1, <2>2 DEF MutualExclusion
  <1> QED
    BY <1>3, <1>5, <1>8, <1>9 DEF IInv

-----------------------------------------------------------------------------
(* Wait, Signal and Broadcast. *)

\* Condition::Wait keeps the invariant.
LEMMA WaitInvariant ==
    ASSUME IInv, NEW t \in Threads, NEW c \in Conditions, Wait(t, c) PROVE IInv'
  <1> DEFINE l == conditionLock[c]
             ts == Removed(queue[l])
  <1>1. /\ l \in Locks /\ l \in AllSems /\ \A k \in Locks : k \in AllSems
    BY DEF AllSems
  <1>2. /\ l \in holding[t] /\ VBody(l)
        /\ waitQueue' = [waitQueue EXCEPT ![c] = Append(waitQueue[c], t)]
        /\ lockOwner' = [lockOwner EXCEPT ![l] = -1]
        /\ holding' = [holding EXCEPT ![t] = @ \ {l}]
        /\ pc' = [pc EXCEPT ![t] = "Wait"]
        /\ obj' = [obj EXCEPT ![t] = c]
    BY DEF Wait, ReleaseBody
  <1>3. /\ t = currentThread /\ status[t] = "RUNNING" /\ pc[t] = "user"
        /\ threadToBeDestroyed = NoThread
        /\ pc \in [Threads -> Labels] /\ waitQueue \in [Conditions -> Seq(Threads)]
        /\ obj \in [Threads -> AllSems \cup Conditions \cup {NoObject}]
        /\ \A u \in Threads : status[u] = "RUNNING" => u = t
    BY DEF Wait, AtUser, Executing, IInv, TypeOK, OnePlace, AssertsHold
  <1>4. Sleep(t, ReadyListWith(ts), StatusWith(ts), NoThread)
    BY <1>3 DEF Wait
  <1>5. /\ ReadyListWith(ts) \in Seq(Threads)
        /\ StatusWith(ts) \in [Threads -> Statuses]
        /\ ReadyOK(ReadyListWith(ts), StatusWith(ts))
        /\ \A u \in Range(ts) : /\ u \in Threads /\ status[u] = "BLOCKED"
                                 /\ pc[u] \in {"P", "Acquire"} /\ obj[u] = l
        /\ \A u \in Threads : u \in Range(ts) => StatusWith(ts)[u] = "READY"
        /\ \A u \in Threads : u \notin Range(ts) => StatusWith(ts)[u] = status[u]
    BY <1>1, VWakes
  <1>6. /\ queue' \in [AllSems -> Seq(Threads)] /\ value' \in [AllSems -> Int]
        /\ value'[l] = value[l] + 1
        /\ Range(queue'[l]) = Range(queue[l]) \ Range(ts)
        /\ \A r \in AllSems : NoDuplicates(queue'[r])
        /\ \A r \in AllSems \ {l} : queue'[r] = queue[r] /\ value'[r] = value[r]
    BY <1>1, <1>2, VQueues
  <1> HIDE DEF l, ts
  <1>7. /\ StatusWith(ts)[t] = "RUNNING"
        /\ \A u \in Threads : StatusWith(ts)[u] = "RUNNING" => u = t
    BY <1>3, <1>5
  <1>8. /\ currentThread' \in Threads
        /\ readyList' \in Seq(Threads)
        /\ status' \in [Threads -> Statuses]
        /\ ReadyOK(readyList', status')
        /\ status'[currentThread'] \in {"RUNNING", "BLOCKED"}
        /\ threadToBeDestroyed' = NoThread
        /\ status'[t] = "BLOCKED"
        /\ \A u \in Threads \ {t} :
              \/ status'[u] = StatusWith(ts)[u] /\ StatusWith(ts)[u] # "RUNNING"
              \/ StatusWith(ts)[u] = "READY" /\ status'[u] = "RUNNING" /\ u = currentThread'
    <2>1. /\ ReadyListWith(ts) \in Seq(Threads)
          /\ StatusWith(ts) \in [Threads -> Statuses]
          /\ ReadyOK(ReadyListWith(ts), StatusWith(ts))
      BY <1>5
    <2> QED
      BY SMTT(60), <1>4, <1>7, <2>1, BlockReady
  <1>9. /\ \A u \in Range(ts) : status'[u] \in {"READY", "RUNNING"} /\ u # t
        /\ \A u \in Threads \ {t} :
              u \notin Range(ts) => \/ status'[u] = status[u]
                                    \/ status[u] = "READY" /\ status'[u] = "RUNNING"
        /\ \A u \in Threads : status'[u] = "RUNNING" => u = currentThread'
    <2>1. \A u \in Range(ts) : u \in Threads \ {t} /\ StatusWith(ts)[u] = "READY"
      BY <1>3, <1>5
    <2>2. \A u \in Range(ts) : status'[u] \in {"READY", "RUNNING"} /\ u # t
      BY <1>8, <2>1
    <2>3. ASSUME NEW u \in Threads \ {t}, u \notin Range(ts)
          PROVE  \/ status'[u] = status[u]
                 \/ status[u] = "READY" /\ status'[u] = "RUNNING"
      BY <1>5, <1>8, <2>3
    <2>4. \A u \in Threads : status'[u] = "RUNNING" => u = currentThread'
      BY <1>8
    <2> QED
      BY <2>2, <2>3, <2>4, ZenonT(60)
  <1>10. /\ \A d \in Conditions : t \notin Range(waitQueue[d])
         /\ \A r \in AllSems : t \notin Range(queue[r])
    BY <1>3 DEF IInv, OnePlace
  <1>11. /\ NoDuplicates(waitQueue'[c]) /\ Range(waitQueue'[c]) = Range(waitQueue[c]) \cup {t}
         /\ \A d \in Conditions \ {c} : waitQueue'[d] = waitQueue[d]
         /\ waitQueue' \in [Conditions -> Seq(Threads)]
    <2>1. waitQueue[c] \in Seq(Threads) /\ NoDuplicates(waitQueue[c])
      BY <1>3 DEF IInv, OnePlace
    <2>2. /\ Append(waitQueue[c], t) \in Seq(Threads)
          /\ NoDuplicates(Append(waitQueue[c], t))
          /\ Range(Append(waitQueue[c], t)) = Range(waitQueue[c]) \cup {t}
      BY <1>10, <2>1, AppendList
    <2> QED
      BY <1>2, <1>3, <2>2
  <1>12. TypeOK'
    BY SMTT(60), <1>2, <1>3, <1>6, <1>8, <1>11 DEF IInv, TypeOK, Labels
  <1>13. OnePlace'
    <2>1. ASSUME NEW u \in Threads
          PROVE  /\ (status'[u] = "JUST_CREATED") <=> (pc'[u] = "new")
                 /\ (status'[u] = "DELETED") => (pc'[u] = "finished")
                 /\ (pc'[u] = "finished") => (status'[u] = "DELETED")
      <3>1. /\ (status[u] = "JUST_CREATED") <=> (pc[u] = "new")
            /\ (status[u] = "DELETED") => (pc[u] = "finished")
            /\ (pc[u] = "finished") => (status[u] = "DELETED" \/ threadToBeDestroyed = u)
        BY DEF IInv, OnePlace
      <3> QED
        BY <1>2, <1>3, <1>5, <1>8, <1>9, <3>1
    <2>2. ASSUME NEW u \in Threads, NEW r \in AllSems
          PROVE  (u \in Range(queue'[r])) <=> (/\ status'[u] = "BLOCKED"
                                               /\ pc'[u] \in {"P", "Acquire"}
                                               /\ obj'[u] = r)
      <3>1. (u \in Range(queue[r])) <=> (/\ status[u] = "BLOCKED"
                                         /\ pc[u] \in {"P", "Acquire"}
                                         /\ obj[u] = r)
        BY DEF IInv, OnePlace
      <3>2. CASE u = t
        BY <1>2, <1>3, <1>6, <1>10, <3>2
      <3>3. CASE u \in Range(ts)
        BY <1>2, <1>3, <1>5, <1>6, <1>9, <3>1, <3>3
      <3>4. CASE u # t /\ u \notin Range(ts)
        BY <1>2, <1>3, <1>6, <1>9, <3>1, <3>4
      <3> QED
        BY <3>2, <3>3, <3>4
    <2>3. ASSUME NEW u \in Threads, NEW d \in Conditions
          PROVE  (u \in Range(waitQueue'[d])) <=> (/\ status'[u] = "BLOCKED"
                                                   /\ pc'[u] = "Wait"
                                                   /\ obj'[u] = d)
      <3>1. (u \in Range(waitQueue[d])) <=> (/\ status[u] = "BLOCKED"
                                             /\ pc[u] = "Wait"
                                             /\ obj[u] = d)
        BY DEF IInv, OnePlace
      <3>2. CASE u = t
        BY <1>2, <1>3, <1>8, <1>10, <1>11, <3>2
      <3>3. CASE u # t
        BY <1>2, <1>3, <1>5, <1>9, <1>11, <3>1, <3>3
      <3> QED
        BY <3>2, <3>3
    <2>4. \A d \in Conditions : NoDuplicates(waitQueue'[d])
      BY <1>11 DEF IInv, OnePlace
    <2> QED
      BY <1>6, <1>8, <1>9, <2>1, <2>2, <2>3, <2>4 DEF OnePlace
  <1>14. /\ lockOwner[l] = tid[t] /\ lockOwner[l] # -1 /\ value[l] = 0
         /\ lockOwner \in [Locks -> Int] /\ holding \in [Threads -> SUBSET Locks]
         /\ \A u \in Threads : l \in holding[u] => u = t
    BY SMTT(60), <1>1, <1>2, TidAssumption DEF IInv, TypeOK, AssertsHold, MutualExclusion
  <1>15. AssertsHold'
    BY SMTT(60), <1>1, <1>2, <1>8, <1>14 DEF IInv, AssertsHold
  <1>16. MutualExclusion'
    <2>1. ASSUME NEW k \in Locks
          PROVE  value'[k] = IF lockOwner'[k] = -1 THEN 1 ELSE 0
      <3>1. CASE k = l
        BY SMTT(60), <1>1, <1>2, <1>6, <1>14, <3>1
      <3>2. CASE k # l
        BY <1>1, <1>2, <1>6, <1>14, <3>2 DEF IInv, MutualExclusion
      <3> QED
        BY <3>1, <3>2
    <2>2. \A k \in Locks : \A u, v \in Threads :
              k \in holding'[u] /\ k \in holding'[v] => u = v
      BY <1>1, <1>2, <1>14 DEF IInv, MutualExclusion
    <2> QED
      BY <2>1, <2>2 DEF MutualExclusion
  <1>17. NoLostWakeup'
    <2>1. \A u \in Range(Removed(queue[l])) : u \in Woken(l)'
      BY <1>2, <1>3, <1>5, <1>9 DEF Woken, ts
    <2>2. \A r \in AllSems : Woken(r) \subseteq Woken(r)'
      BY <1>2, <1>3, <1>9 DEF Woken
    <2> QED
      BY <1>1, <1>2, <2>1, <2>2, VKeepsWakeups DEF IInv
  <1> QED
    BY <1>12, <1>13, <1>15, <1>16, <1>17 DEF IInv

\* Signal and Broadcast: ts leaves the wait queue of c for the ready list.
LEMMA WakeWaitersInvariant ==
    ASSUME IInv, NEW c \in Conditions, NEW ts \in Seq(Threads), NEW rest \in Seq(Threads),
           NoDuplicates(ts), NoDuplicates(rest), Range(ts) \subseteq Range(waitQueue[c]),
           Range(rest) = Range(waitQueue[c]) \ Range(ts), WakeWaiters(c, ts, rest)
    PROVE  IInv'
  <1>1. \A u \in Range(ts) : /\ u \in Threads /\ status[u] = "BLOCKED"
                             /\ pc[u] = "Wait" /\ obj[u] = c
    <2>1. \A u \in Range(ts) : u \in Threads
      BY SMTT(60) DEF Range
    <2> QED
      BY <2>1 DEF IInv, OnePlace
  <1>2. /\ waitQueue' = [waitQueue EXCEPT ![c] = rest]
        /\ readyList' = ReadyListWith(ts) /\ status' = StatusWith(ts)
        /\ UNCHANGED <<currentThread, threadToBeDestroyed, value, queue, lockOwner,
                       pc, obj, holding>>
    BY DEF WakeWaiters
  <1>3. /\ readyList' \in Seq(Threads) /\ status' \in [Threads -> Statuses]
        /\ ReadyOK(readyList', status')
        /\ \A u \in Threads : u \in Range(ts) => status'[u] = "READY"
        /\ \A u \in Threads : u \notin Range(ts) => status'[u] = status[u]
    <2>1. TypeOK /\ ReadyOK(readyList, status)
      BY DEF IInv, OnePlace
    <2>2. \A u \in Range(ts) : status[u] # "READY"
      BY <1>1
    <2> QED
      BY <1>2, <2>1, <2>2, WakeReady
  <1>4. /\ waitQueue' \in [Conditions -> Seq(Threads)] /\ waitQueue'[c] = rest
        /\ \A d \in Conditions \ {c} : waitQueue'[d] = waitQueue[d]
    BY <1>2 DEF IInv, TypeOK
  <1>5. currentThread \in Threads
    BY DEF IInv, TypeOK
  <1>6. TypeOK'
    BY <1>2, <1>3, <1>4 DEF IInv, TypeOK
  <1>7. OnePlace'
    <2>1. ASSUME NEW u \in Threads
          PROVE  /\ (status'[u] = "RUNNING") => (u = currentThread)
                 /\ (status'[u] = "JUST_CREATED") <=> (pc[u] = "new")
                 /\ (status'[u] = "DELETED") => (pc[u] = "finished")
                 /\ (pc[u] = "finished") => (status'[u] = "DELETED" \/ threadToBeDestroyed = u)
      BY <1>1, <1>3 DEF IInv, OnePlace
    <2>2. ASSUME NEW u \in Threads, NEW r \in AllSems
          PROVE  (u \in Range(queue[r])) <=> (/\ status'[u] = "BLOCKED"
                                              /\ pc[u] \in {"P", "Acquire"}
                                              /\ obj[u] = r)
      BY <1>1, <1>3 DEF IInv, OnePlace
    <2>3. ASSUME NEW u \in Threads, NEW d \in Conditions
          PROVE  (u \in Range(waitQueue'[d])) <=> (/\ status'[u] = "BLOCKED"
                                                   /\ pc[u] = "Wait"
                                                   /\ obj[u] = d)
      <3>1. (u \in Range(waitQueue[d])) <=> (/\ status[u] = "BLOCKED"
                                             /\ pc[u] = "Wait"
                                             /\ obj[u] = d)
        BY DEF IInv, OnePlace
      <3>2. CASE u \in Range(ts)
        BY <1>1, <1>3, <1>4, <3>1, <3>2
      <3>3. CASE u \notin Range(ts)
        BY <1>3, <1>4, <3>1, <3>3
      <3> QED
        BY <3>2, <3>3
    <2>4. /\ \A d \in Conditions : NoDuplicates(waitQueue'[d])
          /\ \A r \in AllSems : NoDuplicates(queue[r])
      BY <1>4 DEF IInv, OnePlace
    <2>5. status'[currentThread] \in {"RUNNING", "BLOCKED", "READY"}
      BY <1>3, <1>5 DEF IInv, OnePlace
    <2> QED
      <3>1. /\ pc' = pc /\ obj' = obj /\ queue' = queue /\ currentThread' = currentThread
            /\ threadToBeDestroyed' = threadToBeDestroyed
        BY <1>1, <1>2
      <3>2. ReadyOK(readyList', status')
        BY <1>3
      <3> QED
        BY ONLY ZenonT(60), <2>1, <2>2, <2>3, <2>4, <2>5, <3>1, <3>2 DEF OnePlace
  <1>8. AssertsHold' /\ MutualExclusion'
    <2>1. /\ status'[currentThread] = "RUNNING" => status[currentThread] = "RUNNING"
          /\ pc[currentThread] = "finished" => status'[currentThread] = status[currentThread]
      BY <1>1, <1>3, <1>5
    <2> QED
      BY <1>2, <2>1 DEF IInv, AssertsHold, MutualExclusion
  <1>9. NoLostWakeup'
    <2>1. \A s \in AllSems : Woken(s) \subseteq Woken(s)'
      BY <1>1, <1>2, <1>3 DEF Woken
    <2> QED
      BY <1>2, <2>1, WakeupsKept DEF IInv
  <1> QED
    BY <1>6, <1>7, <1>8, <1>9 DEF IInv

\* Condition::Signal keeps the invariant.
LEMMA SignalInvariant ==
    ASSUME IInv, NEW t \in Threads, NEW c \in Conditions, Signal(t, c) PROVE IInv'
  <1>1. waitQueue[c] \in Seq(Threads) /\ NoDuplicates(waitQueue[c])
    BY DEF IInv, TypeOK, OnePlace
  <1>2. WakeWaiters(c, Removed(waitQueue[c]), Remaining(waitQueue[c]))
    BY DEF Signal
  <1> QED
    BY <1>1, <1>2, RemoveList, WakeWaitersInvariant

\* Condition::Broadcast keeps the invariant.
LEMMA BroadcastInvariant ==
    ASSUME IInv, NEW t \in Threads, NEW c \in Conditions, Broadcast(t, c) PROVE IInv'
  <1>1. waitQueue[c] \in Seq(Threads) /\ NoDuplicates(waitQueue[c])
    BY DEF IInv, TypeOK, OnePlace
  <1>2. WakeWaiters(c, waitQueue[c], <<>>)
    BY DEF Broadcast
  <1>3. <<>> \in Seq(Threads) /\ NoDuplicates(<<>>) /\ Range(<<>>) = {}
    BY SMTT(60), EmptyList DEF NoDuplicates, Range
  <1>4. Range(<<>>) = Range(waitQueue[c]) \ Range(waitQueue[c])
    BY <1>3
  <1> QED
    BY <1>1, <1>2, <1>3, <1>4, WakeWaitersInvariant

-----------------------------------------------------------------------------
(* The theorems. *)

\* A step that changes nothing keeps the invariant.
LEMMA StutterInvariant == IInv /\ UNCHANGED vars => IInv'
  <1> SUFFICES ASSUME IInv, UNCHANGED vars PROVE IInv'
    OBVIOUS
  <1>1. TypeOK' /\ MutualExclusion'
    BY DEF IInv, vars, schedVars, TypeOK, MutualExclusion
  <1>2. OnePlace' /\ AssertsHold'
    BY DEF IInv, vars, schedVars, OnePlace, ReadyOK, AssertsHold
  <1>3. NoLostWakeup'
    BY DEF IInv, vars, schedVars, NoLostWakeup, Woken
  <1> QED
    BY <1>1, <1>2, <1>3 DEF IInv

\* IInv is inductive: every primitive, and every interrupt handler that fires
\* between two of them, preserves it.
THEOREM NextInvariant == IInv /\ [Next]_vars => IInv'
  <1> SUFFICES ASSUME IInv, [Next]_vars PROVE IInv'
    OBVIOUS
  <1>1. CASE LeaveIdle
    BY <1>1, LeaveIdleInvariant
  <1>2. ASSUME NEW s \in Devices, HandlerV(s) PROVE IInv'
    BY <1>2, VInvariant DEF HandlerV
  <1>3. ASSUME NEW t \in Threads, Yield(t) PROVE IInv'
    BY <1>3, YieldInvariant
  <1>4. ASSUME NEW t \in Threads, Finish(t) PROVE IInv'
    BY <1>4, FinishInvariant
  <1>5. ASSUME NEW t \in Threads, NEW u \in Threads, Fork(t, u) PROVE IInv'
    BY <1>5, ForkInvariant
  <1>6. ASSUME NEW t \in Threads, NEW s \in Semaphores, P(t, s) PROVE IInv'
    BY <1>6, PInvariant
  <1>7. ASSUME NEW t \in Threads, NEW s \in Semaphores, V(t, s) PROVE IInv'
    BY <1>7, VInvariant DEF V
  <1>8. ASSUME NEW t \in Threads, NEW l \in Locks, Acquire(t, l) PROVE IInv'
    BY <1>8, AcquireInvariant
  <1>9. ASSUME NEW t \in Threads, NEW l \in Locks, Release(t, l) PROVE IInv'
    BY <1>9, ReleaseInvariant
  <1>10. ASSUME NEW t \in Threads, NEW c \in Conditions, Wait(t, c) PROVE IInv'
    BY <1>10, WaitInvariant
  <1>11. ASSUME NEW t \in Threads, NEW c \in Conditions, Signal(t, c) PROVE IInv'
    BY <1>11, SignalInvariant
  <1>12. ASSUME NEW t \in Threads, NEW c \in Conditions, Broadcast(t, c) PROVE IInv'
    BY <1>12, BroadcastInvariant
  <1>13. CASE UNCHANGED vars
    BY <1>13, StutterInvariant
  <1> QED
    BY <1>1, <1>2, <1>3, <1>4, <1>5, <1>6, <1>7, <1>8, <1>9, <1>10, <1>11, <1>12,
       <1>13 DEF Next

\* Every state that the kernel reaches satisfies the invariant.
LEMMA Invariance == Spec => []IInv
  BY InitInvariant, NextInvariant, PTL DEF Spec

\* Type correctness: in particular no list ever holds a NULL thread.
THEOREM TypeCorrectness == Spec => []TypeOK
  <1>1. IInv => TypeOK
    BY DEF IInv
  <1> QED
    BY Invariance, <1>1, PTL

\* Every thread is in the one place its status and its stack say: no wake-up
\* makes a thread ready twice and no list holds a deleted thread.
THEOREM EveryThreadInOnePlace == Spec => []OnePlace
  <1>1. IInv => OnePlace
    BY DEF IInv
  <1> QED
    BY Invariance, <1>1, PTL

\* The ASSERTs of Lock, Condition, Thread::Finish and ~Thread never fire.
THEOREM AssertsNeverFire == Spec => []AssertsHold
  <1>1. IInv => AssertsHold
    BY DEF IInv
  <1> QED
    BY Invariance, <1>1, PTL

\* Locks exclude, although Release wakes a waiter without handing it the lock.
THEOREM LocksExclude == Spec => []MutualExclusion
  <1>1. IInv => MutualExclusion
    BY DEF IInv
  <1> QED
    BY Invariance, <1>1, PTL

\* No V is lost: units of value are matched by woken threads while others sleep.
THEOREM NoWakeupIsLost == Spec => []NoLostWakeup
  <1>1. IInv => NoLostWakeup
    BY DEF IInv
  <1> QED
    BY Invariance, <1>1, PTL

-----------------------------------------------------------------------------
(* Synch implements Monitor. *)

\* The monitor's view of the locks and of the conditions.
Holder == [l \in Locks |-> {t \in Threads : lockOwner[l] = tid[t]}]
Waiting == [c \in Conditions |-> Range(waitQueue[c])]

\* Initially every lock is free and nobody waits.
LEMMA InitImplements == Init => MonitorImpl!Init
  <1> SUFFICES ASSUME Init PROVE MonitorImpl!Init
    OBVIOUS
  <1>1. \A l \in Locks : {t \in Threads : lockOwner[l] = tid[t]} = {}
    BY TidAssumption DEF Init
  <1>2. \A c \in Conditions : Range(waitQueue[c]) = {}
    <2>1. \A c \in Conditions : waitQueue[c] = <<>> /\ <<>> \in Seq(Threads)
      BY SMTT(60) DEF Init
    <2>2. Range(<<>>) = {}
      BY SMTT(60), EmptyList DEF Range
    <2> QED
      BY <2>1, <2>2
  <1> QED
    BY <1>1, <1>2 DEF MonitorImpl!Init

\* A step that leaves the owners and the wait queues alone is a stutter.
LEMMA StutterImplements ==
    UNCHANGED <<lockOwner, waitQueue>> => UNCHANGED MonitorImpl!vars
  BY DEF MonitorImpl!vars

\* Lock::Acquire is a step of the monitor.
LEMMA AcquireImplements ==
    ASSUME IInv, NEW t \in Threads, NEW l \in Locks, Acquire(t, l)
    PROVE  [MonitorImpl!Next]_MonitorImpl!vars
  <1>1. CASE PSleeps(t, l, "Acquire")
    BY <1>1, StutterImplements DEF PSleeps
  <1>2. CASE PPasses(t, l) /\ lockOwner' = [lockOwner EXCEPT ![l] = tid[t]]
    <2>1. lockOwner[l] = -1 /\ waitQueue' = waitQueue /\ lockOwner \in [Locks -> Int]
      BY <1>2 DEF IInv, TypeOK, MutualExclusion, PPasses
    <2>2. Holder[l] = {}
      BY <2>1, TidAssumption DEF Holder
    <2>3. \A c \in Conditions : t \notin Waiting[c]
      <3>1. status[t] = "RUNNING"
        BY DEF Acquire, In, Executing
      <3> QED
        BY <3>1 DEF IInv, OnePlace, Waiting
    <2>4. Holder' = [Holder EXCEPT ![l] = {t}]
      <3>1. {u \in Threads : lockOwner'[l] = tid[u]} = {t}
        BY <1>2, <2>1, TidAssumption
      <3>2. \A k \in Locks \ {l} : lockOwner'[k] = lockOwner[k]
        BY <1>2, <2>1
      <3> QED
        BY <3>1, <3>2 DEF Holder
    <2>5. Waiting' = Waiting
      BY <2>1 DEF Waiting
    <2>6. MonitorImpl!Acquire(t, l)
      BY <2>2, <2>3, <2>4, <2>5 DEF MonitorImpl!Acquire, Holder, Waiting
    <2> QED
      BY <2>6 DEF MonitorImpl!Next
  <1> QED
    BY <1>1, <1>2 DEF Acquire

\* A thread that holds a lock is the lock's only holder in the monitor.
LEMMA HolderIsSingle ==
    ASSUME IInv, NEW t \in Threads, NEW l \in Locks, l \in holding[t]
    PROVE  Holder[l] = {t}
  BY SMTT(60), TidAssumption DEF IInv, AssertsHold, Holder

\* Clearing lockOwner empties the holder.
LEMMA HolderCleared ==
    ASSUME IInv, NEW l \in Locks, lockOwner' = [lockOwner EXCEPT ![l] = -1]
    PROVE  Holder' = [Holder EXCEPT ![l] = {}]
  <1>1. lockOwner \in [Locks -> Int]
    BY DEF IInv, TypeOK
  <1>2. {u \in Threads : lockOwner'[l] = tid[u]} = {}
    BY <1>1, TidAssumption
  <1>3. \A k \in Locks \ {l} : lockOwner'[k] = lockOwner[k]
    BY <1>1
  <1>4. \A k \in Locks : Holder'[k] = [Holder EXCEPT ![l] = {}][k]
    BY <1>2, <1>3 DEF Holder
  <1> QED
    BY <1>4 DEF Holder

\* Lock::Release is a step of the monitor.
LEMMA ReleaseImplements ==
    ASSUME IInv, NEW t \in Threads, NEW l \in Locks, Release(t, l)
    PROVE  [MonitorImpl!Next]_MonitorImpl!vars
  <1>1. /\ l \in holding[t] /\ lockOwner' = [lockOwner EXCEPT ![l] = -1]
        /\ waitQueue' = waitQueue
    BY DEF Release, ReleaseBody
  <1>2. Holder[l] = {t} /\ Holder' = [Holder EXCEPT ![l] = {}]
    BY <1>1, HolderIsSingle, HolderCleared
  <1>3. Waiting' = Waiting
    BY <1>1 DEF Waiting
  <1>4. MonitorImpl!Release(t, l)
    BY <1>2, <1>3 DEF MonitorImpl!Release, Holder, Waiting
  <1> QED
    BY <1>4 DEF MonitorImpl!Next

\* Condition::Wait is a step of the monitor.
LEMMA WaitImplements ==
    ASSUME IInv, NEW t \in Threads, NEW c \in Conditions, Wait(t, c)
    PROVE  [MonitorImpl!Next]_MonitorImpl!vars
  <1> DEFINE l == conditionLock[c]
  <1>1. /\ l \in Locks /\ l \in holding[t] /\ lockOwner' = [lockOwner EXCEPT ![l] = -1]
        /\ waitQueue' = [waitQueue EXCEPT ![c] = Append(waitQueue[c], t)]
    BY DEF Wait, ReleaseBody
  <1>2. Holder[l] = {t} /\ Holder' = [Holder EXCEPT ![l] = {}]
    BY <1>1, HolderIsSingle, HolderCleared
  <1>3. waitQueue \in [Conditions -> Seq(Threads)]
    BY DEF IInv, TypeOK
  <1>4. Range(Append(waitQueue[c], t)) = Range(waitQueue[c]) \cup {t}
    BY <1>3, AppendList
  <1>5. Waiting' = [Waiting EXCEPT ![c] = @ \cup {t}]
    BY <1>1, <1>3, <1>4 DEF Waiting
  <1>6. MonitorImpl!Wait(t, c)
    BY <1>2, <1>5 DEF MonitorImpl!Wait, Holder, Waiting
  <1> QED
    BY <1>6 DEF MonitorImpl!Next

\* Condition::Signal is a step of the monitor.
LEMMA SignalImplements ==
    ASSUME IInv, NEW t \in Threads, NEW c \in Conditions, Signal(t, c)
    PROVE  [MonitorImpl!Next]_MonitorImpl!vars
  <1>1. /\ conditionLock[c] \in Locks /\ conditionLock[c] \in holding[t]
        /\ lockOwner' = lockOwner
        /\ waitQueue' = [waitQueue EXCEPT ![c] = Remaining(waitQueue[c])]
    BY DEF Signal, WakeWaiters
  <1>2. /\ waitQueue \in [Conditions -> Seq(Threads)]
        /\ waitQueue[c] \in Seq(Threads) /\ NoDuplicates(waitQueue[c])
    BY DEF IInv, TypeOK, OnePlace
  <1>3. CASE waitQueue[c] = <<>>
    <2>1. waitQueue' = waitQueue
      BY <1>1, <1>2, <1>3 DEF Remaining
    <2> QED
      BY <1>1, <2>1, StutterImplements
  <1>4. CASE waitQueue[c] # <<>>
    <2>1. PICK w \in Range(waitQueue[c]) : Range(Removed(waitQueue[c])) = {w}
      BY <1>2, <1>4, RemoveList
    <2>2. Range(Remaining(waitQueue[c])) = Range(waitQueue[c]) \ {w}
      BY <1>2, <2>1, RemoveList
    <2>3. Waiting' = [Waiting EXCEPT ![c] = @ \ {w}] /\ w \in Waiting[c]
      BY <1>1, <1>2, <2>2 DEF Waiting
    <2>4. Holder[conditionLock[c]] = {t} /\ Holder' = Holder
      BY SMTT(60), <1>1, HolderIsSingle DEF Holder
    <2>5. MonitorImpl!Signal(t, c)
      BY <2>3, <2>4 DEF MonitorImpl!Signal, Holder, Waiting
    <2> QED
      BY <2>5 DEF MonitorImpl!Next
  <1> QED
    BY <1>3, <1>4

\* Condition::Broadcast is a step of the monitor.
LEMMA BroadcastImplements ==
    ASSUME IInv, NEW t \in Threads, NEW c \in Conditions, Broadcast(t, c)
    PROVE  [MonitorImpl!Next]_MonitorImpl!vars
  <1>1. /\ conditionLock[c] \in Locks /\ conditionLock[c] \in holding[t]
        /\ lockOwner' = lockOwner /\ waitQueue' = [waitQueue EXCEPT ![c] = <<>>]
    BY DEF Broadcast, WakeWaiters
  <1>2. waitQueue \in [Conditions -> Seq(Threads)]
    BY DEF IInv, TypeOK
  <1>3. Range(<<>>) = {}
    BY SMTT(60), EmptyList DEF Range
  <1>4. Waiting' = [Waiting EXCEPT ![c] = {}]
    BY <1>1, <1>2, <1>3 DEF Waiting
  <1>5. Holder[conditionLock[c]] = {t} /\ Holder' = Holder
    BY SMTT(60), <1>1, HolderIsSingle DEF Holder
  <1>6. MonitorImpl!Broadcast(t, c)
    BY <1>4, <1>5 DEF MonitorImpl!Broadcast, Holder, Waiting
  <1> QED
    BY <1>6 DEF MonitorImpl!Next

\* Every step of the primitives is a step of the monitor or a stutter.
LEMMA NextImplements == IInv /\ [Next]_vars => [MonitorImpl!Next]_MonitorImpl!vars
  <1> SUFFICES ASSUME IInv, [Next]_vars PROVE [MonitorImpl!Next]_MonitorImpl!vars
    OBVIOUS
  <1>1. CASE LeaveIdle \/ UNCHANGED vars
    BY <1>1, StutterImplements DEF LeaveIdle, vars
  <1>2. ASSUME NEW s \in Devices, HandlerV(s) PROVE UNCHANGED MonitorImpl!vars
    BY <1>2, StutterImplements DEF HandlerV
  <1>3. ASSUME NEW t \in Threads, Yield(t) \/ Finish(t) PROVE UNCHANGED MonitorImpl!vars
    BY <1>3, StutterImplements DEF Yield, Finish
  <1>4. ASSUME NEW t \in Threads, NEW u \in Threads, Fork(t, u)
        PROVE  UNCHANGED MonitorImpl!vars
    BY <1>4, StutterImplements DEF Fork
  <1>5. ASSUME NEW t \in Threads, NEW s \in Semaphores, P(t, s) \/ V(t, s)
        PROVE  UNCHANGED MonitorImpl!vars
    BY <1>5, StutterImplements DEF P, V, PSleeps, PPasses
  <1>6. ASSUME NEW t \in Threads, NEW l \in Locks, Acquire(t, l) \/ Release(t, l)
        PROVE  [MonitorImpl!Next]_MonitorImpl!vars
    BY <1>6, AcquireImplements, ReleaseImplements
  <1>7. ASSUME NEW t \in Threads, NEW c \in Conditions,
               Wait(t, c) \/ Signal(t, c) \/ Broadcast(t, c)
        PROVE  [MonitorImpl!Next]_MonitorImpl!vars
    BY <1>7, WaitImplements, SignalImplements, BroadcastImplements
  <1> QED
    BY <1>1, <1>2, <1>3, <1>4, <1>5, <1>6, <1>7 DEF Next

\* The semaphore-based locks and conditions implement the monitor of synch.h.
THEOREM ImplementsMonitor == Spec => MonitorSpec
  BY InitImplements, NextImplements, Invariance, PTL
  DEF Spec, MonitorSpec, MonitorImpl!Spec
==============================================================================
