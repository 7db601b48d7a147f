---------------------------- MODULE MigrateProof -----------------------------
(***************************************************************************)
(* The semaphores of user programs stay sound through a migration, and a   *)
(* process that nobody disturbed arrives whole, for any number of threads, *)
(* semaphores, cells and pages and any lead of the sender.                 *)
(***************************************************************************)
EXTENDS Migrate, DataLemmas

\* Zenon has a minute for a leaf; a leaf with arithmetic, functions or sequences asks
\* for the SMT solver.
USE ZenonT(60)

-----------------------------------------------------------------------------
(* The semaphores of one process: its tables, what its threads do and where. *)

Statuses == {"none", "user", "asleep", "woken", "stranded", "dangling", "done"}
Semaphore == [value : Nat, queue : Seq(Threads)]
Tables == [Bits(MaxSem) -> Semaphore \cup {NULL}]
Doing == [Threads -> Statuses]
Places == [Threads -> Bits(MaxSem) \cup {NULL}]

Asleep(doing, place, id) == {t \in Threads : doing[t] = "asleep" /\ place[t] = id}
Awake(doing, place, id) == {t \in Threads : doing[t] = "woken" /\ place[t] = id}

\* A semaphore: its queue holds its sleepers, each once, and while there is one every
\* unit of its value has a woken thread of its own.
Served(s, doing, place, id) ==
    /\ Range(s.queue) = Asleep(doing, place, id)
    /\ NoDuplicates(s.queue)
    /\ s.queue # <<>> => ExistsInjection(1 .. s.value, Awake(doing, place, id))

Sleeps(sems, doing, place) ==
    /\ \A t \in Threads : doing[t] \in {"asleep", "woken"} <=> place[t] # NULL
    /\ \A t \in Threads : place[t] # NULL => sems[place[t]] # NULL
    /\ \A id \in Bits(MaxSem) : sems[id] # NULL => Served(sems[id], doing, place, id)

\* A call changes semaphore id, and nothing but for threads that are in no P but its.
Touches(id, sems, doing, place, sems2, doing2, place2) ==
    /\ sems2[id] # NULL
    /\ \A j \in Bits(MaxSem) : j # id => sems2[j] = sems[j]
    /\ \A t \in Threads :
           \/ doing2[t] = doing[t] /\ place2[t] = place[t]
           \/ /\ place[t] \in {id, NULL} /\ place2[t] \in {id, NULL}
              /\ doing2[t] \in {"asleep", "woken"} <=> place2[t] # NULL
    /\ Served(sems2[id], doing2, place2, id)

\* What a call of thread t may do to the threads: none starts or ends, and another
\* thread in user code stays there.
Goes(doing, next, t) ==
    \A u \in Threads : \/ next[u] = doing[u]
                       \/ /\ doing[u] \notin {"none", "done"} /\ next[u] \notin {"none", "done"}
                          /\ u = t \/ doing[u] # "user"

\* A call on semaphore id, and what it leaves.
Inside(sems, doing, place, id) ==
    /\ sems \in Tables /\ doing \in Doing /\ place \in Places /\ Sleeps(sems, doing, place)
    /\ id \in Bits(MaxSem) /\ sems[id] # NULL

Leaves(sems, doing2, place, doing, t) ==
    /\ sems \in Tables /\ doing2 \in Doing /\ place \in Places /\ Sleeps(sems, doing2, place)
    /\ Goes(doing, doing2, t)

\* What becomes of the threads inside P of a semaphore that is destroyed.
Stranded(doing, place, id) ==
    [v \in Threads |-> IF place[v] # id THEN doing[v]
                       ELSE IF doing[v] = "asleep" THEN "stranded" ELSE "dangling"]
Vacated(place, id) == [v \in Threads |-> IF place[v] = id THEN NULL ELSE place[v]]

\* Thread t is at a turn of the loop of P of semaphore id.
AtP(doing, place, t, id) ==
    t \in Threads /\ (doing[t] = "user" \/ (doing[t] = "woken" /\ place[t] = id))

-----------------------------------------------------------------------------
(* What is on the way. *)

\* Where a loop of SendProcess may be; at "disconnect" it has sent all.
Positions ==
    {loop \in [at : {"pages", "memory", "registers", "semaphores", "nThreads", "threads",
                     "threadRegisters", "disconnect"}, i : Nat, r : Registers] :
        /\ loop.at = "memory" => loop.i \in Cells
        /\ loop.at = "semaphores" => loop.i \in Bits(MaxSem)
        /\ loop.at \in {"threads", "threadRegisters"} => loop.i + 1 \in Slots
        /\ loop.at = "threads" => loop.r = POS}

\* What is sent there.
Fits(loop, item) ==
    /\ loop.at # "disconnect" /\ item \in Int
    /\ loop.at \in {"pages", "semaphores", "threads"} => item \in Nat
    /\ loop.at = "memory" => item \in -1 .. MaxSem - 1

\* What is sent there of a process that is as in snap.
ItemOf(snap, loop) ==
    CASE loop.at = "pages" -> NumPages
      [] loop.at = "memory" -> snap.memory[loop.i]
      [] loop.at = "registers" -> snap.regs[Main][loop.r]
      [] loop.at = "semaphores" -> snap.sems[loop.i]
      [] loop.at = "nThreads" -> snap.nThreads
      [] loop.at = "threads" -> IF loop.i + 1 \in snap.live THEN snap.ids[loop.i + 1] ELSE NoData
      [] loop.at = "threadRegisters" -> snap.regs[loop.i + 1][loop.r]

\* Where the loops of both sides are after the item.
After(loop, item) ==
    CASE loop.at = "pages" -> At("memory")
      [] loop.at = "memory" -> NextIndex(loop, NumCells, At("registers"))
      [] loop.at = "registers" -> NextRegister(loop, At("semaphores"))
      [] loop.at = "semaphores" -> NextIndex(loop, MaxSem, At("nThreads"))
      [] loop.at = "nThreads" -> At("threads")
      [] loop.at = "threads" -> IF item # NoData THEN [loop EXCEPT !.at = "threadRegisters"]
                                ELSE NextThread(loop, At("disconnect"))
      [] loop.at = "threadRegisters" -> NextRegister(loop, NextThread(loop, At("disconnect")))

\* The items of m lead a receiver at position from to the position to, each what its
\* place calls for, and a part of snap when there is one.
Wire(m, from, to, snap) ==
    /\ m \in Seq(Int)
    /\ \E path \in [1 .. Len(m) + 1 -> Positions] :
        /\ path[1] = from /\ path[Len(m) + 1] = to
        /\ \A k \in 1 .. Len(m) :
            /\ Fits(path[k], m[k])
            /\ path[k + 1] = After(path[k], m[k])
            /\ snap # NULL => m[k] = ItemOf(snap, path[k])

\* The position of ListenProcess, in the terms of SendProcess.
Reads(loop) ==
    IF loop.at = "accept" THEN At("pages") ELSE IF loop.at = "done" THEN At("disconnect") ELSE loop

-----------------------------------------------------------------------------
(* What has arrived. *)

\* The threads of the new process that have not been forked.
Pending(loop) ==
    CASE loop.at = "done" -> {}
      [] loop.at \in {"threads", "threadRegisters"} -> {Main} \cup {t \in Slots : t > loop.i}
      [] OTHER -> Threads

\* A thread runs only when it has been forked, and a semaphore exists only when it has
\* been received.
Young(loop, sems, doing) ==
    /\ \A t \in Pending(loop) : doing[t] = "none"
    /\ loop.at \in {"listen", "accept", "pages", "memory", "registers"}
          => \A id \in Bits(MaxSem) : sems[id] = NULL
    /\ loop.at = "semaphores" => \A id \in Bits(MaxSem) : id >= loop.i => sems[id] = NULL

ValueOf(s) == IF s = NULL THEN NoData ELSE s.value

\* Slot t is as in snap, and its id will not be given out again.
SlotArrived(snap, t, r, doing, id, nextId) ==
    IF t \in snap.live
    THEN doing = "user" /\ r = snap.regs[t] /\ id = snap.ids[t] /\ nextId > snap.ids[t]
    ELSE doing = "none"

\* The memory and the main thread's registers, as far as the loop is.
MemoryArrived(snap, loop, mem, r) ==
    /\ loop.at = "memory" => \A c \in Cells : c < loop.i => mem[c] = snap.memory[c]
    /\ loop.at \in {"registers", "semaphores", "nThreads", "threads", "threadRegisters", "done"}
          => mem = snap.memory
    /\ loop.at = "registers" => \A k \in Registers : k < loop.r => r[k] = snap.regs[Main][k]
    /\ loop.at \in {"semaphores", "nThreads", "threads", "threadRegisters", "done"}
          => r = [snap.regs[Main] EXCEPT ![R2] = 1]

SemaphoresArrived(snap, loop, sems, n) ==
    /\ loop.at = "semaphores"
          => \A id \in Bits(MaxSem) : id < loop.i => ValueOf(sems[id]) = snap.sems[id]
    /\ loop.at \in {"nThreads", "threads", "threadRegisters", "done"}
          => \A id \in Bits(MaxSem) : ValueOf(sems[id]) = snap.sems[id]
    /\ loop.at \in {"threads", "threadRegisters", "done"} => n = snap.nThreads

ThreadsArrived(snap, loop, r, doing, idTable, nextId) ==
    /\ \A t \in Slots :
          \/ loop.at = "done"
          \/ loop.at \in {"threads", "threadRegisters"} /\ t <= loop.i
          => SlotArrived(snap, t, r[t], doing[t], idTable[t], nextId)
    /\ loop.at = "threadRegisters" =>
          /\ loop.i + 1 \in snap.live
          /\ idTable[loop.i + 1] = snap.ids[loop.i + 1]
          /\ nextId > snap.ids[loop.i + 1]
          /\ \A k \in Registers : k < loop.r => r[loop.i + 1][k] = snap.regs[loop.i + 1][k]

-----------------------------------------------------------------------------
(* The inductive invariant. *)

Types ==
    /\ memory \in [Processes -> [Cells -> -1 .. MaxSem - 1]]
    /\ semList \in [Processes -> Tables]
    /\ pc \in [Processes -> Doing]
    /\ on \in [Processes -> Places]
    /\ regs \in [Processes -> [Threads -> [Registers -> Int]]]
    /\ crashed \in BOOLEAN

Sound == \A p \in Processes : Sleeps(semList[p], pc[p], on[p])

\* The ids and the count of the threads, which the sender's agree with.
Counted ==
    /\ ids \in [Processes -> [Threads -> Nat]]
    /\ nThreads \in [Processes -> Int]
    /\ nextUserThreadid \in [Processes -> Nat]
    /\ nThreads["sender"] = Cardinality(Live("sender"))
    /\ \A t \in Live("sender") : ids["sender"][t] # NoData

\* The two sides connect once.
Connected ==
    /\ out \in Positions \cup {At("user"), At("connect")}
    /\ in.at = "listen" => out.at \in {"user", "connect"} /\ mail = <<>> /\ before = NULL
    /\ in.at # "listen" => out.at # "connect" /\ (out.at = "user" => result # NULL)
    /\ out.at # "user" => pc["sender"][Main] = "user"

Stream ==
    ~ skewed /\ in.at \notin {"listen", "refused"} =>
        \E to \in Positions : Wire(mail, Reads(in), to, before) /\ (out.at # "user" => out = to)

Arrives ==
    /\ Young(in, semList["receiver"], pc["receiver"])
    /\ before # NULL => before = Snapshot("sender")
    /\ before # NULL /\ ~ skewed =>
        /\ MemoryArrived(before, in, memory["receiver"], regs["receiver"][Main])
        /\ SemaphoresArrived(before, in, semList["receiver"], nThreads["receiver"])
        /\ ThreadsArrived(before, in, regs["receiver"], pc["receiver"], ids["receiver"],
                          nextUserThreadid["receiver"])

IInv == Types /\ Sound /\ Counted /\ Connected /\ Stream /\ Arrives

-----------------------------------------------------------------------------
(* The calls on one table. *)

\* NULL is no number and no semaphore.
LEMMA NullApart ==
    /\ NULL \notin Semaphore /\ NULL \notin Bits(MaxSem) /\ NULL \notin Int
    /\ \A t \in Threads : t \in Nat
    /\ \A id \in Bits(MaxSem) : id \in Nat
  BY SMTT(60), SemAssumption DEF Semaphore, Bits, Threads, Slots, Main

\* A call that changes one semaphore and the threads in its P keeps the others sound.
LEMMA OneSemaphore ==
    ASSUME NEW sems, NEW doing, NEW place, Sleeps(sems, doing, place),
           NEW sems2, NEW doing2, NEW place2 \in Places,
           NEW id \in Bits(MaxSem),
           Touches(id, sems, doing, place, sems2, doing2, place2)
    PROVE  Sleeps(sems2, doing2, place2)
  <1>1. \A t \in Threads : doing2[t] \in {"asleep", "woken"} <=> place2[t] # NULL
    BY DEF Sleeps, Touches
  <1>2. ASSUME NEW t \in Threads, place2[t] # NULL
        PROVE  sems2[place2[t]] # NULL
    <2>1. CASE place2[t] = id
      BY <2>1 DEF Touches
    <2>2. CASE place2[t] # id
      <3>1. place2[t] = place[t]
        BY <1>2, <2>2 DEF Touches
      <3>2. sems[place2[t]] # NULL /\ place2[t] \in Bits(MaxSem)
        BY <1>2, <3>1 DEF Sleeps, Places
      <3> QED BY <2>2, <3>2 DEF Touches
    <2> QED BY <2>1, <2>2
  <1>3. ASSUME NEW j \in Bits(MaxSem), sems2[j] # NULL
        PROVE  Served(sems2[j], doing2, place2, j)
    <2>1. CASE j = id
      BY <2>1 DEF Touches
    <2>2. CASE j # id
      <3>1. Served(sems[j], doing, place, j) /\ sems2[j] = sems[j]
        BY <1>3, <2>2 DEF Sleeps, Touches
      <3>2. j # NULL
        BY NullApart
      <3>3. \A t \in Threads : (place2[t] = j \/ place[t] = j) => doing2[t] = doing[t] /\ place2[t] = place[t]
        BY <2>2, <3>2 DEF Touches
      <3>4. Asleep(doing2, place2, j) = Asleep(doing, place, j)
        BY <3>3 DEF Asleep
      <3>5. Awake(doing2, place2, j) = Awake(doing, place, j)
        BY <3>3 DEF Awake
      <3> QED BY <3>1, <3>4, <3>5 DEF Served
    <2> QED BY <2>1, <2>2
  <1> QED BY <1>1, <1>2, <1>3 DEF Sleeps

\* A semaphore that is new, and one that is received, has no sleepers yet.
LEMMA NewSemaphore ==
    ASSUME NEW sems, NEW doing, NEW place \in Places, Sleeps(sems, doing, place),
           NEW id \in Bits(MaxSem), \A t \in Threads : place[t] # id,
           NEW sems2, NEW value \in Nat, sems2[id] = [value |-> value, queue |-> <<>>],
           \A j \in Bits(MaxSem) : j # id => sems2[j] = sems[j]
    PROVE  Sleeps(sems2, doing, place)
  <1>1. sems2[id] \in Semaphore /\ sems2[id].queue = <<>>
    BY SMTT(60) DEF Semaphore
  <1>2. sems2[id] # NULL
    BY <1>1, NullApart
  <1>3. Range(sems2[id].queue) = {}
    BY <1>1, EmptyList DEF Semaphore
  <1>4. NoDuplicates(sems2[id].queue)
    BY SMTT(60), <1>1 DEF NoDuplicates
  <1>5. Asleep(doing, place, id) = {}
    BY DEF Asleep
  <1>6. Served(sems2[id], doing, place, id)
    BY <1>1, <1>3, <1>4, <1>5 DEF Served
  <1>7. Touches(id, sems, doing, place, sems2, doing, place)
    BY <1>2, <1>6 DEF Touches
  <1> QED BY <1>7, OneSemaphore

\* V with nobody in the queue.
LEMMA PostIdle ==
    ASSUME NEW sems \in Tables, NEW doing, NEW place \in Places, Sleeps(sems, doing, place),
           NEW id \in Bits(MaxSem), sems[id] # NULL, sems[id].queue = <<>>,
           NEW sems2, sems2 = [sems EXCEPT ![id].value = @ + 1]
    PROVE  sems2 \in Tables /\ Sleeps(sems2, doing, place)
  <1>1. sems[id] \in Semaphore
    BY DEF Tables
  <1>2. sems2[id] \in Semaphore /\ sems2[id].queue = sems[id].queue
    BY SMTT(60), <1>1 DEF Semaphore, Tables
  <1>3. \A j \in Bits(MaxSem) : j # id => sems2[j] = sems[j]
    BY DEF Tables
  <1>4. sems2 \in Tables
    BY SMTT(60), <1>2 DEF Tables
  <1>5. Served(sems[id], doing, place, id)
    BY DEF Sleeps
  <1>6. Served(sems2[id], doing, place, id)
    BY <1>2, <1>5 DEF Served
  <1>7. sems2[id] # NULL
    BY <1>2, NullApart
  <1>8. Touches(id, sems, doing, place, sems2, doing, place)
    BY <1>3, <1>6, <1>7 DEF Touches
  <1>9. Sleeps(sems2, doing, place)
    BY <1>8, OneSemaphore
  <1> QED BY <1>4, <1>9

\* V wakes the first of the queue, for the unit it adds.
LEMMA PostWakes ==
    ASSUME NEW sems, NEW doing, NEW place, NEW id, NEW u \in Threads,
           Inside(sems, doing, place, id), sems[id].queue # <<>>
    PROVE  Leaves([sems EXCEPT ![id] = [value |-> sems[id].value + 1, queue |-> Tail(sems[id].queue)]],
                  [doing EXCEPT ![Head(sems[id].queue)] = "woken"], place, doing, u)
  <1> SUFFICES
        ASSUME sems \in Tables, doing \in Doing, place \in Places, Sleeps(sems, doing, place),
               id \in Bits(MaxSem), sems[id] # NULL, NEW sems2, NEW doing2,
               sems2 = [sems EXCEPT ![id] = [value |-> sems[id].value + 1, queue |-> Tail(sems[id].queue)]],
               doing2 = [doing EXCEPT ![Head(sems[id].queue)] = "woken"]
        PROVE  Leaves(sems2, doing2, place, doing, u)
    BY DEF Inside
  <1> DEFINE q == sems[id].queue
             v == sems[id].value
             h == Head(q)
  <1>1. sems[id] \in Semaphore /\ q \in Seq(Threads) /\ v \in Nat
    BY DEF Tables, Semaphore
  <1>2. Range(q) = Asleep(doing, place, id) /\ NoDuplicates(q)
        /\ ExistsInjection(1 .. v, Awake(doing, place, id))
    BY DEF Sleeps, Served
  <1>3. /\ h \in Threads /\ h \in Range(q)
        /\ Tail(q) \in Seq(Threads) /\ NoDuplicates(Tail(q)) /\ Range(Tail(q)) = Range(q) \ {h}
    BY <1>1, <1>2, RemoveHead
  <1> HIDE DEF h
  <1>4. doing[h] = "asleep" /\ place[h] = id
    BY <1>2, <1>3 DEF Asleep
  <1>5. /\ doing2 \in Doing /\ doing2[h] = "woken"
        /\ \A t \in Threads : t # h => doing2[t] = doing[t]
    BY <1>3 DEF Doing, Statuses, h
  <1>6. sems2[id] = [value |-> v + 1, queue |-> Tail(q)] /\ sems2[id] \in Semaphore
    BY SMTT(60), <1>1, <1>3 DEF Tables, Semaphore
  <1>7. sems2[id].value = v + 1 /\ sems2[id].queue = Tail(q) /\ sems2[id] # NULL
    BY SMTT(60), <1>6, NullApart
  <1>8. sems2 \in Tables /\ \A j \in Bits(MaxSem) : j # id => sems2[j] = sems[j]
    BY SMTT(60), <1>6 DEF Tables
  <1>9. Asleep(doing2, place, id) = Asleep(doing, place, id) \ {h}
    BY <1>5 DEF Asleep
  <1>10. Awake(doing2, place, id) = Awake(doing, place, id) \cup {h}
    BY <1>3, <1>4, <1>5 DEF Awake
  <1>11. h \notin Awake(doing, place, id)
    BY <1>4 DEF Awake
  <1>12. v \in Int
    BY SMTT(60), <1>1
  <1>13. ExistsInjection(1 .. (v + 1), Awake(doing, place, id) \cup {h})
    BY <1>2, <1>11, <1>12, MatchOneMore
  <1>14. Served(sems2[id], doing2, place, id)
    BY <1>2, <1>3, <1>7, <1>9, <1>10, <1>13 DEF Served
  <1>15. id # NULL
    BY NullApart
  <1>16. Touches(id, sems, doing, place, sems2, doing2, place)
    BY <1>4, <1>5, <1>7, <1>8, <1>14, <1>15 DEF Touches
  <1>17. Sleeps(sems2, doing2, place)
    BY <1>16, OneSemaphore
  <1>18. Goes(doing, doing2, u)
    BY <1>4, <1>5 DEF Goes
  <1> QED BY <1>5, <1>8, <1>17, <1>18 DEF Leaves

\* The thread that takes a unit in P was not asleep, and if it was woken for one it
\* needs it no more.
LEMMA TakesUnit ==
    ASSUME NEW sems, NEW doing, NEW place, NEW id, NEW t,
           Inside(sems, doing, place, id), AtP(doing, place, t, id), sems[id].value # 0
    PROVE  Leaves([sems EXCEPT ![id].value = @ - 1], [doing EXCEPT ![t] = "user"], [place EXCEPT ![t] = NULL], doing, t)
  <1> SUFFICES
        ASSUME sems \in Tables, doing \in Doing, place \in Places, Sleeps(sems, doing, place),
               id \in Bits(MaxSem), sems[id] # NULL,
               t \in Threads, doing[t] = "user" \/ (doing[t] = "woken" /\ place[t] = id),
               NEW sems2, NEW doing2, NEW place2, sems2 = [sems EXCEPT ![id].value = @ - 1],
               doing2 = [doing EXCEPT ![t] = "user"], place2 = [place EXCEPT ![t] = NULL]
        PROVE  Leaves(sems2, doing2, place2, doing, t)
    BY DEF Inside, AtP
  <1> DEFINE q == sems[id].queue
             v == sems[id].value
  <1>1. sems[id] \in Semaphore /\ q \in Seq(Threads) /\ v \in Nat /\ v # 0
    BY DEF Tables, Semaphore
  <1>2. /\ Range(q) = Asleep(doing, place, id) /\ NoDuplicates(q)
        /\ q # <<>> => ExistsInjection(1 .. v, Awake(doing, place, id))
    BY DEF Sleeps, Served
  <1>3. /\ doing2 \in Doing /\ place2 \in Places /\ doing2[t] = "user" /\ place2[t] = NULL
        /\ \A u \in Threads : u # t => doing2[u] = doing[u] /\ place2[u] = place[u]
    BY DEF Doing, Statuses, Places
  <1>4. sems2[id] \in Semaphore /\ sems2[id].value = v - 1 /\ sems2[id].queue = q
    BY SMTT(60), <1>1 DEF Tables, Semaphore
  <1>5. sems2 \in Tables /\ \A j \in Bits(MaxSem) : j # id => sems2[j] = sems[j]
    BY SMTT(60), <1>4 DEF Tables
  <1>6. id # NULL /\ sems2[id] # NULL
    BY <1>4, NullApart
  <1>7. Asleep(doing2, place2, id) = Asleep(doing, place, id)
    BY <1>3 DEF Asleep
  <1>8. Awake(doing2, place2, id) = Awake(doing, place, id) \ {t}
    BY <1>3, <1>6 DEF Awake
  <1>9. v \in Int
    BY SMTT(60), <1>1
  <1>10. q # <<>> => ExistsInjection(1 .. (v - 1), Awake(doing, place, id) \ {t})
    BY <1>2, <1>9, MatchOneLess
  <1>11. Served(sems2[id], doing2, place2, id)
    BY <1>2, <1>4, <1>7, <1>8, <1>10 DEF Served
  <1>12. place[t] \in {id, NULL}
    BY DEF Sleeps
  <1>13. Touches(id, sems, doing, place, sems2, doing2, place2)
    BY <1>3, <1>5, <1>6, <1>11, <1>12 DEF Touches
  <1>14. Sleeps(sems2, doing2, place2)
    BY <1>3, <1>13, OneSemaphore
  <1>15. Goes(doing, doing2, t)
    BY <1>3 DEF Goes
  <1> QED BY <1>3, <1>5, <1>14, <1>15 DEF Leaves

\* The thread that goes to sleep in P on a semaphore at 0 joins the end of its queue.
LEMMA FallsAsleep ==
    ASSUME NEW sems, NEW doing, NEW place, NEW id, NEW t,
           Inside(sems, doing, place, id), AtP(doing, place, t, id), sems[id].value = 0
    PROVE  Leaves([sems EXCEPT ![id].queue = Append(@, t)], [doing EXCEPT ![t] = "asleep"], [place EXCEPT ![t] = id], doing, t)
  <1> SUFFICES
        ASSUME sems \in Tables, doing \in Doing, place \in Places, Sleeps(sems, doing, place),
               id \in Bits(MaxSem), sems[id] # NULL,
               t \in Threads, doing[t] = "user" \/ (doing[t] = "woken" /\ place[t] = id),
               NEW sems2, NEW doing2, NEW place2, sems2 = [sems EXCEPT ![id].queue = Append(@, t)],
               doing2 = [doing EXCEPT ![t] = "asleep"], place2 = [place EXCEPT ![t] = id]
        PROVE  Leaves(sems2, doing2, place2, doing, t)
    BY DEF Inside, AtP
  <1> DEFINE q == sems[id].queue
  <1>1. sems[id] \in Semaphore /\ q \in Seq(Threads)
    BY DEF Tables, Semaphore
  <1>2. Range(q) = Asleep(doing, place, id) /\ NoDuplicates(q)
    BY DEF Sleeps, Served
  <1>3. /\ doing2 \in Doing /\ place2 \in Places /\ doing2[t] = "asleep" /\ place2[t] = id
        /\ \A u \in Threads : u # t => doing2[u] = doing[u] /\ place2[u] = place[u]
    BY DEF Doing, Statuses, Places
  <1>4. t \notin Range(q)
    BY <1>2 DEF Asleep
  <1>5. /\ Append(q, t) \in Seq(Threads) /\ Range(Append(q, t)) = Range(q) \cup {t}
        /\ NoDuplicates(Append(q, t))
    BY SMTT(60), <1>1, <1>2, <1>4, AppendList
  <1>6. sems2[id] \in Semaphore /\ sems2[id].value = 0 /\ sems2[id].queue = Append(q, t)
    <2>1. sems2[id] = [sems[id] EXCEPT !.queue = Append(q, t)]
      BY DEF Tables
    <2> DEFINE long == Append(q, t)
    <2>2. sems2[id] = [sems[id] EXCEPT !.queue = long] /\ long \in Seq(Threads)
      BY <1>5, <2>1
    <2> HIDE DEF long
    <2>3. sems2[id] \in Semaphore /\ sems2[id].value = 0 /\ sems2[id].queue = long
      BY SMTT(60), <1>1, <2>2 DEF Semaphore
    <2> QED BY <2>3 DEF long
  <1>7. sems2 \in Tables /\ \A j \in Bits(MaxSem) : j # id => sems2[j] = sems[j]
    BY SMTT(60), <1>6 DEF Tables
  <1>8. id # NULL /\ sems2[id] # NULL
    BY <1>6, NullApart
  <1>9. Asleep(doing2, place2, id) = Asleep(doing, place, id) \cup {t}
    BY <1>3 DEF Asleep
  <1>10. 0 \in Int /\ 0 <= 0
    BY SMTT(60)
  <1>11. ExistsInjection(1 .. 0, Awake(doing2, place2, id))
    BY <1>10, MatchNone
  <1>12. Served(sems2[id], doing2, place2, id)
    BY <1>2, <1>5, <1>6, <1>9, <1>11 DEF Served
  <1>13. place[t] \in {id, NULL}
    BY DEF Sleeps
  <1>14. Touches(id, sems, doing, place, sems2, doing2, place2)
    BY <1>3, <1>7, <1>8, <1>12, <1>13 DEF Touches
  <1>15. Sleeps(sems2, doing2, place2)
    BY <1>3, <1>14, OneSemaphore
  <1>16. Goes(doing, doing2, t)
    BY <1>3 DEF Goes
  <1> QED BY <1>3, <1>7, <1>15, <1>16 DEF Leaves

\* SemDestroy takes the threads inside P off the books with the semaphore.
LEMMA Destroyed ==
    ASSUME NEW sems, NEW doing, NEW place, NEW id, NEW t \in Threads, Inside(sems, doing, place, id)
    PROVE  Leaves([sems EXCEPT ![id] = NULL], Stranded(doing, place, id), Vacated(place, id),
                  doing, t)
  <1> SUFFICES
        ASSUME sems \in Tables, doing \in Doing, place \in Places, Sleeps(sems, doing, place),
               id \in Bits(MaxSem), NEW sems2, NEW doing2, NEW place2,
               sems2 = [sems EXCEPT ![id] = NULL],
               doing2 = Stranded(doing, place, id), place2 = Vacated(place, id)
        PROVE  Leaves(sems2, doing2, place2, doing, t)
    BY DEF Inside
  <1>1. /\ sems2 \in Tables /\ sems2[id] = NULL
        /\ \A j \in Bits(MaxSem) : j # id => sems2[j] = sems[j]
    BY DEF Tables
  <1>2. doing2 \in Doing
    BY DEF Doing, Statuses, Stranded
  <1>3. place2 \in Places
    BY DEF Places, Vacated
  <1>4. \A u \in Threads :
           /\ place[u] # id => doing2[u] = doing[u] /\ place2[u] = place[u]
           /\ place[u] = id => doing2[u] \in {"stranded", "dangling"} /\ place2[u] = NULL
    BY DEF Stranded, Vacated
  <1>5. id # NULL
    BY NullApart
  <1>6. \A u \in Threads : doing2[u] \in {"asleep", "woken"} <=> place2[u] # NULL
    BY <1>4 DEF Sleeps
  <1>7. \A u \in Threads : place2[u] # NULL => sems2[place2[u]] # NULL
    BY SMTT(60), <1>1, <1>4 DEF Sleeps, Places
  <1>8. ASSUME NEW j \in Bits(MaxSem), sems2[j] # NULL
        PROVE  Served(sems2[j], doing2, place2, j)
    <2>1. j # id /\ j # NULL /\ sems2[j] = sems[j]
      BY <1>1, <1>8, NullApart
    <2>2. Served(sems[j], doing, place, j)
      BY <1>8, <2>1 DEF Sleeps
    <2>3. \A u \in Threads : place2[u] = j \/ place[u] = j => doing2[u] = doing[u] /\ place2[u] = place[u]
      BY <1>4, <2>1
    <2>4. Asleep(doing2, place2, j) = Asleep(doing, place, j)
      BY <2>3 DEF Asleep
    <2>5. Awake(doing2, place2, j) = Awake(doing, place, j)
      BY <2>3 DEF Awake
    <2> QED BY <2>1, <2>2, <2>4, <2>5 DEF Served
  <1>9. Sleeps(sems2, doing2, place2)
    BY <1>6, <1>7, <1>8 DEF Sleeps
  <1>10. \A u \in Threads : place[u] = id => doing[u] \in {"asleep", "woken"}
    BY <1>5 DEF Sleeps
  <1>11. Goes(doing, doing2, t)
    BY <1>4, <1>10 DEF Goes
  <1> QED BY <1>1, <1>2, <1>3, <1>9, <1>11 DEF Leaves

\* A thread that is in no P does something else.
LEMMA OutsideP ==
    ASSUME NEW sems, NEW doing, NEW doing2, NEW place, Sleeps(sems, doing, place),
           \A t \in Threads : \/ doing2[t] = doing[t]
                              \/ /\ doing[t] \notin {"asleep", "woken"}
                                 /\ doing2[t] \notin {"asleep", "woken"}
    PROVE  Sleeps(sems, doing2, place)
  <1>1. \A id : Asleep(doing2, place, id) = Asleep(doing, place, id)
    BY DEF Asleep
  <1>2. \A id : Awake(doing2, place, id) = Awake(doing, place, id)
    BY DEF Awake
  <1> QED BY <1>1, <1>2 DEF Sleeps, Served

-----------------------------------------------------------------------------
(* The calls of a thread. *)

RegisterFiles == [Processes -> [Threads -> [Registers -> Int]]]
Memories == [Processes -> [Cells -> -1 .. MaxSem - 1]]

\* f2 is f but for process p, which has new.
Only(f, f2, p, S, new) ==
    /\ f2 \in [Processes -> S] /\ f2[p] = new
    /\ \A q \in Processes : q # p => f2[q] = f[q]

\* What is kept by a call of thread t of process p.
CallKeeps(p, t) ==
    /\ Types' /\ Sound'
    /\ Goes(pc[p], pc'[p], t) /\ pc[p][t] # "none"
    /\ \A q \in Processes : q # p => pc'[q] = pc[q] /\ semList'[q] = semList[q]

\* A table of p changes, or none.
LEMMA ExceptOne ==
    ASSUME NEW S, NEW f \in [Processes -> S], NEW p \in Processes, NEW new \in S
    PROVE  /\ \A f2 : f2 = [f EXCEPT ![p] = new] => Only(f, f2, p, S, new)
           /\ \A f2 : f2 = f => Only(f, f2, p, S, f[p])
  BY DEF Only

\* The tables of one process change, and stay sound.
LEMMA OneProcess ==
    ASSUME Types, Sound, NEW p \in Processes, NEW t \in Threads,
           NEW sems, NEW doing, NEW place,
           Only(semList, semList', p, Tables, sems), Only(pc, pc', p, Doing, doing),
           Only(on, on', p, Places, place), Sleeps(sems, doing, place),
           Goes(pc[p], doing, t), pc[p][t] # "none",
           memory' \in Memories, regs' \in RegisterFiles, crashed' \in BOOLEAN
    PROVE  CallKeeps(p, t)
  <1>1. Types'
    BY DEF Types, Only, Memories, RegisterFiles
  <1>2. ASSUME NEW q \in Processes PROVE Sleeps(semList'[q], pc'[q], on'[q])
    BY DEF Only, Sound
  <1> QED BY <1>1, <1>2 DEF CallKeeps, Only, Sound

\* A thread that calls is in user code, at a call that is its own.
LEMMA AtCall == \A p, t : AtUser(p, t) => pc[p][t] = "user"
  BY DEF AtUser

\* A thread in user code is in no P.
LEMMA NowherePlaced ==
    ASSUME Types, Sound, NEW p \in Processes, NEW t \in Threads
    PROVE  /\ pc[p][t] \in {"user", "dangling"} => on[p][t] = NULL
           /\ pc[p][t] = "woken" => on[p][t] \in Bits(MaxSem) /\ semList[p][on[p][t]] # NULL
           /\ semList[p] \in Tables /\ pc[p] \in Doing /\ on[p] \in Places
           /\ Sleeps(semList[p], pc[p], on[p])
  <1>1. /\ semList[p] \in Tables /\ pc[p] \in Doing /\ on[p] \in Places
        /\ Sleeps(semList[p], pc[p], on[p])
    BY DEF Types, Sound
  <1> QED BY <1>1 DEF Sleeps, Places

\* UpdatePC leaves registers.
LEMMA ReturnedType ==
    ASSUME Types, NEW p \in Processes, NEW t \in Threads
    PROVE  /\ Returned(p, t) => regs' \in RegisterFiles
           /\ UNCHANGED regs => regs' \in RegisterFiles
           /\ \A c \in Cells : regs' = [regs EXCEPT ![p][t][R4] = c] => regs' \in RegisterFiles
  <1>1. regs \in RegisterFiles
    BY DEF Types, RegisterFiles
  <1>2. POS \in Registers /\ R4 \in Registers /\ NoCall \in Int
    BY SMTT(60) DEF POS, R4, R2, Registers, NoCall
  <1>3. \A c \in Cells : c \in Int
    BY SMTT(60) DEF Cells, Bits
  <1>4. ASSUME Returned(p, t) PROVE regs' \in RegisterFiles
    <2> DEFINE mid == [regs EXCEPT ![p][t][POS] = @ + 1]
    <2>1. mid \in RegisterFiles
      BY SMTT(60), <1>1, <1>2 DEF RegisterFiles
    <2>2. regs' = [mid EXCEPT ![p][t][R4] = NoCall]
      BY <1>4 DEF Returned
    <2> HIDE DEF mid
    <2> QED BY SMTT(60), <1>2, <2>1, <2>2 DEF RegisterFiles
  <1>5. ASSUME NEW c \in Cells, regs' = [regs EXCEPT ![p][t][R4] = c] PROVE regs' \in RegisterFiles
    BY SMTT(60), <1>1, <1>2, <1>3, <1>5 DEF RegisterFiles
  <1> QED BY <1>1, <1>4, <1>5

\* do_SemInit puts a new semaphore where there was none.
LEMMA SemInitKeeps ==
    ASSUME Types, Sound, NEW p \in Processes, NEW t \in Threads, NEW c \in Cells,
           NEW value \in InitValues, SemInit(p, t, c, value)
    PROVE  CallKeeps(p, t)
  <1> DEFINE id == Find(SemBitmap(p), MaxSem)
             new == [value |-> value, queue |-> <<>>]
             sems == [i \in Bits(MaxSem) |-> IF i = id THEN new ELSE semList[p][i]]
  <1>1. /\ AtUser(p, t) /\ Returned(p, t) /\ UNCHANGED <<pc, on, crashed>>
        /\ semList' = [semList EXCEPT ![p] = sems]
        /\ memory' = [memory EXCEPT ![p][c] = id]
    BY DEF SemInit, Free
  <1>2. id = -1 \/ id \in Bits(MaxSem) \ SemBitmap(p)
    BY FindClear, SemAssumption
  <1>3. value \in Nat /\ new \in Semaphore
    BY SMTT(60), SemAssumption DEF Semaphore
  <1> HIDE DEF id, new
  <1>4. semList[p] \in Tables /\ pc[p] \in Doing /\ on[p] \in Places
        /\ Sleeps(semList[p], pc[p], on[p])
    BY NowherePlaced
  <1>5. sems \in Tables
    BY <1>3, <1>4 DEF Tables
  <1>6. Sleeps(sems, pc[p], on[p])
    <2>1. CASE id = -1
      <3>1. \A i \in Bits(MaxSem) : i # id
        BY SMTT(60), <2>1 DEF Bits
      <3>2. sems = semList[p]
        BY <1>4, <3>1 DEF Tables
      <3> HIDE DEF sems
      <3> QED BY <1>4, <3>2
    <2>2. CASE id \in Bits(MaxSem) \ SemBitmap(p)
      <3>1. semList[p][id] = NULL
        BY <2>2 DEF SemBitmap
      <3>2. id # NULL
        BY <2>2, NullApart
      <3>3. \A u \in Threads : on[p][u] # id
        BY <1>4, <3>1, <3>2 DEF Sleeps
      <3>4. sems[id] = [value |-> value, queue |-> <<>>]
        BY <2>2 DEF new
      <3>5. \A j \in Bits(MaxSem) : j # id => sems[j] = semList[p][j]
        OBVIOUS
      <3> HIDE DEF sems
      <3> QED BY <1>3, <1>4, <2>2, <3>3, <3>4, <3>5, NewSemaphore
    <2> QED BY <1>2, <2>1, <2>2
  <1>7. memory' \in Memories
    <2>1. id \in -1 .. MaxSem - 1
      BY SMTT(60), <1>2, SemAssumption DEF Bits
    <2> QED BY <1>1, <2>1 DEF Types, Memories
  <1>8. Goes(pc[p], pc[p], t)
    BY DEF Goes
  <1> HIDE DEF sems
  <1>9. Only(semList, semList', p, Tables, sems)
    BY <1>1, <1>5, ExceptOne DEF Types
  <1>10. Only(pc, pc', p, Doing, pc[p]) /\ Only(on, on', p, Places, on[p])
    BY <1>1 DEF Types, Only
  <1>11. pc[p][t] # "none"
    BY <1>1, AtCall
  <1>12. regs' \in RegisterFiles /\ crashed' \in BOOLEAN
    BY <1>1, ReturnedType DEF Types
  <1> QED BY <1>6, <1>7, <1>8, <1>9, <1>10, <1>11, <1>12, OneProcess

\* A call with an id that is no semaphore's changes no table.
LEMMA InvalidKeeps ==
    ASSUME Types, Sound, NEW p \in Processes, NEW t \in Threads, NEW c \in Cells, Invalid(p, t, c)
    PROVE  CallKeeps(p, t)
  <1>1. AtUser(p, t) /\ UNCHANGED <<memory, semList, pc, on>> /\ crashed' \in BOOLEAN
        /\ (UNCHANGED regs \/ Returned(p, t))
    BY DEF Invalid, Types
  <1>2. Only(semList, semList', p, Tables, semList[p]) /\ Only(pc, pc', p, Doing, pc[p])
        /\ Only(on, on', p, Places, on[p])
    BY <1>1 DEF Types, Only
  <1>3. memory' \in Memories /\ regs' \in RegisterFiles
    BY <1>1, ReturnedType DEF Types, Memories
  <1>4. Sleeps(semList[p], pc[p], on[p]) /\ pc[p][t] # "none"
    BY <1>1, NowherePlaced, AtCall
  <1>5. Goes(pc[p], pc[p], t)
    BY DEF Goes
  <1> QED BY <1>1, <1>2, <1>3, <1>4, <1>5, OneProcess

\* do_SemPost is V.
LEMMA SemPostKeeps ==
    ASSUME Types, Sound, NEW p \in Processes, NEW t \in Threads, NEW c \in Cells, SemPost(p, t, c)
    PROVE  CallKeeps(p, t)
  <1> DEFINE id == memory[p][c]
             s == semList[p][id]
  <1>1. /\ AtUser(p, t) /\ Returned(p, t) /\ UNCHANGED <<memory, on, crashed>>
        /\ id \in Bits(MaxSem) /\ s # NULL /\ V(p, id)
    BY DEF SemPost, Free, Valid, SemBitmap
  <1> HIDE DEF id
  <1>2. semList[p] \in Tables /\ pc[p] \in Doing /\ on[p] \in Places
        /\ Sleeps(semList[p], pc[p], on[p])
    BY NowherePlaced
  <1>3. memory' \in Memories /\ regs' \in RegisterFiles /\ crashed' \in BOOLEAN
        /\ pc[p][t] # "none" /\ Only(on, on', p, Places, on[p])
    BY <1>1, ReturnedType, AtCall DEF Types, Memories, Only
  <1>4. CASE s.queue = <<>>
    <2> DEFINE sems == [semList[p] EXCEPT ![id].value = @ + 1]
    <2>1. semList' = [semList EXCEPT ![p] = sems] /\ UNCHANGED pc
      BY <1>1, <1>4 DEF V
    <2>2. sems \in Tables /\ Sleeps(sems, pc[p], on[p])
      BY <1>1, <1>2, <1>4, PostIdle
    <2> HIDE DEF sems
    <2>3. Only(semList, semList', p, Tables, sems) /\ Only(pc, pc', p, Doing, pc[p])
      BY <2>1, <2>2 DEF Types, Only
    <2>4. Goes(pc[p], pc[p], t)
      BY DEF Goes
    <2> QED BY <1>3, <2>2, <2>3, <2>4, OneProcess
  <1>5. CASE s.queue # <<>>
    <2> DEFINE new == [value |-> s.value + 1, queue |-> Tail(s.queue)]
               sems == [semList[p] EXCEPT ![id] = new]
               doing == [pc[p] EXCEPT ![Head(s.queue)] = "woken"]
    <2>1. semList' = [semList EXCEPT ![p][id] = new] /\ pc' = [pc EXCEPT ![p][Head(s.queue)] = "woken"]
      BY <1>1, <1>5 DEF V
    <2>2. Leaves(sems, doing, on[p], pc[p], t)
      <3>1. Inside(semList[p], pc[p], on[p], id)
        BY <1>1, <1>2 DEF Inside
      <3> QED BY <1>5, <3>1, PostWakes
    <2> HIDE DEF new
    <2>3. semList' = [semList EXCEPT ![p] = sems] /\ pc' = [pc EXCEPT ![p] = doing]
      BY <2>1
    <2> HIDE DEF sems, doing
    <2>4. Only(semList, semList', p, Tables, sems) /\ Only(pc, pc', p, Doing, doing)
      BY <2>2, <2>3 DEF Types, Only, Leaves
    <2> QED BY <1>3, <2>2, <2>4, OneProcess DEF Leaves
  <1> QED BY <1>4, <1>5

\* A turn of the loop of P, by a thread that calls it or was woken in it.
LEMMA PKeeps ==
    ASSUME Types, Sound, NEW p \in Processes, NEW t \in Threads, NEW id \in Bits(MaxSem),
           semList[p][id] # NULL, P(p, t, id),
           pc[p][t] = "user" \/ (pc[p][t] = "woken" /\ on[p][t] = id),
           memory' \in Memories, regs' \in RegisterFiles, crashed' \in BOOLEAN
    PROVE  CallKeeps(p, t)
  <1>1. semList[p] \in Tables /\ pc[p] \in Doing /\ on[p] \in Places
        /\ pc[p][t] # "none" /\ AtP(pc[p], on[p], t, id) /\ Inside(semList[p], pc[p], on[p], id)
    BY NowherePlaced DEF AtP, Inside
  <1>2. CASE semList[p][id].value = 0
    <2> DEFINE sems == [semList[p] EXCEPT ![id].queue = Append(@, t)]
               doing == [pc[p] EXCEPT ![t] = "asleep"]
               place == [on[p] EXCEPT ![t] = id]
    <2>1. /\ semList' = [semList EXCEPT ![p] = sems] /\ pc' = [pc EXCEPT ![p] = doing]
          /\ on' = [on EXCEPT ![p] = place]
      BY <1>2 DEF P
    <2>2. Leaves(sems, doing, place, pc[p], t)
      BY <1>1, <1>2, FallsAsleep
    <2> HIDE DEF sems, doing, place
    <2>3. Only(semList, semList', p, Tables, sems) /\ Only(pc, pc', p, Doing, doing)
          /\ Only(on, on', p, Places, place)
      BY <2>1, <2>2 DEF Types, Only, Leaves
    <2> QED BY <1>1, <2>2, <2>3, OneProcess DEF Leaves
  <1>3. CASE semList[p][id].value # 0
    <2> DEFINE sems == [semList[p] EXCEPT ![id].value = @ - 1]
               doing == [pc[p] EXCEPT ![t] = "user"]
               place == [on[p] EXCEPT ![t] = NULL]
    <2>1. /\ semList' = [semList EXCEPT ![p] = sems] /\ pc' = [pc EXCEPT ![p] = doing]
          /\ on' = [on EXCEPT ![p] = place]
      BY <1>3 DEF P
    <2>2. Leaves(sems, doing, place, pc[p], t)
      BY <1>1, <1>3, TakesUnit
    <2> HIDE DEF sems, doing, place
    <2>3. Only(semList, semList', p, Tables, sems) /\ Only(pc, pc', p, Doing, doing)
          /\ Only(on, on', p, Places, place)
      BY <2>1, <2>2 DEF Types, Only, Leaves
    <2> QED BY <1>1, <2>2, <2>3, OneProcess DEF Leaves
  <1> QED BY <1>2, <1>3

\* do_SemWait is the first turn of P.
LEMMA SemWaitKeeps ==
    ASSUME Types, Sound, NEW p \in Processes, NEW t \in Threads, NEW c \in Cells, SemWait(p, t, c)
    PROVE  CallKeeps(p, t)
  <1> DEFINE id == memory[p][c]
  <1>1. /\ AtUser(p, t) /\ UNCHANGED <<memory, crashed>>
        /\ id \in Bits(MaxSem) /\ semList[p][id] # NULL /\ P(p, t, id)
        /\ Returned(p, t) \/ regs' = [regs EXCEPT ![p][t][R4] = c]
    BY DEF SemWait, Valid, SemBitmap
  <1>2. memory' \in Memories /\ regs' \in RegisterFiles /\ crashed' \in BOOLEAN
    BY <1>1, ReturnedType DEF Types, Memories
  <1>3. pc[p][t] = "user"
    BY <1>1, AtCall
  <1> HIDE DEF id
  <1> QED BY <1>1, <1>2, <1>3, PKeeps

\* A thread that V woke looks at the value again.
LEMMA WaitRechecksKeeps ==
    ASSUME Types, Sound, NEW p \in Processes, NEW t \in Threads, WaitRechecks(p, t)
    PROVE  CallKeeps(p, t)
  <1>1. /\ pc[p][t] = "woken" /\ P(p, t, on[p][t]) /\ UNCHANGED <<memory, crashed>>
        /\ UNCHANGED regs \/ Returned(p, t)
    BY DEF WaitRechecks
  <1>2. on[p][t] \in Bits(MaxSem) /\ semList[p][on[p][t]] # NULL
    BY <1>1, NowherePlaced
  <1>3. memory' \in Memories /\ regs' \in RegisterFiles /\ crashed' \in BOOLEAN
    BY <1>1, ReturnedType DEF Types, Memories
  <1> QED BY <1>1, <1>2, <1>3, PKeeps

\* do_SemDestroy.
LEMMA SemDestroyKeeps ==
    ASSUME Types, Sound, NEW p \in Processes, NEW t \in Threads, NEW c \in Cells, SemDestroy(p, t, c)
    PROVE  CallKeeps(p, t)
  <1> DEFINE id == memory[p][c]
             sems == [semList[p] EXCEPT ![id] = NULL]
             doing == Stranded(pc[p], on[p], id)
             place == Vacated(on[p], id)
  <1>1. /\ AtUser(p, t) /\ Returned(p, t) /\ UNCHANGED <<memory, crashed>>
        /\ id \in Bits(MaxSem) /\ semList[p][id] # NULL
        /\ semList' = [semList EXCEPT ![p] = sems]
        /\ pc' = [pc EXCEPT ![p] = doing] /\ on' = [on EXCEPT ![p] = place]
    BY DEF SemDestroy, Free, Valid, SemBitmap, Stranded, Vacated
  <1> HIDE DEF id
  <1>2. Inside(semList[p], pc[p], on[p], id)
    BY <1>1, NowherePlaced DEF Inside
  <1>3. Leaves(sems, doing, place, pc[p], t)
    BY <1>2, Destroyed
  <1> HIDE DEF sems, doing, place
  <1>4. Only(semList, semList', p, Tables, sems) /\ Only(pc, pc', p, Doing, doing)
        /\ Only(on, on', p, Places, place)
    BY <1>1, <1>3 DEF Types, Only, Leaves
  <1>5. memory' \in Memories /\ regs' \in RegisterFiles /\ crashed' \in BOOLEAN
        /\ pc[p][t] # "none"
    BY <1>1, ReturnedType, AtCall DEF Types, Memories
  <1> QED BY <1>3, <1>4, <1>5, OneProcess DEF Leaves

\* A thread outside P starts, ends or goes on.
LEMMA OneThread ==
    ASSUME Types, Sound, NEW p \in Processes, NEW t \in Threads, NEW what \in Statuses,
           pc[p][t] \notin {"asleep", "woken"}, what \notin {"asleep", "woken"},
           pc' = [pc EXCEPT ![p][t] = what], UNCHANGED <<semList, on>>
    PROVE  /\ Sound' /\ pc' \in [Processes -> Doing]
           /\ Only(pc, pc', p, Doing, [pc[p] EXCEPT ![t] = what])
           /\ Sleeps(semList[p], [pc[p] EXCEPT ![t] = what], on[p])
  <1> DEFINE doing == [pc[p] EXCEPT ![t] = what]
  <1>1. pc[p] \in Doing /\ Sleeps(semList[p], pc[p], on[p])
    BY DEF Types, Sound
  <1>2. doing \in Doing /\ doing[t] = what /\ \A u \in Threads : u # t => doing[u] = pc[p][u]
    BY <1>1 DEF Doing
  <1>3. pc' = [pc EXCEPT ![p] = doing]
    OBVIOUS
  <1> HIDE DEF doing
  <1>4. Sleeps(semList[p], doing, on[p])
    BY <1>1, <1>2, OutsideP
  <1>5. Only(pc, pc', p, Doing, doing)
    BY <1>2, <1>3 DEF Types, Only
  <1>6. Sound'
    BY <1>4, <1>5 DEF Only, Sound
  <1> QED BY <1>4, <1>5, <1>6 DEF doing, Only

\* A thread whose semaphore is gone sleeps for ever, or goes on.
LEMMA WaitOnFreedKeeps ==
    ASSUME Types, Sound, NEW p \in Processes, NEW t \in Threads, WaitOnFreed(p, t)
    PROVE  CallKeeps(p, t)
  <1>1. PICK what \in {"stranded", "user"} :
           /\ pc[p][t] = "dangling" /\ pc' = [pc EXCEPT ![p][t] = what]
           /\ UNCHANGED <<memory, semList, on, crashed>> /\ (UNCHANGED regs \/ Returned(p, t))
    BY DEF WaitOnFreed
  <1> DEFINE doing == [pc[p] EXCEPT ![t] = what]
  <1>2. Only(pc, pc', p, Doing, doing) /\ Sleeps(semList[p], doing, on[p])
    BY <1>1, OneThread DEF Statuses
  <1>3. Goes(pc[p], doing, t)
    BY <1>1 DEF Goes, Types, Doing
  <1> HIDE DEF doing
  <1>4. Only(semList, semList', p, Tables, semList[p]) /\ Only(on, on', p, Places, on[p])
    BY <1>1 DEF Types, Only
  <1>5. memory' \in Memories /\ regs' \in RegisterFiles /\ crashed' \in BOOLEAN
    BY <1>1, ReturnedType DEF Types, Memories
  <1> QED BY <1>1, <1>2, <1>3, <1>4, <1>5, OneProcess

\* Every call of a thread keeps the semaphores of its process sound.
LEMMA SemStepKeeps ==
    ASSUME Types, Sound, NEW p \in Processes, NEW t \in Threads, SemStep(p, t)
    PROVE  CallKeeps(p, t)
  BY SemInitKeeps, InvalidKeeps, SemPostKeeps, SemWaitKeeps, SemDestroyKeeps, WaitRechecksKeeps,
     WaitOnFreedKeeps DEF SemStep

-----------------------------------------------------------------------------
(* The connection. *)

\* The stages whose positions have no index to respect.
LEMMA StartPosition ==
    /\ At("pages") \in Positions /\ At("memory") \in Positions /\ At("registers") \in Positions
    /\ At("semaphores") \in Positions /\ At("nThreads") \in Positions /\ At("threads") \in Positions
    /\ At("disconnect") \in Positions
  BY SMTT(60), SemAssumption DEF At, Positions, Cells, Bits, Slots, Registers, POS, R4

\* The loops go from position to position, until all is sent.
LEMMA AfterPosition ==
    ASSUME NEW loop \in Positions, NEW item, loop.at # "disconnect"
    PROVE  After(loop, item) \in Positions
  <1> DEFINE next == NextThread(loop, At("disconnect"))
  <1>1. POS \in Registers /\ Registers = 1 .. 3 /\ R4 = 3 /\ POS = 1
    BY SMTT(60) DEF POS, R4, Registers
  <1>2. loop.i \in Nat /\ loop.r \in Registers
        /\ loop = [at |-> loop.at, i |-> loop.i, r |-> loop.r]
    BY SMTT(60) DEF Positions
  <1>3. CASE loop.at = "pages"
    BY <1>3, StartPosition DEF After
  <1>4. CASE loop.at = "nThreads"
    BY <1>4, StartPosition DEF After
  <1>5. CASE loop.at = "memory"
    <2>1. After(loop, item) = NextIndex(loop, NumCells, At("registers"))
      BY SMTT(60), <1>5 DEF After
    <2>2. loop.i + 1 < NumCells => [loop EXCEPT !.i = @ + 1] \in Positions
      BY SMTT(60), <1>5, <1>2, SemAssumption DEF Positions, Cells, Bits
    <2> QED BY <2>1, <2>2, StartPosition DEF NextIndex
  <1>6. CASE loop.at = "semaphores"
    <2>1. After(loop, item) = NextIndex(loop, MaxSem, At("nThreads"))
      BY SMTT(60), <1>6 DEF After
    <2>2. loop.i + 1 < MaxSem => [loop EXCEPT !.i = @ + 1] \in Positions
      BY SMTT(60), <1>6, <1>2, SemAssumption DEF Positions, Cells, Bits
    <2> QED BY <2>1, <2>2, StartPosition DEF NextIndex
  <1>7. loop.r < R4 /\ loop.at # "threads" => [loop EXCEPT !.r = @ + 1] \in Positions
    BY SMTT(60), <1>1, <1>2 DEF Positions
  <1>8. CASE loop.at = "registers"
    <2>1. After(loop, item) = NextRegister(loop, At("semaphores"))
      BY SMTT(60), <1>8 DEF After
    <2> QED BY <1>8, <2>1, <1>7, StartPosition DEF NextRegister
  <1>9. CASE loop.at \in {"threads", "threadRegisters"}
    <2>1. next \in Positions
      <3> DEFINE at == [at |-> "threads", i |-> loop.i, r |-> POS]
                 further == [at |-> "threads", i |-> loop.i + 1, r |-> POS]
      <3>1. next = IF loop.i + 1 < MaxThreadsPerProcess THEN further ELSE At("disconnect")
        BY SMTT(60) DEF NextThread, NextIndex
      <3>2. loop.i + 1 < MaxThreadsPerProcess => further \in Positions
        BY SMTT(60), <1>1, <1>2, SemAssumption DEF Positions, Slots
      <3> QED BY <3>1, <3>2, StartPosition
    <2> HIDE DEF next
    <2>2. CASE loop.at = "threads"
      <3>1. After(loop, item) = next \/ After(loop, item) = [loop EXCEPT !.at = "threadRegisters"]
        BY SMTT(60), <2>2 DEF After, next
      <3>2. [loop EXCEPT !.at = "threadRegisters"] \in Positions
        BY SMTT(60), <1>2, <2>2 DEF Positions
      <3> QED BY <2>1, <3>1, <3>2
    <2>3. CASE loop.at = "threadRegisters"
      <3>1. After(loop, item) = NextRegister(loop, next)
        BY SMTT(60), <2>3 DEF After, next
      <3> QED BY <1>7, <2>1, <2>3, <3>1 DEF NextRegister
    <2> QED BY <1>9, <2>2, <2>3
  <1> QED BY <1>3, <1>4, <1>5, <1>6, <1>8, <1>9 DEF Positions

\* Nothing is on the way when the two sides are at the same place.
LEMMA WireEmpty ==
    ASSUME NEW at \in Positions, NEW snap
    PROVE  Wire(<<>>, at, at, snap)
  <1> DEFINE path == [k \in 1 .. Len(<<>>) + 1 |-> at]
  <1>1. <<>> \in Seq(Int) /\ Len(<<>>) = 0
    BY SMTT(60)
  <1>2. path \in [1 .. Len(<<>>) + 1 -> Positions] /\ path[1] = at /\ path[Len(<<>>) + 1] = at
    BY SMTT(60), <1>1
  <1>3. 1 .. Len(<<>>) = {}
    BY SMTT(60), <1>1
  <1> HIDE DEF path
  <1> QED BY <1>1, <1>2, <1>3 DEF Wire

\* A message is delivered.
LEMMA WireSend ==
    ASSUME NEW m, NEW from, NEW to, NEW snap, Wire(m, from, to, snap),
           NEW item, Fits(to, item), snap # NULL => item = ItemOf(snap, to)
    PROVE  Wire(Append(m, item), from, After(to, item), snap) /\ After(to, item) \in Positions
  <1> DEFINE n == Len(m)
             long == Append(m, item)
             after == After(to, item)
  <1>1. PICK path \in [1 .. n + 1 -> Positions] :
        /\ path[1] = from /\ path[n + 1] = to
        /\ \A k \in 1 .. n :
            /\ Fits(path[k], m[k])
            /\ path[k + 1] = After(path[k], m[k])
            /\ snap # NULL => m[k] = ItemOf(snap, path[k])
    BY DEF Wire
  <1>2. m \in Seq(Int) /\ n \in Nat
    BY SMTT(60) DEF Wire
  <1>3. to \in Positions
    BY SMTT(60), <1>1, <1>2
  <1>4. to.at # "disconnect" /\ item \in Int
    BY DEF Fits
  <1>5. after \in Positions /\ item \in Int
    BY <1>3, <1>4, AfterPosition
  <1>6. /\ long \in Seq(Int) /\ Len(long) = n + 1 /\ long[n + 1] = item
        /\ \A k \in 1 .. n : long[k] = m[k]
    BY SMTT(60), <1>2, <1>5
  <1> HIDE DEF n, long, after
  <1> DEFINE path2 == [k \in 1 .. n + 2 |-> IF k = n + 2 THEN after ELSE path[k]]
  <1>7. /\ path2 \in [1 .. Len(long) + 1 -> Positions]
        /\ path2[n + 2] = after /\ \A k \in 1 .. n + 1 : path2[k] = path[k]
    BY SMTT(60), <1>1, <1>2, <1>5, <1>6
  <1> HIDE DEF path2
  <1>8. path2[1] = from /\ path2[Len(long) + 1] = after
    BY SMTT(60), <1>1, <1>2, <1>6, <1>7
  <1>9. ASSUME NEW k \in 1 .. Len(long)
        PROVE  /\ Fits(path2[k], long[k]) /\ path2[k + 1] = After(path2[k], long[k])
               /\ snap # NULL => long[k] = ItemOf(snap, path2[k])
    <2>1. CASE k = n + 1
      <3>1. path2[k] = to /\ path2[k + 1] = after /\ long[k] = item
        BY SMTT(60), <1>1, <1>2, <1>6, <1>7, <2>1
      <3> QED BY <3>1 DEF after
    <2>2. CASE k \in 1 .. n
      <3>1. path2[k] = path[k] /\ path2[k + 1] = path[k + 1] /\ long[k] = m[k]
        BY SMTT(60), <1>2, <1>6, <1>7, <2>2
      <3> QED BY <1>1, <2>2, <3>1
    <2> QED BY SMTT(60), <1>2, <1>6, <2>1, <2>2
  <1>10. Wire(long, from, after, snap)
    BY <1>6, <1>7, <1>8, <1>9 DEF Wire
  <1> QED BY <1>5, <1>10 DEF long, after

\* The oldest message is received.
LEMMA WireReceive ==
    ASSUME NEW m, NEW from, NEW to, NEW snap, Wire(m, from, to, snap), m # <<>>
    PROVE  /\ from \in Positions /\ Fits(from, Head(m))
           /\ snap # NULL => Head(m) = ItemOf(snap, from)
           /\ Wire(Tail(m), After(from, Head(m)), to, snap)
  <1> DEFINE n == Len(m)
             rest == Tail(m)
             item == Head(m)
  <1>1. PICK path \in [1 .. n + 1 -> Positions] :
        /\ path[1] = from /\ path[n + 1] = to
        /\ \A k \in 1 .. n :
            /\ Fits(path[k], m[k])
            /\ path[k + 1] = After(path[k], m[k])
            /\ snap # NULL => m[k] = ItemOf(snap, path[k])
    BY DEF Wire
  <1>2. m \in Seq(Int)
    BY DEF Wire
  <1>3. /\ n \in Nat /\ n >= 1 /\ item = m[1] /\ rest \in Seq(Int) /\ Len(rest) = n - 1
        /\ \A k \in 1 .. n - 1 : rest[k] = m[k + 1]
    BY SMTT(60), <1>2
  <1> HIDE DEF n, rest, item
  <1>4. 1 \in 1 .. n /\ 1 \in 1 .. n + 1 /\ 1 + 1 = 2
    BY SMTT(60), <1>3
  <1>5. /\ from \in Positions /\ Fits(from, item) /\ path[2] = After(from, item)
        /\ snap # NULL => item = ItemOf(snap, from)
    BY <1>1, <1>3, <1>4
  <1> DEFINE path2 == [k \in 1 .. n |-> path[k + 1]]
  <1>6. /\ path2 \in [1 .. Len(rest) + 1 -> Positions]
        /\ \A k \in 1 .. n : path2[k] = path[k + 1]
        /\ path2[1] = path[2] /\ path2[Len(rest) + 1] = to
    BY SMTT(60), <1>1, <1>3
  <1> HIDE DEF path2
  <1>7. ASSUME NEW k \in 1 .. Len(rest)
        PROVE  /\ Fits(path2[k], rest[k]) /\ path2[k + 1] = After(path2[k], rest[k])
               /\ snap # NULL => rest[k] = ItemOf(snap, path2[k])
    <2>1. k + 1 \in 1 .. n /\ path2[k] = path[k + 1] /\ path2[k + 1] = path[(k + 1) + 1]
          /\ rest[k] = m[k + 1]
      BY SMTT(60), <1>3, <1>6
    <2> QED BY <1>1, <2>1
  <1>8. Wire(rest, After(from, item), to, snap)
    BY <1>3, <1>5, <1>6, <1>7 DEF Wire
  <1> QED BY <1>5, <1>8 DEF rest, item

\* What is on the way is no longer compared with the process.
LEMMA WireForgets ==
    ASSUME NEW m, NEW from, NEW to, NEW snap, Wire(m, from, to, snap)
    PROVE  Wire(m, from, to, NULL)
  BY DEF Wire

\* ListenProcess takes the way of SendProcess.
LEMMA ReadsAfter ==
    ASSUME NEW loop \in Positions, NEW item
    PROVE  /\ Reads(loop) = loop
           /\ loop.at = "pages" => Reads(At("memory")) = After(loop, item)
           /\ loop.at = "memory" =>
                  Reads(NextIndex(loop, NumCells, At("registers"))) = After(loop, item)
           /\ loop.at = "registers" =>
                  Reads(NextRegister(loop, At("semaphores"))) = After(loop, item)
           /\ loop.at = "semaphores" =>
                  Reads(NextIndex(loop, MaxSem, At("nThreads"))) = After(loop, item)
           /\ loop.at = "nThreads" => Reads(At("threads")) = After(loop, item)
           /\ loop.at = "threads" =>
                  /\ item = NoData => Reads(NextThread(loop, At("done"))) = After(loop, item)
                  /\ item # NoData => Reads([loop EXCEPT !.at = "threadRegisters"]) = After(loop, item)
           /\ loop.at = "threadRegisters" =>
                  /\ loop.r < R4 => Reads(NextRegister(loop, loop)) = After(loop, item)
                  /\ ~ (loop.r < R4) => Reads(NextThread(loop, At("done"))) = After(loop, item)
  <1>1. loop.at \notin {"accept", "done"} /\ loop = [at |-> loop.at, i |-> loop.i, r |-> loop.r]
    BY SMTT(60) DEF Positions
  <1>2. \A at : at.at \notin {"accept", "done"} => Reads(at) = at
    BY DEF Reads
  <1>3. \A i, r : Reads([at |-> loop.at, i |-> i, r |-> r]) = [at |-> loop.at, i |-> i, r |-> r]
    BY SMTT(60), <1>1, <1>2
  <1>4. [loop EXCEPT !.i = @ + 1] = [at |-> loop.at, i |-> loop.i + 1, r |-> loop.r]
        /\ [loop EXCEPT !.r = @ + 1] = [at |-> loop.at, i |-> loop.i, r |-> loop.r + 1]
    BY SMTT(60), <1>1
  <1>5. Reads([loop EXCEPT !.i = @ + 1]) = [loop EXCEPT !.i = @ + 1]
        /\ Reads([loop EXCEPT !.r = @ + 1]) = [loop EXCEPT !.r = @ + 1]
    BY <1>3, <1>4
  <1>6. \A stage \in {"memory", "registers", "semaphores", "nThreads", "threads"} :
            Reads(At(stage)) = At(stage)
    BY SMTT(60) DEF Reads, At
  <1>7. Reads(At("done")) = At("disconnect")
    BY SMTT(60) DEF Reads, At
  <1>8. Reads(NextThread(loop, At("done"))) = NextThread(loop, At("disconnect"))
    <2> DEFINE further == [at |-> "threads", i |-> loop.i + 1, r |-> POS]
    <2>1. \A after : NextThread(loop, after) =
              IF loop.i + 1 < MaxThreadsPerProcess THEN further ELSE after
      BY SMTT(60) DEF NextThread, NextIndex
    <2>2. Reads(further) = further
      BY SMTT(60) DEF Reads
    <2> HIDE DEF further
    <2>3. CASE loop.i + 1 < MaxThreadsPerProcess
      BY <2>1, <2>2, <2>3
    <2>4. CASE ~ (loop.i + 1 < MaxThreadsPerProcess)
      <3>1. NextThread(loop, At("done")) = At("done")
            /\ NextThread(loop, At("disconnect")) = At("disconnect")
        BY SMTT(60), <2>1, <2>4
      <3> QED BY <1>7, <3>1
    <2> QED BY <2>3, <2>4
  <1>9. Reads([loop EXCEPT !.at = "threadRegisters"]) = [loop EXCEPT !.at = "threadRegisters"]
    BY SMTT(60), <1>1 DEF Reads
  <1>10. Reads(loop) = loop
    BY <1>1, <1>2
  <1>11. CASE loop.at = "pages"
    BY <1>6, <1>10, <1>11 DEF After
  <1>12. CASE loop.at = "memory"
    <2>1. After(loop, item) = NextIndex(loop, NumCells, At("registers"))
      BY SMTT(60), <1>12 DEF After
    <2> QED BY <1>5, <1>6, <1>10, <1>12, <2>1 DEF NextIndex
  <1>13. CASE loop.at = "registers"
    <2>1. After(loop, item) = NextRegister(loop, At("semaphores"))
      BY SMTT(60), <1>13 DEF After
    <2> QED BY <1>5, <1>6, <1>10, <1>13, <2>1 DEF NextRegister
  <1>14. CASE loop.at = "semaphores"
    <2>1. After(loop, item) = NextIndex(loop, MaxSem, At("nThreads"))
      BY SMTT(60), <1>14 DEF After
    <2> QED BY <1>5, <1>6, <1>10, <1>14, <2>1 DEF NextIndex
  <1>15. CASE loop.at = "nThreads"
    <2>1. After(loop, item) = At("threads")
      BY SMTT(60), <1>15 DEF After
    <2> QED BY <1>6, <1>10, <1>15, <2>1
  <1>16. CASE loop.at = "threads"
    <2>1. After(loop, item) = IF item # NoData THEN [loop EXCEPT !.at = "threadRegisters"]
                              ELSE NextThread(loop, At("disconnect"))
      BY SMTT(60), <1>16 DEF After
    <2> QED BY <1>8, <1>9, <1>10, <1>16, <2>1
  <1>17. CASE loop.at = "threadRegisters"
    <2>1. After(loop, item) = NextRegister(loop, NextThread(loop, At("disconnect")))
      BY SMTT(60), <1>17 DEF After
    <2> QED BY <1>5, <1>8, <1>10, <1>17, <2>1 DEF NextRegister
  <1>18. CASE loop.at = "disconnect"
    BY <1>10, <1>18
  <1> QED BY <1>11, <1>12, <1>13, <1>14, <1>15, <1>16, <1>17, <1>18 DEF Positions

\* The stages at which something is received.
Stages ==
    {"pages", "memory", "registers", "semaphores", "nThreads", "threads", "threadRegisters"}

\* A Receive of ListenProcess returns what its loop is at, and the stream goes on.
LEMMA StreamReceive ==
    ASSUME Stream, NEW stage \in Stages, Receives(stage)
    PROVE  /\ in \in Positions /\ Fits(in, Item)
           /\ before # NULL => Item = ItemOf(before, in)
           /\ UNCHANGED <<out, before, skewed>> /\ Reads(in') = After(in, Item) => Stream'
  <1>1. in.at = stage /\ mail # <<>> /\ ~ skewed /\ mail' = Tail(mail)
    BY DEF Receives
  <1>2. PICK to \in Positions : Wire(mail, Reads(in), to, before) /\ (out.at # "user" => out = to)
    BY <1>1 DEF Stream, Stages
  <1>3. Reads(in) = in
    BY <1>1 DEF Reads, Stages
  <1>4. /\ in \in Positions /\ Fits(in, Item)
        /\ before # NULL => Item = ItemOf(before, in)
        /\ Wire(mail', After(in, Item), to, before)
    BY <1>1, <1>2, <1>3, WireReceive DEF Item
  <1>5. ASSUME UNCHANGED <<out, before, skewed>>, Reads(in') = After(in, Item)
        PROVE  Stream'
    BY <1>2, <1>4, <1>5 DEF Stream
  <1> QED BY <1>4, <1>5

\* SendProcess sends what its loop calls for, of the process as it is.
LEMMA SentFits ==
    ASSUME Types, Counted, out \in Positions, out.at # "disconnect"
    PROVE  /\ Fits(out, SentItem) /\ SendLoop = After(out, SentItem)
           /\ SentItem = ItemOf(Snapshot("sender"), out)
  <1> DEFINE p == "sender"
             snap == Snapshot(p)
  <1>1. /\ p \in Processes /\ out.r \in Registers /\ out.i \in Nat /\ Main \in Threads
        /\ NoData \in Nat /\ NumPages \in Nat /\ \A n \in Nat : n \in Int
        /\ \A n \in -1 .. MaxSem - 1 : n \in Int
    BY SMTT(60), MigrateAssumption, SemAssumption DEF Positions, Threads, Main, NoData
  <1>2. /\ memory[p] \in [Cells -> -1 .. MaxSem - 1] /\ semList[p] \in Tables
        /\ regs[p] \in [Threads -> [Registers -> Int]]
        /\ ids[p] \in [Threads -> Nat] /\ nThreads[p] \in Int
    BY <1>1 DEF Types, Counted
  <1>3. /\ snap.memory = memory[p] /\ snap.regs = regs[p] /\ snap.sems = Values(p)
        /\ snap.live = Live(p) /\ snap.nThreads = nThreads[p]
        /\ snap.ids = [t \in Live(p) |-> ids[p][t]]
    BY SMTT(60) DEF Snapshot
  <1>4. \A id \in Bits(MaxSem) : Values(p)[id] \in Nat
    BY <1>1, <1>2 DEF Values, Tables, Semaphore
  <1>5. Live(p) \subseteq Slots /\ Slots \subseteq Threads
    BY DEF Live, Threads
  <1> HIDE DEF p, snap
  <1> SUFFICES Fits(out, SentItem) /\ SentItem = ItemOf(snap, out)
    BY DEF SendLoop, After, snap, p
  <1>6. CASE out.at = "pages"
    <2>1. SentItem = NumPages /\ ItemOf(snap, out) = NumPages
      BY SMTT(60), <1>6 DEF SentItem, ItemOf
    <2> QED BY <1>1, <1>6, <2>1 DEF Fits
  <1>7. CASE out.at = "memory"
    <2>1. SentItem = memory[p][out.i] /\ ItemOf(snap, out) = snap.memory[out.i]
      BY SMTT(60), <1>7 DEF SentItem, ItemOf, p
    <2>2. out.i \in Cells
      BY <1>7 DEF Positions
    <2>3. memory[p][out.i] \in -1 .. MaxSem - 1
      BY <1>2, <2>2
    <2> QED BY <1>1, <1>3, <1>7, <2>1, <2>3 DEF Fits
  <1>8. CASE out.at = "registers"
    <2>1. SentItem = regs[p][Main][out.r] /\ ItemOf(snap, out) = snap.regs[Main][out.r]
      BY SMTT(60), <1>8 DEF SentItem, ItemOf, p
    <2> QED BY <1>1, <1>2, <1>3, <1>8, <2>1 DEF Fits
  <1>9. CASE out.at = "semaphores"
    <2>1. SentItem = Values(p)[out.i] /\ ItemOf(snap, out) = snap.sems[out.i]
      BY SMTT(60), <1>9 DEF SentItem, ItemOf, p
    <2>2. out.i \in Bits(MaxSem)
      BY <1>9 DEF Positions
    <2> QED BY <1>1, <1>3, <1>4, <1>9, <2>1, <2>2 DEF Fits
  <1>10. CASE out.at = "nThreads"
    <2>1. SentItem = nThreads[p] /\ ItemOf(snap, out) = snap.nThreads
      BY SMTT(60), <1>10 DEF SentItem, ItemOf, p
    <2> QED BY <1>1, <1>2, <1>3, <1>10, <2>1 DEF Fits
  <1>11. CASE out.at = "threads"
    <2>1. /\ SentItem = IF out.i + 1 \in Live(p) THEN ids[p][out.i + 1] ELSE NoData
          /\ ItemOf(snap, out) = IF out.i + 1 \in snap.live THEN snap.ids[out.i + 1] ELSE NoData
      BY SMTT(60), <1>11 DEF SentItem, ItemOf, p
    <2>2. CASE out.i + 1 \in Live(p)
      <3>1. SentItem = ids[p][out.i + 1] /\ ItemOf(snap, out) = ids[p][out.i + 1]
        BY <1>3, <2>1, <2>2
      <3>2. ids[p][out.i + 1] \in Nat
        BY <1>2, <1>5, <2>2
      <3> QED BY <1>1, <1>11, <3>1, <3>2 DEF Fits
    <2>3. CASE out.i + 1 \notin Live(p)
      BY <1>1, <1>3, <1>11, <2>1, <2>3 DEF Fits
    <2> QED BY <2>2, <2>3
  <1>12. CASE out.at = "threadRegisters"
    <2>1. SentItem = regs[p][out.i + 1][out.r] /\ ItemOf(snap, out) = snap.regs[out.i + 1][out.r]
      BY SMTT(60), <1>12 DEF SentItem, ItemOf, p
    <2>2. out.i + 1 \in Threads
      BY <1>5, <1>12 DEF Positions
    <2> QED BY <1>1, <1>2, <1>3, <1>12, <2>1, <2>2 DEF Fits
  <1> QED BY <1>6, <1>7, <1>8, <1>9, <1>10, <1>11, <1>12 DEF Positions

-----------------------------------------------------------------------------
(* What one message adds to the new process. *)

\* A turn of a loop over n indexes, of one over the registers, and of the one over slots.
IndexTurn(loop, n, stage, next) ==
    \/ loop.i + 1 < n /\ next.at = loop.at /\ next.i = loop.i + 1 /\ next.r = loop.r
    \/ ~ (loop.i + 1 < n) /\ next.at = stage /\ next.i = 0 /\ next.r = POS
RegisterTurn(loop, after, next) ==
    \/ loop.r < R4 /\ next.at = loop.at /\ next.i = loop.i /\ next.r = loop.r + 1
    \/ ~ (loop.r < R4) /\ next = after
ThreadTurn(loop, stage, next) ==
    \/ loop.i + 1 < MaxThreadsPerProcess /\ next.at = "threads" /\ next.i = loop.i + 1 /\ next.r = POS
    \/ ~ (loop.i + 1 < MaxThreadsPerProcess) /\ next.at = stage /\ next.i = 0 /\ next.r = POS

\* The loops turn.
LEMMA Turns ==
    ASSUME NEW loop \in Positions
    PROVE  /\ \A n, stage : IndexTurn(loop, n, stage, NextIndex(loop, n, At(stage)))
           /\ \A after : RegisterTurn(loop, after, NextRegister(loop, after))
           /\ \A stage : ThreadTurn(loop, stage, NextThread(loop, At(stage)))
  <1>1. \A n, stage : IndexTurn(loop, n, stage, NextIndex(loop, n, At(stage)))
    BY SMTT(60) DEF IndexTurn, NextIndex, At, Positions
  <1>2. \A after : RegisterTurn(loop, after, NextRegister(loop, after))
    BY SMTT(60) DEF RegisterTurn, NextRegister, Positions
  <1>3. \A stage : ThreadTurn(loop, stage, NextThread(loop, At(stage)))
    BY SMTT(60) DEF ThreadTurn, NextThread, NextIndex, At, Positions
  <1> QED BY <1>1, <1>2, <1>3

\* A loop starts at its first index.
LEMMA AtIs == \A stage : At(stage).at = stage /\ At(stage).i = 0 /\ At(stage).r = POS
  BY SMTT(60) DEF At

\* One cell more of the memory.
LEMMA MemoryTurn ==
    ASSUME NEW loop \in Positions, loop.at = "memory", NEW snap, NEW mem, NEW r,
           NEW X, mem \in [Cells -> X], snap.memory \in [Cells -> X],
           MemoryArrived(snap, loop, mem, r),
           NEW next, next = NextIndex(loop, NumCells, At("registers")),
           NEW mem2, mem2 = [mem EXCEPT ![loop.i] = snap.memory[loop.i]]
    PROVE  MemoryArrived(snap, next, mem2, r)
  <1>1. loop.i \in Cells /\ loop.i \in Nat /\ \A c \in Cells : c \in Nat /\ c < NumCells
    BY SMTT(60), SemAssumption DEF Positions, Cells, Bits
  <1>2. \A c \in Cells : c < loop.i => mem[c] = snap.memory[c]
    BY DEF MemoryArrived
  <1>3. /\ mem2 \in [Cells -> X] /\ mem2[loop.i] = snap.memory[loop.i]
        /\ \A c \in Cells : c # loop.i => mem2[c] = mem[c]
    BY <1>1
  <1>4. \A c \in Cells : c < loop.i + 1 => mem2[c] = snap.memory[c]
    BY SMTT(60), <1>1, <1>2, <1>3
  <1>5. CASE next.at = "memory" /\ next.i = loop.i + 1
    BY <1>4, <1>5 DEF MemoryArrived
  <1>6. CASE ~ (loop.i + 1 < NumCells) /\ next.at = "registers" /\ next.r = POS
    <2>1. \A c \in Cells : c < loop.i + 1
      BY SMTT(60), <1>1, <1>6, SemAssumption
    <2>2. \A c \in Cells : mem2[c] = snap.memory[c]
      BY <1>4, <2>1
    <2>3. mem2 = snap.memory
      <3> DEFINE want == snap.memory
      <3>1. mem2 \in [Cells -> X] /\ want \in [Cells -> X] /\ \A c \in Cells : mem2[c] = want[c]
        BY <1>3, <2>2
      <3> HIDE DEF want
      <3>2. mem2 = want
        BY SMTT(60), <3>1
      <3> QED BY <3>2 DEF want
    <2>4. \A k \in Registers : ~ (k < POS)
      BY SMTT(60) DEF Registers, POS, R4
    <2> QED BY <1>6, <2>3, <2>4 DEF MemoryArrived
  <1>7. \/ next.at = "memory" /\ next.i = loop.i + 1
        \/ ~ (loop.i + 1 < NumCells) /\ next.at = "registers" /\ next.r = POS
    <2>1. IndexTurn(loop, NumCells, "registers", next)
      BY Turns
    <2> QED BY <2>1 DEF IndexTurn
  <1> QED BY <1>5, <1>6, <1>7

\* One register more of the main thread; with the last it has the result of its call.
LEMMA RegistersTurn ==
    ASSUME NEW loop \in Positions, loop.at = "registers", NEW snap, NEW mem, NEW r,
           r \in [Registers -> Int], snap.regs[Main] \in [Registers -> Int],
           MemoryArrived(snap, loop, mem, r), NEW item, item = snap.regs[Main][loop.r],
           NEW next, next = NextRegister(loop, At("semaphores")),
           NEW r2, r2 = [r EXCEPT ![loop.r] = item]
    PROVE  MemoryArrived(snap, next, mem, IF loop.r < R4 THEN r2 ELSE [r2 EXCEPT ![R2] = 1])
  <1> DEFINE want == snap.regs[Main]
  <1>1. loop.r \in Registers /\ Registers = 1 .. 3 /\ R4 = 3 /\ R2 = 2 /\ item \in Int
    BY SMTT(60) DEF Positions, Registers, POS, R2, R4
  <1>2. mem = snap.memory /\ \A k \in Registers : k < loop.r => r[k] = want[k]
    BY DEF MemoryArrived
  <1>3. /\ r2 \in [Registers -> Int] /\ r2[loop.r] = want[loop.r]
        /\ \A k \in Registers : k # loop.r => r2[k] = r[k]
    BY <1>1
  <1> HIDE DEF want
  <1>4. \A k \in Registers : k < loop.r + 1 => r2[k] = want[k]
    BY SMTT(60), <1>1, <1>2, <1>3
  <1>5. CASE loop.r < R4 /\ next.at = "registers" /\ next.r = loop.r + 1
    <2>1. MemoryArrived(snap, next, mem, r2)
      BY <1>2, <1>4, <1>5 DEF MemoryArrived, want
    <2> QED BY <1>5, <2>1
  <1>6. CASE ~ (loop.r < R4) /\ next.at = "semaphores"
    <2>1. \A k \in Registers : k < loop.r + 1
      BY SMTT(60), <1>1, <1>6
    <2>2. \A k \in Registers : r2[k] = want[k]
      BY <1>4, <2>1
    <2>3. want \in [Registers -> Int]
      BY DEF want
    <2>4. r2 = want
      BY SMTT(60), <1>3, <2>2, <2>3
    <2>5. MemoryArrived(snap, next, mem, [want EXCEPT ![R2] = 1])
      BY <1>2, <1>6 DEF MemoryArrived, want
    <2> QED BY <1>6, <2>4, <2>5
  <1>7. \/ loop.r < R4 /\ next.at = "registers" /\ next.r = loop.r + 1
        \/ ~ (loop.r < R4) /\ next.at = "semaphores"
    <2>1. RegisterTurn(loop, At("semaphores"), next)
      BY Turns
    <2> QED BY <2>1, AtIs DEF RegisterTurn
  <1> QED BY <1>5, <1>6, <1>7

\* One semaphore more, or none where the sender had none.
LEMMA SemaphoresTurn ==
    ASSUME NEW loop \in Positions, loop.at = "semaphores", NEW snap, NEW sems \in Tables, NEW n,
           SemaphoresArrived(snap, loop, sems, n), sems[loop.i] = NULL,
           NEW item \in Nat, item = snap.sems[loop.i],
           NEW next, next = NextIndex(loop, MaxSem, At("nThreads")),
           NEW sems2, \/ item = NoData /\ sems2 = sems
                      \/ /\ item # NoData
                         /\ sems2 = [sems EXCEPT ![loop.i] = [value |-> item, queue |-> <<>>]]
    PROVE  SemaphoresArrived(snap, next, sems2, n)
  <1> DEFINE new == [value |-> item, queue |-> <<>>]
  <1>1. loop.i \in Bits(MaxSem) /\ loop.i \in Nat /\ \A id \in Bits(MaxSem) : id \in Nat /\ id < MaxSem
    BY SMTT(60), SemAssumption DEF Positions, Bits
  <1>2. new \in Semaphore /\ new.value = item
    BY SMTT(60) DEF Semaphore
  <1>3. new # NULL
    BY <1>2, NullApart
  <1>4. sems2[loop.i] = (IF item = NoData THEN NULL ELSE new)
    <2> HIDE DEF new
    <2>1. CASE item = NoData
      BY <2>1
    <2>2. CASE item # NoData
      BY <1>1, <2>2 DEF new, Tables
    <2> QED BY <2>1, <2>2
  <1>5. \A id \in Bits(MaxSem) : id # loop.i => sems2[id] = sems[id]
    BY DEF Tables
  <1> HIDE DEF new
  <1>6. ValueOf(sems2[loop.i]) = snap.sems[loop.i]
    BY <1>2, <1>3, <1>4 DEF ValueOf
  <1>7. \A id \in Bits(MaxSem) : id < loop.i => ValueOf(sems2[id]) = snap.sems[id]
    <2>1. \A id \in Bits(MaxSem) : id < loop.i => id # loop.i
      BY SMTT(60), <1>1
    <2> QED BY <1>5, <2>1 DEF SemaphoresArrived
  <1>8. \A id \in Bits(MaxSem) : id < loop.i + 1 => ValueOf(sems2[id]) = snap.sems[id]
    <2>1. \A id \in Bits(MaxSem) : id < loop.i + 1 => id = loop.i \/ id < loop.i
      BY SMTT(60), <1>1
    <2> QED BY <1>6, <1>7, <2>1
  <1>9. CASE next.at = "semaphores" /\ next.i = loop.i + 1
    BY <1>8, <1>9 DEF SemaphoresArrived
  <1>10. CASE ~ (loop.i + 1 < MaxSem) /\ next.at = "nThreads"
    <2>1. \A id \in Bits(MaxSem) : id < loop.i + 1
      BY SMTT(60), <1>1, <1>10, SemAssumption
    <2> QED BY <1>8, <1>10, <2>1 DEF SemaphoresArrived
  <1>11. \/ next.at = "semaphores" /\ next.i = loop.i + 1
         \/ ~ (loop.i + 1 < MaxSem) /\ next.at = "nThreads"
    <2>1. IndexTurn(loop, MaxSem, "nThreads", next)
      BY Turns
    <2> QED BY <2>1 DEF IndexTurn
  <1> QED BY <1>9, <1>10, <1>11

\* The next id to give out.
LEMMA MaxOfTwo ==
    ASSUME NEW a \in Nat, NEW b \in Nat
    PROVE  Max({a, b}) \in Nat /\ Max({a, b}) >= a /\ Max({a, b}) >= b
  <1>1. \E x \in {a, b} : \A y \in {a, b} : x >= y
    BY SMTT(60)
  <1>2. Max({a, b}) \in {a, b} /\ \A y \in {a, b} : Max({a, b}) >= y
    BY <1>1 DEF Max
  <1> QED BY <1>2

\* A slot that has arrived stays as it is, and the ids that may be given out grow.
LEMMA SlotKept ==
    ASSUME NEW snap, NEW t, NEW r, NEW doing, NEW id, NEW n \in Nat, NEW n2 \in Nat, n2 >= n,
           t \in snap.live => snap.ids[t] \in Nat, SlotArrived(snap, t, r, doing, id, n)
    PROVE  SlotArrived(snap, t, r, doing, id, n2)
  BY SMTT(60) DEF SlotArrived

\* The slots up to that of the loop have arrived, and it goes on.
LEMMA SlotsTurn ==
    ASSUME NEW loop \in Positions, loop.at \in {"threads", "threadRegisters"}, NEW snap,
           NEW r, NEW doing, NEW idTable, NEW n, NEW doing2,
           \A t \in Slots : doing2[t] = doing[t],
           \A t \in Slots : t <= loop.i + 1 => SlotArrived(snap, t, r[t], doing[t], idTable[t], n),
           NEW next, next = NextThread(loop, At("done"))
    PROVE  ThreadsArrived(snap, next, r, doing2, idTable, n)
  <1>1. \A t \in Slots : t <= loop.i + 1 => SlotArrived(snap, t, r[t], doing2[t], idTable[t], n)
    OBVIOUS
  <1>2. ThreadTurn(loop, "done", next)
    BY Turns
  <1>3. CASE next.at = "threads" /\ next.i = loop.i + 1
    BY <1>1, <1>3 DEF ThreadsArrived
  <1>4. CASE ~ (loop.i + 1 < MaxThreadsPerProcess) /\ next.at = "done"
    <2>1. \A t \in Slots : t <= loop.i + 1
      BY SMTT(60), <1>4, SemAssumption DEF Slots, Positions
    <2> QED BY <1>1, <1>4, <2>1 DEF ThreadsArrived
  <1> QED BY <1>2, <1>3, <1>4 DEF ThreadTurn

-----------------------------------------------------------------------------
(* The threads of the two processes keep the invariant. *)

\* The two processes.
LEMMA TwoProcesses ==
    /\ "sender" \in Processes /\ "receiver" \in Processes /\ "sender" # "receiver"
    /\ \A p \in Processes : p = "sender" \/ p = "receiver"
    /\ Main \in Threads /\ Main \notin Slots /\ Slots \subseteq Threads
    /\ \A t \in Threads : t = Main \/ t \in Slots
  BY SMTT(60), MigrateAssumption DEF Threads, Main, Slots

\* A process that does not change is what it was when SendProcess connected.
LEMMA SnapshotKept ==
    ASSUME memory'["sender"] = memory["sender"], regs'["sender"] = regs["sender"],
           semList'["sender"] = semList["sender"], ids'["sender"] = ids["sender"],
           nThreads'["sender"] = nThreads["sender"], Live("sender")' = Live("sender")
    PROVE  Snapshot("sender")' = Snapshot("sender")
  <1>1. Values("sender")' = Values("sender")
    BY SMTT(60) DEF Values
  <1> QED BY <1>1 DEF Snapshot

\* What is sent of a process is what it has.
LEMMA SnapshotParts ==
    ASSUME Types, Counted, NEW snap, snap = Snapshot("sender")
    PROVE  /\ snap.memory \in [Cells -> -1 .. MaxSem - 1]
           /\ snap.regs \in [Threads -> [Registers -> Int]]
           /\ snap.live = Live("sender") /\ snap.live \subseteq Slots
           /\ \A t \in snap.live : snap.ids[t] \in Nat /\ snap.ids[t] # NoData
           /\ snap.nThreads = Cardinality(snap.live) /\ snap.sems = Values("sender")
  <1>1. /\ snap.memory = memory["sender"] /\ snap.regs = regs["sender"]
        /\ snap.live = Live("sender") /\ snap.sems = Values("sender")
        /\ snap.nThreads = nThreads["sender"]
        /\ snap.ids = [t \in Live("sender") |-> ids["sender"][t]]
    BY SMTT(60) DEF Snapshot
  <1>2. Live("sender") \subseteq Slots
    BY DEF Live
  <1>3. \A t \in Live("sender") : ids["sender"][t] \in Nat /\ ids["sender"][t] # NoData
    BY <1>2, TwoProcesses DEF Counted
  <1>4. \A t \in snap.live : snap.ids[t] = ids["sender"][t]
    BY <1>1
  <1> QED BY <1>1, <1>2, <1>3, <1>4, TwoProcesses DEF Types, Counted

\* What is received is not compared any more once a thread has run.
LEMMA StreamForgets ==
    ASSUME Stream, UNCHANGED <<skewed, in, mail, out>>, before' = NULL
    PROVE  Stream'
  BY WireForgets DEF Stream

\* No thread starts, and without a thread the semaphores do not change.
Ages(sems, doing, sems2, doing2) ==
    /\ \A t \in Threads : doing[t] = "none" => doing2[t] = "none"
    /\ sems2 = sems \/ (\E t \in Threads : doing[t] # "none")

\* Threads that wait for their fork wait on.
LEMMA YoungKept ==
    ASSUME NEW loop, NEW sems, NEW doing, Young(loop, sems, doing), NEW sems2, NEW doing2,
           Ages(sems, doing, sems2, doing2)
    PROVE  Young(loop, sems2, doing2)
  <1>1. Pending(loop) \subseteq Threads
    BY TwoProcesses DEF Pending
  <1>2. \A t \in Pending(loop) : doing2[t] = "none"
    BY <1>1 DEF Young, Ages
  <1>3. CASE sems2 = sems
    BY <1>2, <1>3 DEF Young
  <1>4. CASE \E t \in Threads : doing[t] # "none"
    <2>1. Pending(loop) # Threads
      BY <1>4 DEF Young
    <2>2. loop.at \notin {"listen", "accept", "pages", "memory", "registers", "semaphores"}
      BY <2>1 DEF Pending
    <2> QED BY <1>2, <2>2 DEF Young
  <1> QED BY <1>3, <1>4 DEF Ages

\* A call of a thread.
LEMMA UserStepInv ==
    ASSUME IInv, NEW p \in Processes, NEW t \in Threads, UserStep(p, t)
    PROVE  IInv'
  <1>1. /\ Types /\ Sound /\ Counted /\ Connected /\ Stream /\ Arrives
        /\ UNCHANGED <<ids, nThreads, nextUserThreadid, out, in, mail, result, skewed>>
        /\ before' = NULL /\ Runs(p, t) /\ SemStep(p, t)
    BY DEF IInv, UserStep, Disturbs, tables
  <1>2. CallKeeps(p, t)
    BY <1>1, SemStepKeeps
  <1>3. /\ Types' /\ Sound' /\ Goes(pc[p], pc'[p], t) /\ pc[p][t] # "none"
        /\ \A q \in Processes : q # p => pc'[q] = pc[q] /\ semList'[q] = semList[q]
    BY <1>2 DEF CallKeeps
  <1>4. \A q \in Processes, u \in Threads :
            /\ pc[q][u] \in {"none", "done"} <=> pc'[q][u] \in {"none", "done"}
            /\ pc[q][u] = "none" => pc'[q][u] = "none"
    BY <1>3 DEF Goes
  <1>5. Live("sender")' = Live("sender")
    BY <1>4, TwoProcesses DEF Live
  <1>6. Counted'
    BY <1>1, <1>5 DEF Counted
  <1>7. out.at # "user" => pc'["sender"][Main] = "user"
    <2>1. ASSUME out.at # "user" PROVE pc'["sender"][Main] = "user"
      <3>1. pc["sender"][Main] = "user"
        BY <1>1, <2>1 DEF Connected
      <3>2. CASE p = "sender"
        <4>1. t # Main
          BY <1>1, <2>1, <3>2 DEF Runs
        <4> QED BY <1>3, <3>1, <3>2, <4>1, TwoProcesses DEF Goes
      <3>3. CASE p # "sender"
        BY <1>3, <3>1, <3>3, TwoProcesses
      <3> QED BY <3>2, <3>3
    <2> QED BY <2>1
  <1>8. Connected'
    BY <1>1, <1>7 DEF Connected
  <1>9. Stream'
    BY <1>1, StreamForgets
  <1>10. Young(in, semList'["receiver"], pc'["receiver"])
    <2>1. Young(in, semList["receiver"], pc["receiver"])
      BY <1>1 DEF Arrives
    <2>2. Ages(semList["receiver"], pc["receiver"], semList'["receiver"], pc'["receiver"])
      BY <1>3, <1>4, TwoProcesses DEF Ages
    <2> QED BY <2>1, <2>2, YoungKept
  <1>11. Arrives'
    BY <1>1, <1>10 DEF Arrives
  <1> QED BY <1>3, <1>6, <1>8, <1>9, <1>11 DEF IInv

\* do_UserThreadExit: the slot and the count go together.
LEMMA ThreadExitInv ==
    ASSUME IInv, NEW p \in Processes, NEW t \in Threads, ThreadExit(p, t)
    PROVE  IInv'
  <1>1. /\ Types /\ Sound /\ Counted /\ Connected /\ Stream /\ Arrives
        /\ UNCHANGED <<memory, semList, on, regs, crashed, ids, nextUserThreadid, out, in, mail,
                       result, skewed>>
        /\ before' = NULL /\ t # Main /\ AtUser(p, t)
        /\ pc' = [pc EXCEPT ![p][t] = "done"] /\ nThreads' = [nThreads EXCEPT ![p] = @ - 1]
    BY DEF IInv, ThreadExit, Disturbs, Free
  <1>2. pc[p][t] = "user"
    BY <1>1, AtCall
  <1>3. Sound' /\ pc' \in [Processes -> Doing]
    BY <1>1, <1>2, OneThread DEF Statuses
  <1>4. /\ pc'[p][t] = "done"
        /\ \A q \in Processes, u \in Threads : q # p \/ u # t => pc'[q][u] = pc[q][u]
    BY <1>1 DEF Types, Doing
  <1>5. Types'
    BY <1>1, <1>3 DEF Types
  <1>6. Counted'
    <2>1. nThreads' \in [Processes -> Int]
      BY SMTT(60), <1>1 DEF Counted
    <2>2. CASE p = "sender"
      <3>1. Live("sender")' = Live("sender") \ {t} /\ t \in Live("sender")
        BY <1>1, <1>2, <1>4, <2>2, TwoProcesses DEF Live
      <3>2. IsFiniteSet(Live("sender"))
        <4>1. Live("sender") \subseteq 1 .. MaxThreadsPerProcess
          BY DEF Live, Slots
        <4>2. IsFiniteSet(1 .. MaxThreadsPerProcess)
          <5>1. 1 \in Int /\ MaxThreadsPerProcess \in Int
            BY SMTT(60), SemAssumption
          <5> QED BY <5>1, FS_Interval
        <4> QED BY <4>1, <4>2, FS_Subset
      <3>3. Cardinality(Live("sender") \ {t}) = Cardinality(Live("sender")) - 1
        BY <3>1, <3>2, FS_RemoveElement
      <3>4. nThreads'["sender"] = nThreads["sender"] - 1
        BY <1>1, <2>2 DEF Counted
      <3>5. nThreads'["sender"] = Cardinality(Live("sender")')
        BY <1>1, <3>1, <3>3, <3>4 DEF Counted
      <3> QED BY <1>1, <2>1, <3>1, <3>5 DEF Counted
    <2>3. CASE p # "sender"
      <3>1. Live("sender")' = Live("sender")
        BY <1>4, <2>3, TwoProcesses DEF Live
      <3>2. nThreads'["sender"] = nThreads["sender"]
        BY <1>1, <2>3, TwoProcesses DEF Counted
      <3> QED BY <1>1, <2>1, <3>1, <3>2 DEF Counted
    <2> QED BY <2>2, <2>3
  <1>7. pc'["sender"][Main] = pc["sender"][Main]
    BY <1>1, <1>4, TwoProcesses
  <1>8. Connected'
    BY <1>1, <1>7 DEF Connected
  <1>9. Stream'
    BY <1>1, StreamForgets
  <1>10. Ages(semList["receiver"], pc["receiver"], semList'["receiver"], pc'["receiver"])
    BY <1>1, <1>2, <1>4, TwoProcesses DEF Ages
  <1>11. Young(in, semList'["receiver"], pc'["receiver"])
    BY <1>1, <1>10, YoungKept DEF Arrives
  <1>12. Arrives'
    BY <1>1, <1>11 DEF Arrives
  <1> QED BY <1>3, <1>5, <1>6, <1>8, <1>9, <1>12 DEF IInv

-----------------------------------------------------------------------------
(* SendProcess keeps the invariant. *)

\* The sender's tables stay as they are, and so does what they were compared with.
LEMMA SenderKept ==
    ASSUME IInv, UNCHANGED <<memory, semList, pc, on, regs, ids, nThreads, nextUserThreadid>>
    PROVE  /\ Sound' /\ Counted' /\ Snapshot("sender")' = Snapshot("sender")
           /\ crashed' \in BOOLEAN => Types'
           /\ UNCHANGED <<in, before, skewed>> => Arrives'
  <1>1. Live("sender")' = Live("sender")
    BY DEF Live
  <1>2. Snapshot("sender")' = Snapshot("sender")
    BY <1>1, SnapshotKept
  <1>3. ASSUME UNCHANGED <<in, before, skewed>>
        PROVE  Arrives'
    <2>1. Young(in', semList'["receiver"], pc'["receiver"])
      BY <1>3 DEF IInv, Arrives
    <2>2. before' # NULL => before' = Snapshot("sender")'
      BY <1>2, <1>3 DEF IInv, Arrives
    <2>3. ASSUME before' # NULL, ~ skewed'
          PROVE  /\ MemoryArrived(before', in', memory'["receiver"], regs'["receiver"][Main])
                 /\ SemaphoresArrived(before', in', semList'["receiver"], nThreads'["receiver"])
                 /\ ThreadsArrived(before', in', regs'["receiver"], pc'["receiver"],
                                   ids'["receiver"], nextUserThreadid'["receiver"])
      BY SMTT(60), <1>3, <2>3 DEF IInv, Arrives
    <2> QED BY <2>1, <2>2, <2>3 DEF Arrives
  <1> QED BY <1>1, <1>2, <1>3 DEF IInv, Types, Sound, Counted

\* SendProcess begins, and nothing has been compared yet.
LEMMA SendProcessInv == ASSUME IInv, SendProcess PROVE IInv'
  <1>1. /\ Types /\ Sound /\ Counted /\ Connected /\ Stream /\ Arrives
        /\ UNCHANGED <<memory, semList, pc, on, crashed, ids, nThreads, nextUserThreadid, in, mail,
                       result, before, skewed>>
        /\ AtUser("sender", Main) /\ out.at = "user" /\ result = NULL
        /\ out' = At("connect") /\ Returned("sender", Main)
    BY DEF IInv, SendProcess, Free, tables, history
  <1>2. in.at = "listen" /\ before = NULL
    BY <1>1 DEF Connected
  <1>3. pc["sender"][Main] = "user"
    BY <1>1, AtCall
  <1>4. Types'
    <2>1. regs' \in RegisterFiles
      BY <1>1, ReturnedType, TwoProcesses
    <2> QED BY <1>1, <2>1 DEF Types, RegisterFiles
  <1>5. Live("sender")' = Live("sender")
    BY <1>1 DEF Live
  <1>6. Sound' /\ Counted'
    BY <1>1, <1>5 DEF Sound, Counted
  <1>7. out'.at = "connect"
    BY <1>1, AtIs
  <1>8. Connected'
    BY <1>1, <1>2, <1>3, <1>7 DEF Connected
  <1>9. Stream'
    BY <1>1, <1>2 DEF Stream
  <1>10. Arrives'
    BY <1>1, <1>2 DEF Arrives
  <1> QED BY <1>4, <1>6, <1>8, <1>9, <1>10 DEF IInv

\* No position of the loops is "user" or "connect".
LEMMA OutPosition ==
    /\ \A loop \in Positions : loop.at \notin {"user", "connect", "listen", "accept", "refused", "done"}
    /\ Connected /\ out.at \notin {"user", "connect"} => out \in Positions /\ in.at # "listen"
  BY AtIs DEF Positions, Connected

\* Connect returns NULL, and the machine stops.
LEMMA ConnectFailsInv == ASSUME IInv, ConnectFails PROVE IInv'
  <1>1. UNCHANGED <<memory, semList, pc, on, regs, ids, nThreads, nextUserThreadid, out, in, mail,
                    result, before, skewed>> /\ crashed'
    BY DEF ConnectFails, tables, history
  <1>2. Sound' /\ Counted' /\ Types' /\ Arrives'
    BY <1>1, SenderKept
  <1>3. Connected' /\ Stream'
    BY <1>1 DEF IInv, Connected, Stream
  <1> QED BY <1>2, <1>3 DEF IInv

\* The connection is there, and the receiver is compared from here on.
LEMMA ConnectInv == ASSUME IInv, Connect PROVE IInv'
  <1>1. /\ Types /\ Connected /\ Arrives
        /\ UNCHANGED <<memory, semList, pc, on, regs, crashed, ids, nThreads, nextUserThreadid, mail,
                       result, skewed>>
        /\ out.at = "connect" /\ in.at = "listen" /\ before' = Snapshot("sender")
        /\ out' = At("pages") /\ in' = At("accept")
    BY DEF IInv, Connect, semVars, tables
  <1>2. /\ Sound' /\ Counted' /\ Types' /\ Snapshot("sender")' = Snapshot("sender")
    BY <1>1, SenderKept DEF Types
  <1>3. mail' = <<>> /\ pc'["sender"][Main] = "user"
    BY <1>1 DEF Connected
  <1>4. in'.at = "accept" /\ out'.at = "pages"
    BY <1>1, AtIs
  <1>5. Connected'
    BY <1>1, <1>3, <1>4, StartPosition DEF Connected
  <1>6. Stream'
    <2>1. Reads(in') = At("pages")
      BY <1>4 DEF Reads
    <2>2. Wire(mail', Reads(in'), out', before')
      BY <1>1, <1>3, <2>1, StartPosition, WireEmpty
    <2> QED BY <1>1, <2>2, StartPosition DEF Stream
  <1>7. Young(in', semList'["receiver"], pc'["receiver"])
    BY SMTT(60), <1>1, <1>4 DEF Young, Pending, Arrives
  <1>8. /\ MemoryArrived(before', in', memory'["receiver"], regs'["receiver"][Main])
        /\ SemaphoresArrived(before', in', semList'["receiver"], nThreads'["receiver"])
        /\ ThreadsArrived(before', in', regs'["receiver"], pc'["receiver"], ids'["receiver"],
                          nextUserThreadid'["receiver"])
    BY <1>4 DEF MemoryArrived, SemaphoresArrived, ThreadsArrived
  <1>9. Arrives'
    BY <1>1, <1>2, <1>7, <1>8 DEF Arrives
  <1> QED BY <1>2, <1>5, <1>6, <1>9 DEF IInv

\* What a Send does to the connection, whether it returns true or not: the item is
\* on the way or it is not.
LEMMA Sends ==
    ASSUME IInv, Sending, ~ Unread, in.at # "listen"
    PROVE  /\ Wire(mail, Reads(in), out, before)
           /\ Wire(Append(mail, SentItem), Reads(in), SendLoop, before)
  <1>1. out \in Positions /\ out.at \notin {"user", "disconnect"}
    BY OutPosition DEF IInv, Sending
  <1>2. Wire(mail, Reads(in), out, before)
    BY <1>1 DEF IInv, Stream, Unread
  <1>3. /\ Fits(out, SentItem) /\ SendLoop = After(out, SentItem)
        /\ SentItem = ItemOf(Snapshot("sender"), out)
    BY <1>1, SentFits DEF IInv
  <1>4. before # NULL => SentItem = ItemOf(before, out)
    BY <1>3 DEF IInv, Arrives
  <1> QED BY <1>2, <1>3, <1>4, WireSend

\* Send.
LEMMA SendInv == ASSUME IInv, Send PROVE IInv'
  <1>1. /\ Types /\ Connected /\ Sending
        /\ UNCHANGED <<memory, semList, pc, on, regs, crashed, ids, nThreads, nextUserThreadid, in,
                       result, before, skewed>>
        /\ mail' = IF Unread THEN mail ELSE Append(mail, SentItem)
        /\ out' = SendLoop
    BY DEF IInv, Send, semVars, tables, history
  <1>2. Sound' /\ Counted' /\ Types' /\ Arrives'
    BY <1>1, SenderKept DEF Types
  <1>3. out \in Positions /\ out.at \notin {"user", "connect", "disconnect"} /\ in.at # "listen"
    BY <1>1, OutPosition DEF Sending
  <1>4. out' \in Positions
    BY <1>1, <1>3, SentFits, AfterPosition DEF IInv
  <1>5. Connected'
    BY <1>1, <1>3, <1>4, OutPosition DEF Connected
  <1>6. Stream'
    <2> SUFFICES ASSUME ~ skewed, in.at \notin {"listen", "refused"}
                 PROVE  Wire(mail', Reads(in'), out', before')
      BY <1>1, <1>4 DEF Stream
    <2>1. ~ Unread
      BY DEF Unread
    <2>2. Wire(Append(mail, SentItem), Reads(in), SendLoop, before)
      BY <1>1, <2>1, Sends
    <2> QED BY <1>1, <2>1, <2>2
  <1> QED BY <1>2, <1>5, <1>6 DEF IInv

\* A Send that returns false: SendProcess goes on after the first, and returns -1
\* after another.
LEMMA SendFailsInv == ASSUME IInv, SendFails PROVE IInv'
  <1>1. /\ Types /\ Connected /\ Sending
        /\ UNCHANGED <<memory, semList, pc, on, regs, crashed, ids, nThreads, nextUserThreadid, in,
                       before>>
        /\ mail' = mail \/ (~ Unread /\ mail' = Append(mail, SentItem))
        /\ IF out.at = "pages"
           THEN out' = SendLoop /\ skewed' = TRUE /\ UNCHANGED result
           ELSE out' = At("user") /\ result' = -1 /\ UNCHANGED skewed
    BY DEF IInv, SendFails, semVars, tables
  <1>2. Sound' /\ Counted' /\ Types'
    BY <1>1, SenderKept DEF Types
  <1>3. out \in Positions /\ out.at \notin {"user", "connect", "disconnect"} /\ in.at # "listen"
    BY <1>1, OutPosition DEF Sending
  <1>4. CASE out.at = "pages"
    <2>1. out' \in Positions
      BY <1>1, <1>3, <1>4, SentFits, AfterPosition DEF IInv
    <2>2. Connected'
      BY <1>1, <1>3, <1>4, <2>1, OutPosition DEF Connected
    <2>3. Stream'
      BY <1>1, <1>4 DEF Stream
    <2>4. Snapshot("sender")' = Snapshot("sender")
      BY <1>1, SenderKept
    <2>5. Arrives'
      BY <1>1, <1>4, <2>4 DEF Arrives, IInv
    <2> QED BY <1>2, <2>2, <2>3, <2>5 DEF IInv
  <1>5. CASE out.at # "pages"
    <2>1. out'.at = "user" /\ result' # NULL
      <3>1. -1 \in Int
        BY SMTT(60)
      <3> QED BY <1>1, <1>5, <3>1, AtIs, NullApart
    <2>2. Connected'
      BY <1>1, <1>3, <1>5, <2>1 DEF Connected
    <2>3. Stream'
      <3> SUFFICES ASSUME ~ skewed, in.at \notin {"listen", "refused"}
                   PROVE  \E to \in Positions : Wire(mail', Reads(in'), to, before')
        BY <1>1, <1>5, <2>1 DEF Stream
      <3>1. ~ Unread
        BY DEF Unread
      <3>2. Wire(mail, Reads(in), out, before) /\ Wire(Append(mail, SentItem), Reads(in), SendLoop, before)
        BY <1>1, <3>1, Sends
      <3>3. SendLoop \in Positions
        BY <1>3, SentFits, AfterPosition DEF IInv
      <3> QED BY <1>1, <1>3, <3>2, <3>3
    <2>4. Arrives'
      BY <1>1, <1>5, SenderKept
    <2> QED BY <1>2, <2>2, <2>3, <2>4 DEF IInv
  <1> QED BY <1>4, <1>5

\* Disconnect, and the main thread goes on or to its exit.
LEMMA SendReturnsInv ==
    ASSUME IInv, NEW shouldStop \in BOOLEAN, SendReturns(shouldStop)
    PROVE  IInv'
  <1>1. /\ Types /\ Sound /\ Counted /\ Connected /\ Stream /\ Arrives /\ out.at = "disconnect"
        /\ UNCHANGED <<memory, semList, on, regs, crashed, ids, nThreads, nextUserThreadid, in, mail,
                       before, skewed>>
        /\ out' = At("user") /\ result' = 0
        /\ pc' = IF shouldStop THEN [pc EXCEPT !["sender"][Main] = "done"] ELSE pc
    BY DEF IInv, SendReturns, tables, history
  <1>2. out \in Positions /\ in.at # "listen" /\ pc["sender"][Main] = "user"
    BY <1>1, OutPosition DEF Connected
  <1>3. /\ Sound' /\ pc' \in [Processes -> Doing] /\ pc'["receiver"] = pc["receiver"]
        /\ \A t \in Slots : pc'["sender"][t] = pc["sender"][t]
    <2>1. CASE shouldStop
      <3>1. pc' = [pc EXCEPT !["sender"][Main] = "done"]
        BY <1>1, <2>1
      <3>2. /\ Sound' /\ pc' \in [Processes -> Doing]
            /\ Only(pc, pc', "sender", Doing, [pc["sender"] EXCEPT ![Main] = "done"])
        BY <1>1, <1>2, <3>1, OneThread, TwoProcesses DEF Statuses
      <3>3. pc'["receiver"] = pc["receiver"] /\ pc'["sender"] = [pc["sender"] EXCEPT ![Main] = "done"]
        BY <3>2, TwoProcesses DEF Only
      <3>4. \A t \in Threads : t # Main => pc'["sender"][t] = pc["sender"][t]
        BY <1>1, <3>3, TwoProcesses DEF Types, Doing
      <3> QED BY <3>2, <3>3, <3>4, TwoProcesses
    <2>2. CASE ~ shouldStop
      <3>1. pc' = pc
        BY <1>1, <2>2
      <3> QED BY <1>1, <3>1 DEF Sound, Types
    <2> QED BY <2>1, <2>2
  <1>4. Live("sender")' = Live("sender")
    BY <1>3 DEF Live
  <1>5. Types' /\ Counted'
    BY <1>1, <1>3, <1>4 DEF Types, Counted
  <1>6. out'.at = "user" /\ result' # NULL
    <2>1. 0 \in Int
      BY SMTT(60)
    <2> QED BY <1>1, <2>1, AtIs, NullApart
  <1>7. Connected'
    BY <1>1, <1>2, <1>6 DEF Connected
  <1>8. Stream'
    BY <1>1, <1>2, <1>6 DEF Stream
  <1>9. Snapshot("sender")' = Snapshot("sender")
    BY <1>1, <1>4, SnapshotKept
  <1>10. Arrives'
    <2>1. Young(in', semList'["receiver"], pc'["receiver"])
      BY <1>1, <1>3 DEF Arrives
    <2>2. before' # NULL => before' = Snapshot("sender")'
      BY <1>1, <1>9 DEF Arrives
    <2>3. ASSUME before' # NULL, ~ skewed'
          PROVE  /\ MemoryArrived(before', in', memory'["receiver"], regs'["receiver"][Main])
                 /\ SemaphoresArrived(before', in', semList'["receiver"], nThreads'["receiver"])
                 /\ ThreadsArrived(before', in', regs'["receiver"], pc'["receiver"],
                                   ids'["receiver"], nextUserThreadid'["receiver"])
      BY SMTT(60), <1>1, <1>3, <2>3 DEF Arrives
    <2> QED BY <2>1, <2>2, <2>3 DEF Arrives
  <1> QED BY <1>3, <1>5, <1>7, <1>8, <1>10 DEF IInv

-----------------------------------------------------------------------------
(* ListenProcess keeps the invariant. *)

\* The new process is accepted, or there are too many.
LEMMA AcceptInv == ASSUME IInv, Accept PROVE IInv'
  <1>1. PICK stage \in {"refused", "pages"} :
        /\ Types /\ Connected /\ Stream /\ Arrives
        /\ UNCHANGED <<memory, semList, pc, on, regs, crashed, ids, nThreads, nextUserThreadid, out,
                       mail, result, before, skewed>>
        /\ in.at = "accept" /\ in' = At(stage)
    BY DEF IInv, Accept, semVars, tables, history
  <1>2. /\ Sound' /\ Counted' /\ Types' /\ Snapshot("sender")' = Snapshot("sender")
    BY <1>1, SenderKept DEF Types
  <1>3. in'.at = stage
    BY <1>1, AtIs
  <1>4. Connected'
    BY <1>1, <1>3 DEF Connected
  <1>5. Stream'
    <2>1. stage = "pages" => Reads(in') = Reads(in)
      BY <1>1, <1>3 DEF Reads
    <2> QED BY <1>1, <1>3, <2>1 DEF Stream
  <1>6. Young(in', semList'["receiver"], pc'["receiver"])
    BY SMTT(60), <1>1, <1>3 DEF Young, Pending, Arrives
  <1>7. /\ MemoryArrived(before', in', memory'["receiver"], regs'["receiver"][Main])
        /\ SemaphoresArrived(before', in', semList'["receiver"], nThreads'["receiver"])
        /\ ThreadsArrived(before', in', regs'["receiver"], pc'["receiver"], ids'["receiver"],
                          nextUserThreadid'["receiver"])
    BY <1>1, <1>3 DEF MemoryArrived, SemaphoresArrived, ThreadsArrived
  <1>8. Arrives'
    BY <1>1, <1>2, <1>6, <1>7 DEF Arrives
  <1> QED BY <1>2, <1>4, <1>5, <1>8 DEF IInv

\* ListenProcess changes nothing of the sender.
SenderApart ==
    /\ memory'["sender"] = memory["sender"] /\ regs'["sender"] = regs["sender"]
    /\ semList'["sender"] = semList["sender"] /\ ids'["sender"] = ids["sender"]
    /\ nThreads'["sender"] = nThreads["sender"] /\ pc'["sender"] = pc["sender"]
    /\ UNCHANGED <<out, result, before, skewed>>

\* What the new process has of the old one.
Arrived ==
    before # NULL =>
        /\ MemoryArrived(before, in, memory["receiver"], regs["receiver"][Main])
        /\ SemaphoresArrived(before, in, semList["receiver"], nThreads["receiver"])
        /\ ThreadsArrived(before, in, regs["receiver"], pc["receiver"], ids["receiver"],
                          nextUserThreadid["receiver"])

\* A message is received at its place, and is what the place calls for.
LEMMA Received ==
    ASSUME IInv, NEW stage \in Stages, Receives(stage)
    PROVE  /\ in \in Positions /\ in.at = stage /\ Fits(in, Item) /\ Item \in Int
           /\ before # NULL => Item = ItemOf(before, in)
           /\ Arrived /\ Young(in, semList["receiver"], pc["receiver"])
           /\ before # NULL =>
                /\ before.memory \in [Cells -> -1 .. MaxSem - 1]
                /\ before.regs \in [Threads -> [Registers -> Int]]
                /\ before.live \subseteq Slots
                /\ \A t \in before.live : before.ids[t] \in Nat /\ before.ids[t] # NoData
  <1>1. Stream /\ in.at = stage /\ ~ skewed /\ Types /\ Counted /\ Arrives
    BY DEF IInv, Receives
  <1>2. in \in Positions /\ Fits(in, Item) /\ (before # NULL => Item = ItemOf(before, in))
    BY <1>1, StreamReceive
  <1>3. Item \in Int
    BY <1>2 DEF Fits
  <1>4. Arrived /\ Young(in, semList["receiver"], pc["receiver"])
    BY <1>1 DEF Arrives, Arrived
  <1>5. before # NULL => before = Snapshot("sender")
    BY <1>1 DEF Arrives
  <1>6. before # NULL =>
                /\ before.memory \in [Cells -> -1 .. MaxSem - 1]
                /\ before.regs \in [Threads -> [Registers -> Int]]
                /\ before.live \subseteq Slots
                /\ \A t \in before.live : before.ids[t] \in Nat /\ before.ids[t] # NoData
    BY <1>1, <1>5, SnapshotParts
  <1> QED BY <1>1, <1>2, <1>3, <1>4, <1>6

\* A message is received, and both sides are where they should be.
LEMMA ReceiveKeeps ==
    ASSUME IInv, NEW stage \in Stages, Receives(stage), SenderApart, Reads(in') = After(in, Item),
           Types', Sound', Young(in', semList'["receiver"], pc'["receiver"]), Arrived',
           ids' \in [Processes -> [Threads -> Nat]], nThreads' \in [Processes -> Int],
           nextUserThreadid' \in [Processes -> Nat]
    PROVE  IInv'
  <1>1. Stream /\ in.at = stage /\ ~ skewed /\ Types /\ Counted /\ Arrives /\ Connected
    BY DEF IInv, Receives
  <1>2. in \in Positions /\ Stream'
    BY <1>1, StreamReceive DEF SenderApart
  <1>3. Reads(in') \in Positions
    BY <1>1, <1>2, AfterPosition DEF Stages
  <1>4. in'.at \notin {"listen", "refused"} /\ in.at # "listen"
    <2>1. in'.at \in {"listen", "refused"} => Reads(in') = in'
      BY DEF Reads
    <2> QED BY <1>1, <1>3, <2>1, OutPosition DEF Stages
  <1>5. Connected'
    BY <1>1, <1>4 DEF Connected, SenderApart
  <1>6. Live("sender")' = Live("sender")
    BY DEF Live, SenderApart
  <1>7. Counted'
    BY <1>1, <1>6 DEF Counted, SenderApart
  <1>8. Snapshot("sender")' = Snapshot("sender")
    BY <1>6, SnapshotKept DEF SenderApart
  <1>9. Arrives'
    BY <1>1, <1>8 DEF Arrives, Arrived, SenderApart
  <1> QED BY <1>2, <1>5, <1>7, <1>9 DEF IInv

\* AddrSpace(nPages).
LEMMA ReceivePagesInv == ASSUME IInv, ReceivePages PROVE IInv'
  <1> "pages" \in Stages
    BY DEF Stages
  <1>1. /\ Types /\ Sound /\ Counted /\ Receives("pages") /\ in' = At("memory")
        /\ UNCHANGED <<memory, semList, pc, on, regs, ids, nThreads, nextUserThreadid, out, result,
                       before, skewed>>
        /\ \E frames \in FreeFrames : crashed' = (frames < Item)
    BY DEF IInv, ReceivePages, tables, history
  <1>2. in \in Positions /\ in.at = "pages" /\ Young(in, semList["receiver"], pc["receiver"])
    BY <1>1, Received
  <1>3. SenderApart
    BY <1>1 DEF SenderApart
  <1>4. Reads(in') = After(in, Item)
    BY <1>1, <1>2, ReadsAfter
  <1>5. Types' /\ Sound'
    <2>1. crashed' \in BOOLEAN
      BY SMTT(60), <1>1
    <2> QED BY <1>1, <2>1 DEF Types, Sound
  <1>6. in'.at = "memory" /\ in'.i = 0
    BY <1>1, AtIs
  <1>7. Young(in', semList'["receiver"], pc'["receiver"])
    BY SMTT(60), <1>1, <1>2, <1>6 DEF Young, Pending
  <1>8. Arrived'
    <2>1. \A c \in Cells : ~ (c < in'.i)
      BY SMTT(60), <1>6, SemAssumption DEF Cells, Bits
    <2>2. MemoryArrived(before', in', memory'["receiver"], regs'["receiver"][Main])
      BY <1>6, <2>1 DEF MemoryArrived
    <2>3. SemaphoresArrived(before', in', semList'["receiver"], nThreads'["receiver"])
      BY <1>6 DEF SemaphoresArrived
    <2>4. ThreadsArrived(before', in', regs'["receiver"], pc'["receiver"], ids'["receiver"],
                         nextUserThreadid'["receiver"])
      BY <1>6 DEF ThreadsArrived
    <2> QED BY <2>2, <2>3, <2>4 DEF Arrived
  <1>9. /\ ids' \in [Processes -> [Threads -> Nat]] /\ nThreads' \in [Processes -> Int]
        /\ nextUserThreadid' \in [Processes -> Nat]
    BY <1>1 DEF Counted
  <1> QED BY <1>1, <1>3, <1>4, <1>5, <1>7, <1>8, <1>9, ReceiveKeeps

\* A cell of the memory.
LEMMA ReceiveMemoryInv == ASSUME IInv, ReceiveMemory PROVE IInv'
  <1> "memory" \in Stages
    BY DEF Stages
  <1>1. /\ Types /\ Sound /\ Counted /\ Receives("memory")
        /\ in' = NextIndex(in, NumCells, At("registers"))
        /\ memory' = [memory EXCEPT !["receiver"][in.i] = Item]
        /\ UNCHANGED <<semList, pc, on, regs, crashed, ids, nThreads, nextUserThreadid, out, result,
                       before, skewed>>
    BY DEF IInv, ReceiveMemory, tables, history
  <1>2. /\ in \in Positions /\ in.at = "memory" /\ Young(in, semList["receiver"], pc["receiver"])
        /\ Fits(in, Item) /\ Arrived
    BY <1>1, Received
  <1>3. in.i \in Cells /\ Item \in -1 .. MaxSem - 1
    BY <1>2 DEF Positions, Fits
  <1> DEFINE mem == [memory["receiver"] EXCEPT ![in.i] = Item]
  <1>4. mem \in [Cells -> -1 .. MaxSem - 1]
    BY <1>1, <1>3, TwoProcesses DEF Types
  <1>5. memory' = [memory EXCEPT !["receiver"] = mem]
    BY <1>1
  <1> HIDE DEF mem
  <1>6. /\ memory' \in [Processes -> [Cells -> -1 .. MaxSem - 1]]
        /\ memory'["receiver"] = mem /\ memory'["sender"] = memory["sender"]
    BY <1>1, <1>4, <1>5, TwoProcesses DEF Types
  <1>7. SenderApart
    BY <1>1, <1>6 DEF SenderApart
  <1>8. Reads(in') = After(in, Item)
    BY <1>1, <1>2, ReadsAfter
  <1>9. Types' /\ Sound'
    BY <1>1, <1>6 DEF Types, Sound
  <1>10. in'.at \in {"memory", "registers"}
    <2>1. IndexTurn(in, NumCells, "registers", in')
      BY <1>1, <1>2, Turns
    <2> QED BY <1>2, <2>1 DEF IndexTurn
  <1>11. Young(in', semList'["receiver"], pc'["receiver"])
    BY SMTT(60), <1>1, <1>2, <1>10 DEF Young, Pending
  <1>12. Arrived'
    <2>1. ASSUME before # NULL
          PROVE  MemoryArrived(before, in', mem, regs["receiver"][Main])
      <3>1. Item = before.memory[in.i] /\ before.memory \in [Cells -> -1 .. MaxSem - 1]
        <4>1. Item = ItemOf(before, in) /\ before.memory \in [Cells -> -1 .. MaxSem - 1]
          BY <1>1, <2>1, Received
        <4> QED BY SMTT(60), <1>2, <4>1 DEF ItemOf
      <3>2. mem = [memory["receiver"] EXCEPT ![in.i] = before.memory[in.i]]
        BY <3>1 DEF mem
      <3>3. memory["receiver"] \in [Cells -> -1 .. MaxSem - 1]
        BY <1>1, TwoProcesses DEF Types
      <3>4. MemoryArrived(before, in, memory["receiver"], regs["receiver"][Main])
        BY <1>2, <2>1 DEF Arrived
      <3> QED BY <1>1, <1>2, <3>1, <3>2, <3>3, <3>4, MemoryTurn
    <2>2. SemaphoresArrived(before', in', semList'["receiver"], nThreads'["receiver"])
      BY <1>10 DEF SemaphoresArrived
    <2>3. ThreadsArrived(before', in', regs'["receiver"], pc'["receiver"], ids'["receiver"],
                         nextUserThreadid'["receiver"])
      BY <1>10 DEF ThreadsArrived
    <2> QED BY <1>1, <1>6, <2>1, <2>2, <2>3 DEF Arrived
  <1>13. /\ ids' \in [Processes -> [Threads -> Nat]] /\ nThreads' \in [Processes -> Int]
         /\ nextUserThreadid' \in [Processes -> Nat]
    BY <1>1 DEF Counted
  <1> QED BY <1>1, <1>7, <1>8, <1>9, <1>11, <1>12, <1>13, ReceiveKeeps

\* A register of the main thread.
LEMMA ReceiveRegistersInv == ASSUME IInv, ReceiveRegisters PROVE IInv'
  <1> "registers" \in Stages
    BY DEF Stages
  <1> DEFINE r2 == [regs["receiver"][Main] EXCEPT ![in.r] = Item]
             r3 == IF in.r < R4 THEN r2 ELSE [r2 EXCEPT ![R2] = 1]
             file == [regs["receiver"] EXCEPT ![Main] = r3]
  <1>1. /\ Types /\ Sound /\ Counted /\ Receives("registers")
        /\ in' = NextRegister(in, At("semaphores"))
        /\ UNCHANGED <<memory, semList, pc, on, crashed, ids, nThreads, nextUserThreadid, out, result,
                       before, skewed>>
    BY DEF IInv, ReceiveRegisters, tables, history
  <1>2. /\ in \in Positions /\ in.at = "registers" /\ Young(in, semList["receiver"], pc["receiver"])
        /\ Item \in Int /\ Arrived
    BY <1>1, Received
  <1>3. in.r \in Registers /\ R2 \in Registers /\ regs["receiver"][Main] \in [Registers -> Int] /\ 1 \in Int
    BY SMTT(60), <1>1, <1>2, TwoProcesses DEF Positions, Registers, POS, R2, R4, Types
  <1>4. r2 \in [Registers -> Int] /\ r3 \in [Registers -> Int]
    BY <1>2, <1>3
  <1>5. regs' = [regs EXCEPT !["receiver"] = file]
    <2>1. CASE in.r < R4
      BY SMTT(60), <2>1 DEF ReceiveRegisters
    <2>2. CASE ~ (in.r < R4)
      BY SMTT(60), <2>2 DEF ReceiveRegisters
    <2> QED BY <2>1, <2>2
  <1> HIDE DEF r3, r2
  <1>6. file \in [Threads -> [Registers -> Int]] /\ file[Main] = r3
    BY <1>1, <1>4, TwoProcesses DEF Types
  <1> HIDE DEF file
  <1>7. /\ regs' \in [Processes -> [Threads -> [Registers -> Int]]]
        /\ regs'["receiver"] = file /\ regs'["sender"] = regs["sender"]
    BY <1>1, <1>5, <1>6, TwoProcesses DEF Types
  <1>8. SenderApart
    BY <1>1, <1>7 DEF SenderApart
  <1>9. Reads(in') = After(in, Item)
    BY <1>1, <1>2, ReadsAfter
  <1>10. Types' /\ Sound'
    BY <1>1, <1>7 DEF Types, Sound
  <1>11. in'.at = "registers" \/ (in'.at = "semaphores" /\ in'.i = 0)
    <2>1. RegisterTurn(in, At("semaphores"), in')
      BY <1>1, <1>2, Turns
    <2> QED BY <1>2, <2>1, AtIs DEF RegisterTurn
  <1>12. Young(in', semList'["receiver"], pc'["receiver"])
    BY SMTT(60), <1>1, <1>2, <1>11 DEF Young, Pending
  <1>13. Arrived'
    <2>1. ASSUME before # NULL
          PROVE  MemoryArrived(before, in', memory["receiver"], r3)
      <3>1. Item = before.regs[Main][in.r] /\ before.regs[Main] \in [Registers -> Int]
        <4>1. Item = ItemOf(before, in) /\ before.regs \in [Threads -> [Registers -> Int]]
          BY <1>1, <2>1, Received
        <4>2. Item = before.regs[Main][in.r]
          BY SMTT(60), <1>2, <4>1 DEF ItemOf
        <4> QED BY <4>1, <4>2, TwoProcesses
      <3>2. MemoryArrived(before, in, memory["receiver"], regs["receiver"][Main])
        BY <1>2, <2>1 DEF Arrived
      <3>3. MemoryArrived(before, in', memory["receiver"],
                          IF in.r < R4 THEN r2 ELSE [r2 EXCEPT ![R2] = 1])
        BY <1>1, <1>2, <1>3, <3>1, <3>2, RegistersTurn DEF r2
      <3> QED BY <3>3 DEF r3
    <2>2. SemaphoresArrived(before', in', semList'["receiver"], nThreads'["receiver"])
      <3>1. \A id \in Bits(MaxSem) : ~ (id < 0)
        BY SMTT(60), NullApart
      <3> QED BY <1>11, <3>1 DEF SemaphoresArrived
    <2>3. ThreadsArrived(before', in', regs'["receiver"], pc'["receiver"], ids'["receiver"],
                         nextUserThreadid'["receiver"])
      BY <1>11 DEF ThreadsArrived
    <2> QED BY <1>1, <1>6, <1>7, <2>1, <2>2, <2>3 DEF Arrived
  <1>14. /\ ids' \in [Processes -> [Threads -> Nat]] /\ nThreads' \in [Processes -> Int]
         /\ nextUserThreadid' \in [Processes -> Nat]
    BY <1>1 DEF Counted
  <1> QED BY <1>1, <1>8, <1>9, <1>10, <1>12, <1>13, <1>14, ReceiveKeeps

\* A semaphore, of which no thread of the new process knows yet.
LEMMA ReceiveSemaphoresInv == ASSUME IInv, ReceiveSemaphores PROVE IInv'
  <1> "semaphores" \in Stages
    BY DEF Stages
  <1> DEFINE new == [value |-> Item, queue |-> <<>>]
             sems == semList["receiver"]
             sems2 == IF Item = NoData THEN sems ELSE [sems EXCEPT ![in.i] = new]
  <1>1. /\ Types /\ Sound /\ Counted /\ Receives("semaphores")
        /\ in' = NextIndex(in, MaxSem, At("nThreads"))
        /\ semList' = IF Item = NoData THEN semList
                      ELSE [semList EXCEPT !["receiver"][in.i] = [value |-> Item, queue |-> <<>>]]
        /\ UNCHANGED <<memory, pc, on, regs, crashed, ids, nThreads, nextUserThreadid, out, result,
                       before, skewed>>
    BY DEF IInv, ReceiveSemaphores, tables, history
  <1>2. /\ in \in Positions /\ in.at = "semaphores" /\ Young(in, sems, pc["receiver"])
        /\ Fits(in, Item) /\ Arrived
    BY <1>1, Received
  <1>3. in.i \in Bits(MaxSem) /\ Item \in Nat /\ in.i \in Nat
    BY <1>2 DEF Positions, Fits
  <1>4. sems \in Tables /\ on["receiver"] \in Places /\ Sleeps(sems, pc["receiver"], on["receiver"])
    BY <1>1, TwoProcesses DEF Types, Sound
  <1>5. new \in Semaphore
    BY SMTT(60), <1>3 DEF Semaphore
  <1>6. sems[in.i] = NULL
    <2>1. in.i >= in.i
      BY SMTT(60), <1>3
    <2> QED BY <1>2, <1>3, <2>1 DEF Young
  <1>7. Only(semList, semList', "receiver", Tables, sems2)
    <2>1. CASE Item = NoData
      BY <1>1, <2>1, TwoProcesses DEF Only, Types
    <2>2. CASE Item # NoData
      <3>1. semList' = [semList EXCEPT !["receiver"] = sems2]
        BY <1>1, <2>2
      <3>2. sems2 \in Tables
        <4> HIDE DEF new
        <4> QED BY <1>3, <1>4, <1>5, <2>2 DEF Tables
      <3> HIDE DEF sems2
      <3> QED BY <1>1, <3>1, <3>2, TwoProcesses DEF Only, Types
    <2> QED BY <2>1, <2>2
  <1>8. Sleeps(sems2, pc["receiver"], on["receiver"])
    <2>1. CASE Item = NoData
      BY <1>4, <2>1
    <2>2. CASE Item # NoData
      <3>1. \A t \in Threads : on["receiver"][t] # in.i
        BY <1>3, <1>4, <1>6, NullApart DEF Sleeps
      <3>2. sems2 = [sems EXCEPT ![in.i] = new]
        BY <2>2
      <3>3. sems2[in.i] = new /\ \A j \in Bits(MaxSem) : j # in.i => sems2[j] = sems[j]
        <4> HIDE DEF new, sems2
        <4> QED BY <1>3, <1>4, <3>2 DEF Tables
      <3> HIDE DEF sems2, sems
      <3> QED BY <1>3, <1>4, <3>1, <3>3, NewSemaphore
    <2> QED BY <2>1, <2>2
  <1>9. SenderApart
    BY <1>1, <1>7, TwoProcesses DEF SenderApart, Only
  <1>10. Reads(in') = After(in, Item)
    BY <1>1, <1>2, ReadsAfter
  <1>11. Types'
    BY <1>1, <1>7 DEF Types, Only
  <1>12. Sound'
    <2> HIDE DEF sems2
    <2> QED BY <1>1, <1>7, <1>8 DEF Sound, Only
  <1>13. IndexTurn(in, MaxSem, "nThreads", in')
    BY <1>1, <1>2, Turns
  <1>14. (in'.at = "semaphores" /\ in'.i = in.i + 1) \/ in'.at = "nThreads"
    BY <1>2, <1>13 DEF IndexTurn
  <1>15. Young(in', semList'["receiver"], pc'["receiver"])
    <2>1. \A id \in Bits(MaxSem) : id >= in.i + 1 => sems2[id] = NULL
      <3>1. \A id \in Bits(MaxSem) : id >= in.i + 1 => id >= in.i /\ id # in.i
        BY SMTT(60), <1>3, NullApart
      <3>2. \A id \in Bits(MaxSem) : id # in.i => sems2[id] = sems[id]
        <4> HIDE DEF new
        <4> QED BY <1>4 DEF Tables
      <3>3. \A id \in Bits(MaxSem) : id >= in.i => sems[id] = NULL
        BY <1>2 DEF Young
      <3> HIDE DEF sems, sems2
      <3> QED BY <3>1, <3>2, <3>3
    <2>2. Pending(in) = Threads /\ Pending(in') = Threads
      BY <1>2, <1>14 DEF Pending
    <2>3. semList'["receiver"] = sems2
      BY <1>7 DEF Only
    <2> HIDE DEF sems2
    <2> QED BY <1>1, <1>2, <1>14, <2>1, <2>2, <2>3 DEF Young
  <1>16. Arrived'
    <2>1. ASSUME before # NULL
          PROVE  SemaphoresArrived(before, in', sems2, nThreads["receiver"])
      <3>1. Item = before.sems[in.i]
        <4>1. Item = ItemOf(before, in)
          BY <1>1, <2>1, Received
        <4> QED BY SMTT(60), <1>2, <4>1 DEF ItemOf
      <3>2. SemaphoresArrived(before, in, sems, nThreads["receiver"])
        BY <1>2, <2>1 DEF Arrived
      <3>3. \/ Item = NoData /\ sems2 = sems
            \/ Item # NoData /\ sems2 = [sems EXCEPT ![in.i] = [value |-> Item, queue |-> <<>>]]
        OBVIOUS
      <3>4. in' = NextIndex(in, MaxSem, At("nThreads")) /\ in \in Positions /\ in.at = "semaphores"
        BY <1>1, <1>2
      <3>5. sems \in Tables /\ Item \in Nat
        BY <1>3, <1>4
      <3> HIDE DEF sems2, sems
      <3> QED BY <1>6, <3>1, <3>2, <3>3, <3>4, <3>5, SemaphoresTurn
    <2>2. before # NULL => MemoryArrived(before', in', memory'["receiver"], regs'["receiver"][Main])
      BY <1>1, <1>2, <1>14 DEF MemoryArrived, Arrived
    <2>3. ThreadsArrived(before', in', regs'["receiver"], pc'["receiver"], ids'["receiver"],
                         nextUserThreadid'["receiver"])
      BY <1>14 DEF ThreadsArrived
    <2>4. semList'["receiver"] = sems2
      BY <1>7 DEF Only
    <2> HIDE DEF sems2
    <2> QED BY <1>1, <2>1, <2>2, <2>3, <2>4 DEF Arrived
  <1>17. /\ ids' \in [Processes -> [Threads -> Nat]] /\ nThreads' \in [Processes -> Int]
         /\ nextUserThreadid' \in [Processes -> Nat]
    BY <1>1 DEF Counted
  <1> QED BY <1>1, <1>9, <1>10, <1>11, <1>12, <1>15, <1>16, <1>17, ReceiveKeeps

\* The count of the threads.
LEMMA ReceiveNThreadsInv == ASSUME IInv, ReceiveNThreads PROVE IInv'
  <1> "nThreads" \in Stages
    BY DEF Stages
  <1>1. /\ Types /\ Sound /\ Counted /\ Receives("nThreads") /\ in' = At("threads")
        /\ nThreads' = [nThreads EXCEPT !["receiver"] = Item]
        /\ UNCHANGED <<memory, semList, pc, on, regs, crashed, ids, nextUserThreadid, out, result,
                       before, skewed>>
    BY DEF IInv, ReceiveNThreads, semVars, history
  <1>2. /\ in \in Positions /\ in.at = "nThreads" /\ Young(in, semList["receiver"], pc["receiver"])
        /\ Item \in Int /\ Arrived
    BY <1>1, Received
  <1>3. /\ nThreads' \in [Processes -> Int] /\ nThreads'["receiver"] = Item
        /\ nThreads'["sender"] = nThreads["sender"]
    BY <1>1, <1>2, TwoProcesses DEF Counted
  <1>4. SenderApart
    BY <1>1, <1>3 DEF SenderApart
  <1>5. Reads(in') = After(in, Item)
    BY <1>1, <1>2, ReadsAfter
  <1>6. Types' /\ Sound'
    BY <1>1 DEF Types, Sound
  <1>7. in'.at = "threads" /\ in'.i = 0
    BY <1>1, AtIs
  <1>8. Young(in', semList'["receiver"], pc'["receiver"])
    <2>1. Pending(in) = Threads /\ Pending(in') \subseteq Threads
      BY <1>2, <1>7, TwoProcesses DEF Pending
    <2> QED BY <1>1, <1>2, <1>7, <2>1 DEF Young
  <1>9. Arrived'
    <2>1. \A t \in Slots : ~ (t <= in'.i)
      BY SMTT(60), <1>7, SemAssumption DEF Slots
    <2>2. before # NULL => MemoryArrived(before', in', memory'["receiver"], regs'["receiver"][Main])
      BY <1>1, <1>2, <1>7 DEF MemoryArrived, Arrived
    <2>3. ASSUME before # NULL
          PROVE  SemaphoresArrived(before', in', semList'["receiver"], nThreads'["receiver"])
      <3>1. Item = before.nThreads
        <4>1. Item = ItemOf(before, in)
          BY <1>1, <2>3, Received
        <4> QED BY SMTT(60), <1>2, <4>1 DEF ItemOf
      <3> QED BY <1>1, <1>2, <1>3, <1>7, <2>3, <3>1 DEF SemaphoresArrived, Arrived
    <2>4. ThreadsArrived(before', in', regs'["receiver"], pc'["receiver"], ids'["receiver"],
                         nextUserThreadid'["receiver"])
      BY <1>7, <2>1 DEF ThreadsArrived
    <2> QED BY <1>1, <2>2, <2>3, <2>4 DEF Arrived
  <1>10. ids' \in [Processes -> [Threads -> Nat]] /\ nextUserThreadid' \in [Processes -> Nat]
    BY <1>1 DEF Counted
  <1> QED BY <1>1, <1>3, <1>4, <1>5, <1>6, <1>8, <1>9, <1>10, ReceiveKeeps

\* Threads of the new process are forked.
LEMMA Forks ==
    ASSUME Types, Sound, UNCHANGED <<semList, on>>, NEW doing2 \in Doing,
           \A t \in Threads : doing2[t] = pc["receiver"][t] \/ (pc["receiver"][t] = "none" /\ doing2[t] = "user"),
           pc' = [pc EXCEPT !["receiver"] = doing2]
    PROVE  /\ Sound' /\ pc' \in [Processes -> Doing]
           /\ pc'["receiver"] = doing2 /\ pc'["sender"] = pc["sender"]
  <1>1. /\ pc' \in [Processes -> Doing]
        /\ pc'["receiver"] = doing2 /\ pc'["sender"] = pc["sender"]
    BY TwoProcesses DEF Types
  <1>2. Sleeps(semList["receiver"], doing2, on["receiver"])
    <2>1. Sleeps(semList["receiver"], pc["receiver"], on["receiver"])
      BY TwoProcesses DEF Sound
    <2> QED BY <2>1, OutsideP
  <1> QED BY <1>1, <1>2, TwoProcesses DEF Sound

\* The loop over the slots goes on; after the last the main thread is forked.
Forked(doing, next) == IF next.at = "done" THEN [doing EXCEPT ![Main] = "user"] ELSE doing

\* What is left to be forked when the loop over the slots goes on.
LEMMA YoungTurn ==
    ASSUME NEW loop \in Positions, loop.at \in {"threads", "threadRegisters"}, NEW sems, NEW doing \in Doing,
           \A t \in Slots : t > loop.i + 1 => doing[t] = "none", doing[Main] = "none",
           NEW next, next = NextThread(loop, At("done"))
    PROVE  Young(next, sems, Forked(doing, next)) /\ Forked(doing, next) \in Doing
  <1>1. ThreadTurn(loop, "done", next)
    BY Turns
  <1>2. CASE next.at = "threads" /\ next.i = loop.i + 1
    <2>1. Pending(next) = {Main} \cup {t \in Slots : t > loop.i + 1}
      BY <1>2 DEF Pending
    <2>2. Forked(doing, next) = doing
      BY <1>2 DEF Forked
    <2> QED BY <1>2, <2>1, <2>2 DEF Young
  <1>3. CASE next.at = "done"
    <2>1. Pending(next) = {}
      BY <1>3 DEF Pending
    <2>2. Forked(doing, next) \in Doing
      BY <1>3, TwoProcesses DEF Forked, Doing, Statuses
    <2> QED BY <1>3, <2>1, <2>2 DEF Young
  <1> QED BY <1>1, <1>2, <1>3 DEF ThreadTurn

\* The loop over the slots goes on.
Further(loop, next) ==
    loop.at \in {"threads", "threadRegisters"} /\ next.at \in {"threads", "threadRegisters", "done"}

\* What has arrived before the loop over the slots stays there through it.
LEMMA RestKept ==
    ASSUME NEW loop, NEW next, Further(loop, next)
    PROVE  /\ \A snap, mem, r : MemoryArrived(snap, loop, mem, r) => MemoryArrived(snap, next, mem, r)
           /\ \A snap, sems, n :
                 SemaphoresArrived(snap, loop, sems, n) => SemaphoresArrived(snap, next, sems, n)
  BY DEF MemoryArrived, SemaphoresArrived, Further

\* The second of two changes of one process.
LEMMA ExceptTwice ==
    ASSUME NEW f \in [Processes -> Doing], NEW p \in Processes, NEW a \in Doing, NEW b \in Doing
    PROVE  [[f EXCEPT ![p] = a] EXCEPT ![p] = b] = [f EXCEPT ![p] = b]
  <1> DEFINE g == [f EXCEPT ![p] = a]
             h == [g EXCEPT ![p] = b]
             want == [f EXCEPT ![p] = b]
  <1>1. g \in [Processes -> Doing] /\ \A q \in Processes : q # p => g[q] = f[q]
    OBVIOUS
  <1>2. want \in [Processes -> Doing] /\ want[p] = b /\ \A q \in Processes : q # p => want[q] = f[q]
    OBVIOUS
  <1> HIDE DEF g
  <1>3. h \in [Processes -> Doing] /\ h[p] = b /\ \A q \in Processes : q # p => h[q] = g[q]
    BY <1>1
  <1> HIDE DEF h, want
  <1>4. h = want
    BY SMTT(60), <1>1, <1>2, <1>3
  <1> QED BY <1>4 DEF g, h, want

\* Slot t is empty, or has a thread with an id.
LEMMA ReceiveThreadInv == ASSUME IInv, ReceiveThread PROVE IInv'
  <1> "threads" \in Stages
    BY DEF Stages
  <1> DEFINE slot == in.i + 1
             doing == pc["receiver"]
  <1>1. /\ Types /\ Sound /\ Counted /\ Receives("threads")
        /\ UNCHANGED <<memory, semList, on, regs, crashed, nThreads, out, result, before, skewed>>
    BY DEF IInv, ReceiveThread, history
  <1>2. /\ in \in Positions /\ in.at = "threads" /\ Young(in, semList["receiver"], doing)
        /\ Fits(in, Item) /\ Arrived
    BY <1>1, Received
  <1>3. slot \in Slots /\ Item \in Nat /\ in.r = POS /\ in.i \in Nat
    BY <1>2 DEF Positions, Fits
  <1>4. doing \in Doing
    BY <1>1, TwoProcesses DEF Types
  <1>5. Pending(in) = {Main} \cup {t \in Slots : t > in.i}
    BY <1>2 DEF Pending
  <1>6. doing[Main] = "none" /\ \A t \in Slots : t > in.i => doing[t] = "none"
    BY <1>2, <1>5 DEF Young
  <1>7. slot > in.i /\ \A t \in Slots : t \in Nat /\ (t > slot => t > in.i) /\ (t <= slot => t <= in.i \/ t = slot)
                                         /\ (t <= in.i => t # slot)
    BY SMTT(60), <1>3, SemAssumption DEF Slots
  <1>8. before # NULL =>
            /\ MemoryArrived(before, in, memory["receiver"], regs["receiver"][Main])
            /\ SemaphoresArrived(before, in, semList["receiver"], nThreads["receiver"])
            /\ \A t \in Slots : t <= in.i =>
                 SlotArrived(before, t, regs["receiver"][t], doing[t], ids["receiver"][t],
                             nextUserThreadid["receiver"])
            /\ Item = IF slot \in before.live THEN before.ids[slot] ELSE NoData
            /\ \A t \in before.live : before.ids[t] \in Nat /\ before.ids[t] # NoData
    <2> SUFFICES ASSUME before # NULL
                 PROVE  /\ MemoryArrived(before, in, memory["receiver"], regs["receiver"][Main])
                        /\ SemaphoresArrived(before, in, semList["receiver"], nThreads["receiver"])
                        /\ \A t \in Slots : t <= in.i =>
                             SlotArrived(before, t, regs["receiver"][t], doing[t], ids["receiver"][t],
                                         nextUserThreadid["receiver"])
                        /\ Item = IF slot \in before.live THEN before.ids[slot] ELSE NoData
                        /\ \A t \in before.live : before.ids[t] \in Nat /\ before.ids[t] # NoData
      OBVIOUS
    <2>1. Item = ItemOf(before, in) /\ \A t \in before.live : before.ids[t] \in Nat /\ before.ids[t] # NoData
      BY <1>1, Received
    <2>2. Item = IF slot \in before.live THEN before.ids[slot] ELSE NoData
      BY SMTT(60), <1>2, <2>1 DEF ItemOf
    <2>3. /\ MemoryArrived(before, in, memory["receiver"], regs["receiver"][Main])
          /\ SemaphoresArrived(before, in, semList["receiver"], nThreads["receiver"])
          /\ ThreadsArrived(before, in, regs["receiver"], doing, ids["receiver"],
                            nextUserThreadid["receiver"])
      BY <1>2 DEF Arrived
    <2>4. \A t \in Slots : t <= in.i =>
             SlotArrived(before, t, regs["receiver"][t], doing[t], ids["receiver"][t],
                         nextUserThreadid["receiver"])
      BY <1>2, <2>3 DEF ThreadsArrived
    <2> QED BY <2>1, <2>2, <2>3, <2>4
  <1>9. CASE Item = NoData
    <2> DEFINE next == NextThread(in, At("done"))
               doing2 == Forked(doing, next)
    <2>1. in' = next /\ UNCHANGED <<ids, nextUserThreadid>>
          /\ pc' = IF next.at = "done" THEN [pc EXCEPT !["receiver"][Main] = "user"] ELSE pc
      BY <1>9 DEF ReceiveThread, Finishes
    <2>2. pc' = [pc EXCEPT !["receiver"] = doing2]
      <3> HIDE DEF next
      <3>1. CASE next.at = "done"
        BY <2>1, <3>1 DEF Forked
      <3>2. CASE next.at # "done"
        <4>1. doing2 = doing /\ pc' = pc
          BY <2>1, <3>2 DEF Forked
        <4>2. pc = [pc EXCEPT !["receiver"] = doing]
          BY SMTT(60), <1>1 DEF Types
        <4> QED BY <4>1, <4>2
      <3> QED BY <3>1, <3>2
    <2>3. Young(next, semList["receiver"], doing2) /\ doing2 \in Doing
      <3>1. \A t \in Slots : t > in.i + 1 => doing[t] = "none"
        BY <1>6, <1>7
      <3> HIDE DEF doing
      <3> QED BY <1>2, <1>4, <1>6, <3>1, YoungTurn
    <2>4. /\ \A t \in Threads : doing2[t] = doing[t] \/ (doing[t] = "none" /\ doing2[t] = "user")
          /\ \A t \in Slots : doing2[t] = doing[t]
      <3> HIDE DEF next, doing
      <3> QED BY <1>4, <1>6, TwoProcesses DEF Forked, Doing
    <2> HIDE DEF doing2, next
    <2>5. /\ Sound' /\ pc' \in [Processes -> Doing]
          /\ pc'["receiver"] = doing2 /\ pc'["sender"] = pc["sender"]
      BY <1>1, <2>2, <2>3, <2>4, Forks
    <2>6. SenderApart
      BY <1>1, <2>1, <2>5 DEF SenderApart
    <2>7. Reads(in') = After(in, Item)
      BY <1>2, <1>9, <2>1, ReadsAfter DEF next
    <2>8. Types'
      BY <1>1, <2>5 DEF Types
    <2>9. Young(in', semList'["receiver"], pc'["receiver"])
      BY <1>1, <2>1, <2>3, <2>5
    <2>10. Arrived'
      <3> SUFFICES ASSUME before # NULL
                   PROVE  /\ MemoryArrived(before, next, memory["receiver"], regs["receiver"][Main])
                          /\ SemaphoresArrived(before, next, semList["receiver"], nThreads["receiver"])
                          /\ ThreadsArrived(before, next, regs["receiver"], doing2, ids["receiver"],
                                            nextUserThreadid["receiver"])
        BY SMTT(60), <1>1, <2>1, <2>5 DEF Arrived
      <3>1. next.at \in {"threads", "threadRegisters", "done"}
        <4>1. ThreadTurn(in, "done", next)
          BY <1>2, Turns DEF next
        <4> QED BY <4>1 DEF ThreadTurn
      <3>2. /\ MemoryArrived(before, next, memory["receiver"], regs["receiver"][Main])
            /\ SemaphoresArrived(before, next, semList["receiver"], nThreads["receiver"])
        <4>1. /\ MemoryArrived(before, in, memory["receiver"], regs["receiver"][Main])
              /\ SemaphoresArrived(before, in, semList["receiver"], nThreads["receiver"])
          BY <1>8
        <4>2. Further(in, next)
          BY <1>2, <3>1 DEF Further
        <4> QED BY <4>1, <4>2, RestKept
      <3>3. SlotArrived(before, slot, regs["receiver"][slot], doing[slot], ids["receiver"][slot],
                        nextUserThreadid["receiver"])
        BY <1>3, <1>6, <1>7, <1>8, <1>9 DEF SlotArrived
      <3>4. \A t \in Slots : t <= in.i + 1 =>
              SlotArrived(before, t, regs["receiver"][t], doing[t], ids["receiver"][t],
                          nextUserThreadid["receiver"])
        BY <1>7, <1>8, <3>3
      <3>5. next = NextThread(in, At("done"))
        BY DEF next
      <3> HIDE DEF doing, slot
      <3>6. ThreadsArrived(before, next, regs["receiver"], doing2, ids["receiver"],
                           nextUserThreadid["receiver"])
        BY <1>2, <2>4, <3>4, <3>5, SlotsTurn
      <3> QED BY <3>2, <3>6
    <2>11. /\ ids' \in [Processes -> [Threads -> Nat]] /\ nThreads' \in [Processes -> Int]
           /\ nextUserThreadid' \in [Processes -> Nat]
      BY <1>1, <2>1 DEF Counted
    <2> QED BY <1>1, <2>5, <2>6, <2>7, <2>8, <2>9, <2>10, <2>11, ReceiveKeeps
  <1>10. CASE Item # NoData
    <2> DEFINE idTable == [ids["receiver"] EXCEPT ![slot] = Item]
               nextId == Max({nextUserThreadid["receiver"], Item + 1})
    <2>1. /\ in' = [in EXCEPT !.at = "threadRegisters"] /\ UNCHANGED pc
          /\ ids' = [ids EXCEPT !["receiver"] = idTable]
          /\ nextUserThreadid' = [nextUserThreadid EXCEPT !["receiver"] = nextId]
      BY <1>10 DEF ReceiveThread
    <2>2. in'.at = "threadRegisters" /\ in'.i = in.i /\ in'.r = POS
      BY SMTT(60), <1>2, <1>3, <2>1 DEF Positions
    <2>3. /\ idTable \in [Threads -> Nat] /\ idTable[slot] = Item
          /\ \A t \in Threads : t # slot => idTable[t] = ids["receiver"][t]
      <3> HIDE DEF slot
      <3> QED BY <1>1, <1>3, TwoProcesses DEF Counted
    <2>4. /\ nextId \in Nat /\ nextId >= nextUserThreadid["receiver"] /\ nextId >= Item + 1
          /\ nextUserThreadid["receiver"] \in Nat
      <3>1. nextUserThreadid["receiver"] \in Nat /\ Item + 1 \in Nat
        <4>1. nextUserThreadid["receiver"] \in Nat
          BY <1>1, TwoProcesses DEF Counted
        <4>2. Item + 1 \in Nat
          BY SMTT(60), <1>3
        <4> QED BY <4>1, <4>2
      <3> QED BY <3>1, MaxOfTwo
    <2> HIDE DEF idTable, nextId
    <2>5. /\ ids' \in [Processes -> [Threads -> Nat]] /\ nextUserThreadid' \in [Processes -> Nat]
          /\ ids'["receiver"] = idTable /\ nextUserThreadid'["receiver"] = nextId
          /\ ids'["sender"] = ids["sender"]
      BY <1>1, <2>1, <2>3, <2>4, TwoProcesses DEF Counted
    <2>6. SenderApart
      BY <1>1, <2>1, <2>5 DEF SenderApart
    <2>7. Reads(in') = After(in, Item)
      BY <1>2, <1>10, <2>1, ReadsAfter
    <2>8. Types' /\ Sound'
      BY <1>1, <2>1 DEF Types, Sound
    <2>9. Young(in', semList'["receiver"], pc'["receiver"])
      <3>1. Pending(in') = Pending(in)
        BY <1>5, <2>2 DEF Pending
      <3> QED BY <1>1, <1>2, <2>1, <2>2, <3>1 DEF Young
    <2>10. Arrived'
      <3> SUFFICES ASSUME before # NULL
                   PROVE  /\ MemoryArrived(before, in', memory["receiver"], regs["receiver"][Main])
                          /\ SemaphoresArrived(before, in', semList["receiver"], nThreads["receiver"])
                          /\ ThreadsArrived(before, in', regs["receiver"], doing, idTable, nextId)
        BY SMTT(60), <1>1, <2>1, <2>5 DEF Arrived
      <3>1. /\ MemoryArrived(before, in', memory["receiver"], regs["receiver"][Main])
            /\ SemaphoresArrived(before, in', semList["receiver"], nThreads["receiver"])
        <4>1. /\ MemoryArrived(before, in, memory["receiver"], regs["receiver"][Main])
              /\ SemaphoresArrived(before, in, semList["receiver"], nThreads["receiver"])
          BY <1>8
        <4>2. Further(in, in')
          BY <1>2, <2>2 DEF Further
        <4> QED BY <4>1, <4>2, RestKept
      <3>2. slot \in before.live /\ Item = before.ids[slot]
        BY <1>8, <1>10
      <3>3. nextId > before.ids[slot]
        <4> HIDE DEF slot
        <4> QED BY SMTT(60), <1>3, <2>4, <3>2
      <3>4. ASSUME NEW t \in Slots, t <= in.i
            PROVE  SlotArrived(before, t, regs["receiver"][t], doing[t], idTable[t], nextId)
        <4>1. SlotArrived(before, t, regs["receiver"][t], doing[t], ids["receiver"][t],
                          nextUserThreadid["receiver"])
          BY <1>8, <3>4
        <4>2. idTable[t] = ids["receiver"][t]
          BY <1>7, <2>3, <3>4, TwoProcesses
        <4>3. t \in before.live => before.ids[t] \in Nat
          BY <1>8
        <4> HIDE DEF doing
        <4> QED BY <2>4, <4>1, <4>2, <4>3, SlotKept
      <3>5. \A k \in Registers : ~ (k < POS)
        BY SMTT(60) DEF Registers, POS, R4
      <3>6. ThreadsArrived(before, in', regs["receiver"], doing, idTable, nextId)
        BY <2>2, <2>3, <3>2, <3>3, <3>4, <3>5 DEF ThreadsArrived
      <3> QED BY <3>1, <3>6
    <2>11. nThreads' \in [Processes -> Int]
      BY <1>1 DEF Counted
    <2> QED BY <1>1, <2>5, <2>6, <2>7, <2>8, <2>9, <2>10, <2>11, ReceiveKeeps
  <1> QED BY <1>9, <1>10

\* A register of the thread of a slot; with the last the thread is forked.
LEMMA ReceiveThreadRegistersInv == ASSUME IInv, ReceiveThreadRegisters PROVE IInv'
  <1> "threadRegisters" \in Stages
    BY DEF Stages
  <1> DEFINE slot == in.i + 1
             doing == pc["receiver"]
             r2 == [regs["receiver"][slot] EXCEPT ![in.r] = Item]
             file == [regs["receiver"] EXCEPT ![slot] = r2]
  <1>1. /\ Types /\ Sound /\ Counted /\ Receives("threadRegisters")
        /\ regs' = [regs EXCEPT !["receiver"] = file]
        /\ UNCHANGED <<memory, semList, on, crashed, ids, nThreads, nextUserThreadid, out, result,
                       before, skewed>>
    BY DEF IInv, ReceiveThreadRegisters, tables, history
  <1>2. /\ in \in Positions /\ in.at = "threadRegisters" /\ Young(in, semList["receiver"], doing)
        /\ Item \in Int /\ Arrived
    BY <1>1, Received
  <1>3. slot \in Slots /\ in.r \in Registers /\ in.i \in Nat /\ slot \in Threads /\ slot # Main
    BY <1>2, TwoProcesses DEF Positions
  <1>4. doing \in Doing /\ regs["receiver"] \in [Threads -> [Registers -> Int]]
    BY <1>1, TwoProcesses DEF Types
  <1>5. Pending(in) = {Main} \cup {t \in Slots : t > in.i}
    BY <1>2 DEF Pending
  <1>6. doing[Main] = "none" /\ \A t \in Slots : t > in.i => doing[t] = "none"
    BY <1>2, <1>5 DEF Young
  <1>7. slot > in.i /\ \A t \in Slots : t \in Nat /\ (t > slot => t > in.i /\ t # slot)
                                         /\ (t <= slot => t <= in.i \/ t = slot) /\ (t <= in.i => t # slot)
    BY SMTT(60), <1>3, SemAssumption DEF Slots
  <1> HIDE DEF slot
  <1>8. r2 \in [Registers -> Int] /\ r2[in.r] = Item /\ \A k \in Registers : k # in.r => r2[k] = regs["receiver"][slot][k]
    BY <1>2, <1>3, <1>4
  <1> HIDE DEF r2
  <1>9. /\ file \in [Threads -> [Registers -> Int]] /\ file[slot] = r2
        /\ \A t \in Threads : t # slot => file[t] = regs["receiver"][t]
    BY <1>3, <1>4, <1>8
  <1> HIDE DEF file
  <1>10. /\ regs' \in [Processes -> [Threads -> [Registers -> Int]]]
         /\ regs'["receiver"] = file /\ regs'["sender"] = regs["sender"]
    BY <1>1, <1>9, TwoProcesses DEF Types
  <1>11. before # NULL =>
            /\ MemoryArrived(before, in, memory["receiver"], file[Main])
            /\ SemaphoresArrived(before, in, semList["receiver"], nThreads["receiver"])
            /\ \A t \in Slots : t <= in.i =>
                 SlotArrived(before, t, file[t], doing[t], ids["receiver"][t],
                             nextUserThreadid["receiver"])
            /\ slot \in before.live /\ ids["receiver"][slot] = before.ids[slot]
            /\ nextUserThreadid["receiver"] > before.ids[slot]
            /\ before.regs[slot] \in [Registers -> Int]
            /\ \A k \in Registers : k < in.r + 1 => r2[k] = before.regs[slot][k]
    <2> SUFFICES ASSUME before # NULL
                 PROVE  /\ MemoryArrived(before, in, memory["receiver"], file[Main])
                        /\ SemaphoresArrived(before, in, semList["receiver"], nThreads["receiver"])
                        /\ \A t \in Slots : t <= in.i =>
                             SlotArrived(before, t, file[t], doing[t], ids["receiver"][t],
                                         nextUserThreadid["receiver"])
                        /\ slot \in before.live /\ ids["receiver"][slot] = before.ids[slot]
                        /\ nextUserThreadid["receiver"] > before.ids[slot]
                        /\ before.regs[slot] \in [Registers -> Int]
                        /\ \A k \in Registers : k < in.r + 1 => r2[k] = before.regs[slot][k]
      OBVIOUS
    <2>1. Item = ItemOf(before, in) /\ before.regs \in [Threads -> [Registers -> Int]]
      BY <1>1, Received
    <2>2. Item = before.regs[slot][in.r] /\ before.regs[slot] \in [Registers -> Int]
      <3>1. Item = before.regs[slot][in.r]
        BY SMTT(60), <1>2, <2>1 DEF ItemOf, slot
      <3> QED BY <1>3, <2>1, <3>1
    <2>3. /\ MemoryArrived(before, in, memory["receiver"], regs["receiver"][Main])
          /\ SemaphoresArrived(before, in, semList["receiver"], nThreads["receiver"])
          /\ ThreadsArrived(before, in, regs["receiver"], doing, ids["receiver"],
                            nextUserThreadid["receiver"])
      BY <1>2 DEF Arrived
    <2>4. file[Main] = regs["receiver"][Main]
      BY <1>3, <1>9, TwoProcesses
    <2>5. ASSUME NEW t \in Slots, t <= in.i
          PROVE  SlotArrived(before, t, file[t], doing[t], ids["receiver"][t],
                             nextUserThreadid["receiver"])
      <3>1. SlotArrived(before, t, regs["receiver"][t], doing[t], ids["receiver"][t],
                        nextUserThreadid["receiver"])
        BY <1>2, <2>3, <2>5 DEF ThreadsArrived
      <3>2. file[t] = regs["receiver"][t]
        BY <1>7, <1>9, <2>5, TwoProcesses
      <3> QED BY <3>1, <3>2
    <2>6. /\ slot \in before.live /\ ids["receiver"][slot] = before.ids[slot]
          /\ nextUserThreadid["receiver"] > before.ids[slot]
          /\ \A k \in Registers : k < in.r => regs["receiver"][slot][k] = before.regs[slot][k]
      BY <1>2, <2>3 DEF ThreadsArrived, slot
    <2>7. \A k \in Registers : k < in.r + 1 => r2[k] = before.regs[slot][k]
      <3>1. \A k \in Registers : k < in.r + 1 => k = in.r \/ (k < in.r /\ k # in.r)
        BY SMTT(60), <1>3 DEF Registers, POS, R4
      <3> QED BY <1>8, <2>2, <2>6, <3>1
    <2> QED BY <2>2, <2>3, <2>4, <2>5, <2>6, <2>7
  <1>12. /\ ids' \in [Processes -> [Threads -> Nat]] /\ nThreads' \in [Processes -> Int]
         /\ nextUserThreadid' \in [Processes -> Nat]
    BY <1>1 DEF Counted
  <1>13. CASE in.r < R4
    <2>1. in' = NextRegister(in, in) /\ UNCHANGED pc
      BY <1>13 DEF ReceiveThreadRegisters
    <2>2. in'.at = "threadRegisters" /\ in'.i = in.i /\ in'.r = in.r + 1
      <3>1. RegisterTurn(in, in, in')
        BY <1>2, <2>1, Turns
      <3> QED BY <1>2, <1>13, <3>1 DEF RegisterTurn
    <2>3. SenderApart
      BY <1>1, <1>10, <2>1 DEF SenderApart
    <2>4. Reads(in') = After(in, Item)
      BY <1>2, <1>13, <2>1, ReadsAfter
    <2>5. Types' /\ Sound'
      BY <1>1, <1>10, <2>1 DEF Types, Sound
    <2>6. Young(in', semList'["receiver"], pc'["receiver"])
      <3>1. Pending(in') = Pending(in)
        BY <1>5, <2>2 DEF Pending
      <3> QED BY <1>1, <1>2, <2>1, <2>2, <3>1 DEF Young
    <2>7. Arrived'
      <3> SUFFICES ASSUME before # NULL
                   PROVE  /\ MemoryArrived(before, in', memory["receiver"], file[Main])
                          /\ SemaphoresArrived(before, in', semList["receiver"], nThreads["receiver"])
                          /\ ThreadsArrived(before, in', file, doing, ids["receiver"],
                                            nextUserThreadid["receiver"])
        BY SMTT(60), <1>1, <1>10, <2>1 DEF Arrived
      <3>1. /\ MemoryArrived(before, in, memory["receiver"], file[Main])
            /\ SemaphoresArrived(before, in, semList["receiver"], nThreads["receiver"])
            /\ Further(in, in')
        BY <1>2, <1>11, <2>2 DEF Further
      <3>2. /\ MemoryArrived(before, in', memory["receiver"], file[Main])
            /\ SemaphoresArrived(before, in', semList["receiver"], nThreads["receiver"])
        BY <3>1, RestKept
      <3>3. ThreadsArrived(before, in', file, doing, ids["receiver"], nextUserThreadid["receiver"])
        BY <1>9, <1>11, <2>2 DEF ThreadsArrived, slot
      <3> QED BY <3>2, <3>3
    <2> QED BY <1>1, <1>12, <2>3, <2>4, <2>5, <2>6, <2>7, ReceiveKeeps
  <1>14. CASE ~ (in.r < R4)
    <2> DEFINE next == NextThread(in, At("done"))
               doing1 == [doing EXCEPT ![slot] = "user"]
               doing2 == Forked(doing1, next)
    <2>1. /\ in' = next
          /\ pc' = IF next.at = "done"
                   THEN [[pc EXCEPT !["receiver"][slot] = "user"] EXCEPT !["receiver"][Main] = "user"]
                   ELSE [pc EXCEPT !["receiver"][slot] = "user"]
      BY <1>14 DEF ReceiveThreadRegisters, Finishes, slot
    <2>2. /\ doing1 \in Doing /\ doing1[slot] = "user"
          /\ \A t \in Threads : t # slot => doing1[t] = doing[t]
      <3> HIDE DEF doing
      <3> QED BY <1>3, <1>4 DEF Doing, Statuses
    <2> HIDE DEF doing1
    <2>3. Young(next, semList["receiver"], doing2) /\ doing2 \in Doing
      <3>1. \A t \in Slots : t > in.i + 1 => doing1[t] = "none"
        BY <1>6, <1>7, <2>2, TwoProcesses DEF slot
      <3>2. doing1[Main] = "none" /\ in.at \in {"threads", "threadRegisters"}
        BY <1>2, <1>3, <1>6, <2>2, TwoProcesses
      <3> QED BY <1>2, <2>2, <3>1, <3>2, YoungTurn
    <2>4. pc' = [pc EXCEPT !["receiver"] = doing2]
      <3> HIDE DEF next
      <3>1. [pc EXCEPT !["receiver"][slot] = "user"] = [pc EXCEPT !["receiver"] = doing1]
        BY DEF doing1
      <3>2. CASE next.at = "done"
        <4> DEFINE pcs == [pc EXCEPT !["receiver"] = doing1]
        <4>1. pc' = [pcs EXCEPT !["receiver"] = [pcs["receiver"] EXCEPT ![Main] = "user"]]
          BY <2>1, <3>1, <3>2
        <4>2. pcs["receiver"] = doing1
          BY <1>1, TwoProcesses DEF Types
        <4>3. doing2 = [doing1 EXCEPT ![Main] = "user"]
          BY <3>2 DEF Forked
        <4> HIDE DEF doing2
        <4>4. pc' = [pcs EXCEPT !["receiver"] = doing2]
          BY <4>1, <4>2, <4>3
        <4>5. pc \in [Processes -> Doing] /\ doing1 \in Doing /\ doing2 \in Doing
          BY <1>1, <2>2, <2>3 DEF Types
        <4> QED BY <4>4, <4>5, ExceptTwice, TwoProcesses
      <3>3. CASE next.at # "done"
        BY <2>1, <3>1, <3>3 DEF Forked
      <3> QED BY <3>2, <3>3
    <2>5. /\ \A t \in Slots : doing2[t] = doing1[t]
          /\ \A t \in Threads : doing2[t] = doing1[t] \/ (t = Main /\ doing2[t] = "user")
      <3> HIDE DEF next
      <3> QED BY <2>2, TwoProcesses DEF Forked, Doing
    <2> HIDE DEF doing2, next
    <2>6. \A t \in Threads : doing2[t] = doing[t] \/ (doing[t] = "none" /\ doing2[t] = "user")
      BY <1>3, <1>6, <1>7, <2>2, <2>5, TwoProcesses
    <2>7. /\ Sound' /\ pc' \in [Processes -> Doing]
          /\ pc'["receiver"] = doing2 /\ pc'["sender"] = pc["sender"]
      BY <1>1, <2>4, <2>3, <2>6, Forks
    <2>8. SenderApart
      BY <1>1, <1>10, <2>7 DEF SenderApart
    <2>9. Reads(in') = After(in, Item)
      BY <1>2, <1>14, <2>1, ReadsAfter DEF next
    <2>10. Types'
      BY <1>1, <1>10, <2>7 DEF Types
    <2>11. Young(in', semList'["receiver"], pc'["receiver"])
      BY <1>1, <2>1, <2>3, <2>7
    <2>12. Arrived'
      <3> SUFFICES ASSUME before # NULL
                   PROVE  /\ MemoryArrived(before, next, memory["receiver"], file[Main])
                          /\ SemaphoresArrived(before, next, semList["receiver"], nThreads["receiver"])
                          /\ ThreadsArrived(before, next, file, doing2, ids["receiver"],
                                            nextUserThreadid["receiver"])
        BY <1>1, <1>10, <2>1, <2>7 DEF Arrived
      <3>1. /\ MemoryArrived(before, in, memory["receiver"], file[Main])
            /\ SemaphoresArrived(before, in, semList["receiver"], nThreads["receiver"])
            /\ Further(in, next)
        <4>1. ThreadTurn(in, "done", next)
          BY <1>2, Turns DEF next
        <4>2. Further(in, next)
          BY <1>2, <4>1 DEF ThreadTurn, Further
        <4> QED BY <1>2, <1>11, <4>2
      <3>2. /\ MemoryArrived(before, next, memory["receiver"], file[Main])
            /\ SemaphoresArrived(before, next, semList["receiver"], nThreads["receiver"])
        BY <3>1, RestKept
      <3>3. file[slot] = before.regs[slot]
        <4> DEFINE want == before.regs[slot]
        <4>1. want \in [Registers -> Int] /\ \A k \in Registers : k < in.r + 1 => r2[k] = want[k]
          BY <1>11
        <4> HIDE DEF want
        <4>2. \A k \in Registers : k < in.r + 1
          BY SMTT(60), <1>3, <1>14 DEF Registers, POS, R4
        <4>3. \A k \in Registers : r2[k] = want[k]
          BY <4>1, <4>2
        <4>4. r2 = want
          BY SMTT(60), <1>8, <4>1, <4>3
        <4> QED BY <1>9, <4>4 DEF want
      <3>4. SlotArrived(before, slot, file[slot], doing1[slot], ids["receiver"][slot],
                        nextUserThreadid["receiver"])
        BY <1>11, <2>2, <3>3 DEF SlotArrived
      <3>5. ASSUME NEW t \in Slots, t <= in.i + 1
            PROVE  SlotArrived(before, t, file[t], doing1[t], ids["receiver"][t],
                               nextUserThreadid["receiver"])
        <4>1. CASE t = slot
          BY <3>4, <4>1
        <4>2. CASE t # slot
          <5>1. t <= in.i /\ doing1[t] = doing[t]
            BY <1>7, <2>2, <3>5, <4>2, TwoProcesses DEF slot
          <5>2. SlotArrived(before, t, file[t], doing[t], ids["receiver"][t],
                            nextUserThreadid["receiver"])
            BY <1>11, <5>1
          <5> QED BY <5>1, <5>2
        <4> QED BY <4>1, <4>2
      <3>6. next = NextThread(in, At("done")) /\ in.at \in {"threads", "threadRegisters"}
        BY <1>2 DEF next
      <3>7. ThreadsArrived(before, next, file, doing2, ids["receiver"], nextUserThreadid["receiver"])
        BY <1>2, <2>5, <3>5, <3>6, SlotsTurn
      <3> QED BY <3>2, <3>7
    <2> QED BY <1>1, <1>12, <2>7, <2>8, <2>9, <2>10, <2>11, <2>12, ReceiveKeeps
  <1> QED BY <1>13, <1>14

-----------------------------------------------------------------------------
(* The theorems. *)

\* The initial states.
LEMMA InitInv == ASSUME Init PROVE IInv
  <1>1. PICK live \in SUBSET Slots :
        /\ pc = [p \in Processes |-> [t \in Threads |->
               IF p = "sender" /\ t \in live \cup {Main} THEN "user" ELSE "none"]]
        /\ nThreads = [p \in Processes |-> IF p = "sender" THEN Cardinality(live) ELSE 0]
        /\ ids = [p \in Processes |-> [t \in Threads |->
               IF p = "sender" /\ t \in live THEN MaxThreadsPerProcess + 1 - t ELSE NoData]]
    BY DEF Init
  <1>2. PICK id \in {-1, 0} :
           memory = [p \in Processes |-> [c \in Cells |-> IF p = "sender" THEN id ELSE 0]]
    BY DEF Init
  <1>3. /\ nextUserThreadid = [p \in Processes |-> IF p = "sender" THEN MaxThreadsPerProcess + 1 ELSE 1]
        /\ semList = [p \in Processes |-> [j \in Bits(MaxSem) |-> NULL]]
        /\ on = [p \in Processes |-> [t \in Threads |-> NULL]]
        /\ regs = [p \in Processes |-> [t \in Threads |->
               [r \in Registers |-> IF r = R4 THEN NoCall ELSE 0]]]
        /\ crashed = FALSE /\ out = At("user") /\ in = At("listen") /\ mail = <<>>
        /\ result = NULL /\ before = NULL /\ skewed = FALSE
    BY DEF Init
  <1>4. pc \in [Processes -> Doing]
    BY <1>1 DEF Doing, Statuses
  <1>5. Types
    <2>1. id \in -1 .. MaxSem - 1 /\ 0 \in -1 .. MaxSem - 1 /\ NoCall \in Int /\ 0 \in Int
      BY SMTT(60), SemAssumption DEF NoCall
    <2>2. memory \in [Processes -> [Cells -> -1 .. MaxSem - 1]]
      BY <1>2, <2>1
    <2>3. regs \in [Processes -> [Threads -> [Registers -> Int]]]
      BY <1>3, <2>1
    <2> QED BY <1>3, <1>4, <2>2, <2>3 DEF Types, Tables, Places
  <1>6. Sound
    <2> SUFFICES ASSUME NEW p \in Processes PROVE Sleeps(semList[p], pc[p], on[p])
      BY DEF Sound
    <2>1. \A t \in Threads : on[p][t] = NULL /\ pc[p][t] \notin {"asleep", "woken"}
      BY <1>1, <1>3
    <2>2. \A j \in Bits(MaxSem) : semList[p][j] = NULL
      BY <1>3
    <2> QED BY <2>1, <2>2 DEF Sleeps
  <1>7. Counted
    <2>1. Live("sender") = live
      BY <1>1, TwoProcesses DEF Live
    <2>2. IsFiniteSet(live)
      <3>1. 1 \in Int /\ MaxThreadsPerProcess \in Int
        BY SMTT(60), SemAssumption
      <3>2. IsFiniteSet(1 .. MaxThreadsPerProcess) /\ live \subseteq 1 .. MaxThreadsPerProcess
        BY <3>1, FS_Interval DEF Slots
      <3> QED BY <3>2, FS_Subset
    <2>3. Cardinality(live) \in Int /\ 0 \in Int
      <3>1. Cardinality(live) \in Nat
        BY <2>2, FS_CardinalityType
      <3> QED BY SMTT(60), <3>1
    <2>4. nThreads \in [Processes -> Int] /\ nThreads["sender"] = Cardinality(live)
      BY <1>1, <2>3, TwoProcesses
    <2>5. \A t \in live : MaxThreadsPerProcess + 1 - t \in Nat /\ MaxThreadsPerProcess + 1 - t # NoData
      BY SMTT(60), SemAssumption, MigrateAssumption DEF Slots, NoData
    <2>6. NoData \in Nat /\ MaxThreadsPerProcess + 1 \in Nat /\ 1 \in Nat
      BY SMTT(60), SemAssumption DEF NoData
    <2>7. ids \in [Processes -> [Threads -> Nat]]
      BY <1>1, <2>5, <2>6
    <2>8. nextUserThreadid \in [Processes -> Nat]
      BY <1>3, <2>6
    <2>9. \A t \in Live("sender") : ids["sender"][t] # NoData
      BY <1>1, <2>1, <2>5, TwoProcesses
    <2> QED BY <2>1, <2>4, <2>7, <2>8, <2>9 DEF Counted
  <1>8. in.at = "listen" /\ out.at = "user"
    BY <1>3, AtIs
  <1>9. Connected /\ Stream
    BY <1>3, <1>8 DEF Connected, Stream
  <1>10. Arrives
    <2>1. \A t \in Threads : pc["receiver"][t] = "none"
      BY <1>1, TwoProcesses
    <2>2. Pending(in) = Threads
      BY <1>8 DEF Pending
    <2>3. \A j \in Bits(MaxSem) : semList["receiver"][j] = NULL
      BY <1>3, TwoProcesses
    <2>4. Young(in, semList["receiver"], pc["receiver"])
      BY <1>8, <2>1, <2>2, <2>3 DEF Young
    <2> QED BY <1>3, <2>4 DEF Arrives
  <1> QED BY <1>5, <1>6, <1>7, <1>9, <1>10 DEF IInv

\* Every step keeps the invariant.
LEMMA NextInv == ASSUME IInv, [Next]_vars PROVE IInv'
  <1>1. CASE UNCHANGED vars
    <2>1. UNCHANGED <<memory, semList, pc, on, regs, crashed, ids, nThreads, nextUserThreadid, out, in,
                      mail, result, before, skewed>>
      BY <1>1 DEF vars, semVars, tables, history
    <2>2. Sound' /\ Counted' /\ Types' /\ Arrives'
      BY <2>1, SenderKept DEF IInv, Types
    <2>3. Connected' /\ Stream'
      BY <2>1 DEF IInv, Connected, Stream
    <2> QED BY <2>2, <2>3 DEF IInv
  <1>2. ASSUME NEW p \in Processes, NEW t \in Threads, UserStep(p, t) \/ ThreadExit(p, t)
        PROVE  IInv'
    BY <1>2, UserStepInv, ThreadExitInv
  <1>3. CASE SendProcess \/ ConnectFails \/ Connect \/ Send \/ SendFails
    BY <1>3, SendProcessInv, ConnectFailsInv, ConnectInv, SendInv, SendFailsInv
  <1>4. ASSUME NEW shouldStop \in BOOLEAN, SendReturns(shouldStop)
        PROVE  IInv'
    BY <1>4, SendReturnsInv
  <1>5. CASE Receive
    BY <1>5, AcceptInv, ReceivePagesInv, ReceiveMemoryInv, ReceiveRegistersInv, ReceiveSemaphoresInv,
       ReceiveNThreadsInv, ReceiveThreadInv, ReceiveThreadRegistersInv DEF Receive
  <1> QED BY <1>1, <1>2, <1>3, <1>4, <1>5 DEF Next

\* The invariant holds in every state of every run.
LEMMA Invariance == Spec => []IInv
  BY InitInv, NextInv, PTL DEF Spec

\* What the invariant says of the semaphores.
LEMMA SoundInv == ASSUME IInv PROVE SemaphoresSound
  <1>1. Types /\ Sound
    BY DEF IInv
  <1>2. ASSUME NEW p \in Processes
        PROVE  /\ semList[p] \in Tables /\ on[p] \in Places /\ Sleeps(semList[p], pc[p], on[p])
    BY <1>1 DEF Types, Sound
  <1>3. ASSUME NEW p \in Processes, NEW id \in SemBitmap(p)
        PROVE  semList[p][id] \in Semaphore /\ Served(semList[p][id], pc[p], on[p], id)
    <2>1. id \in Bits(MaxSem) /\ semList[p][id] # NULL
      BY <1>3 DEF SemBitmap
    <2> QED BY <1>2, <2>1 DEF Tables, Sleeps
  <1>4. SemType
    <2>1. ASSUME NEW p \in Processes, NEW id \in SemBitmap(p)
          PROVE  semList[p][id].value \in Nat /\ semList[p][id].queue \in Seq(Threads)
      BY SMTT(60), <1>3 DEF Semaphore
    <2> QED BY <1>1, <2>1 DEF SemType, Types, Doing, Statuses
  <1>5. \A p \in Processes, t \in Threads : (pc[p][t] \in {"asleep", "woken"}) <=> on[p][t] # NULL
    BY <1>2 DEF Sleeps
  <1>6. \A p \in Processes, t \in Threads : on[p][t] # NULL => on[p][t] \in SemBitmap(p)
    <2> SUFFICES ASSUME NEW p \in Processes, NEW t \in Threads, on[p][t] # NULL
                 PROVE  on[p][t] \in SemBitmap(p)
      OBVIOUS
    <2>1. on[p][t] \in Bits(MaxSem)
      BY <1>2 DEF Places
    <2>2. semList[p][on[p][t]] # NULL
      BY <1>2 DEF Sleeps
    <2> QED BY <2>1, <2>2 DEF SemBitmap
  <1>7. ASSUME NEW p \in Processes, NEW id \in SemBitmap(p)
        PROVE  LET s == semList[p][id]
               IN  /\ {s.queue[i] : i \in DOMAIN s.queue}
                        = {t \in Threads : pc[p][t] = "asleep" /\ on[p][t] = id}
                   /\ \A i, j \in DOMAIN s.queue : s.queue[i] = s.queue[j] => i = j
                   /\ s.queue # <<>> => Cardinality(Woken(p, id)) >= s.value
    <2> DEFINE s == semList[p][id]
    <2>1. s.value \in Nat /\ s.queue \in Seq(Threads)
      BY <1>4, <1>7 DEF SemType
    <2>2. Served(s, pc[p], on[p], id)
      BY <1>3, <1>7
    <2> HIDE DEF s
    <2>3. {s.queue[i] : i \in DOMAIN s.queue} = {t \in Threads : pc[p][t] = "asleep" /\ on[p][t] = id}
      BY <2>2 DEF Served, Asleep, Range
    <2>4. \A i, j \in DOMAIN s.queue : s.queue[i] = s.queue[j] => i = j
      <3>1. NoDuplicates(s.queue)
        BY <2>2 DEF Served
      <3> QED BY SMTT(60), <2>1, <3>1 DEF NoDuplicates
    <2>5. ASSUME s.queue # <<>>
          PROVE  Cardinality(Woken(p, id)) >= s.value
      <3>1. ExistsInjection(1 .. s.value, Woken(p, id))
        BY <2>2, <2>5 DEF Served, Awake, Woken
      <3>2. IsFiniteSet(Woken(p, id))
        <4>1. 0 \in Int /\ MaxThreadsPerProcess \in Int /\ Threads = 0 .. MaxThreadsPerProcess
          BY SMTT(60), SemAssumption DEF Threads, Main, Slots
        <4>2. IsFiniteSet(0 .. MaxThreadsPerProcess)
          BY <4>1, FS_Interval
        <4>3. Woken(p, id) \subseteq 0 .. MaxThreadsPerProcess
          BY <4>1 DEF Woken
        <4> QED BY <4>2, <4>3, FS_Subset
      <3>3. Cardinality(1 .. s.value) <= Cardinality(Woken(p, id))
        <4>1. PICK f \in Injection(1 .. s.value, Woken(p, id)) : TRUE
          BY <3>1 DEF ExistsInjection
        <4> QED BY <3>2, <4>1, FS_Injection
      <3>4. Cardinality(1 .. s.value) = s.value
        <4>1. 1 \in Int /\ s.value \in Int
          BY SMTT(60), <2>1
        <4>2. Cardinality(1 .. s.value) = IF 1 > s.value THEN 0 ELSE s.value - 1 + 1
          BY <4>1, FS_Interval
        <4> QED BY SMTT(60), <2>1, <4>2
      <3>5. Cardinality(Woken(p, id)) \in Nat
        BY <3>2, FS_CardinalityType
      <3> QED BY SMTT(60), <2>1, <3>3, <3>4, <3>5
    <2> QED BY <2>3, <2>4, <2>5 DEF s
  <1> QED BY <1>4, <1>5, <1>6, <1>7 DEF SemaphoresSound

\* What the invariant says of a process that has arrived.
LEMMA WholeInv == ASSUME IInv PROVE ArrivesWhole
  <1> SUFFICES ASSUME Transferred
               PROVE  /\ memory["receiver"] = before.memory
                      /\ regs["receiver"][Main] = [before.regs[Main] EXCEPT ![R2] = 1]
                      /\ Live("receiver") = before.live
                      /\ \A t \in before.live :
                             /\ regs["receiver"][t] = before.regs[t]
                             /\ ids["receiver"][t] = before.ids[t]
                             /\ pc["receiver"][t] = "user"
                      /\ Values("receiver") = before.sems
                      /\ nThreads["receiver"] = Cardinality(before.live)
                      /\ \A t \in before.live : nextUserThreadid["receiver"] > before.ids[t]
    BY DEF ArrivesWhole
  <1>1. /\ Types /\ Counted /\ in.at = "done" /\ before = Snapshot("sender")
        /\ MemoryArrived(before, in, memory["receiver"], regs["receiver"][Main])
        /\ SemaphoresArrived(before, in, semList["receiver"], nThreads["receiver"])
        /\ ThreadsArrived(before, in, regs["receiver"], pc["receiver"], ids["receiver"],
                          nextUserThreadid["receiver"])
    BY DEF IInv, Arrives, Transferred
  <1>2. /\ before.live \subseteq Slots /\ before.nThreads = Cardinality(before.live)
        /\ before.sems = Values("sender")
    BY <1>1, SnapshotParts
  <1>3. /\ memory["receiver"] = before.memory
        /\ regs["receiver"][Main] = [before.regs[Main] EXCEPT ![R2] = 1]
    BY <1>1 DEF MemoryArrived
  <1>4. ASSUME NEW t \in Slots
        PROVE  SlotArrived(before, t, regs["receiver"][t], pc["receiver"][t], ids["receiver"][t],
                           nextUserThreadid["receiver"])
    BY <1>1 DEF ThreadsArrived
  <1>5. \A t \in before.live :
            /\ regs["receiver"][t] = before.regs[t]
            /\ ids["receiver"][t] = before.ids[t]
            /\ pc["receiver"][t] = "user"
            /\ nextUserThreadid["receiver"] > before.ids[t]
    BY <1>2, <1>4 DEF SlotArrived
  <1>6. Live("receiver") = before.live
    <2>1. \A t \in Slots : t \notin before.live => pc["receiver"][t] = "none"
      BY <1>4 DEF SlotArrived
    <2> QED BY <1>2, <1>5, <2>1 DEF Live
  <1>7. Values("receiver") = before.sems
    <2>1. \A id \in Bits(MaxSem) : ValueOf(semList["receiver"][id]) = before.sems[id]
      BY <1>1 DEF SemaphoresArrived
    <2>2. \A id \in Bits(MaxSem) : Values("receiver")[id] = Values("sender")[id]
      BY <1>2, <2>1 DEF Values, ValueOf
    <2>3. Values("receiver") = Values("sender")
      <3> DEFINE f(p) == [id \in Bits(MaxSem) |-> ValueOf(semList[p][id])]
      <3>1. Values("receiver") = f("receiver") /\ Values("sender") = f("sender")
        BY DEF Values, ValueOf
      <3>2. \A id \in Bits(MaxSem) : ValueOf(semList["receiver"][id]) = ValueOf(semList["sender"][id])
        BY <2>2 DEF Values, ValueOf
      <3> QED BY SMTT(60), <3>1, <3>2
    <2> QED BY <1>2, <2>3
  <1>8. nThreads["receiver"] = Cardinality(before.live)
    BY <1>1, <1>2 DEF SemaphoresArrived
  <1> QED BY <1>3, <1>5, <1>6, <1>7, <1>8

\* Whatever calls the threads of two processes mix, and in a process that is built from
\* what arrives while some of its threads already run: nobody sleeps through a SemPost,
\* and every unit of the value of a semaphore with sleepers has a woken thread on its way
\* (do_SemInit, do_SemPost, do_SemWait, do_SemDestroy, SendProcess, ListenProcess).
THEOREM SemaphoresStaySound == Spec => []SemaphoresSound
  BY Invariance, SoundInv, PTL

\* A process that nobody disturbed arrives whole, for any number of threads, semaphores,
\* cells and pages, whatever the sender was told (SendProcess, ListenProcess).
THEOREM ProcessArrivesWhole == Spec => []ArrivesWhole
  BY Invariance, WholeInv, PTL
==============================================================================
