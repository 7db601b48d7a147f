---------------------------- MODULE UserSemaphores ---------------------------
(***************************************************************************)
(* The semaphores of user programs: do_SemInit, do_SemPost, do_SemWait and *)
(* do_SemDestroy of userprog/userthread.cc, called by ExceptionHandler on  *)
(* the tables semBitmap and semList of the caller's address space.         *)
(*                                                                         *)
(* A program keeps the id of a semaphore in its memory and hands the       *)
(* kernel the address.  The kernel does not yield inside these calls       *)
(* except where Semaphore::P sleeps, so that a call is one step up to      *)
(* there.  A thread's registers are those its next instruction finds: as   *)
(* long as it is inside SemWait they still point at the system call.       *)
(***************************************************************************)
EXTENDS BitMap, Sequences

CONSTANTS
    Processes,
    MaxThreadsPerProcess,
    MaxSem,       \* MAX_SEM
    NumCells,     \* words of memory of a process
    InitValues,   \* the values semaphores are initialised with, none negative
    MaxCalls,     \* bound on the calls of the threads of a process
    NULL

Main == 0
Slots == 1 .. MaxThreadsPerProcess
Threads == {Main} \cup Slots
Cells == Bits(NumCells)

ASSUME SemAssumption ==
    /\ MaxThreadsPerProcess \in Nat \ {0} /\ MaxSem \in Nat \ {0} /\ NumCells \in Nat \ {0}
    /\ InitValues \subseteq Nat /\ MaxCalls \in Nat
    /\ NULL \notin Int /\ NULL \notin [value : Nat, queue : Seq(Threads)]

\* The registers the model tells apart: how far the thread is in its program,
\* the result of its last call, and the address it hands to SemWait.
POS == 1
R2 == 2
R4 == 3
Registers == POS .. R4
NoCall == -1

VARIABLES
    memory,    \* memory[p][c]
    semList,   \* semList[p][id]: value and queue, NULL where semBitmap is clear
    pc,        \* pc[p][t]: "none", or what t is doing
    on,        \* on[p][t]: the semaphore whose P the thread is in
    regs,      \* regs[p][t][r]
    crashed    \* an ASSERT or a NULL pointer has ended the kernel, and the model with it

semVars == <<memory, semList, pc, on, regs, crashed>>

SemBitmap(p) == {id \in Bits(MaxSem) : semList[p][id] # NULL}

\* The thread is between two calls, or at the SYSCALL of SemWait(c).
AtUser(p, t) ==
    /\ pc[p][t] = "user" /\ ~ crashed
    /\ MapThenSumSet(LAMBDA u : regs[p][u][POS], Threads) < MaxCalls

Free(p, t) == AtUser(p, t) /\ regs[p][t][R4] = NoCall

\* ExceptionHandler has done UpdatePC.
Returned(p, t) == regs' = [regs EXCEPT ![p][t][POS] = @ + 1, ![p][t][R4] = NoCall]

SemInit(p, t, c, value) ==
    LET id == Find(SemBitmap(p), MaxSem)
    IN  /\ Free(p, t)
        /\ semList' = [semList EXCEPT ![p] = [i \in Bits(MaxSem) |->
               IF i = id THEN [value |-> value, queue |-> <<>>] ELSE @[i]]]
        /\ memory' = [memory EXCEPT ![p][c] = id]
        /\ Returned(p, t)
        /\ UNCHANGED <<pc, on, crashed>>

\* The test before SemPost, SemWait and SemDestroy.  BitMap::Test asserts that
\* the id is not negative.
Valid(p, id) == id < MaxSem /\ id \in SemBitmap(p)

\* The three calls with an id that Valid or Test does not let through.
Invalid(p, t, c) ==
    /\ AtUser(p, t) /\ regs[p][t][R4] \in {NoCall, c}
    /\ ~ Valid(p, memory[p][c])
    /\ IF memory[p][c] < 0
       THEN crashed' = TRUE /\ UNCHANGED regs
       ELSE Returned(p, t) /\ UNCHANGED crashed
    /\ UNCHANGED <<memory, semList, pc, on>>

\* (Mutant of V: only a semaphore that was at 0 wakes somebody.)
VFromZero(p, id) ==
    LET s == semList[p][id]
    IN  IF s.queue = <<>> \/ s.value > 0
        THEN /\ semList' = [semList EXCEPT ![p][id].value = @ + 1]
             /\ UNCHANGED pc
        ELSE /\ semList' = [semList EXCEPT ![p][id] = [value |-> s.value + 1, queue |-> Tail(@.queue)]]
             /\ pc' = [pc EXCEPT ![p][Head(s.queue)] = "woken"]

V(p, id) ==
    LET s == semList[p][id]
    IN  IF s.queue = <<>>
        THEN /\ semList' = [semList EXCEPT ![p][id].value = @ + 1]
             /\ UNCHANGED pc
        ELSE /\ semList' = [semList EXCEPT ![p][id] = [value |-> s.value + 1, queue |-> Tail(@.queue)]]
             /\ pc' = [pc EXCEPT ![p][Head(s.queue)] = "woken"]

SemPost(p, t, c) ==
    /\ Free(p, t)
    /\ Valid(p, memory[p][c])
    /\ V(p, memory[p][c])
    /\ Returned(p, t)
    /\ UNCHANGED <<memory, on, crashed>>

\* A turn of the loop of Semaphore::P: the thread sleeps or has its token.
P(p, t, id) ==
    IF semList[p][id].value = 0
    THEN /\ semList' = [semList EXCEPT ![p][id].queue = Append(@, t)]
         /\ pc' = [pc EXCEPT ![p][t] = "asleep"]
         /\ on' = [on EXCEPT ![p][t] = id]
    ELSE /\ semList' = [semList EXCEPT ![p][id].value = @ - 1]
         /\ pc' = [pc EXCEPT ![p][t] = "user"]
         /\ on' = [on EXCEPT ![p][t] = NULL]

SemWait(p, t, c) ==
    LET id == memory[p][c]
    IN  /\ AtUser(p, t) /\ regs[p][t][R4] \in {NoCall, c}
        /\ Valid(p, id)
        /\ P(p, t, id)
        /\ IF semList[p][id].value = 0
           THEN regs' = [regs EXCEPT ![p][t][R4] = c]
           ELSE Returned(p, t)
        /\ UNCHANGED <<memory, crashed>>

\* A thread that V made ready goes on in P.
WaitRechecks(p, t) ==
    /\ pc[p][t] = "woken" /\ ~ crashed
    /\ P(p, t, on[p][t])
    /\ IF semList[p][on[p][t]].value = 0 THEN UNCHANGED regs ELSE Returned(p, t)
    /\ UNCHANGED <<memory, crashed>>

\* The semaphore is deleted under the threads that are inside its P: those
\* asleep are on no list any more, those awake will read freed memory.
SemDestroy(p, t, c) ==
    LET id == memory[p][c]
    IN  /\ Free(p, t)
        /\ Valid(p, id)
        /\ semList' = [semList EXCEPT ![p][id] = NULL]
        /\ pc' = [pc EXCEPT ![p] = [u \in Threads |->
               IF on[p][u] # id THEN @[u] ELSE IF @[u] = "asleep" THEN "stranded" ELSE "dangling"]]
        /\ on' = [on EXCEPT ![p] = [u \in Threads |-> IF @[u] = id THEN NULL ELSE @[u]]]
        /\ Returned(p, t)
        /\ UNCHANGED <<memory, crashed>>

\* What is left of the value is 0, and the thread goes to sleep for ever, or not.
WaitOnFreed(p, t) ==
    /\ pc[p][t] = "dangling" /\ ~ crashed
    /\ \/ pc' = [pc EXCEPT ![p][t] = "stranded"] /\ UNCHANGED regs
       \/ pc' = [pc EXCEPT ![p][t] = "user"] /\ Returned(p, t)
    /\ UNCHANGED <<memory, semList, on, crashed>>

SemStep(p, t) ==
    \/ \E c \in Cells : \/ \E value \in InitValues : SemInit(p, t, c, value)
                        \/ Invalid(p, t, c)
                        \/ SemPost(p, t, c)
                        \/ SemWait(p, t, c)
                        \/ SemDestroy(p, t, c)
    \/ WaitRechecks(p, t)
    \/ WaitOnFreed(p, t)

-------------------------------------------------------------------------------

SemType ==
    /\ \A p \in Processes : \A id \in SemBitmap(p) :
           semList[p][id].value \in Nat /\ semList[p][id].queue \in Seq(Threads)
    /\ pc \in [Processes -> [Threads -> {"none", "user", "asleep", "woken", "stranded", "dangling",
                                         "done"}]]
    /\ memory \in [Processes -> [Cells -> -1 .. MaxSem - 1]]
    /\ regs \in [Processes -> [Threads -> [Registers -> Int]]]
    /\ crashed \in BOOLEAN

\* The threads of p that are awake in P of semaphore id.
Woken(p, id) == {t \in Threads : pc[p][t] = "woken" /\ on[p][t] = id}

\* Nobody sleeps through a SemPost, whatever calls threads mix and also in a
\* process that came from another machine: a thread is asleep exactly when it
\* is, once, in the queue of a live semaphore, and as long as anybody is, there
\* is for every unit of the value a woken thread on its way to take it.  Only
\* the threads that SemDestroy found inside P are in no queue (do_SemPost,
\* do_SemWait, do_SemDestroy with Semaphore::P and V).
SemaphoresSound ==
    /\ SemType
    /\ \A p \in Processes, t \in Threads :
           (pc[p][t] \in {"asleep", "woken"}) <=> on[p][t] # NULL
    /\ \A p \in Processes : \A id \in SemBitmap(p) :
           LET s == semList[p][id]
           IN  /\ {s.queue[i] : i \in DOMAIN s.queue}
                    = {t \in Threads : pc[p][t] = "asleep" /\ on[p][t] = id}
               /\ \A i, j \in DOMAIN s.queue : s.queue[i] = s.queue[j] => i = j
               /\ s.queue # <<>> => Cardinality(Woken(p, id)) >= s.value
    /\ \A p \in Processes, t \in Threads : on[p][t] # NULL => on[p][t] \in SemBitmap(p)
==============================================================================
