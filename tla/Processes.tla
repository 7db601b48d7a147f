------------------------------ MODULE Processes ------------------------------
(***************************************************************************)
(* The processes: ForkExec, ProcessJoin, Exit, the end of a process and of *)
(* the machine, and the physical frames their address spaces are made of   *)
(* (userprog/userthread.cc, progtest.cc, exception.cc, addrspace.cc,       *)
(* frameprovider.cc).                                                      *)
(*                                                                         *)
(* A critical section under threadsLock, nUsedAddrSpaceLock or fpLock is   *)
(* one step.  A process is its main thread: 0 is the one the machine       *)
(* booted, n the n-th that ForkExec made.  Its other threads (UserThreads) *)
(* are the count nThreads.  AddrSpace objects are named after the process  *)
(* they were made for.                                                     *)
(***************************************************************************)
EXTENDS BitMap, FiniteSets

CONSTANTS
    NumPhysPages,   \* page frames of the machine
    MaxPages,       \* bound on the pages a program, or one Sbrk, asks for
    MaxForks        \* bound on the ForkExec calls that make a process

ASSUME PagesAssumption ==
    NumPhysPages \in Nat \ {0} /\ MaxPages \in Nat \ {0} /\ MaxForks \in Nat

MaxProcesses == NumPhysPages
Boot == 0
Forked == 1 .. MaxForks
Procs == {Boot} \cup Forked
Pids == Bits(MaxProcesses)
Frames == Bits(NumPhysPages)
NULL == -1

VARIABLES
    frameMap, nAvailFrame,     \* the FrameProvider
    frames, numPages,          \* the frames in the page table of an AddrSpace
    deleted,                   \* AddrSpace objects that were deleted
    pidMap, lastId,            \* the pids in use, GetNewPid's static
    addrspaces,                \* addrspaces[pid]: the last one with that pid
    pid,
    space,                     \* Thread::space
    nThreads,
    nUsedAddrSpace,
    semFORK,
    nForked,                   \* processes made so far
    pc,
    arg,                       \* the child of a ForkExec, the AddrSpace of a join
    halted, crashed

memory == <<frameMap, nAvailFrame, frames, numPages>>
ids == <<pidMap, lastId, addrspaces, pid>>
vars == <<memory, deleted, ids, space, nThreads, nUsedAddrSpace, semFORK, nForked, pc, arg,
          halted, crashed>>

Labels == {"none", "forked", "user", "forkCounted", "forkWait", "forkRead", "joining",
           "joinWoken", "exitWait", "exitWoken", "ending", "finished"}

\* The first process has been started on one page; its StartProcess has raised
\* semFORK from -1 to 0.
Init ==
    /\ frameMap = {0}
    /\ nAvailFrame = NumPhysPages - 1
    /\ frames = [a \in Procs |-> IF a = Boot THEN {0} ELSE {}]
    /\ numPages = [a \in Procs |-> IF a = Boot THEN 1 ELSE 0]
    /\ deleted = {}
    /\ pidMap = {0}
    /\ lastId = 1
    /\ addrspaces = [i \in Pids |-> IF i = 0 THEN Boot ELSE NULL]
    /\ pid = [a \in Procs |-> IF a = Boot THEN 0 ELSE NULL]
    /\ space = [p \in Procs |-> IF p = Boot THEN Boot ELSE NULL]
    /\ nThreads = [a \in Procs |-> 0]
    /\ nUsedAddrSpace = 0
    /\ semFORK = 0
    /\ nForked = 0
    /\ pc = [p \in Procs |-> IF p = Boot THEN "user" ELSE "none"]
    /\ arg = [p \in Procs |-> NULL]
    /\ halted = FALSE
    /\ crashed = FALSE

At(p, label) == pc[p] = label /\ ~halted /\ ~crashed

Goto(p, label) == pc' = [pc EXCEPT ![p] = label]

-----------------------------------------------------------------------------
(* Memory. *)

\* The frames n calls of GetEmptyFrame return: the n first clear ones of map, or
\* all of them (and then -1's) when there are fewer.
EmptyFrames(map, n) ==
    LET clear == Frames \ map
    IN  {f \in clear : Cardinality({g \in clear : g < f}) < n}

\* The loop that gives address space a its next n pages.
AddPages(a, n) ==
    LET new == EmptyFrames(frameMap, n)
    IN  /\ frames' = [frames EXCEPT ![a] = @ \cup new]
        /\ numPages' = [numPages EXCEPT ![a] = @ + n]
        /\ frameMap' = frameMap \cup new
        /\ nAvailFrame' = nAvailFrame - Cardinality(new)

\* (Mutant of ReleaseFrames: nAvailFrame forgotten.)
ReleaseUncounted(a) ==
    /\ frameMap' = frameMap \ frames[a]
    /\ frames' = [frames EXCEPT ![a] = {}]
    /\ numPages' = [numPages EXCEPT ![a] = 0]
    /\ UNCHANGED nAvailFrame

\* AddrSpace::ReleaseFrames.
ReleaseFrames(a) ==
    /\ frameMap' = frameMap \ frames[a]
    /\ nAvailFrame' = nAvailFrame + numPages[a]
    /\ frames' = [frames EXCEPT ![a] = {}]
    /\ numPages' = [numPages EXCEPT ![a] = 0]

\* do_Sbrk(n).  Without enough frames it changes nothing and returns 0.
Sbrk(p, n) ==
    /\ At(p, "user")
    /\ nAvailFrame >= n
    /\ AddPages(p, n)
    /\ UNCHANGED <<deleted, ids, space, nThreads, nUsedAddrSpace, semFORK, nForked, pc, arg,
                   halted, crashed>>

-----------------------------------------------------------------------------
(* ForkExec. *)

\* Count the new process, or refuse it.
ForkExec(p) ==
    /\ At(p, "user")
    /\ IF nUsedAddrSpace >= MaxProcesses
       THEN UNCHANGED <<nUsedAddrSpace, pc>>
       ELSE /\ nForked + Cardinality({q \in Procs : pc[q] = "forkCounted"}) < MaxForks
            /\ nUsedAddrSpace' = nUsedAddrSpace + 1
            /\ Goto(p, "forkCounted")
    /\ UNCHANGED <<memory, deleted, ids, space, nThreads, semFORK, nForked, arg, halted, crashed>>

\* Fork the thread of the new process.  Until it has started, Thread::Fork has
\* given it the address space of its parent.
ForkThread(p) ==
    LET c == nForked + 1
    IN  /\ At(p, "forkCounted")
        /\ c \in Forked
        /\ nForked' = c
        /\ space' = [space EXCEPT ![c] = space[p]]
        /\ arg' = [arg EXCEPT ![p] = c]
        /\ pc' = [pc EXCEPT ![p] = "forkWait", ![c] = "forked"]
        /\ UNCHANGED <<memory, deleted, ids, nThreads, nUsedAddrSpace, semFORK, halted,
                       crashed>>

\* semFORK->P() passes.
ForkPasses(p) ==
    /\ At(p, "forkWait")
    /\ semFORK # 0
    /\ semFORK' = semFORK - 1
    /\ Goto(p, "forkRead")
    /\ UNCHANGED <<memory, deleted, ids, space, nThreads, nUsedAddrSpace, nForked, arg,
                   halted, crashed>>

\* What ForkExec reads as newThread->space->pid, without a lock: anything once
\* the thread or its address space has been deleted.
ForkResults(p) ==
    LET c == arg[p]
    IN  IF pc[c] = "finished" \/ space[c] \in deleted THEN Pids \cup {-1}
        ELSE IF space[c] = NULL THEN {-1}
        ELSE {pid[space[c]]}

ForkReturns(p) ==
    /\ At(p, "forkRead")
    /\ Goto(p, "user")
    /\ arg' = [arg EXCEPT ![p] = NULL]
    /\ UNCHANGED <<memory, deleted, ids, space, nThreads, nUsedAddrSpace, semFORK, nForked,
                   halted, crashed>>

\* StartProcess of a program of n pages.  An ASSERT fails when there are not
\* enough frames.
StartProcess(p, n) ==
    LET new == FindStart(pidMap, MaxProcesses, lastId)
    IN  /\ At(p, "forked")
        /\ pidMap' = Marked(pidMap, new)
        /\ lastId' = new + 1
        /\ pid' = [pid EXCEPT ![p] = new]
        /\ addrspaces' = [i \in Pids |-> IF i = new THEN p ELSE addrspaces[i]]
        /\ space' = [space EXCEPT ![p] = p]
        /\ IF nAvailFrame < n
           THEN crashed' = TRUE /\ UNCHANGED <<memory, semFORK, pc>>
           ELSE /\ AddPages(p, n)
                /\ semFORK' = semFORK + 1
                /\ Goto(p, "user")
                /\ UNCHANGED crashed
        /\ UNCHANGED <<deleted, nThreads, nUsedAddrSpace, nForked, arg, halted>>

\* (Mutant of StartFails: the V is only on the path that loads the program.)
StartFailsSilently(p) ==
    /\ At(p, "forked")
    /\ space' = [space EXCEPT ![p] = NULL]
    /\ Goto(p, "ending")
    /\ UNCHANGED <<memory, deleted, ids, nThreads, nUsedAddrSpace, semFORK, nForked, arg,
                   halted, crashed>>

\* StartProcess could not open the file; run_ForkExec goes on to endProcess.
StartFails(p) ==
    /\ At(p, "forked")
    /\ space' = [space EXCEPT ![p] = NULL]
    /\ semFORK' = semFORK + 1
    /\ Goto(p, "ending")
    /\ UNCHANGED <<memory, deleted, ids, nThreads, nUsedAddrSpace, nForked, arg, halted,
                   crashed>>

-----------------------------------------------------------------------------
(* Threads, exit and join. *)

ThreadCreate(p) ==
    /\ At(p, "user")
    /\ nThreads[p] = 0      \* bound: one thread besides the main one
    /\ nThreads' = [nThreads EXCEPT ![p] = 1]
    /\ UNCHANGED <<memory, deleted, ids, space, nUsedAddrSpace, semFORK, nForked, pc, arg,
                   halted, crashed>>

\* do_UserThreadExit: the last thread signals nThreadsCond.
ThreadExit(p) ==
    /\ nThreads[p] = 1 /\ ~halted /\ ~crashed
    /\ nThreads' = [nThreads EXCEPT ![p] = 0]
    /\ Goto(p, IF pc[p] = "exitWait" THEN "exitWoken" ELSE pc[p])
    /\ UNCHANGED <<memory, deleted, ids, space, nUsedAddrSpace, semFORK, nForked, arg,
                   halted, crashed>>

\* (Mutant of Joiners: nobody is woken.)
NoJoiners(a) == {}

\* The main threads asleep on processJoinCond of address space a.
Joiners(a) == {p \in Procs : pc[p] = "joining" /\ arg[p] = a}

\* synchThreadsMainExit.
Exit(p) ==
    /\ At(p, "user")
    /\ pidMap' = pidMap \ {pid[p]}
    /\ pc' = [q \in Procs |->
                CASE q = p -> IF nThreads[p] = 0 THEN "ending" ELSE "exitWait"
                  [] q \in Joiners(p) -> "joinWoken"
                  [] OTHER -> pc[q]]
    /\ UNCHANGED <<memory, deleted, lastId, addrspaces, pid, space, nThreads, nUsedAddrSpace,
                   semFORK, nForked, arg, halted, crashed>>

ExitRechecks(p) ==
    /\ At(p, "exitWoken")
    /\ Goto(p, IF nThreads[p] = 0 THEN "ending" ELSE "exitWait")
    /\ UNCHANGED <<memory, deleted, ids, space, nThreads, nUsedAddrSpace, semFORK, nForked, arg,
                   halted, crashed>>

\* (Mutant of EndProcess: a process that was never loaded is not counted down.)
EndProcessLoadedOnly(p) ==
    /\ At(p, "ending")
    /\ IF space[p] # NULL
       THEN /\ ReleaseFrames(space[p])
            /\ deleted' = deleted \cup {space[p]}
            /\ halted' = (nUsedAddrSpace = 0)
            /\ nUsedAddrSpace' = IF halted' THEN 0 ELSE nUsedAddrSpace - 1
       ELSE UNCHANGED <<memory, deleted, halted, nUsedAddrSpace>>
    /\ Goto(p, "finished")
    /\ UNCHANGED <<ids, space, nThreads, semFORK, nForked, arg, crashed>>

\* endProcess; the machine halts with the last process.
EndProcess(p) ==
    /\ At(p, "ending")
    /\ IF space[p] # NULL
       THEN ReleaseFrames(space[p]) /\ deleted' = deleted \cup {space[p]}
       ELSE UNCHANGED <<memory, deleted>>
    /\ IF nUsedAddrSpace = 0
       THEN halted' = TRUE /\ UNCHANGED nUsedAddrSpace
       ELSE nUsedAddrSpace' = nUsedAddrSpace - 1 /\ UNCHANGED halted
    /\ Goto(p, "finished")
    /\ UNCHANGED <<ids, space, nThreads, semFORK, nForked, arg, crashed>>

\* do_ProcessJoin(i) of a pid that is in use (it returns at once otherwise).
ProcessJoin(p, i) ==
    /\ At(p, "user")
    /\ i \in pidMap
    /\ Goto(p, "joining")
    /\ arg' = [arg EXCEPT ![p] = addrspaces[i]]
    /\ UNCHANGED <<memory, deleted, ids, space, nThreads, nUsedAddrSpace, semFORK, nForked,
                   halted, crashed>>

\* The joiner was woken and tests whether the pid is in use.  space is a pointer
\* it read before it slept: the object may be gone.
JoinRechecks(p) ==
    /\ At(p, "joinWoken")
    /\ IF pid[arg[p]] \in pidMap
       THEN /\ Goto(p, "joining")
            /\ crashed' \in (IF arg[p] \in deleted THEN BOOLEAN ELSE {FALSE})
            /\ UNCHANGED arg
       ELSE /\ Goto(p, "user")
            /\ arg' = [arg EXCEPT ![p] = NULL]
            /\ UNCHANGED crashed
    /\ UNCHANGED <<memory, deleted, ids, space, nThreads, nUsedAddrSpace, semFORK, nForked, halted>>

-----------------------------------------------------------------------------
Next ==
    \E p \in Procs :
        \/ ForkExec(p) \/ ForkThread(p) \/ ForkPasses(p) \/ ForkReturns(p)
        \/ StartFails(p)
        \/ \E n \in 1 .. MaxPages : StartProcess(p, n) \/ Sbrk(p, n)
        \/ ThreadCreate(p) \/ ThreadExit(p)
        \/ Exit(p) \/ ExitRechecks(p) \/ EndProcess(p)
        \/ \E i \in Pids : ProcessJoin(p, i)
        \/ JoinRechecks(p)

Spec == Init /\ [][Next]_vars

\* What process p does in the kernel until it waits or is back in user code.
KernelStep(p) ==
    \/ ForkThread(p) \/ ForkPasses(p) \/ ForkReturns(p)
    \/ StartFails(p) \/ \E n \in 1 .. MaxPages : StartProcess(p, n)
    \/ ExitRechecks(p) \/ EndProcess(p) \/ JoinRechecks(p)

\* Every ready thread gets the CPU; user code promises nothing.
FairSpec == Spec /\ \A p \in Procs : WF_vars(KernelStep(p))

-----------------------------------------------------------------------------
(* Properties. *)

\* Processes that endProcess has not ended yet.
Live == {p \in Procs : pc[p] \notin {"none", "finished"}}

\* Processes whose program is loaded and that have not called Exit.
Running == {p \in Live : pc[p] \notin {"forked", "exitWait", "exitWoken", "ending"}}

TypeOK ==
    /\ frameMap \subseteq Frames /\ nAvailFrame \in 0 .. NumPhysPages
    /\ frames \in [Procs -> SUBSET Frames] /\ numPages \in [Procs -> Nat]
    /\ deleted \subseteq Procs
    /\ pidMap \subseteq Pids /\ lastId \in 0 .. MaxProcesses
    /\ addrspaces \in [Pids -> Procs \cup {NULL}]
    /\ pid \in [Procs -> Pids \cup {NULL}]
    /\ space \in [Procs -> Procs \cup {NULL}]
    /\ nThreads \in [Procs -> Nat]
    /\ nUsedAddrSpace \in 0 .. MaxProcesses
    /\ semFORK \in Nat
    /\ nForked \in 0 .. MaxForks
    /\ pc \in [Procs -> Labels]
    /\ arg \in [Procs -> Procs \cup {NULL}]
    /\ halted \in BOOLEAN /\ crashed \in BOOLEAN

\* No frame is in two page tables, a frame is marked exactly while it is in one,
\* and nAvailFrame counts the others: ReleaseFrames returns what was taken.  The
\* pid of a running process is its own and leads to its address space.
OwnFramesAndPid ==
    /\ TypeOK
    /\ \A a, b \in Procs : a # b => frames[a] \cap frames[b] = {}
    /\ frameMap = UNION {frames[a] : a \in Procs}
    /\ \A a \in Procs : numPages[a] = Cardinality(frames[a])
    /\ nAvailFrame = NumPhysPages - Cardinality(frameMap)
    /\ \A p \in Running :
        /\ pid[p] \in pidMap
        /\ addrspaces[pid[p]] = p
        /\ p \notin deleted

\* nUsedAddrSpace counts the processes besides one, from the moment ForkExec
\* counted them to endProcess; the machine halts only with the last process.
\* semFORK has one unit for every parent that still waits and whose turn some
\* child has announced: no ForkExec waits for a V that is not to come.
ForksCounted ==
    /\ ~halted => nUsedAddrSpace + 1 = Cardinality(Live)
                                         + Cardinality({p \in Procs : pc[p] = "forkCounted"})
    /\ halted => Live = {}
    /\ Cardinality({p \in Procs : pc[p] = "forkWait"}) =
           semFORK + Cardinality({c \in Procs : pc[c] = "forked"})

\* A joiner sleeps only on a process that is still to exit, unless a pid was
\* given out a second time before the joiner ran.
NoMissedExit ==
    \A p \in Procs : pc[p] = "joining" =>
        \/ arg[p] \in Running
        \/ \E q \in Procs : q # arg[p] /\ pid[q] = pid[arg[p]]

\* The machine halts once every process has exited.
MachineHalts ==
    (\A p \in Procs : pc[p] \in {"none", "ending", "finished"}) ~> (halted \/ crashed)

\* ForkExec returns the id "that corresponds to the process" it made
\* (userthread.cc), here for a process that has not ended yet.
ForkExecReturnsChild ==
    [][\A p \in Procs :
         pc[p] = "forkRead" /\ pc'[p] = "user" /\ pc[arg[p]] # "finished"
             => ForkResults(p) = {pid[arg[p]]}]_vars
==============================================================================
