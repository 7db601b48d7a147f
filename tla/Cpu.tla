--------------------------------- MODULE Cpu ---------------------------------
(***************************************************************************)
(* User programs on the simulated machine: the interpreter's loop          *)
(* (machine/mipssim.cc), exceptions and system calls (machine.cc,          *)
(* userprog/exception.cc), the switch from one thread's registers and page *)
(* table to another's (threads/scheduler.cc, thread.cc), the loading of a  *)
(* program (userprog/addrspace.cc, progtest.cc) and the start of a user    *)
(* thread (userprog/userthread.cc).                                        *)
(*                                                                         *)
(* A step is an instruction, or what the kernel does for a thread between  *)
(* two points where it can lose the processor.  The order of the ready     *)
(* list is in Synch; here any thread can be next.  What a system call does *)
(* inside the kernel is in the other modules; here it is what it reads and *)
(* writes of the user's registers and memory.                              *)
(***************************************************************************)
EXTENDS Mmu

CONSTANTS
    Threads,            \* thread numbers; 0 is the thread of the start-up
    NULL,
    Fields(_),          \* the instruction a word stands for, as its fields
    BootPrograms,       \* executable files: segments code and initData, uninitData's size
    Programs,           \* those that user programs run with Forkexec
    UserStackSize, ThreadStackSize, MaxString,
    Results,            \* words that calls return in register 2
    Strings,            \* strings, as byte sequences, that Getstring and Read deliver
    Garbage             \* words a register that was never written may hold

ASSUME CpuAssumption ==
    /\ 0 \in Threads /\ Threads \subseteq Nat
    /\ Results \cup Garbage \subseteq Words

VARIABLES
    registers, mainMemory,  \* the machine's
    mmu,                    \* machine->pageTable, as the address space it is of, and its size
    currentThread, pc,      \* what each thread is about to do
    space, slot,            \* a thread's address space (named after its main thread) and stack
    userRegisters,          \* the registers a thread was switched away with
    call,                   \* the system call a thread is in
    tables, image,          \* the page table of an address space and the program in it
    frameMap,
    stopped                 \* halted, or aborted by an assertion

machine == <<registers, mainMemory, mmu>>
threads == <<currentThread, pc, space, slot, userRegisters, call>>
memory == <<tables, image, frameMap>>
vars == <<machine, threads, memory, stopped>>

At(t, label) == t = currentThread /\ pc[t] = label /\ ~stopped
Goto(t, label) == pc' = [pc EXCEPT ![t] = label]

\* The thread has its own registers and address space.
Started == {"user", "kernel", "forked"}
\* The thread holds threadsLock.
Loading == {"readHeader", "readCode", "readData"}
LockFree == \A t \in Threads : pc[t] \notin Loading

Constantly(w) == [r \in Registers |-> w]
RegistersOf(t) == IF t = currentThread THEN registers ELSE userRegisters[t]
NoCall == [type |-> 0, regs |-> Constantly(0), bad |-> 0, child |-> NULL]

(***************************************************************************)
(* Machine::Machine and the start of the kernel: the boot thread calls     *)
(* StartProcess.                                                           *)
(***************************************************************************)
Init ==
    /\ registers = Constantly(0)
    /\ mainMemory = [p \in PhysicalAddresses |-> 0]
    /\ mmu = [space |-> NULL, size |-> 0]
    /\ currentThread = 0
    /\ pc = [t \in Threads |-> IF t = 0 THEN "startProcess" ELSE "none"]
    /\ space = [t \in Threads |-> NULL]
    /\ slot = [t \in Threads |-> NULL]
    /\ userRegisters = [t \in Threads |-> Constantly(0)]
    /\ call = [t \in Threads |-> NoCall]
    /\ tables = [a \in Threads |-> <<>>]
    /\ image \in [Threads -> {NULL}]
    /\ frameMap = {}
    /\ stopped = FALSE

(***************************************************************************)
(* Memory accesses of the running thread.                                  *)
(***************************************************************************)
PageTable == IF mmu.space = NULL THEN <<>> ELSE tables[mmu.space]
Access(addr, size, writing) == Translate(PageTable, mmu.size, addr, size, writing)
Read(addr, size) == ReadMem(mainMemory, Physical(PageTable, addr), size)

\* (Mutant of Place: the first byte goes to the second place.)
PlaceOneFurther(addr, k) == Wrap(addr + k)

\* The writes of bytes at addr and after: fails is the set of those that cannot
\* be translated.
Place(addr, k) == Wrap(addr + k - 1)
Fails(addr, n, writing) == {k \in 1 .. n : Access(Place(addr, k), 1, writing) # "No"}
WritesBytes(addr, bytes) ==
    LET done == DOMAIN bytes \ Fails(addr, Len(bytes), TRUE)
        byteAt == [k \in done |-> Physical(PageTable, Place(addr, k))]
    IN  /\ mainMemory' = [p \in DOMAIN mainMemory |->
                             IF p \in Range(byteAt)
                             THEN bytes[CHOOSE k \in done : byteAt[k] = p] ELSE mainMemory[p]]
        /\ tables' = [tables EXCEPT ![mmu.space] = [v \in DOMAIN PageTable |->
                         [PageTable[v] EXCEPT !.dirty =
                             @ \/ \E k \in done : v = Place(addr, k) \div PageSize + 1]]]

UpdatePC(r) == [r EXCEPT ![PrevPCReg] = r[PCReg], ![PCReg] = r[NextPCReg],
                         ![NextPCReg] = Wrap(r[NextPCReg] + 4)]

\* Machine::RaiseException up to the handler.
Raised(r, badVAddr) == DelayedLoad([r EXCEPT ![BadVAddrReg] = badVAddr], 0, 0)

(***************************************************************************)
(* Machine::OneInstruction.                                                *)
(***************************************************************************)
Fetch == Access(registers[PCReg], 4, FALSE)
Instr == Decode(Fields(Read(registers[PCReg], 4)))

\* The exception of the instruction that was fetched.
Exception(i) ==
    CASE i.opCode \in Loads -> Access(Address(registers, i), Size(i), FALSE)
      [] i.opCode \in Stores -> Access(Address(registers, i), Size(i), TRUE)
      [] OTHER -> Raises(registers, i)

Execute(t) ==
    /\ At(t, "user") /\ Fetch = "No"
    /\ LET i == Instr
           addr == Address(registers, i)
           old == IF i.opCode \in Loads \cup Stores THEN Read(addr, Size(i)) ELSE 0
       IN  /\ ~Aborts(registers, i)
           /\ Exception(i) = "No"
           /\ registers' = Executed(registers, i, old)
           /\ IF i.opCode \in Stores
              THEN /\ mainMemory' = WriteMem(mainMemory, Physical(PageTable, addr), Size(i),
                                             Stored(registers, i, old))
                   /\ tables' = [tables EXCEPT ![mmu.space] = Dirtied(@, addr)]
              ELSE UNCHANGED <<mainMemory, tables>>
    /\ UNCHANGED <<mmu, threads, image, frameMap, stopped>>

\* An exception that is no system call: the handler only advances the PC.
Fault(t) ==
    /\ At(t, "user")
    /\ \/ /\ Fetch # "No"
          /\ registers' = UpdatePC(Raised(registers, registers[PCReg]))
       \/ /\ Fetch = "No"
          /\ LET i == Instr
                 e == Exception(i)
                 bad == IF e \in {"Overflow", "IllegalInstr"} THEN 0 ELSE Address(registers, i)
             IN  /\ ~Aborts(registers, i)
                 /\ e \notin {"No", "Syscall"}
                 /\ registers' = UpdatePC(Raised(registers, bad))
    /\ UNCHANGED <<mainMemory, mmu, threads, memory, stopped>>

Abort(t) ==
    /\ At(t, "user") /\ Fetch = "No"
    /\ Aborts(registers, Instr)
    /\ stopped' = TRUE
    /\ UNCHANGED <<machine, threads, memory>>

(***************************************************************************)
(* ExceptionHandler for a system call: what the call type reads and writes *)
(* of the user's memory and registers.                                     *)
(*   string: the register with the address of a string it reads, 0: none   *)
(*   word: it reads the word (a semaphore) at the address in register 4    *)
(*   result: it returns a word in register 2                               *)
(*   writes: what it writes at the address in register 4                   *)
(***************************************************************************)
Effect(string, word, result, writes) ==
    [string |-> string, word |-> word, result |-> result, writes |-> writes]
Silent == Effect(0, FALSE, FALSE, "nothing")
Valued == Effect(0, FALSE, TRUE, "nothing")
Named == Effect(4, FALSE, TRUE, "nothing")

SC_Halt == 0
SC_Exit == 1
SC_Putstring == 12
SC_Threadcreate == 17
SC_Threadexit == 18
SC_Forkexec == 24
SC_Sbrk == 25
SC_Sendprocess == 32

\* Create, Remove, Open, Write; Close; Read; Seek.
FileCalls ==
    [n \in {4, 5, 7, 30} |-> Named] @@ (8 :> Valued)
    @@ (6 :> Effect(0, FALSE, TRUE, "string")) @@ (31 :> Silent)
\* Putstring; Getchar; Getstring; Getint; Putchar, Putint.
ConsoleCalls ==
    (SC_Putstring :> Effect(4, FALSE, FALSE, "nothing")) @@ (13 :> Valued)
    @@ (14 :> Effect(0, FALSE, FALSE, "string")) @@ (16 :> Effect(0, FALSE, FALSE, "word"))
    @@ [n \in {11, 15} |-> Silent]
\* Threadcreate; Threadjoin, Processjoin; Seminit; Sempost, Semwait, Semdestroy.
ThreadCalls ==
    (SC_Threadcreate :> Valued) @@ [n \in {19, 34} |-> Silent]
    @@ (20 :> Effect(0, FALSE, FALSE, "word"))
    @@ [n \in {21, 22, 23} |-> Effect(0, TRUE, FALSE, "nothing")]
\* Forkexec; Sbrk; Mkdir, Rmdir, Changedir; Listfiles; Listenprocess;
\* Startftpserver; Sendfile, Receivefile.
OtherCalls ==
    [n \in {SC_Forkexec, 26, 27, 29} |-> Named] @@ [n \in {SC_Sbrk, 33} |-> Valued]
    @@ [n \in {28, 37} |-> Silent] @@ [n \in {35, 36} |-> Effect(5, FALSE, TRUE, "nothing")]
Calls ==
    FileCalls @@ ConsoleCalls @@ ThreadCalls @@ OtherCalls @@ (SC_Sendprocess :> Valued)
EffectOf(type) == IF type \in DOMAIN Calls THEN Calls[type] ELSE Silent

\* The addresses at which copyStringFromMachine fails to read, n characters at
\* most being copied from addr.  A read that fails leaves a character of the
\* kernel's stack in place, which may be the 0 that ends the string.
BadStringReads(addr, n) ==
    LET bad == Fails(addr, n, FALSE)
        ok == IF bad = {} THEN n ELSE Min(bad) - 1
        ended == \E k \in 1 .. ok : Read(Place(addr, k), 1) = 0
    IN  IF ended \/ ok = n THEN {<<>>}
        ELSE {[j \in 1 .. m |-> Place(addr, ok + j)] : m \in 1 .. n - ok}

\* The addresses at which the handler of call type fails to read.  (A negative
\* size of Putstring is left out: the copy would go past the kernel's buffer.)
BadReads(type, r) ==
    LET e == EffectOf(type)
        length == CASE type # SC_Putstring -> MaxString
                    [] r[5] < MaxString -> r[5]
                    [] OTHER -> MaxString - 1
    IN  CASE e.string # 0 -> BadStringReads(r[e.string], length)
          [] e.word /\ Access(r[4], 4, FALSE) # "No" -> {<<r[4]>>}
          [] OTHER -> {<<>>}

\* The registers after exceptions inside the handler, at addresses bad: each
\* advances the PC.
Skipped(r, bad) ==
    LET after[k \in 0 .. Len(bad)] ==
            IF k = 0 THEN r ELSE UpdatePC([after[k - 1] EXCEPT ![BadVAddrReg] = bad[k]])
    IN  after[Len(bad)]

\* The SYSCALL instruction, and the handler until it calls the kernel.
Syscall(t) ==
    /\ At(t, "user") /\ Fetch = "No"
    /\ Exception(Instr) = "Syscall"
    /\ LET r == Raised(registers, 0)
       IN  \E bad \in BadReads(r[2], r) :
             /\ registers' = IF r[2] = SC_Sendprocess THEN UpdatePC(r) ELSE Skipped(r, bad)
             /\ call' = [call EXCEPT ![t] = [type |-> r[2], regs |-> r, bad |-> Len(bad),
                                            child |-> NULL]]
             /\ IF r[2] = SC_Halt THEN stopped' = TRUE /\ UNCHANGED pc
                                  ELSE Goto(t, "kernel") /\ UNCHANGED stopped
    /\ UNCHANGED <<mainMemory, mmu, currentThread, space, slot, userRegisters, memory>>

\* (Mutant of Returns: UpdatePC whatever the call.)
ReturnsTwice(t, result, bad) ==
    /\ registers' = UpdatePC(Skipped(IF result = NULL THEN registers
                                     ELSE [registers EXCEPT ![2] = result], bad))
    /\ call' = [call EXCEPT ![t] = [NoCall EXCEPT !.bad = call[t].bad + Len(bad)]]
    /\ Goto(t, "user")

\* The end of the handler: a result in register 2, writes that failed at
\* addresses bad, and UpdatePC, which Sendprocess has done before.
Returns(t, result, bad) ==
    LET c == call[t]
        r == IF result = NULL THEN registers ELSE [registers EXCEPT ![2] = result]
    IN  /\ registers' = IF c.type = SC_Sendprocess THEN r ELSE UpdatePC(Skipped(r, bad))
        /\ call' = [call EXCEPT ![t] = [NoCall EXCEPT !.bad = c.bad + Len(bad)]]
        /\ Goto(t, "user")

\* The results of a call; Sendprocess returns when it failed or the sender goes on.
ResultsOf(c) ==
    CASE c.type = SC_Sendprocess -> {Wrap(-1)} \cup (IF c.regs[5] = 0 THEN {0} ELSE {})
      [] EffectOf(c.type).result -> Results
      [] OTHER -> {NULL}
HasOwnAction == {SC_Exit, SC_Threadexit, SC_Threadcreate, SC_Forkexec, SC_Sbrk}

\* A call that writes nothing into the user's memory.
Return(t) ==
    /\ At(t, "kernel")
    /\ call[t].type \notin HasOwnAction
    /\ EffectOf(call[t].type).writes = "nothing"
    /\ \E result \in ResultsOf(call[t]) : Returns(t, result, <<>>)
    /\ UNCHANGED <<mainMemory, mmu, currentThread, space, slot, userRegisters, memory, stopped>>

\* Read and Getstring copy the string with its final 0, character by character.
ReturnString(t) ==
    /\ At(t, "kernel")
    /\ EffectOf(call[t].type).writes = "string"
    /\ \E result \in ResultsOf(call[t]), s \in Strings :
          LET bytes == Append(s, 0)
              addr == call[t].regs[4]
              bad == SetToSortSeq(Fails(addr, Len(bytes), TRUE), <)
          IN  /\ WritesBytes(addr, bytes)
              /\ Returns(t, result, [k \in DOMAIN bad |-> Place(addr, bad[k])])
    /\ UNCHANGED <<mmu, currentThread, space, slot, userRegisters, image, frameMap, stopped>>

\* Getint and Seminit write a word.
ReturnWord(t) ==
    /\ At(t, "kernel")
    /\ EffectOf(call[t].type).writes = "word"
    /\ LET addr == call[t].regs[4]
       IN  IF Access(addr, 4, TRUE) = "No"
           THEN \E w \in Results :
                  /\ WritesBytes(addr, [k \in 1 .. 4 |-> ByteOf(w, k - 1)])
                  /\ Returns(t, NULL, <<>>)
           ELSE Returns(t, NULL, <<addr>>) /\ UNCHANGED <<mainMemory, tables>>
    /\ UNCHANGED <<mmu, currentThread, space, slot, userRegisters, image, frameMap, stopped>>

\* do_Sbrk: a larger page table, with the old entries, replaces the old one.
Sbrk(t) ==
    /\ At(t, "kernel")
    /\ call[t].type = SC_Sbrk
    /\ LET n == call[t].regs[4]
           a == space[t]
           frames == EmptyFrames(frameMap, n)
       IN  IF NumPhysPages - Cardinality(frameMap) >= n
           THEN /\ tables' = [tables EXCEPT ![a] = @ \o NewEntries(frames)]
                /\ mainMemory' = Cleared(mainMemory, frames)
                /\ frameMap' = frameMap \cup Range(frames)
                /\ mmu' = [space |-> a, size |-> Len(tables[a]) + n]
                /\ Returns(t, Wrap(Len(tables[a]) * PageSize), <<>>)
           ELSE /\ Returns(t, 0, <<>>)
                /\ UNCHANGED <<tables, mainMemory, frameMap, mmu>>
    /\ UNCHANGED <<currentThread, space, slot, userRegisters, image, stopped>>

\* The size of an address space, in pages.
SizeOf(segment) == 4 * Len(segment.words)
PagesOf(p) ==
    LET size == SizeOf(p.code) + SizeOf(p.initData) + p.uninitData + UserStackSize
    IN  (size + PageSize - 1) \div PageSize

(***************************************************************************)
(* Threads and processes.                                                  *)
(***************************************************************************)
IsMain(t) == slot[t] = NULL
Others(t) == {u \in Threads \ {t} : space[u] = space[t] /\ pc[u] # "none"}
MaxThreadsPerProcess == (UserStackSize - 16) \div ThreadStackSize

\* Thread::Fork.  The constructor does not initialise userRegisters: the code
\* that should is compiled under the name USER_POGRAM.
Fork(t, u, label) ==
    /\ pc[u] = "none"
    /\ pc' = [pc EXCEPT ![u] = label, ![t] = "forked"]
    /\ space' = [space EXCEPT ![u] = space[t]]
    /\ \E g \in Garbage : userRegisters' = [userRegisters EXCEPT ![u] = Constantly(g)]

\* do_UserThreadCreate; the new thread finds its arguments in call.
Threadcreate(t) ==
    /\ At(t, "kernel") /\ LockFree
    /\ call[t].type = SC_Threadcreate
    /\ LET i == Find({slot[u] : u \in {v \in Others(t) \cup {t} : ~IsMain(v)}},
                     MaxThreadsPerProcess)
       IN  IF i = -1
           THEN /\ Returns(t, Wrap(-1), <<>>)
                /\ UNCHANGED <<space, slot, userRegisters>>
           ELSE \E u \in Threads :
                  /\ Fork(t, u, "startThread")
                  /\ slot' = [slot EXCEPT ![u] = i]
                  /\ call' = [call EXCEPT ![t].child = u, ![u] = [NoCall EXCEPT !.regs = call[t].regs]]
                  /\ UNCHANGED registers
    /\ UNCHANGED <<mainMemory, mmu, currentThread, memory, stopped>>

\* do_ForkExec, until it waits for semFORK; it fails when there are too many
\* processes.
Forkexec(t) ==
    /\ At(t, "kernel") /\ LockFree
    /\ call[t].type = SC_Forkexec
    /\ \/ /\ \E u \in Threads : /\ Fork(t, u, "startProcess")
                               /\ call' = [call EXCEPT ![t].child = u]
          /\ UNCHANGED registers
       \/ Returns(t, Wrap(-1), <<>>) /\ UNCHANGED <<space, userRegisters>>
    /\ UNCHANGED <<mainMemory, mmu, currentThread, slot, memory, stopped>>

\* The creator goes on: at once, or when the new process has been loaded.
Forked(t) ==
    /\ At(t, "forked")
    /\ pc[call[t].child] \notin Loading \cup {"startProcess"}
    /\ \E result \in Results : Returns(t, result, <<>>)
    /\ UNCHANGED <<mainMemory, mmu, currentThread, space, slot, userRegisters, memory, stopped>>

\* (Mutant of Initial: the other registers are not cleared.)
InitialPCAndStack(pages) ==
    [registers EXCEPT ![PCReg] = 0, ![NextPCReg] = 4, ![StackReg] = Wrap(pages * PageSize - 16)]

\* AddrSpace::InitRegisters.
Initial(pages) ==
    [Constantly(0) EXCEPT ![NextPCReg] = 4, ![StackReg] = Wrap(pages * PageSize - 16)]

\* StartUserThread.  The stacks were laid out when the process was loaded.
StartUserThread(t) ==
    /\ At(t, "startThread")
    /\ LET args == call[t].regs
           top == PagesOf(image[space[t]]) * PageSize - 16 - ThreadStackSize
       IN  registers' = [Initial(Len(tables[space[t]])) EXCEPT
                            ![PCReg] = args[6], ![NextPCReg] = Wrap(args[6] + 4),
                            ![StackReg] = Wrap(top - slot[t] * ThreadStackSize),
                            ![4] = args[5], ![5] = args[4]]
    /\ mmu' = [space |-> space[t], size |-> Len(tables[space[t]])]
    /\ call' = [call EXCEPT ![t] = NoCall]
    /\ Goto(t, "user")
    /\ UNCHANGED <<mainMemory, currentThread, space, slot, userRegisters, memory, stopped>>

\* StartProcess and the constructor AddrSpace(executable), to the point where
\* the header is read.
Open(t) ==
    /\ At(t, "startProcess") /\ LockFree
    /\ \E p \in IF t = 0 THEN BootPrograms ELSE Programs : image' = [image EXCEPT ![t] = p]
    /\ space' = [space EXCEPT ![t] = t]
    /\ Goto(t, "readHeader")
    /\ UNCHANGED <<machine, currentThread, slot, userRegisters, call, tables, frameMap, stopped>>

OpenFails(t) ==
    /\ At(t, "startProcess") /\ t # 0
    /\ space' = [space EXCEPT ![t] = NULL]
    /\ Goto(t, "done")
    /\ UNCHANGED <<machine, currentThread, slot, userRegisters, call, memory, stopped>>

\* The page table, and ReadAtVirtual until it reads the code.
MapPages(t) ==
    /\ At(t, "readHeader")
    /\ LET n == PagesOf(image[t])
           frames == EmptyFrames(frameMap, n)
       IN  IF NumPhysPages - Cardinality(frameMap) >= n
           THEN /\ tables' = [tables EXCEPT ![t] = NewEntries(frames)]
                /\ mainMemory' = Cleared(mainMemory, frames)
                /\ frameMap' = frameMap \cup Range(frames)
                /\ mmu' = [space |-> t, size |-> n]
                /\ Goto(t, "readCode")
                /\ UNCHANGED stopped
           ELSE stopped' = TRUE /\ UNCHANGED <<tables, mainMemory, frameMap, mmu, pc>>
    /\ UNCHANGED <<registers, currentThread, space, slot, userRegisters, call, image>>

\* The bytes of a segment.
InBytes(words) ==
    [k \in 1 .. 4 * Len(words) |-> ByteOf(words[(k - 1) \div 4 + 1], (k - 1) % 4)]

\* ReadAtVirtual: the bytes that were read go through the machine's page table.
LoadCode(t) ==
    /\ At(t, "readCode")
    /\ WritesBytes(image[t].code.virtualAddr, InBytes(image[t].code.words))
    /\ mmu' = [space |-> t, size |-> Len(tables[t])]
    /\ Goto(t, "readData")
    /\ UNCHANGED <<registers, currentThread, space, slot, userRegisters, call, image, frameMap,
                   stopped>>

LoadData(t) ==
    /\ At(t, "readData")
    /\ WritesBytes(image[t].initData.virtualAddr, InBytes(image[t].initData.words))
    /\ registers' = Initial(Len(tables[t]))
    /\ mmu' = [space |-> t, size |-> Len(tables[t])]
    /\ Goto(t, "user")
    /\ UNCHANGED <<currentThread, space, slot, userRegisters, call, image, frameMap, stopped>>

\* Exit and Threadexit, and Sendprocess when the sender is to stop.
Leaves(t) ==
    /\ At(t, "kernel") /\ LockFree
    /\ \/ call[t].type \in {SC_Exit, SC_Threadexit}
       \/ call[t].type = SC_Sendprocess /\ call[t].regs[5] # 0

\* do_UserThreadExit.
ThreadExit(t) ==
    /\ Leaves(t) /\ ~IsMain(t)
    /\ Goto(t, "done")
    /\ slot' = [slot EXCEPT ![t] = NULL]
    /\ space' = [space EXCEPT ![t] = NULL]
    /\ UNCHANGED <<machine, currentThread, userRegisters, call, memory, stopped>>

\* synchThreadsMainExit and endProcess; the last process halts the machine.
ProcessExit(t) ==
    /\ Leaves(t) /\ IsMain(t)
    /\ Others(t) = {}
    /\ frameMap' = frameMap \ {tables[t][k].physicalPage : k \in DOMAIN tables[t]}
    /\ tables' = [tables EXCEPT ![t] = <<>>]
    /\ image' = [image EXCEPT ![t] = NULL]
    /\ space' = [space EXCEPT ![t] = NULL]
    /\ Goto(t, "done")
    /\ stopped' = \A u \in Threads \ {t} : pc[u] \in {"none", "done"}
    /\ UNCHANGED <<machine, currentThread, slot, userRegisters, call>>

\* (Mutant of SaveUserState: the delayed load is forgotten.)
SaveUserStateEarly(t) == [userRegisters EXCEPT ![t] = [registers EXCEPT ![LoadReg] = 0]]

\* What Thread::SaveUserState leaves in userRegisters, and
\* AddrSpace::RestoreState in the machine.
SaveUserState(t) == [userRegisters EXCEPT ![t] = registers]
RestoreState(a) == [space |-> a, size |-> Len(tables[a])]

\* RestoreUserState and RestoreState: in SetupThreadState for a thread that has
\* not run yet, at the end of Scheduler::Run for the others.
SetupThreadState(t) ==
    IF space[t] = NULL THEN UNCHANGED <<registers, mmu>>
    ELSE registers' = userRegisters[t] /\ mmu' = RestoreState(space[t])

\* Scheduler::Run: a timer interrupt after an instruction, or a wait inside the
\* kernel.
Run(t) ==
    /\ ~stopped
    /\ t # currentThread /\ pc[t] \notin {"none", "done"}
    /\ currentThread' = t
    /\ userRegisters' = IF space[currentThread] = NULL THEN userRegisters
                        ELSE SaveUserState(currentThread)
    /\ SetupThreadState(t)
    /\ UNCHANGED <<mainMemory, pc, space, slot, call, memory, stopped>>

Next ==
    \E t \in Threads :
        \/ Execute(t) \/ Fault(t) \/ Abort(t) \/ Syscall(t)
        \/ Return(t) \/ ReturnString(t) \/ ReturnWord(t) \/ Sbrk(t)
        \/ Threadcreate(t) \/ Forkexec(t) \/ Forked(t)
        \/ StartUserThread(t)
        \/ Open(t) \/ OpenFails(t) \/ MapPages(t) \/ LoadCode(t) \/ LoadData(t)
        \/ ThreadExit(t) \/ ProcessExit(t)
        \/ Run(t)

Spec == Init /\ [][Next]_vars

(***************************************************************************)
(* Properties.                                                             *)
(***************************************************************************)
TypeOK ==
    /\ registers \in [Registers -> Words]
    /\ mainMemory \in [PhysicalAddresses -> Bytes]
    /\ mmu.space \in Threads \cup {NULL} /\ mmu.size \in Nat
    /\ currentThread \in Threads
    /\ userRegisters \in [Threads -> [Registers -> Words]]
    /\ space \in [Threads -> Threads \cup {NULL}]
    /\ \A a \in Threads : tables[a] \in Seq(Entries)
    /\ frameMap \subseteq Frames

\* The frames in the page table of a.
FramesOf(a) == {tables[a][k].physicalPage : k \in DOMAIN tables[a]}

\* A thread that runs user code, or the part of the kernel that uses the user's
\* memory, has the page table of its own address space in the machine, at the
\* table's present size: whatever switches, loads and Sbrk calls of other threads
\* came before (AddrSpace::RestoreState, ReadAtVirtual, do_Sbrk).  A frame is in
\* one place of one page table, marked in frameMap while it is, and a page that
\* was never written since it was given out reads as zero: what another process
\* left in the frame is not seen (GetEmptyFrame, WriteMem).
OwnPages ==
    /\ TypeOK
    /\ pc[currentThread] \in Started \cup {"readCode", "readData"} =>
         /\ mmu.space = space[currentThread]
         /\ mmu.size = Len(tables[space[currentThread]])
    /\ \A a, b \in Threads : a # b => FramesOf(a) \cap FramesOf(b) = {}
    /\ frameMap = UNION {FramesOf(a) : a \in Threads}
    /\ \A a \in Threads : \A j, k \in DOMAIN tables[a] :
          /\ j # k => tables[a][j].physicalPage # tables[a][k].physicalPage
          /\ ~tables[a][k].dirty =>
                \A o \in 0 .. PageSize - 1 :
                    mainMemory[tables[a][k].physicalPage * PageSize + o] = 0

\* Whenever a thread runs or has run user code, register 0 is 0 and a delayed
\* load has a general register as its target: what a new thread's userRegisters
\* held before InitRegisters does not survive (Thread::Thread, InitRegisters,
\* DelayedLoad).
RegistersSound ==
    \A t \in Threads : pc[t] \in Started =>
        /\ RegistersOf(t)[0] = 0
        /\ RegistersOf(t)[LoadReg] \in GPRegs
        /\ pc[t] # "user" => RegistersOf(t)[LoadReg] = 0

\* What the address space of a holds at each virtual address.
VirtualMemory(a) ==
    [v \in 0 .. PageSize * Len(tables[a]) - 1 |-> mainMemory[Physical(tables[a], v)]]

\* What a thread computes is nobody else's business: no step changes the registers
\* of a thread that is not running, a switch changes no thread's registers, and
\* no step changes the memory of an address space other than the running thread's
\* (Scheduler::Run, SaveUserState, RestoreUserState, Translate).
Isolation ==
    [][/\ \A t \in Threads :
            pc[t] \in Started /\ (t # currentThread \/ currentThread' # currentThread) =>
                (RegistersOf(t))' = RegistersOf(t)
       /\ \A a \in Threads :
            a # space'[currentThread] /\ tables[a] # <<>> /\ tables'[a] # <<>> =>
                (VirtualMemory(a))' = VirtualMemory(a)]_vars

\* The byte at v when program p is loaded.
Covers(seg, v) == v \in seg.virtualAddr .. seg.virtualAddr + SizeOf(seg) - 1
ByteOfImage(p, v) ==
    CASE Covers(p.code, v) -> InBytes(p.code.words)[v - p.code.virtualAddr + 1]
      [] Covers(p.initData, v) -> InBytes(p.initData.words)[v - p.initData.virtualAddr + 1]
      [] OTHER -> 0

\* A program starts with its segments where the header says, zeroes elsewhere
\* and the initial registers, although other threads ran between the reads of
\* its file (AddrSpace::AddrSpace, ReadAtVirtual, InitRegisters).
StartsLoaded ==
    [][\A t \in Threads : pc[t] = "readData" /\ pc'[t] = "user" =>
         /\ \A v \in DOMAIN (VirtualMemory(t))' : (VirtualMemory(t))'[v] = ByteOfImage(image[t], v)
         /\ registers' = Initial(PagesOf(image[t]))]_vars

\* A system call none of whose accesses to user memory fails comes back behind
\* the SYSCALL instruction, with every register but register 2 and the
\* debugging and error registers as it was when the call began, although other
\* threads have used the machine in between (ExceptionHandler, UpdatePC).
CallsResume ==
    [][\A t \in Threads :
         pc[t] \in {"kernel", "forked"} /\ pc'[t] = "user" /\ call'[t].bad = 0 =>
            LET then == UpdatePC(call[t].regs)
            IN  \A r \in Registers \ {2} : registers'[r] = then[r]]_vars

\* What instruction i has put into registers s agrees with the integers: the
\* product (all of it, in Hi and Lo), the quotient and the remainder, and the sum
\* and the difference, which are left out when they do not fit a register.
Fits(n) == n \in -SignBit .. SignBit - 1
Exactly(i, r, s) ==
    LET op == i.opCode
        a == Signed(r[i.rs])
        b == Signed(Operand(r, i))
        double == s[HiReg] * 2^WordBits + s[LoReg]
        hi == Signed(s[HiReg])
        target == IF op = "ADDI" THEN i.rt ELSE i.rd
        Is(n) == IF Fits(n) THEN Signed(s[target]) = n ELSE s[target] = r[target]
    IN  CASE op = "MULT" -> (double - a * b) % 2^(2 * WordBits) = 0
          [] op = "MULTU" -> double = r[i.rs] * r[i.rt]
          [] op = "DIV" /\ b # 0 ->
                Signed(s[LoReg]) * b + hi = a /\ Abs(hi) < Abs(b) /\ hi * a >= 0
          [] op = "DIVU" /\ b # 0 ->
                s[LoReg] * r[i.rt] + s[HiReg] = r[i.rs] /\ s[HiReg] < r[i.rt]
          [] op \in {"ADD", "ADDI"} -> Is(a + b)
          [] op = "SUB" -> Is(a - b)
          [] OTHER -> TRUE

\* Arithmetic instructions give the exact results, or none: the loop of Mult
\* that multiplies bit by bit, the division, and the overflow tests of ADD, ADDI
\* and SUB, which look at sign bits only (Mult, Machine::OneInstruction).
ExactArithmetic ==
    [][At(currentThread, "user") /\ Fetch = "No" /\ currentThread' = currentThread /\ ~stopped'
         /\ registers[LoadReg] = 0
       => Exactly(Instr, registers, registers')]_vars
==============================================================================
