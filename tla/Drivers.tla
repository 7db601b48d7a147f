------------------------------- MODULE Drivers -------------------------------
(***************************************************************************)
(* The devices and the calls that wait for them: machine/interrupt.cc (the *)
(* list of pending interrupts and simulated time), machine/disk.cc and     *)
(* console.cc, filesys/synchdisk.cc and userprog/synchconsole.cc.          *)
(*                                                                         *)
(* A thread keeps the CPU until interrupts are enabled again; then time    *)
(* advances by a tick and every interrupt that is due is handled before    *)
(* any thread goes on.  Semaphores and locks are those of Synch: a thread  *)
(* that waits for one goes on when it finds it free, whoever is first.     *)
(***************************************************************************)
EXTENDS Integers, Sequences, FiniteSetsExt

CONSTANTS
    Threads,
    ConsoleTime,    \* ticks to write a character, and between two polls
    DiskTimes,      \* ticks that a request to the disk may take
    TimerTicks,     \* ticks between two interrupts of the timer
    StringLength,   \* characters of a string
    MaxCalls,       \* bound: calls made by a thread
    MaxKeys,        \* bound: keys that are typed
    MaxEnds         \* bound: polls that find the end of the input

ASSUME DriversAssumption ==
    /\ ConsoleTime \in Nat \ {0} /\ DiskTimes \subseteq Nat \ {0} /\ TimerTicks \in Nat \ {0}
    /\ StringLength \in Nat \ {0} /\ {MaxCalls, MaxKeys, MaxEnds} \subseteq Nat
    /\ "nobody" \notin Threads

Nobody == "nobody"
EOF == 0

VARIABLES
    pending,        \* the interrupts to come, by time; due counts from now
    halted,
    \* The disk and its driver.
    active,         \* the disk has a request
    diskLock,       \* who holds SynchDisk's lock
    diskDone,       \* SynchDisk's semaphore
    \* The console and its driver.
    putBusy,
    incoming,       \* the character that was read, or EOF
    readAvail, writeDone, semThreads,
    \* The threads.
    pc, count,      \* where t is, and the characters it has dealt with
    calls,
    \* The outside.
    typed,          \* keys typed so far; the n-th key is n
    ends,           \* polls that found the end of the input
    received,       \* the last key that a reader got
    output          \* the last character written: whose, in which call, its place

devices == <<active, diskLock, diskDone>>
consoleVars == <<putBusy, incoming, readAvail, writeDone, semThreads>>
outside == <<typed, ends, received, output>>
vars == <<pending, halted, devices, consoleVars, pc, count, calls, outside>>

-------------------------------------------------------------------------------
(* machine/interrupt.cc.                                                     *)

\* Schedule: SortedInsert puts an interrupt before the first that is due later.
Schedule(list, kind, fromNow) ==
    LET later == {i \in DOMAIN list : list[i].due > fromNow}
        place == IF later = {} THEN Len(list) + 1 ELSE Min(later)
    IN  SubSeq(list, 1, place - 1) \o <<[type |-> kind, due |-> fromNow]>>
            \o SubSeq(list, place, Len(list))

\* Time moves on by n ticks.
Advance(list, n) == [i \in DOMAIN list |-> [list[i] EXCEPT !.due = @ - n]]

IsDue == pending # <<>> /\ Head(pending).due <= 0

Init ==
    /\ LET timer == Schedule(<<>>, "Timer", TimerTicks)
       IN  pending \in {timer, Schedule(timer, "ConsoleRead", ConsoleTime)}
    /\ halted = FALSE
    /\ active = FALSE /\ diskLock = Nobody /\ diskDone = 0
    /\ putBusy = FALSE /\ incoming = EOF
    /\ readAvail = 0 /\ writeDone = 0 /\ semThreads = 1
    /\ pc = [t \in Threads |-> "user"]
    /\ count = [t \in Threads |-> 0]
    /\ calls = [t \in Threads |-> 0]
    /\ typed = 0 /\ ends = 0 /\ received = EOF /\ output = <<Nobody, 0, StringLength - 1>>

-------------------------------------------------------------------------------
(* The handlers; each is called by CheckIfDue with interrupts off.           *)

\* Timer::TimerExpired: the yield it asks for is part of how threads are chosen.
TimerExpired ==
    /\ Head(pending).type = "Timer"
    /\ pending' = Schedule(Tail(pending), "Timer", TimerTicks)
    /\ UNCHANGED <<devices, consoleVars, outside>>

\* Disk::HandleInterrupt and SynchDisk::RequestDone.
DiskDone ==
    /\ Head(pending).type = "Disk"
    /\ pending' = Tail(pending)
    /\ active' = FALSE
    /\ diskDone' = diskDone + 1
    /\ UNCHANGED <<diskLock, consoleVars, outside>>

\* Console::WriteDone.
ConsoleWriteDone ==
    /\ Head(pending).type = "ConsoleWrite"
    /\ pending' = Tail(pending)
    /\ putBusy' = FALSE
    /\ writeDone' = writeDone + 1
    /\ UNCHANGED <<devices, incoming, readAvail, semThreads, outside>>

\* Console::CheckCharAvail: the next poll is scheduled first; a key is taken only
\* if the last one has been fetched.  At the end of the input every poll calls the
\* handler and leaves the buffer empty.
CheckCharAvail ==
    /\ Head(pending).type = "ConsoleRead"
    /\ pending' = Schedule(Tail(pending), "ConsoleRead", ConsoleTime)
    /\ \/ UNCHANGED <<incoming, readAvail, typed, ends>>
       \/ /\ incoming = EOF /\ typed < MaxKeys
          /\ typed' = typed + 1
          /\ incoming' = typed'
          /\ readAvail' = readAvail + 1
          /\ UNCHANGED ends
       \/ /\ incoming = EOF /\ ends < MaxEnds
          /\ ends' = ends + 1
          /\ readAvail' = readAvail + 1
          /\ UNCHANGED <<incoming, typed>>
    /\ UNCHANGED <<devices, putBusy, writeDone, semThreads, received, output>>

\* CheckIfDue, in the loop of OneTick.
Fire ==
    /\ IsDue /\ ~halted
    /\ TimerExpired \/ DiskDone \/ ConsoleWriteDone \/ CheckCharAvail
    /\ UNCHANGED <<halted, pc, count, calls>>

-------------------------------------------------------------------------------
(* The calls.  After most steps interrupts are enabled again, which is a     *)
(* tick; after the start of a request they are not.                          *)

\* t is at the given place, and nothing is to be handled before it goes on.
At(t, where) == pc[t] = where /\ ~IsDue /\ ~halted

Goto(t, where) == pc' = [pc EXCEPT ![t] = where]

Tick == pending' = Advance(pending, 1)

HasConsole == \E i \in DOMAIN pending : pending[i].type = "ConsoleRead"

\* A call to the disk or, if the machine has one, to the console.
Call(t) ==
    /\ At(t, "user") /\ calls[t] < MaxCalls
    /\ \E what \in {"diskLock"} \cup (IF HasConsole THEN {"putLock", "getLock"} ELSE {}) :
           Goto(t, what)
    /\ calls' = [calls EXCEPT ![t] = @ + 1]
    /\ count' = [count EXCEPT ![t] = 0]
    /\ UNCHANGED <<pending, halted, devices, consoleVars, outside>>

\* A user instruction: Machine::Run calls OneTick after each.
Compute(t) ==
    /\ At(t, "user") /\ calls[t] < MaxCalls
    /\ Tick
    /\ UNCHANGED <<halted, devices, consoleVars, pc, count, calls, outside>>

\* SynchDisk::ReadSector and WriteSector.
DiskAcquire(t) ==
    /\ At(t, "diskLock") /\ diskLock = Nobody
    /\ diskLock' = t
    /\ Goto(t, "diskRequest") /\ Tick
    /\ UNCHANGED <<halted, active, diskDone, consoleVars, count, calls, outside>>

DiskRequest(t) ==
    /\ At(t, "diskRequest")
    /\ active' = TRUE
    /\ \E ticks \in DiskTimes : pending' = Schedule(pending, "Disk", ticks)
    /\ Goto(t, "diskWait")
    /\ UNCHANGED <<halted, diskLock, diskDone, consoleVars, count, calls, outside>>

DiskWait(t) ==
    /\ At(t, "diskWait") /\ diskDone > 0
    /\ diskDone' = diskDone - 1
    /\ Goto(t, "diskRelease") /\ Tick
    /\ UNCHANGED <<halted, active, diskLock, consoleVars, count, calls, outside>>

\* Mutant: the lock is kept.
DiskReleaseKeeps(t) ==
    /\ At(t, "diskRelease")
    /\ Goto(t, "user") /\ Tick
    /\ UNCHANGED <<halted, devices, consoleVars, count, calls, outside>>

DiskRelease(t) ==
    /\ At(t, "diskRelease")
    /\ diskLock' = Nobody
    /\ Goto(t, "user") /\ Tick
    /\ UNCHANGED <<halted, active, diskDone, consoleVars, count, calls, outside>>

\* Mutant: the console is entered without the P.
ConsoleEnterFree(t) ==
    /\ At(t, "putLock") \/ At(t, "getLock")
    /\ Goto(t, IF pc[t] = "putLock" THEN "put" ELSE "get") /\ Tick
    /\ UNCHANGED <<halted, devices, consoleVars, count, calls, outside>>

\* SynchPutString and SynchGetString: semThreads->P().
ConsoleEnter(t) ==
    /\ At(t, "putLock") \/ At(t, "getLock")
    /\ semThreads > 0
    /\ semThreads' = semThreads - 1
    /\ Goto(t, IF pc[t] = "putLock" THEN "put" ELSE "get") /\ Tick
    /\ UNCHANGED <<halted, devices, putBusy, incoming, readAvail, writeDone, count, calls, outside>>

\* Console::PutChar.
PutChar(t) ==
    /\ At(t, "put") /\ count[t] < StringLength
    /\ putBusy' = TRUE
    /\ pending' = Schedule(pending, "ConsoleWrite", ConsoleTime)
    /\ output' = <<t, calls[t], count[t]>>
    /\ Goto(t, "putWait")
    /\ UNCHANGED <<halted, devices, incoming, readAvail, writeDone, semThreads, count, calls,
                   typed, ends, received>>

PutWait(t) ==
    /\ At(t, "putWait") /\ writeDone > 0
    /\ writeDone' = writeDone - 1
    /\ count' = [count EXCEPT ![t] = @ + 1]
    /\ Goto(t, "put") /\ Tick
    /\ UNCHANGED <<halted, devices, putBusy, incoming, readAvail, semThreads, calls, outside>>

GetWait(t) ==
    /\ At(t, "get") /\ count[t] < StringLength /\ readAvail > 0
    /\ readAvail' = readAvail - 1
    /\ Goto(t, "getChar") /\ Tick
    /\ UNCHANGED <<halted, devices, putBusy, incoming, writeDone, semThreads, count, calls,
                   outside>>

\* The string of SynchGetString ends, whatever its length, with a line or at the
\* end of the input.
Counted(t) ==
    \E newline \in BOOLEAN :
        count' = [count EXCEPT ![t] = IF newline \/ incoming = EOF THEN StringLength ELSE @ + 1]

\* Mutant: incoming is not reset.
GetCharKeeps(t) ==
    /\ At(t, "getChar")
    /\ received' = IF incoming = EOF THEN received ELSE incoming
    /\ Counted(t)
    /\ Goto(t, "get")
    /\ UNCHANGED <<pending, halted, devices, consoleVars, calls, typed, ends, output>>

\* Console::GetChar.
GetChar(t) ==
    /\ At(t, "getChar")
    /\ incoming' = EOF
    /\ received' = IF incoming = EOF THEN received ELSE incoming
    /\ Counted(t)
    /\ Goto(t, "get")
    /\ UNCHANGED <<pending, halted, devices, putBusy, readAvail, writeDone, semThreads, calls,
                   typed, ends, output>>

\* semThreads->V().
ConsoleLeave(t) ==
    /\ At(t, "put") \/ At(t, "get")
    /\ count[t] = StringLength
    /\ semThreads' = semThreads + 1
    /\ Goto(t, "user") /\ Tick
    /\ UNCHANGED <<halted, devices, putBusy, incoming, readAvail, writeDone, count, calls, outside>>

\* The steps of a call that has begun.
Goes(t) ==
    \/ DiskAcquire(t) \/ DiskRequest(t) \/ DiskWait(t) \/ DiskRelease(t)
    \/ ConsoleEnter(t) \/ PutChar(t) \/ PutWait(t) \/ GetWait(t) \/ GetChar(t) \/ ConsoleLeave(t)

\* No thread is ready: each waits in a P or has ended.
NobodyReady ==
    \A t \in Threads :
        \/ pc[t] = "user" /\ calls[t] = MaxCalls
        \/ pc[t] = "diskLock" /\ diskLock # Nobody
        \/ pc[t] = "diskWait" /\ diskDone = 0
        \/ pc[t] \in {"putLock", "getLock"} /\ semThreads = 0
        \/ pc[t] = "putWait" /\ writeDone = 0
        \/ pc[t] = "get" /\ count[t] < StringLength /\ readAvail = 0

\* Mutant: that the timer is the first to come is enough to halt.
OnlyTimerFirst(list) == list = <<>> \/ Head(list).type = "Timer"

OnlyTimer(list) == \A i \in DOMAIN list : list[i].type = "Timer"

\* Interrupt::Idle: the clock is advanced to the first interrupt, or the machine
\* halts if nothing but the timer is to come.
Idle ==
    /\ NobodyReady /\ ~IsDue /\ ~halted
    /\ IF OnlyTimer(pending)
       THEN halted' = TRUE /\ UNCHANGED pending
       ELSE pending' = Advance(pending, Head(pending).due) /\ UNCHANGED halted
    /\ UNCHANGED <<devices, consoleVars, pc, count, calls, outside>>

Next == Fire \/ Idle \/ \E t \in Threads : Call(t) \/ Compute(t) \/ Goes(t)

Spec == Init /\ [][Next]_vars

\* The kernel goes on: due interrupts are handled, an idle machine waits for the
\* next one, a thread that can run does.  No call has to be made.  A thread can
\* not run while an interrupt is due, hence strong fairness; that a ready thread
\* gets the CPU is ReadyRuns of Synch.
FairSpec ==
    /\ Spec /\ WF_vars(Fire) /\ WF_vars(Idle)
    /\ \A t \in Threads : SF_vars(Goes(t)) /\ SF_vars(Compute(t))

-------------------------------------------------------------------------------
(* Properties.                                                               *)

Interrupts == [type : {"Timer", "Disk", "ConsoleWrite", "ConsoleRead"}, due : Int]

TypeOK ==
    /\ Range(pending) \subseteq Interrupts
    /\ {active, putBusy, halted} \subseteq BOOLEAN
    /\ diskLock \in Threads \cup {Nobody}
    /\ {diskDone, writeDone, semThreads} \subseteq 0 .. 1
    /\ readAvail \in 0 .. (1 + ends) /\ ends \in 0 .. MaxEnds
    /\ incoming \in 0 .. MaxKeys
    /\ \A t \in Threads : count[t] \in 0 .. StringLength /\ calls[t] \in 0 .. MaxCalls

\* A request to a device has exactly one interrupt to come, so it ends and ends
\* once, in the order of simulated time; and whoever starts a request finds the
\* device at rest: ASSERT(putBusy == FALSE) and ASSERT(!active) hold, because each P
\* matches the interrupt of its own request.  So the machine takes itself for done
\* only when nobody waits for a device.
RequestsMatched ==
    LET Pending(kind) == Cardinality({i \in DOMAIN pending : pending[i].type = kind})
    IN  /\ TypeOK
        /\ Pending("Disk") = IF active THEN 1 ELSE 0
        /\ Pending("ConsoleWrite") = IF putBusy THEN 1 ELSE 0
        /\ Pending("Timer") = 1
        /\ Pending("ConsoleRead") <= 1
        /\ \A i, j \in DOMAIN pending : i < j => pending[i].due <= pending[j].due
        /\ \A t \in Threads :
               /\ pc[t] = "diskRequest" => ~active /\ diskDone = 0
               /\ pc[t] = "put" => ~putBusy /\ writeDone = 0
        /\ halted => \A t \in Threads : pc[t] = "user"

\* A string is written in one piece, whatever other threads write: a character is
\* the next of the string that is being written or the first after a whole one.
StringsWhole ==
    [][output' # output =>
        \/ output'[3] = output[3] + 1 /\ output' = <<output[1], output[2], output'[3]>>
        \/ output'[3] = 0 /\ output[3] = StringLength - 1]_vars

\* Every key is read once and in the order in which the keys were typed; at most
\* one is on its way.
KeysInOrder ==
    /\ incoming \in {EOF, received + 1}
    /\ typed = IF incoming = EOF THEN received ELSE incoming

\* A call to the disk ends; so does a call that writes to the console, unless a
\* reader has the console and no key comes.
CallsEnd ==
    \A t \in Threads :
        /\ pc[t] = "diskLock" ~> pc[t] = "user"
        /\ pc[t] = "putLock" ~> (pc[t] = "user" \/ \E r \in Threads : pc[r] = "get")
==============================================================================
