------------------------------- MODULE Migrate -------------------------------
(***************************************************************************)
(* network/migrate.cc: a process is sent to another machine.  The main     *)
(* thread of "sender" calls SendProcess, a thread of another machine calls *)
(* ListenProcess, and "receiver" is the process it builds from what        *)
(* arrives on the connection.  While the main thread waits in a Send, the  *)
(* other threads of its process run, and a thread that has arrived runs    *)
(* while the rest of its process is still on the way.                      *)
(*                                                                         *)
(* A connection is what Channel promises of it: what is sent arrives once  *)
(* and in order, and a Send that gave up, which returns false, may have    *)
(* arrived or not.                                                         *)
(***************************************************************************)
EXTENDS UserSemaphores

CONSTANTS
    NumPages,       \* of the process
    FreeFrames,     \* how many frames the receiving machine may have left
    MaxProcesses,
    UsedSpaces,     \* how many processes it may be running
    MaxLead         \* bound on the messages delivered and not yet received

\* INT_MAX, which no id and no value reaches.
NoData == 1000

ASSUME MigrateAssumption ==
    /\ Processes = {"sender", "receiver"}
    /\ NumPages \in Nat \ {0} /\ FreeFrames \subseteq Nat
    /\ MaxProcesses \in Nat \ {0} /\ UsedSpaces \subseteq 0 .. MaxProcesses
    /\ MaxLead \in Nat \ {0}
    /\ MaxThreadsPerProcess < NoData

VARIABLES
    ids,          \* ids[p][t]: the user thread id of t
    nThreads,
    nextUserThreadid,
    out,          \* where SendProcess is: its loop, and the indexes of that loop
    in,           \* where ListenProcess is
    mail,         \* what was delivered on the connection and not yet received
    result,       \* what SendProcess returned
    before,       \* history: the process when SendProcess connected, NULL once a
                  \* thread of the old or the new one has run since
    skewed        \* history: SendProcess went on after a Send that failed

tables == <<ids, nThreads, nextUserThreadid>>
history == <<before, skewed>>
vars == <<semVars, tables, out, in, mail, result, history>>

At(stage) == [at |-> stage, i |-> 0, r |-> POS]

Live(p) == {t \in Slots : pc[p][t] \notin {"none", "done"}}

Values(p) == [id \in Bits(MaxSem) |-> IF semList[p][id] = NULL THEN NoData ELSE semList[p][id].value]

Snapshot(p) ==
    [memory |-> memory[p], regs |-> regs[p], sems |-> Values(p), live |-> Live(p),
     ids |-> [t \in Live(p) |-> ids[p][t]], nThreads |-> nThreads[p]]

\* A process whose threads took and left their slots in some order, with an id in
\* memory that is no semaphore's, and no process yet at the receiver.
Init ==
    /\ \E live \in SUBSET Slots :
        /\ pc = [p \in Processes |-> [t \in Threads |->
               IF p = "sender" /\ t \in live \cup {Main} THEN "user" ELSE "none"]]
        /\ nThreads = [p \in Processes |-> IF p = "sender" THEN Cardinality(live) ELSE 0]
        /\ ids = [p \in Processes |-> [t \in Threads |->
               IF p = "sender" /\ t \in live THEN MaxThreadsPerProcess + 1 - t ELSE NoData]]
    /\ nextUserThreadid = [p \in Processes |->
           IF p = "sender" THEN MaxThreadsPerProcess + 1 ELSE 1]
    /\ \E id \in {-1, 0} :
           memory = [p \in Processes |-> [c \in Cells |-> IF p = "sender" THEN id ELSE 0]]
    /\ semList = [p \in Processes |-> [id \in Bits(MaxSem) |-> NULL]]
    /\ on = [p \in Processes |-> [t \in Threads |-> NULL]]
    /\ regs = [p \in Processes |-> [t \in Threads |->
           [r \in Registers |-> IF r = R4 THEN NoCall ELSE 0]]]
    /\ crashed = FALSE
    /\ out = At("user")
    /\ in = At("listen")
    /\ mail = <<>>
    /\ result = NULL
    /\ before = NULL
    /\ skewed = FALSE

-------------------------------------------------------------------------------
(* The threads of the two processes.                                         *)

\* The main thread of the sender is in user code unless it is in SendProcess.
\* (Bound: what the threads that stay behind do after it is not followed.)
Runs(p, t) == p = "sender" => (t = Main => out.at = "user") /\ result = NULL

\* The transfer, if there is one, is disturbed.
Disturbs == before' = NULL

UserStep(p, t) ==
    /\ Runs(p, t)
    /\ SemStep(p, t)
    /\ Disturbs
    /\ UNCHANGED <<tables, out, in, mail, result, skewed>>

\* do_UserThreadExit, up to the slot and the count.
ThreadExit(p, t) ==
    /\ t # Main /\ Runs(p, t) /\ Free(p, t)
    /\ pc' = [pc EXCEPT ![p][t] = "done"]
    /\ nThreads' = [nThreads EXCEPT ![p] = @ - 1]
    /\ Disturbs
    /\ UNCHANGED <<memory, semList, on, regs, crashed, ids, nextUserThreadid, out, in,
                   mail, result, skewed>>

-------------------------------------------------------------------------------
(* SendProcess.                                                              *)

\* UpdatePC has been done when SendProcess starts.
SendProcess ==
    /\ Free("sender", Main) /\ out.at = "user" /\ result = NULL
    /\ out' = At("connect")
    /\ Returned("sender", Main)
    /\ UNCHANGED <<memory, semList, pc, on, crashed, tables, in, mail, result, history>>

\* Connect found no free box or the machine's own address: SendProcess follows
\* the NULL it returned.
ConnectFails ==
    /\ out.at = "connect" /\ ~ crashed
    /\ crashed' = TRUE
    /\ UNCHANGED <<memory, semList, pc, on, regs, tables, out, in, mail, result, history>>

\* The Connect of one machine and the Listen of the other return.
Connect ==
    /\ out.at = "connect" /\ in.at = "listen" /\ ~ crashed
    /\ out' = At("pages")
    /\ in' = At("accept")
    /\ before' = Snapshot("sender")
    /\ UNCHANGED <<semVars, tables, mail, result, skewed>>

Sending == out.at \notin {"user", "connect", "disconnect"} /\ ~ crashed

\* Nobody will receive, or make sense of, what is sent.
Unread == in.at = "refused" \/ skewed

\* (Bound: how far the sender is ahead of a receiver that still reads.)
MayLead == Len(mail) < MaxLead \/ Unread

\* What SendProcess reads and sends next.
SentItem ==
    LET p == "sender"
    IN  CASE out.at = "pages" -> NumPages
          [] out.at = "memory" -> memory[p][out.i]
          [] out.at = "registers" -> regs[p][Main][out.r]
          [] out.at = "semaphores" -> Values(p)[out.i]
          [] out.at = "nThreads" -> nThreads[p]
          [] out.at = "threads" -> IF out.i + 1 \in Live(p) THEN ids[p][out.i + 1] ELSE NoData
          [] out.at = "threadRegisters" -> regs[p][out.i + 1][out.r]

\* The end of a turn of a loop over n indexes, and of one over the registers.
NextIndex(loop, n, after) == IF loop.i + 1 < n THEN [loop EXCEPT !.i = @ + 1] ELSE after

NextRegister(loop, after) == IF loop.r < R4 THEN [loop EXCEPT !.r = @ + 1] ELSE after

NextThread(loop, after) ==
    NextIndex([at |-> "threads", i |-> loop.i, r |-> POS], MaxThreadsPerProcess, after)

\* Where SendProcess is after it has sent SentItem.
SendLoop ==
    CASE out.at = "pages" -> At("memory")
      [] out.at = "memory" -> NextIndex(out, NumCells, At("registers"))
      [] out.at = "registers" -> NextRegister(out, At("semaphores"))
      [] out.at = "semaphores" -> NextIndex(out, MaxSem, At("nThreads"))
      [] out.at = "nThreads" -> At("threads")
      [] out.at = "threads" -> IF SentItem # NoData THEN [out EXCEPT !.at = "threadRegisters"]
                               ELSE NextThread(out, At("disconnect"))
      [] out.at = "threadRegisters" -> NextRegister(out, NextThread(out, At("disconnect")))

Send ==
    /\ Sending /\ MayLead
    /\ mail' = IF Unread THEN mail ELSE Append(mail, SentItem)
    /\ out' = SendLoop
    /\ UNCHANGED <<semVars, tables, in, result, history>>

\* Send returns false, whether the other side has the message or not.  The
\* result of the first Send is not looked at; the next message has its number.
SendFails ==
    /\ Sending /\ MayLead
    /\ \/ UNCHANGED mail
       \/ ~ Unread /\ mail' = Append(mail, SentItem)
    /\ IF out.at = "pages"
       THEN out' = SendLoop /\ skewed' = TRUE /\ UNCHANGED result
       ELSE out' = At("user") /\ result' = -1 /\ UNCHANGED skewed
    /\ UNCHANGED <<semVars, tables, in, before>>

\* Disconnect; then the main thread goes on with result 0, or to its exit.
SendReturns(shouldStop) ==
    /\ out.at = "disconnect" /\ ~ crashed
    /\ out' = At("user")
    /\ result' = 0
    /\ pc' = IF shouldStop THEN [pc EXCEPT !["sender"][Main] = "done"] ELSE pc
    /\ UNCHANGED <<memory, semList, on, regs, crashed, tables, in, mail, history>>

-------------------------------------------------------------------------------
(* ListenProcess.                                                            *)

\* Listen has returned.  When there are too many processes the connection
\* stays open and its messages are acknowledged and never received.
Accept ==
    /\ in.at = "accept" /\ ~ crashed
    /\ \E nUsedAddrSpace \in UsedSpaces :
           in' = At(IF nUsedAddrSpace >= MaxProcesses THEN "refused" ELSE "pages")
    /\ UNCHANGED <<semVars, tables, out, mail, result, history>>

\* Receive(c, ...) returns item.  After a skewed transfer the loops of the two
\* sides are out of step, and what is received means nothing.
Receives(stage) == in.at = stage /\ mail # <<>> /\ ~ skewed /\ ~ crashed /\ mail' = Tail(mail)

Item == Head(mail)

\* AddrSpace(nPages): the frames must be there.
ReceivePages ==
    /\ Receives("pages")
    /\ \E frames \in FreeFrames : crashed' = (frames < Item)
    /\ in' = At("memory")
    /\ UNCHANGED <<memory, semList, pc, on, regs, tables, out, result, history>>

ReceiveMemory ==
    /\ Receives("memory")
    /\ memory' = [memory EXCEPT !["receiver"][in.i] = Item]
    /\ in' = NextIndex(in, NumCells, At("registers"))
    /\ UNCHANGED <<semList, pc, on, regs, crashed, tables, out, result, history>>

\* (Mutant of ReceiveRegisters: all the registers are those of the sender.)
ReceiveRegistersAsSent ==
    /\ Receives("registers")
    /\ regs' = [regs EXCEPT !["receiver"][Main][in.r] = Item]
    /\ in' = NextRegister(in, At("semaphores"))
    /\ UNCHANGED <<memory, semList, pc, on, crashed, tables, out, result, history>>

\* At the end of the loop register 2 is set, the result of SendProcess here.
ReceiveRegisters ==
    /\ Receives("registers")
    /\ regs' = [regs EXCEPT !["receiver"][Main] =
           IF in.r < R4 THEN [@ EXCEPT ![in.r] = Item] ELSE [@ EXCEPT ![in.r] = Item, ![R2] = 1]]
    /\ in' = NextRegister(in, At("semaphores"))
    /\ UNCHANGED <<memory, semList, pc, on, crashed, tables, out, result, history>>

ReceiveSemaphores ==
    /\ Receives("semaphores")
    /\ semList' = IF Item = NoData THEN semList
                  ELSE [semList EXCEPT !["receiver"][in.i] = [value |-> Item, queue |-> <<>>]]
    /\ in' = NextIndex(in, MaxSem, At("nThreads"))
    /\ UNCHANGED <<memory, pc, on, regs, crashed, tables, out, result, history>>

ReceiveNThreads ==
    /\ Receives("nThreads")
    /\ nThreads' = [nThreads EXCEPT !["receiver"] = Item]
    /\ in' = At("threads")
    /\ UNCHANGED <<semVars, ids, nextUserThreadid, out, result, history>>

\* (Mutant of Finishes: only the other threads are forked.)
FinishesWithoutMain(loop, pcs) == in' = loop /\ pc' = pcs

\* The last slot is followed by the Fork of the main thread, the Disconnect and
\* the return of ListenProcess, which nothing comes between.
Finishes(loop, pcs) ==
    /\ in' = loop
    /\ pc' = IF loop.at = "done" THEN [pcs EXCEPT !["receiver"][Main] = "user"] ELSE pcs

ReceiveThread ==
    /\ Receives("threads")
    /\ IF Item = NoData
       THEN Finishes(NextThread(in, At("done")), pc) /\ UNCHANGED <<ids, nextUserThreadid>>
       ELSE /\ in' = [in EXCEPT !.at = "threadRegisters"]
            /\ ids' = [ids EXCEPT !["receiver"][in.i + 1] = Item]
            /\ nextUserThreadid' = [nextUserThreadid EXCEPT !["receiver"] = Max({@, Item + 1})]
            /\ UNCHANGED pc
    /\ UNCHANGED <<memory, semList, on, regs, crashed, nThreads, out, result, history>>

\* With its last register a thread is forked, before the rest has arrived.
ReceiveThreadRegisters ==
    /\ Receives("threadRegisters")
    /\ regs' = [regs EXCEPT !["receiver"][in.i + 1][in.r] = Item]
    /\ IF in.r < R4 THEN in' = NextRegister(in, in) /\ UNCHANGED pc
       ELSE Finishes(NextThread(in, At("done")), [pc EXCEPT !["receiver"][in.i + 1] = "user"])
    /\ UNCHANGED <<memory, semList, on, crashed, tables, out, result, history>>

Receive ==
    \/ Accept \/ ReceivePages \/ ReceiveMemory \/ ReceiveRegisters \/ ReceiveSemaphores
    \/ ReceiveNThreads \/ ReceiveThread \/ ReceiveThreadRegisters

-------------------------------------------------------------------------------

Next ==
    \/ \E p \in Processes, t \in Threads : UserStep(p, t) \/ ThreadExit(p, t)
    \/ SendProcess \/ ConnectFails \/ Connect \/ Send \/ SendFails
    \/ \E shouldStop \in BOOLEAN : SendReturns(shouldStop)
    \/ Receive

\* The two kernels go on; programs and the failures of the network have no
\* fairness.
Spec ==
    /\ Init /\ [][Next]_vars
    /\ WF_vars(Send) /\ WF_vars(SendReturns(TRUE) \/ SendReturns(FALSE)) /\ WF_vars(Receive)

-------------------------------------------------------------------------------

Transferred == in.at = "done" /\ before # NULL /\ ~ skewed

\* A process that nobody disturbed arrives whole, whatever the sender was told:
\* when ListenProcess returns, the new process has the memory and the registers
\* the old one had when it connected, its main thread with result 1, every
\* thread in its slot and with its id, a thread that was inside SemWait about to
\* call it again, the semaphores with the tokens that were left, the count its
\* exit will wait for, and no id to give out that a thread has.
ArrivesWhole ==
    Transferred =>
        /\ memory["receiver"] = before.memory
        /\ regs["receiver"][Main] = [before.regs[Main] EXCEPT ![R2] = 1]
        /\ Live("receiver") = before.live
        /\ \A t \in before.live :
               /\ regs["receiver"][t] = before.regs[t]
               /\ ids["receiver"][t] = before.ids[t]
               /\ pc["receiver"][t] = "user"
        /\ Values("receiver") = before.sems
        /\ nThreads["receiver"] = Cardinality(before.live)
        /\ \A t \in before.live : nextUserThreadid["receiver"] > before.ids[t]

\* SendProcess returns once it is connected, and a process that was sent runs:
\* when it has reported success the main thread starts at the receiver, unless
\* that machine had too many processes or too few frames, or the lost first
\* message put the two sides out of step.
SentProcessRuns ==
    /\ Sending ~> out.at = "user" \/ crashed
    /\ (result = 0) ~> (pc["receiver"][Main] # "none" \/ in.at = "refused" \/ skewed \/ crashed)
==============================================================================
