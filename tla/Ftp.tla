--------------------------------- MODULE Ftp ---------------------------------
(***************************************************************************)
(* network/ftp.cc: a server that handles each client in a thread of its    *)
(* own, and clients that read a file from it or write one to it.           *)
(*                                                                         *)
(* A session is one call of FTPClientAction on a machine, with the handler *)
(* that the server forks for it.  Both sides send and receive a file in    *)
(* the same steps, except that only the server waits for the other side to *)
(* be ready.  Messages keep their order and arrive once (Channel), or not  *)
(* at all when the post office gives up: nobody looks at what Send         *)
(* returns.  A call of the file system is one step, together with the      *)
(* message that tells the other side how it went.                          *)
(***************************************************************************)
EXTENDS Integers, Sequences, FiniteSets

CONSTANTS
    Sessions,
    Placements,     \* the ways in which the sessions are spread over the machines
    ServerAddr,
    Names,
    MaxClients,     \* MAXCLIENTS
    MaxLost,        \* bound: messages that are lost
    MaxGrown        \* bound: changes of a client's files by its other programs

ASSUME FtpAssumption ==
    /\ MaxClients \in Nat /\ MaxLost \in Nat /\ MaxGrown \in Nat
    /\ ServerAddr \in 0 .. (MaxClients - 1)
    /\ Placements \subseteq [Sessions -> (0 .. (MaxClients - 1)) \ {ServerAddr}]

\* A file is the first len pieces of what machine "of" wrote into it.
Absent == [of |-> ServerAddr, len |-> -1]
Empty == [of |-> ServerAddr, len |-> 0]
Prefix(file, n) == IF n = 0 THEN Empty ELSE [file EXCEPT !.len = n]

Message(type, size, piece) == [type |-> type, size |-> size, piece |-> piece]
Notification(type) == Message(type, 0, Empty)

VARIABLES
    host,           \* host[s]: the address of the machine on which session s is
    state,          \* state[m]: "up", or how machine m stopped
    clientMap, nbClients,
    files,          \* files[m][name]
    opened,         \* opened[m]: the files that are open on m
    inbox,          \* inbox[side][s]: the messages on their way
    pc,             \* pc[side][s]
    request,        \* what a session asks for: "r" or "w", and the file
    job,            \* job[side][s]: the size and the data of the file at hand
    result,         \* what FTPClientAction returns
    rejected,       \* the sessions that the server told to disconnect at once
    lost, grown,    \* counters
    seen            \* history: the file as it was when its sender read it

setting == <<host, request>>
server == <<clientMap, nbClients, rejected>>
disks == <<files, opened>>
mail == <<inbox, lost>>
vars == <<state, server, disks, mail, pc, setting, job, result, grown, seen>>

Sides == {"client", "server"}
Other(side) == IF side = "client" THEN "server" ELSE "client"
Machine(side, s) == IF side = "client" THEN host[s] ELSE ServerAddr
Machines == {ServerAddr} \cup {host[s] : s \in Sessions}

Init ==
    /\ host \in Placements
    /\ state = [m \in Machines |-> "up"]
    /\ clientMap = {ServerAddr} /\ nbClients = 0
    /\ \E has \in SUBSET (Machines \X Names) :
           files = [m \in Machines |-> [n \in Names |->
                       IF <<m, n>> \in has THEN [of |-> m, len |-> 1] ELSE Absent]]
    /\ opened = [m \in Machines |-> {}]
    /\ inbox = [side \in Sides |-> [s \in Sessions |-> <<>>]]
    /\ pc = [side \in Sides |-> [s \in Sessions |-> "start"]]
    /\ request \in [Sessions -> {"r", "w"} \X Names]
    /\ job = [side \in Sides |-> [s \in Sessions |-> [size |-> 0, piece |-> Empty]]]
    /\ result = [s \in Sessions |-> "none"]
    /\ rejected = {} /\ lost = 0 /\ grown = 0
    /\ seen = [s \in Sessions |-> Absent]

Name(s) == request[s][2]

-------------------------------------------------------------------------------
(* The parts of a step.                                                      *)

At(side, s, where) == pc[side][s] = where /\ state[Machine(side, s)] = "up"

Goto(side, s, where) == pc' = [pc EXCEPT ![side][s] = where]

\* SendFile, ReceiveFile and SendFileRequest return to their caller: the handler
\* waits for a request, the client disconnects.
Returns(side, s, value) ==
    /\ Goto(side, s, IF side = "server" THEN "serve" ELSE "disconnect")
    /\ result' = IF side = "server" THEN result ELSE [result EXCEPT ![s] = value]

\* An ASSERT fails: the machine stops.
Aborts(m) == state' = [state EXCEPT ![m] = "aborted"]

\* postOffice->Send.
Sends(side, s, msg) ==
    \/ inbox' = [inbox EXCEPT ![Other(side)][s] = Append(@, msg)] /\ UNCHANGED lost
    \/ lost < MaxLost /\ lost' = lost + 1 /\ UNCHANGED inbox

\* postOffice->Receive.
Receives(side, s) ==
    /\ inbox[side][s] # <<>>
    /\ inbox' = [inbox EXCEPT ![side][s] = Tail(@)]
    /\ UNCHANGED lost

Received(side, s) == Head(inbox[side][s])

\* ClientConfirmation and ServerConfirmation: OK, ERROR, or a failed ASSERT.
Confirmation(side, s, yes, no) ==
    /\ Receives(side, s)
    /\ LET type == Received(side, s).type
       IN  IF type \in {"OK", "ERROR"}
           THEN Goto(side, s, IF type = "OK" THEN yes ELSE no) /\ UNCHANGED state
           ELSE Aborts(Machine(side, s)) /\ UNCHANGED pc

File(side, s) == files[Machine(side, s)][Name(s)]

Puts(side, s, file) == files' = [files EXCEPT ![Machine(side, s)][Name(s)] = file]

IsOpen(side, s) == Name(s) \in opened[Machine(side, s)]

Opens(side, s) == opened' = [opened EXCEPT ![Machine(side, s)] = @ \cup {Name(s)}]

Closes(side, s) == opened' = [opened EXCEPT ![Machine(side, s)] = @ \ {Name(s)}]

\* The call of the file system failed: the other side is told.
Fails(side, s) ==
    /\ Sends(side, s, Notification("ERROR"))
    /\ Returns(side, s, "failed")
    /\ UNCHANGED <<disks, job, seen>>

-------------------------------------------------------------------------------
(* SendFile, of both sides.                                                  *)

SourceSize(side, s) ==
    /\ At(side, s, "size")
    /\ \/ File(side, s) = Absent /\ Fails(side, s)
       \/ /\ File(side, s) # Absent
          /\ job' = [job EXCEPT ![side][s].size = File(side, s).len]
          /\ Goto(side, s, "open")
          /\ UNCHANGED <<disks, mail, result, seen>>
    /\ UNCHANGED <<state, server, setting, grown>>

\* OpenFile fails for a file that is open already or has gone, and when the table
\* of open files is full.
SourceOpen(side, s) ==
    /\ At(side, s, "open")
    /\ \/ Fails(side, s)
       \/ /\ File(side, s) # Absent /\ ~IsOpen(side, s)
          /\ Opens(side, s)
          /\ Goto(side, s, "read")
          /\ UNCHANGED <<files, mail, job, result, seen>>
    /\ UNCHANGED <<state, server, setting, grown>>

\* Mutant: what remains in the file after the read is not looked for.
ReadFileUnchecked(file, size) == size <= file.len

\* ReadFile succeeds: size bytes can be read, and no more after them; if none are
\* asked for, none ever remain.
ReadFile(file, size) == size = 0 \/ size = file.len

SourceRead(side, s) ==
    /\ At(side, s, "read")
    /\ IF ReadFile(File(side, s), job[side][s].size)
       THEN /\ job' = [job EXCEPT ![side][s].piece = Prefix(File(side, s), job[side][s].size)]
            /\ seen' = [seen EXCEPT ![s] = File(side, s)]
            /\ Sends(side, s, Message("OK", job[side][s].size, Empty))
            /\ Goto(side, s, IF side = "server" THEN "ready" ELSE "send")
       ELSE /\ Sends(side, s, Notification("ERROR"))
            /\ Goto(side, s, "drop")
            /\ UNCHANGED <<job, seen>>
    /\ UNCHANGED <<state, server, disks, setting, result, grown>>

\* The server waits until the client is ready; both wait until the data is stored.
SourceWait(side, s) ==
    /\ \/ At(side, s, "ready") /\ Confirmation(side, s, "send", "drop")
       \/ At(side, s, "stored") /\ Confirmation(side, s, "close", "drop")
    /\ UNCHANGED <<server, disks, setting, job, result, grown, seen>>

SourceSend(side, s) ==
    /\ At(side, s, "send")
    /\ Sends(side, s, Message("FILEDATA", job[side][s].size, job[side][s].piece))
    /\ Goto(side, s, "stored")
    /\ UNCHANGED <<state, server, disks, setting, job, result, grown, seen>>

\* Mutant: after an error the file stays open.
SourceCloseDone(side, s) ==
    /\ \/ /\ At(side, s, "close")
          /\ Sends(side, s, Notification("OK"))
          /\ Returns(side, s, "done")
          /\ Closes(side, s)
       \/ At(side, s, "drop") /\ Returns(side, s, "failed") /\ UNCHANGED <<mail, opened>>
    /\ UNCHANGED <<state, server, files, setting, job, grown, seen>>

SourceClose(side, s) ==
    /\ \/ At(side, s, "close") /\ Sends(side, s, Notification("OK")) /\ Returns(side, s, "done")
       \/ At(side, s, "drop") /\ Returns(side, s, "failed") /\ UNCHANGED mail
    /\ Closes(side, s)
    /\ UNCHANGED <<state, server, files, setting, job, grown, seen>>

-------------------------------------------------------------------------------
(* ReceiveFile, of both sides.                                               *)

\* CreateFile fails if the file exists, and when the disk or the directory is full.
SinkCreate(side, s) ==
    /\ At(side, s, "create")
    /\ \/ Fails(side, s)
       \/ /\ File(side, s) = Absent
          /\ Puts(side, s, Empty)
          /\ Goto(side, s, "openNew")
          /\ UNCHANGED <<opened, mail, job, result, seen>>
    /\ UNCHANGED <<state, server, setting, grown>>

\* Mutant: the other side is not told that the file could not be opened.
SinkOpenSilent(side, s) ==
    /\ At(side, s, "openNew")
    /\ \/ Returns(side, s, "failed") /\ UNCHANGED <<mail, opened>>
       \/ /\ File(side, s) # Absent /\ ~IsOpen(side, s)
          /\ Opens(side, s)
          /\ Sends(side, s, Notification("OK"))
          /\ Goto(side, s, IF side = "server" THEN "await" ELSE "data")
          /\ UNCHANGED result
    /\ UNCHANGED <<state, server, files, setting, job, grown, seen>>

\* If OpenFile fails the new file stays.
SinkOpen(side, s) ==
    /\ At(side, s, "openNew")
    /\ \/ Fails(side, s)
       \/ /\ File(side, s) # Absent /\ ~IsOpen(side, s)
          /\ Opens(side, s)
          /\ Sends(side, s, Notification("OK"))
          /\ Goto(side, s, IF side = "server" THEN "await" ELSE "data")
          /\ UNCHANGED <<files, job, result, seen>>
    /\ UNCHANGED <<state, server, setting, grown>>

\* The server waits until the client is ready; both wait for the end.
SinkWait(side, s) ==
    /\ \/ At(side, s, "await") /\ Confirmation(side, s, "data", "discard")
       \/ At(side, s, "confirm") /\ Confirmation(side, s, "keep", "discard")
    /\ UNCHANGED <<server, disks, setting, job, result, grown, seen>>

\* The data, with the ASSERTs on its type and size.
SinkReceive(side, s) ==
    /\ At(side, s, "data")
    /\ Receives(side, s)
    /\ LET msg == Received(side, s)
       IN  IF msg.type = "FILEDATA" /\ msg.size = job[side][s].size
           THEN /\ job' = [job EXCEPT ![side][s].piece = msg.piece]
                /\ Goto(side, s, "write")
                /\ UNCHANGED state
           ELSE Aborts(Machine(side, s)) /\ UNCHANGED <<job, pc>>
    /\ UNCHANGED <<server, disks, setting, result, grown, seen>>

\* WriteFile fails when the disk is full.
SinkWrite(side, s) ==
    /\ At(side, s, "write")
    /\ \/ /\ Puts(side, s, job[side][s].piece)
          /\ Sends(side, s, Notification("OK"))
          /\ Goto(side, s, "confirm")
       \/ /\ job[side][s].size > 0
          /\ Sends(side, s, Notification("ERROR"))
          /\ Goto(side, s, "discard")
          /\ UNCHANGED files
    /\ UNCHANGED <<state, server, opened, setting, job, result, grown, seen>>

SinkClose(side, s) ==
    /\ \/ At(side, s, "keep") /\ Returns(side, s, "done")
       \/ At(side, s, "discard") /\ Goto(side, s, "remove") /\ UNCHANGED result
    /\ Closes(side, s)
    /\ UNCHANGED <<state, server, files, mail, setting, job, grown, seen>>

\* RemoveFile, which fails for a file that is open again.
SinkRemove(side, s) ==
    /\ At(side, s, "remove")
    /\ IF IsOpen(side, s) THEN UNCHANGED files ELSE Puts(side, s, Absent)
    /\ Returns(side, s, "failed")
    /\ UNCHANGED <<state, server, opened, mail, setting, job, grown, seen>>

SendsFile(side, s) ==
    \/ SourceSize(side, s) \/ SourceOpen(side, s) \/ SourceRead(side, s) \/ SourceWait(side, s)
    \/ SourceSend(side, s) \/ SourceClose(side, s)

ReceivesFile(side, s) ==
    \/ SinkCreate(side, s) \/ SinkOpen(side, s) \/ SinkWait(side, s) \/ SinkReceive(side, s)
    \/ SinkWrite(side, s) \/ SinkClose(side, s) \/ SinkRemove(side, s)

-------------------------------------------------------------------------------
(* The server.                                                               *)

ClientConnect(m) ==
    IF nbClients >= MaxClients THEN UNCHANGED <<clientMap, nbClients>>
    ELSE clientMap' = clientMap \cup {m} /\ nbClients' = nbClients + 1

\* ServerRoutine: a connection is accepted, and given to a new thread or refused.
ServerRoutine(s) ==
    /\ At("server", s, "start") /\ pc["client"][s] = "accept"
    /\ IF host[s] \in clientMap
       THEN /\ rejected' = rejected \cup {s}
            /\ Sends("server", s, Notification("DISCONNECT"))
            /\ Goto("server", s, "end")
            /\ UNCHANGED <<clientMap, nbClients>>
       ELSE /\ ClientConnect(host[s])
            /\ Goto("server", s, "hello")
            /\ UNCHANGED <<rejected, mail>>
    /\ UNCHANGED <<state, disks, setting, job, result, grown, seen>>

\* HandleClient: its first notification, and the one for an invalid request.
Notifies(s) ==
    /\ \E where \in {"hello", "invalid"} :
           /\ At("server", s, where)
           /\ Sends("server", s, Notification(IF where = "hello" THEN "OK" ELSE "ERROR"))
    /\ Goto("server", s, "serve")
    /\ UNCHANGED <<state, server, disks, setting, job, result, grown, seen>>

\* HandleClient: a request.
Serves(s) ==
    /\ At("server", s, "serve")
    /\ Receives("server", s)
    /\ LET msg == Received("server", s)
       IN  /\ Goto("server", s, CASE msg.type = "READFILE" -> "size"
                                  [] msg.type = "WRITEFILE" -> "create"
                                  [] msg.type = "DISCONNECT" -> "bye"
                                  [] OTHER -> "invalid")
           /\ job' = [job EXCEPT !["server"][s].size = msg.size]
    /\ UNCHANGED <<state, server, disks, setting, result, grown, seen>>

\* HandleClient: the client's DISCONNECT is answered first.
SaysBye(s) ==
    /\ At("server", s, "bye")
    /\ Sends("server", s, Notification("DISCONNECT"))
    /\ Goto("server", s, "leave")
    /\ UNCHANGED <<state, server, disks, setting, job, result, grown, seen>>

\* Mutant: the client's bit stays set.
ClientDisconnectMarked(s) ==
    /\ At("server", s, "leave")
    /\ nbClients' = nbClients - 1
    /\ Goto("server", s, "end")
    /\ UNCHANGED <<state, clientMap, rejected, disks, mail, setting, job, result, grown, seen>>

ClientDisconnect(s) ==
    /\ At("server", s, "leave")
    /\ IF host[s] \in clientMap
       THEN /\ clientMap' = clientMap \ {host[s]} /\ nbClients' = nbClients - 1
            /\ Goto("server", s, "end")
            /\ UNCHANGED state
       ELSE Aborts(ServerAddr) /\ UNCHANGED <<clientMap, nbClients, pc>>
    /\ UNCHANGED <<rejected, disks, mail, setting, job, result, grown, seen>>

-------------------------------------------------------------------------------
(* The client.                                                               *)

\* Client::Connect: without a free mailbox the machine is halted.
Connect(s) ==
    /\ At("client", s, "start")
    /\ \/ Goto("client", s, "accept") /\ UNCHANGED state
       \/ state' = [state EXCEPT ![host[s]] = "halted"] /\ UNCHANGED pc
    /\ UNCHANGED <<server, disks, mail, setting, job, result, grown, seen>>

\* The server's first answer; after DISCONNECT conn is NULL and the ASSERT of
\* SendFileRequest fails.
Connected(s) ==
    /\ At("client", s, "accept")
    /\ Receives("client", s)
    /\ IF Received("client", s).type = "OK"
       THEN Goto("client", s, "request") /\ UNCHANGED state
       ELSE Aborts(host[s]) /\ UNCHANGED pc
    /\ UNCHANGED <<server, disks, setting, job, result, grown, seen>>

SendFileRequest(s) ==
    /\ At("client", s, "request")
    /\ \/ /\ request[s][1] = "w" /\ File("client", s) = Absent
          /\ Returns("client", s, "failed")
          /\ UNCHANGED mail
       \/ /\ \/ /\ request[s][1] = "r"
                /\ Sends("client", s, Notification("READFILE"))
             \/ /\ request[s][1] = "w" /\ File("client", s) # Absent
                /\ Sends("client", s, Message("WRITEFILE", File("client", s).len, Empty))
          /\ Goto("client", s, "answer")
          /\ UNCHANGED result
    /\ UNCHANGED <<state, server, disks, setting, job, grown, seen>>

\* The server's answer to the request, with the size of a file to be received.
Answered(s) ==
    /\ At("client", s, "answer")
    /\ Receives("client", s)
    /\ LET msg == Received("client", s)
       IN  /\ job' = [job EXCEPT !["client"][s].size = msg.size]
           /\ CASE msg.type = "OK" ->
                       /\ Goto("client", s, IF request[s][1] = "r" THEN "create" ELSE "size")
                       /\ UNCHANGED <<state, result>>
                [] msg.type = "ERROR" -> Returns("client", s, "failed") /\ UNCHANGED state
                [] OTHER -> Aborts(host[s]) /\ UNCHANGED <<pc, result>>
    /\ UNCHANGED <<server, disks, setting, grown, seen>>

\* Client::Disconnect.
Disconnect(s) ==
    /\ At("client", s, "disconnect")
    /\ Sends("client", s, Notification("DISCONNECT"))
    /\ Goto("client", s, "goodbye")
    /\ UNCHANGED <<state, server, disks, setting, job, result, grown, seen>>

Disconnected(s) ==
    /\ At("client", s, "goodbye")
    /\ Receives("client", s)
    /\ IF Received("client", s).type = "DISCONNECT"
       THEN Goto("client", s, "end") /\ UNCHANGED state
       ELSE Aborts(host[s]) /\ UNCHANGED pc
    /\ UNCHANGED <<server, disks, setting, job, result, grown, seen>>

\* Another program of a client's machine adds to a file that is not open.
Grows(m, n) ==
    /\ m # ServerAddr /\ state[m] = "up" /\ grown < MaxGrown
    /\ files[m][n] # Absent /\ n \notin opened[m]
    /\ files' = [files EXCEPT ![m][n] = [of |-> m, len |-> @.len + 1]]
    /\ grown' = grown + 1
    /\ UNCHANGED <<state, server, opened, mail, pc, setting, job, result, seen>>

ClientStep(s) ==
    \/ Connected(s) \/ SendFileRequest(s) \/ Answered(s) \/ Disconnect(s) \/ Disconnected(s)
    \/ SendsFile("client", s) \/ ReceivesFile("client", s)

ServerStep(s) ==
    \/ ServerRoutine(s) \/ Notifies(s) \/ Serves(s) \/ SaysBye(s) \/ ClientDisconnect(s)
    \/ SendsFile("server", s) \/ ReceivesFile("server", s)

Next ==
    \/ \E s \in Sessions : Connect(s) \/ ClientStep(s) \/ ServerStep(s)
    \/ \E m \in Machines, n \in Names : Grows(m, n)

Spec == Init /\ [][Next]_vars

\* Threads of both sides run (ReadyRuns of Synch); nobody has to call the client.
FairSpec == Spec /\ \A s \in Sessions : WF_vars(ClientStep(s)) /\ WF_vars(ServerStep(s))

-------------------------------------------------------------------------------
(* Properties.                                                               *)

TypeOK ==
    /\ state \in [Machines -> {"up", "halted", "aborted"}]
    /\ clientMap \subseteq Machines /\ nbClients \in 0 .. MaxClients
    /\ \A m \in Machines, n \in Names : files[m][n].of \in Machines /\ files[m][n].len >= -1
    /\ \A m \in Machines : opened[m] \subseteq Names
    /\ result \in [Sessions -> {"none", "done", "failed"}]
    /\ rejected \subseteq Sessions

\* Handlers that have a client, and those that have the file open.
Handling(s) == pc["server"][s] \notin {"start", "end"}
Holds(side, s) ==
    pc[side][s] \in {"read", "ready", "send", "stored", "close", "drop",
                     "await", "data", "write", "confirm", "keep", "discard"}

\* A machine has at most one handler, the map shows which machines have one, and
\* nbClients counts them; so the branch for a full server is never taken.  Unless
\* messages were lost or a client's file changed, no ASSERT of the server fails,
\* and none of a client, except on a machine that was refused.
ServerSound ==
    /\ TypeOK
    /\ \A s, r \in Sessions : Handling(s) /\ Handling(r) /\ s # r => host[s] # host[r]
    /\ clientMap = {ServerAddr} \cup {host[s] : s \in {r \in Sessions : Handling(r)}}
    /\ nbClients = Cardinality(clientMap) - 1 /\ nbClients < MaxClients
    /\ lost = 0 =>
        /\ state[ServerAddr] = "aborted" => grown > 0
        /\ \A m \in Machines \ {ServerAddr} :
               state[m] = "aborted" => \E s \in rejected : host[s] = m

\* A file is open exactly as long as one transfer of its machine holds it: no path
\* leaks a descriptor, and no two transfers share a file.
OpenHasOneHolder ==
    \A m \in Machines, n \in Names :
        LET holders == {h \in Sides \X Sessions :
                            /\ Machine(h[1], h[2]) = m /\ Name(h[2]) = n
                            /\ Holds(h[1], h[2])}
        IN  Cardinality(holders) = IF n \in opened[m] THEN 1 ELSE 0

\* A call that reports success has put, under the file's name on the other side,
\* what its sender read, whole; or nothing, if the file was empty when its size
\* was asked for; and what has been stored on the server is not changed by any
\* later session.
SuccessLasts ==
    [][/\ \A s \in Sessions :
            result[s] # "done" /\ result'[s] = "done" =>
                LET copy == files[IF request[s][1] = "r" THEN host[s] ELSE ServerAddr][Name(s)]
                IN  copy \in {seen[s], Empty}
       /\ \A n \in Names : LET stored == files[ServerAddr][n]
                          IN  stored.len > 0 => files'[ServerAddr][n] = stored]_vars

\* Unless a message is lost or a machine stops, every session ends on both sides:
\* client and handler never wait for each other.
SessionsEnd ==
    \A s \in Sessions :
        pc["client"][s] = "accept" ~>
            \/ pc["client"][s] = "end" /\ pc["server"][s] = "end"
            \/ lost > 0 \/ \E m \in Machines : state[m] # "up"
==============================================================================
