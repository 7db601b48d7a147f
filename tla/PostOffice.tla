------------------------------ MODULE PostOffice -----------------------------
(***************************************************************************)
(* network/post.cc: connections between two machines over a network that   *)
(* loses packets (machine/network.cc), with acknowledgements, timeouts,    *)
(* retransmission and segmentation.                                        *)
(*                                                                         *)
(* Each machine runs one application thread, which opens a connection,     *)
(* sends and receives messages on it and closes it, its postal worker      *)
(* (PostalDelivery) and the timer of NetworkSendWaitHandler.  What a       *)
(* thread does under ackLock, up to where it sleeps or lets go of the      *)
(* lock, is one step.  The content of a segment is the name of its         *)
(* message and its index.                                                  *)
(***************************************************************************)
EXTENDS BitMap, Sequences

CONSTANTS
    NumBoxes,         \* mailboxes of a machine
    MaxReemissions,   \* MAXREEMISSIONS
    MaxSegmentSize,
    Lengths,          \* the lengths of the messages that are sent
    MaxTime,          \* bound on the seconds that time(0) advances
    MaxConnects,      \* bound on the connections a machine opens
    ClientSends, ServerSends,   \* bounds on the messages the machines send
    Lossy             \* whether the network may lose packets

ASSUME PostAssumption ==
    /\ NumBoxes \in Nat \ {0, 1} /\ MaxReemissions \in Nat \ {0}
    /\ MaxSegmentSize \in Nat \ {0, 1} /\ Lengths \subseteq Nat \ {0}
    /\ MaxTime \in Nat /\ MaxConnects \in Nat /\ ClientSends \in Nat /\ ServerSends \in Nat
    /\ Lossy \in BOOLEAN

LISTEN_BOX == 0
Boxes == Bits(NumBoxes)

Machines == {"client", "server"}

Peer(m) == IF m = "client" THEN "server" ELSE "client"

MaxSends(m) == IF m = "client" THEN ClientSends ELSE ServerSends

\* The number of segments of a message.
NbSegments(length) ==
    IF length % MaxSegmentSize = 0 THEN length \div MaxSegmentSize
    ELSE length \div MaxSegmentSize + 1

\* CONN and its answer "C" fit into one segment.
ShortLength == 1

VARIABLES
    network,         \* network[m]: the packets on their way to m
    messages,        \* messages[m][b]: the mail in box b of m
    waitedId,
    ackId,
    usedBoxes,
    connections,     \* the CONNs a machine has accepted
    clock,           \* time(0) at the last Connect
    pc,
    call,            \* the call of the post office the thread is in or returned from
    sending,         \* the message it is sending
    pOut, pIn,       \* the payloads of its connection
    segIndex,
    nReemissions,
    got,             \* the segments the last Receive has copied
    nConnects, nSends,
    offered, acked, accepted, failed    \* history: see Channel

boxes == <<messages, waitedId, ackId, usedBoxes, connections>>
thread == <<call, sending, segIndex, nReemissions, got, nConnects, nSends>>
payloads == <<pOut, pIn>>
history == <<offered, acked, accepted, failed>>
vars == <<network, boxes, clock, pc, thread, payloads, history>>

Init ==
    /\ network = [m \in Machines |-> <<>>]
    /\ messages = [m \in Machines |-> [b \in Boxes |-> <<>>]]
    /\ waitedId = [m \in Machines |-> [b \in Boxes |-> 0]]
    /\ ackId = [m \in Machines |-> [b \in Boxes |-> -1]]
    /\ usedBoxes = [m \in Machines |-> {LISTEN_BOX}]
    /\ connections = [m \in Machines |-> {}]
    /\ clock = 0
    /\ pc = [m \in Machines |-> "closed"]
    /\ call = [m \in Machines |-> "none"]
    /\ sending = [m \in Machines |-> <<"DATA", 0>>]
    /\ pOut = [m \in Machines |-> [from |-> 0, to |-> 0, messageId |-> 0, length |-> 0,
                                   type |-> "DATA"]]
    /\ pIn = [m \in Machines |-> [from |-> 0, to |-> 0, length |-> 0]]
    /\ segIndex = [m \in Machines |-> 0]
    /\ nReemissions = [m \in Machines |-> 0]
    /\ got = [m \in Machines |-> <<>>]
    /\ nConnects = [m \in Machines |-> 0]
    /\ nSends = [m \in Machines |-> 0]
    /\ offered = [m \in Machines |-> <<>>]
    /\ acked = [m \in Machines |-> 0]
    /\ accepted = [m \in Machines |-> <<>>]
    /\ failed = [m \in Machines |-> FALSE]

-------------------------------------------------------------------------------
(* The SynchList of box b.  Its lock makes each operation one step; a Remove *)
(* waits while the list is empty.                                            *)

IsEmpty(m, b) == messages[m][b] = <<>>

AppendTo(m, b, mail) == messages' = [messages EXCEPT ![m][b] = Append(@, mail)]

RemoveFrom(m, b) == ~ IsEmpty(m, b) /\ messages' = [messages EXCEPT ![m][b] = Tail(@)]

\* It goes on, with NULL, when there is nothing to remove.
RemoveNoWaiting(m, b) ==
    messages' = IF IsEmpty(m, b) THEN messages ELSE [messages EXCEPT ![m][b] = Tail(@)]

-------------------------------------------------------------------------------
(* Sending.                                                                  *)

Segment(m, i) == <<sending[m][1], sending[m][2], i>>

\* SendPayload is about to send the first segment of message (kind, n).
StartSending(m, from, kind, n) ==
    /\ pc' = [pc EXCEPT ![m] = "emit"]
    /\ call' = [call EXCEPT ![m] = from]
    /\ sending' = [sending EXCEPT ![m] = <<kind, n>>]
    /\ segIndex' = [segIndex EXCEPT ![m] = 0]
    /\ nReemissions' = [nReemissions EXCEPT ![m] = 0]
    /\ offered' = [offered EXCEPT ![m] = Append(@, <<kind, n, 0>>)]

\* network->Send puts a packet into the peer's socket or drops it.
Sends(m, packet) ==
    \/ network' = [network EXCEPT ![Peer(m)] = Append(@, packet)]
    \/ Lossy /\ UNCHANGED network

\* The top of the loop of ReliableSendSegment, up to the Wait for the ACK.
Emit(m) ==
    /\ pc[m] = "emit"
    /\ Sends(m, [type |-> pOut[m].type, from |-> pOut[m].from, to |-> pOut[m].to,
                 messageId |-> pOut[m].messageId, length |-> pOut[m].length,
                 data |-> Segment(m, segIndex[m])])
    /\ pc' = [pc EXCEPT ![m] = "waitAck"]
    /\ UNCHANGED <<boxes, clock, thread, payloads, history>>

\* (Mutant of Timeout: only the first emission is timed.)
TimeoutOnce(m) ==
    /\ pc[m] = "waitAck" /\ nReemissions[m] = 0
    /\ pc' = [pc EXCEPT ![m] = "woken"]
    /\ UNCHANGED <<network, boxes, clock, thread, payloads, history>>

\* The timer broadcasts ackCond.
Timeout(m) ==
    /\ pc[m] = "waitAck"
    /\ pc' = [pc EXCEPT ![m] = "woken"]
    /\ UNCHANGED <<network, boxes, clock, thread, payloads, history>>

\* SendPayload returns to its caller: Connect goes on to receive the answer.
SendReturns(m) ==
    /\ pc' = [pc EXCEPT ![m] = IF call[m] = "Connect" THEN "get" ELSE "open"]
    /\ segIndex' = [segIndex EXCEPT ![m] = 0]
    /\ nReemissions' = [nReemissions EXCEPT ![m] = 0]

\* (Mutant of Acknowledged: any ACK will do.)
AcknowledgedByAny(m) == ackId[m][pOut[m].from] # -1

Acknowledged(m) == ackId[m][pOut[m].from] = pOut[m].messageId

SegmentAcked(m) ==
    /\ pc[m] = "woken"
    /\ Acknowledged(m)
    /\ pOut' = [pOut EXCEPT ![m].messageId = @ + 1]
    /\ acked' = [acked EXCEPT ![m] = @ + 1]
    /\ LET next == segIndex[m] + 1
       IN  IF next < NbSegments(pOut[m].length)
           THEN /\ pc' = [pc EXCEPT ![m] = "emit"]
                /\ segIndex' = [segIndex EXCEPT ![m] = next]
                /\ nReemissions' = [nReemissions EXCEPT ![m] = 0]
                /\ offered' = [offered EXCEPT ![m] = Append(@, Segment(m, next))]
           ELSE SendReturns(m) /\ UNCHANGED offered
    /\ UNCHANGED <<network, boxes, clock, call, sending, got, nConnects, nSends, pIn,
                   accepted, failed>>

SegmentNotAcked(m) ==
    /\ pc[m] = "woken"
    /\ ~ Acknowledged(m)
    /\ IF nReemissions[m] + 1 < MaxReemissions
       THEN /\ pc' = [pc EXCEPT ![m] = "emit"]
            /\ nReemissions' = [nReemissions EXCEPT ![m] = @ + 1]
            /\ UNCHANGED <<segIndex, failed>>
       ELSE /\ SendReturns(m)
            /\ failed' = [failed EXCEPT ![m] = TRUE]
    /\ UNCHANGED <<network, boxes, clock, call, sending, got, nConnects, nSends, payloads,
                   offered, acked, accepted>>

Send(m) ==
    /\ pc[m] = "open"
    /\ nSends[m] < MaxSends(m)
    /\ nSends' = [nSends EXCEPT ![m] = @ + 1]
    /\ \E length \in Lengths :
           pOut' = [pOut EXCEPT ![m].length = length, ![m].type = "DATA"]
    /\ StartSending(m, "Send", "DATA", nSends[m] + 1)
    /\ UNCHANGED <<network, boxes, clock, got, nConnects, pIn, acked, accepted, failed>>

-------------------------------------------------------------------------------
(* The postal worker.                                                        *)

\* The worker's ACK for packet.
AckFor(packet) ==
    [type |-> "ACK", from |-> packet.to, to |-> packet.from,
     messageId |-> packet.messageId, length |-> 0, data |-> <<"ACK", 0, 0>>]

\* No CONN of the same box, as young or younger, is remembered.
ValidConn(m, packet) ==
    \A c \in connections[m] :
        ~ (c.mailFrom = packet.from /\ c.connTimestamp >= packet.data[2])

Put(m, packet) ==
    /\ AppendTo(m, packet.to, packet)
    /\ accepted' = [accepted EXCEPT ![m] = Append(@, packet.data)]

ReceiveCONN(m, packet) ==
    /\ packet.type = "CONN" /\ packet.to = LISTEN_BOX
    /\ IF ValidConn(m, packet)
       THEN /\ Put(m, packet)
            /\ connections' = [connections EXCEPT ![m] =
                   @ \cup {[mailFrom |-> packet.from, connTimestamp |-> packet.data[2]]}]
       ELSE UNCHANGED <<messages, accepted, connections>>
    /\ UNCHANGED <<waitedId, ackId, pc>>

\* (Mutant of ReceiveDATA: old segments are not told apart.)
ReceiveDATAAgain(m, packet) ==
    /\ packet.type = "DATA"
    /\ IF packet.messageId <= waitedId[m][packet.to]
       THEN /\ Put(m, packet)
            /\ waitedId' = [waitedId EXCEPT ![m][packet.to] = @ + 1]
       ELSE UNCHANGED <<messages, accepted, waitedId>>
    /\ UNCHANGED <<connections, ackId, pc>>

ReceiveDATA(m, packet) ==
    /\ packet.type = "DATA"
    /\ IF packet.messageId = waitedId[m][packet.to]
       THEN /\ Put(m, packet)
            /\ waitedId' = [waitedId EXCEPT ![m][packet.to] = @ + 1]
       ELSE UNCHANGED <<messages, accepted, waitedId>>
    /\ UNCHANGED <<connections, ackId, pc>>

ReceiveACK(m, packet) ==
    /\ packet.type = "ACK"
    /\ ackId' = [ackId EXCEPT ![m][packet.to] = packet.messageId]
    /\ pc' = IF pc[m] = "waitAck" /\ pOut[m].from = packet.to
             THEN [pc EXCEPT ![m] = "woken"] ELSE pc
    /\ UNCHANGED <<messages, accepted, connections, waitedId>>

\* One turn of PostalDelivery.  Everything but an ACK is acknowledged,
\* whether it was put into a mailbox or not.
PostalDelivery(m) ==
    /\ network[m] # <<>>
    /\ LET packet == Head(network[m])
           rest == [network EXCEPT ![m] = Tail(@)]
       IN  /\ ReceiveCONN(m, packet) \/ ReceiveDATA(m, packet) \/ ReceiveACK(m, packet)
           /\ \/ /\ packet.type # "ACK"
                 /\ network' = [rest EXCEPT ![Peer(m)] = Append(@, AckFor(packet))]
              \/ /\ packet.type = "ACK" \/ Lossy
                 /\ network' = rest
    /\ UNCHANGED <<usedBoxes, clock, thread, payloads, offered, acked, failed>>

-------------------------------------------------------------------------------
(* Connecting, receiving, disconnecting.                                     *)

Connect(m) ==
    /\ m = "client" /\ pc[m] = "closed" /\ nConnects[m] < MaxConnects
    /\ LET box == Find(usedBoxes[m], NumBoxes)
       IN  /\ box # -1
           /\ usedBoxes' = [usedBoxes EXCEPT ![m] = @ \cup {box}]
           /\ waitedId' = [waitedId EXCEPT ![m][box] = 0]
           /\ pOut' = [pOut EXCEPT ![m] =
                  [from |-> box, to |-> LISTEN_BOX, messageId |-> 0, length |-> ShortLength,
                   type |-> "CONN"]]
    /\ nConnects' = [nConnects EXCEPT ![m] = @ + 1]
    /\ clock' \in clock .. MaxTime
    /\ StartSending(m, "Connect", "CONN", clock')
    /\ UNCHANGED <<network, messages, ackId, connections, got, nSends, pIn, acked,
                   accepted, failed>>

Listen(m) ==
    /\ m = "server" /\ pc[m] = "closed" /\ nConnects[m] < MaxConnects
    /\ LET box == Find(usedBoxes[m], NumBoxes)
       IN  /\ box # -1
           /\ usedBoxes' = [usedBoxes EXCEPT ![m] = @ \cup {box}]
           /\ waitedId' = [waitedId EXCEPT ![m][box] = 1]
           /\ pOut' = [pOut EXCEPT ![m] =
                  [from |-> box, to |-> LISTEN_BOX, messageId |-> 0, length |-> ShortLength,
                   type |-> "DATA"]]
    /\ nConnects' = [nConnects EXCEPT ![m] = @ + 1]
    /\ pc' = [pc EXCEPT ![m] = "get"]
    /\ call' = [call EXCEPT ![m] = "Listen"]
    /\ segIndex' = [segIndex EXCEPT ![m] = 0]
    /\ UNCHANGED <<network, messages, ackId, connections, clock, sending, nReemissions, got,
                   nSends, pIn, history>>

Receive(m) ==
    /\ pc[m] = "open"
    /\ pc' = [pc EXCEPT ![m] = "get"]
    /\ call' = [call EXCEPT ![m] = "Receive"]
    /\ segIndex' = [segIndex EXCEPT ![m] = 0]
    /\ got' = [got EXCEPT ![m] = <<>>]
    /\ UNCHANGED <<network, boxes, clock, sending, nReemissions, nConnects, nSends, payloads,
                   history>>

\* The box ReceivePayload takes the segments from.
ReceiveBox(m) == IF call[m] = "Listen" THEN LISTEN_BOX ELSE pOut[m].from

\* MailBox::Get, and at the last segment the rest of Connect, Listen or
\* Receive: Connect learns the box of the server, Listen answers "C".
Get(m) ==
    /\ pc[m] = "get"
    /\ RemoveFrom(m, ReceiveBox(m))
    /\ LET mail == Head(messages[m][ReceiveBox(m)])
       IN  /\ pIn' = [pIn EXCEPT ![m] =
                  [from |-> mail.from, to |-> mail.to, length |-> mail.length]]
           /\ got' = [got EXCEPT ![m] =
                  IF call[m] = "Receive" THEN Append(@, mail.data) ELSE @]
           /\ \/ /\ segIndex[m] + 1 < NbSegments(mail.length)
                 /\ segIndex' = [segIndex EXCEPT ![m] = @ + 1]
                 /\ UNCHANGED <<pc, call, sending, nReemissions, pOut, offered>>
              \/ /\ segIndex[m] + 1 >= NbSegments(mail.length)
                 /\ call[m] \in {"Connect", "Receive"}
                 /\ pc' = [pc EXCEPT ![m] = "open"]
                 /\ pOut' = IF call[m] = "Connect"
                            THEN [pOut EXCEPT ![m].to = mail.from, ![m].type = "DATA"]
                            ELSE pOut
                 /\ UNCHANGED <<call, sending, segIndex, nReemissions, offered>>
              \/ /\ segIndex[m] + 1 >= NbSegments(mail.length)
                 /\ call[m] = "Listen"
                 /\ pOut' = [pOut EXCEPT ![m].to = mail.from]
                 /\ StartSending(m, "Listen", "C", 0)
    /\ UNCHANGED <<network, waitedId, ackId, usedBoxes, connections, clock, nConnects, nSends,
                   acked, accepted, failed>>

\* DisconnectPayload up to its first Wait on disconnectCond.
Disconnect(m) ==
    /\ pc[m] = "open"
    /\ messages' = [messages EXCEPT ![m][pIn[m].to] = <<>>]
    /\ pc' = [pc EXCEPT ![m] = "closing"]
    /\ call' = [call EXCEPT ![m] = "Disconnect"]
    /\ UNCHANGED <<network, waitedId, ackId, usedBoxes, connections, clock, sending, segIndex,
                   nReemissions, got, nConnects, nSends, payloads, history>>

\* The timer signals disconnectCond: the first time the thread waits once
\* more, then until it finds the box empty.
DisconnectTick(m) ==
    /\ \/ /\ pc[m] = "closing"
          /\ pc' = [pc EXCEPT ![m] = "draining"]
          /\ UNCHANGED <<messages, waitedId, usedBoxes>>
       \/ /\ pc[m] = "draining"
          /\ RemoveNoWaiting(m, pIn[m].to)
          /\ IF ~ IsEmpty(m, pIn[m].to)
             THEN UNCHANGED <<pc, waitedId, usedBoxes>>
             ELSE /\ waitedId' = [waitedId EXCEPT ![m][pIn[m].to] = 0]
                  /\ usedBoxes' = [usedBoxes EXCEPT ![m] = @ \ {pIn[m].to}]
                  /\ pc' = [pc EXCEPT ![m] = "closed"]
    /\ UNCHANGED <<network, ackId, connections, clock, thread, payloads, history>>

-------------------------------------------------------------------------------

KernelStep(m) ==
    \/ Emit(m) \/ Timeout(m) \/ SegmentAcked(m) \/ SegmentNotAcked(m) \/ Get(m)
    \/ DisconnectTick(m)

ApplicationCall(m) ==
    Connect(m) \/ Listen(m) \/ Send(m) \/ Receive(m) \/ Disconnect(m)

Next ==
    \E m \in Machines : KernelStep(m) \/ PostalDelivery(m) \/ ApplicationCall(m)

Spec == Init /\ [][Next]_vars

\* The timers fire again and again, the network delivers what it did not lose
\* and the kernel's threads run; the server keeps listening.  Nothing makes an
\* application call Send, Receive or Disconnect.
FairSpec ==
    /\ Spec
    /\ \A m \in Machines : WF_vars(KernelStep(m)) /\ WF_vars(PostalDelivery(m))
    /\ WF_vars(Listen("server"))

-------------------------------------------------------------------------------
(* Properties.                                                               *)

Ids == -1 .. 1 + MaxConnects + (ClientSends + ServerSends) * (1 + Max(Lengths))

TypeOK ==
    /\ \A m \in Machines :
          /\ \A i \in DOMAIN network[m] : network[m][i].to \in Boxes
          /\ \A b \in Boxes : waitedId[m][b] \in Ids /\ ackId[m][b] \in Ids
          /\ usedBoxes[m] \subseteq Boxes
          /\ pc[m] \in {"closed", "emit", "waitAck", "woken", "get", "open", "closing",
                        "draining"}
          /\ call[m] \in {"none", "Connect", "Listen", "Send", "Receive", "Disconnect"}
          /\ nReemissions[m] \in 0 .. MaxReemissions - 1
          /\ pOut[m].messageId \in Ids
          /\ failed[m] \in BOOLEAN
    /\ clock \in 0 .. MaxTime

\* m has disconnected (and does not connect again).
Left(m) == nConnects[m] > 0 /\ pc[m] \in {"closing", "draining", "closed"}

ToServer ==
    INSTANCE Channel WITH offered <- offered["client"], acked <- acked["client"],
        accepted <- accepted["server"],
        failed <- failed["client"] \/ Left("server")

\* From the client to the server the connection is a Channel: until the sender
\* has given up on a segment or the receiver disconnects, the segments reach the
\* peer's mailbox in order and once each, whatever is lost, repeated or late, and
\* no send succeeds before that.
ClientChannel == ToServer!Spec

\* A Receive puts together the segments of one message, in order, when neither
\* side has given up on a segment.
OneMessage ==
    /\ TypeOK
    /\ \A m \in Machines :
          ~ failed[Peer(m)] =>
              \A i \in DOMAIN got[m] : got[m][i] = <<"DATA", got[m][1][2], i - 1>>

\* Sends and disconnects end: the timer wakes a sender whose ACK does not come
\* and a Disconnect, whatever mail still comes in.  Connect gets its answer,
\* unless one side gave up.
CallsEnd ==
    LET Busy(m) == pc[m] \in {"emit", "waitAck", "woken", "closing", "draining"}
    IN  /\ \A m \in Machines : Busy(m) ~> ~ Busy(m)
        /\ (pc["client"] = "get" /\ call["client"] = "Connect") ~>
               (pc["client"] = "open" \/ \E m \in Machines : failed[m])
==============================================================================
