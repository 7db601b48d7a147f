------------------------------- MODULE FtpProof ------------------------------
(***************************************************************************)
(* The safety properties of Ftp, for any number of sessions, machines and  *)
(* files, and any number of messages that are lost.                        *)
(***************************************************************************)
EXTENDS Ftp, FiniteSetTheorems, TLAPS

\* Zenon has a minute for a leaf; a leaf with arithmetic, functions or sequences asks
\* for the SMT solver.
USE ZenonT(60)
USE FtpAssumption

-------------------------------------------------------------------------------
(* The inductive invariant: types, clients, open files.                       *)

Files(ms) == {Absent} \cup [of : ms, len : Nat]
Kinds == {"OK", "ERROR", "FILEDATA", "READFILE", "WRITEFILE", "DISCONNECT"}
Messages(ms) == [type : Kinds, size : Nat, piece : Files(ms)]

\* Where a session can be with the file open, and where it can be otherwise.
Holding ==
    {"read", "ready", "send", "stored", "close", "drop",
     "await", "data", "write", "confirm", "keep", "discard"}
Places ==
    Holding \cup {"start", "accept", "request", "answer", "size", "open", "create", "openNew",
                  "remove", "disconnect", "goodbye", "end",
                  "hello", "invalid", "serve", "bye", "leave"}

Settings ==
    /\ host \in Placements
    /\ request \in [Sessions -> {"r", "w"} \X Names]

States(ms) == [ms -> {"up", "halted", "aborted"}]
Disks(ms) == [ms -> [Names -> Files(ms)]]
Inboxes(ms) == [Sides -> [Sessions -> Seq(Messages(ms))]]
Wheres == [Sides -> [Sessions -> Places]]
Jobs(ms) == [Sides -> [Sessions -> [size : Nat, piece : Files(ms)]]]
Results == [Sessions -> {"none", "done", "failed"}]

Types ==
    /\ state \in States(Machines) /\ files \in Disks(Machines)
    /\ opened \in [Machines -> SUBSET Names]
    /\ inbox \in Inboxes(Machines) /\ pc \in Wheres /\ job \in Jobs(Machines)
    /\ result \in Results /\ rejected \subseteq Sessions /\ lost \in Nat /\ grown \in Nat

\* The sessions that have a handler, when at says where the handlers are.
Handled(at) == {s \in Sessions : at[s] \notin {"start", "end"}}

\* The map of the server and its counter.
Accounts(at, map, n, where) ==
    /\ \A s, r \in Handled(at) : where[s] = where[r] => s = r
    /\ map = {ServerAddr} \cup {where[s] : s \in Handled(at)}
    /\ n = Cardinality(map) - 1

\* The machine and the file of a transfer.
On(side, s, where) == IF side = "client" THEN where[s] ELSE ServerAddr

\* The open files are those of the transfers that hold one.
Held(at, open, where, ask) ==
    /\ \A side \in Sides, s \in Sessions :
           at[side][s] \in Holding => ask[s][2] \in open[On(side, s, where)]
    /\ \A side, other \in Sides, s, r \in Sessions :
           /\ at[side][s] \in Holding /\ at[other][r] \in Holding
           /\ On(side, s, where) = On(other, r, where) /\ ask[s][2] = ask[r][2]
           => side = other /\ s = r
    /\ \A m \in DOMAIN open : \A n \in open[m] :
           \E side \in Sides, s \in Sessions :
               at[side][s] \in Holding /\ On(side, s, where) = m /\ ask[s][2] = n

-------------------------------------------------------------------------------
(* The inductive invariant: the conversation of a session when no message is  *)
(* lost, by where the handler v and the client c are, and by the types of the *)
(* messages on their way to the client and to the server.                     *)

Nothing(q) == Len(q) = 0
Only(q, type) == Len(q) = 1 /\ q[1].type = type
Both(q, type, then) == Len(q) = 2 /\ q[1].type = type /\ q[2].type = then

\* The client is done with the file, or about to be: it sends nothing but DISCONNECT.
Finishing == {"keep", "discard", "remove", "drop", "disconnect"}
Ending(c, toServer) ==
    (c \in Finishing /\ Nothing(toServer)) \/ (c = "goodbye" /\ Only(toServer, "DISCONNECT"))
EndingAfter(c, toServer, type) ==
    \/ c \in Finishing /\ Only(toServer, type)
    \/ c = "goodbye" /\ Both(toServer, type, "DISCONNECT")

\* Before and after the transfer.
Meeting(op, c, v, toClient, toServer, refused) ==
    \/ v = "start" /\ c \in {"start", "accept"} /\ Nothing(toClient) /\ Nothing(toServer)
    \/ v = "hello" /\ c = "accept" /\ Nothing(toClient) /\ Nothing(toServer)
    \/ /\ v = "end" /\ c = "accept" /\ refused
       /\ Nothing(toClient) \/ Only(toClient, "DISCONNECT")
       /\ Nothing(toServer)
    \/ v = "serve" /\ c = "accept" /\ Only(toClient, "OK") /\ Nothing(toServer)
    \/ v = "serve" /\ c = "request" /\ Nothing(toClient) /\ Nothing(toServer)
    \/ /\ v = "serve" /\ c = "answer" /\ Nothing(toClient)
       /\ Only(toServer, IF op = "r" THEN "READFILE" ELSE "WRITEFILE")
    \/ v = "serve" /\ c = "answer" /\ Only(toClient, "ERROR") /\ Nothing(toServer)
    \/ v = "serve" /\ Nothing(toClient) /\ Ending(c, toServer)
    \/ v = "bye" /\ c = "goodbye" /\ Nothing(toClient) /\ Nothing(toServer)
    \/ /\ v \in {"leave", "end"} /\ Nothing(toServer)
       /\ \/ c = "goodbye" /\ Only(toClient, "DISCONNECT")
          \/ c = "end" /\ Nothing(toClient)

\* The client reads a file.
Reading(c, v, toClient, toServer) ==
    \/ v \in {"size", "open", "read"} /\ c = "answer" /\ Nothing(toClient) /\ Nothing(toServer)
    \/ v = "drop" /\ c = "answer" /\ Only(toClient, "ERROR") /\ Nothing(toServer)
    \/ v = "drop" /\ Nothing(toClient) /\ Ending(c, toServer)
    \/ v = "ready" /\ c = "answer" /\ Only(toClient, "OK") /\ Nothing(toServer)
    \/ v = "ready" /\ c \in {"create", "openNew"} /\ Nothing(toClient) /\ Nothing(toServer)
    \/ v = "ready" /\ c = "data" /\ Nothing(toClient) /\ Only(toServer, "OK")
    \/ v \in {"ready", "stored"} /\ Nothing(toClient) /\ EndingAfter(c, toServer, "ERROR")
    \/ v = "send" /\ c = "data" /\ Nothing(toClient) /\ Nothing(toServer)
    \/ v = "stored" /\ c = "data" /\ Only(toClient, "FILEDATA") /\ Nothing(toServer)
    \/ v = "stored" /\ c = "write" /\ Nothing(toClient) /\ Nothing(toServer)
    \/ v = "stored" /\ c = "confirm" /\ Nothing(toClient) /\ Only(toServer, "OK")
    \/ v = "close" /\ c = "confirm" /\ Nothing(toClient) /\ Nothing(toServer)
    \/ v = "serve" /\ c = "confirm" /\ Only(toClient, "OK") /\ Nothing(toServer)

\* The client writes a file; a handler that has got data of the wrong size stopped.
Writing(c, v, toClient, toServer, changed) ==
    \/ v \in {"create", "openNew"} /\ c = "answer" /\ Nothing(toClient) /\ Nothing(toServer)
    \/ v = "await" /\ c = "answer" /\ Only(toClient, "OK") /\ Nothing(toServer)
    \/ v = "await" /\ c \in {"size", "open", "read"} /\ Nothing(toClient) /\ Nothing(toServer)
    \/ v = "await" /\ c = "send" /\ Nothing(toClient) /\ Only(toServer, "OK")
    \/ v = "await" /\ c = "stored" /\ Nothing(toClient) /\ Both(toServer, "OK", "FILEDATA")
    \/ v = "await" /\ Nothing(toClient) /\ EndingAfter(c, toServer, "ERROR")
    \/ v = "data" /\ c = "send" /\ Nothing(toClient) /\ Nothing(toServer)
    \/ v = "data" /\ c = "stored" /\ Nothing(toClient) /\ Only(toServer, "FILEDATA")
    \/ v = "data" /\ c = "stored" /\ Nothing(toClient) /\ Nothing(toServer) /\ changed
    \/ v = "write" /\ c = "stored" /\ Nothing(toClient) /\ Nothing(toServer)
    \/ v = "confirm" /\ c = "stored" /\ Only(toClient, "OK") /\ Nothing(toServer)
    \/ v = "confirm" /\ c = "close" /\ Nothing(toClient) /\ Nothing(toServer)
    \/ v = "confirm" /\ Nothing(toClient) /\ EndingAfter(c, toServer, "OK")
    \/ /\ v \in {"discard", "remove", "serve"} /\ c = "stored"
       /\ Only(toClient, "ERROR") /\ Nothing(toServer)
    \/ v \in {"discard", "remove", "keep"} /\ Nothing(toClient) /\ Ending(c, toServer)

Converses(op, c, v, toClient, toServer, refused, changed) ==
    \/ Meeting(op, c, v, toClient, toServer, refused)
    \/ op = "r" /\ Reading(c, v, toClient, toServer)
    \/ op = "w" /\ Writing(c, v, toClient, toServer, changed)

\* Both sides have the same size in mind.  A client that writes its file has told
\* the server the size before it looks at the file again.
ReadSizes(c, v, toClient, mine, yours) ==
    /\ c = "answer" /\ v = "ready" => toClient[1].size = yours
    /\ c \in {"create", "openNew", "data"} => mine = yours
    /\ c = "data" /\ v = "stored" => toClient[1].size = yours
WriteSizes(c, v, toServer, mine, yours, len) ==
    /\ c = "answer" /\ v = "serve" /\ Only(toServer, "WRITEFILE") => toServer[1].size = len
    /\ c = "answer" /\ v \in {"create", "openNew", "await"} => yours = len
    /\ c = "size" => yours = len
    /\ c \in {"open", "read", "send"} => mine = yours
    /\ c = "stored" /\ v = "await" => toServer[2].size = yours
    /\ c = "stored" /\ v = "data" /\ Only(toServer, "FILEDATA") => toServer[1].size = yours

Talk(op, c, v, toClient, toServer, refused, n, mine, yours, len) ==
    /\ Converses(op, c, v, toClient, toServer, refused, n > 0)
    /\ op = "r" => ReadSizes(c, v, toClient, mine, yours)
    /\ op = "w" /\ n = 0 => WriteSizes(c, v, toServer, mine, yours, len)

TalkOf(s) ==
    Talk(request[s][1], pc["client"][s], pc["server"][s], inbox["client"][s], inbox["server"][s],
         s \in rejected, grown, job["client"][s].size, job["server"][s].size,
         files[host[s]][request[s][2]].len)

Protocol == \A s \in Sessions : TalkOf(s)

\* Who has failed an ASSERT.
Stops ==
    /\ state[ServerAddr] = "aborted" => grown > 0
    /\ \A m \in Machines \ {ServerAddr} :
           state[m] = "aborted" => \E s \in rejected : host[s] = m

IInv ==
    /\ Settings /\ Types
    /\ Accounts(pc["server"], clientMap, nbClients, host)
    /\ Held(pc, opened, host, request)
    /\ lost = 0 => Protocol /\ Stops

-------------------------------------------------------------------------------
(* The conversation, move by move.                                            *)

\* A message of the type has been put behind the others, or taken from the front.
Sent(before, after, type) ==
    /\ Nothing(before) => Only(after, type)
    /\ \A t \in Kinds : Only(before, t) => Both(after, t, type)
Took(before, after, type) ==
    /\ ~Nothing(before)
    /\ \A t \in Kinds : Only(before, t) => t = type /\ Nothing(after)
    /\ \A t, u \in Kinds : Both(before, t, u) => t = type /\ Only(after, u)

\* What the mailboxes do.
LEMMA Posted ==
    ASSUME NEW ms, NEW q \in Seq(Messages(ms)), NEW msg \in Messages(ms)
    PROVE  /\ Append(q, msg) \in Seq(Messages(ms)) /\ Sent(q, Append(q, msg), msg.type)
           /\ Append(q, msg)[Len(q) + 1] = msg
           /\ \A i \in 1 .. Len(q) : Append(q, msg)[i] = q[i]
  <1>1. /\ Append(q, msg) \in Seq(Messages(ms)) /\ Len(q) \in Nat
        /\ Len(Append(q, msg)) = Len(q) + 1 /\ Append(q, msg)[Len(q) + 1] = msg
        /\ \A i \in 1 .. Len(q) : Append(q, msg)[i] = q[i]
    BY SMTT(60)
  <1>2. Nothing(q) => Only(Append(q, msg), msg.type)
    BY SMTT(60), <1>1 DEF Nothing, Only
  <1>3. \A t \in Kinds : Only(q, t) => Both(Append(q, msg), t, msg.type)
    BY SMTT(60), <1>1 DEF Only, Both
  <1> QED
    BY <1>1, <1>2, <1>3 DEF Sent

\* What postOffice->Receive takes off a box.
LEMMA Fetched ==
    ASSUME NEW ms, NEW q \in Seq(Messages(ms)), q # <<>>
    PROVE  /\ Tail(q) \in Seq(Messages(ms)) /\ Head(q) \in Messages(ms) /\ Head(q) = q[1]
           /\ Head(q).type \in Kinds /\ Took(q, Tail(q), Head(q).type)
           /\ Len(q) = 2 => Tail(q)[1] = q[2]
  <1>1. /\ Tail(q) \in Seq(Messages(ms)) /\ Head(q) \in Messages(ms) /\ Head(q) = q[1]
        /\ Len(q) \in Nat \ {0} /\ Len(Tail(q)) = Len(q) - 1
        /\ \A i \in 1 .. Len(q) - 1 : Tail(q)[i] = q[i + 1]
    BY SMTT(60)
  <1>2. ~Nothing(q) /\ Head(q).type \in Kinds
    BY <1>1 DEF Nothing, Messages
  <1>3. \A t \in Kinds : Only(q, t) => t = Head(q).type /\ Nothing(Tail(q))
    BY SMTT(60), <1>1 DEF Nothing, Only
  <1>4. ASSUME Len(q) = 2 PROVE Tail(q)[1] = q[2]
    <2>1. 1 \in 1 .. Len(q) - 1 /\ 1 + 1 = 2
      BY SMTT(60), <1>4
    <2>2. Tail(q)[1] = q[1 + 1]
      BY <1>1, <2>1
    <2> QED
      BY <2>1, <2>2
  <1>5. \A t, u \in Kinds : Both(q, t, u) => t = Head(q).type /\ Only(Tail(q), u)
    <2>1. SUFFICES ASSUME NEW t \in Kinds, NEW u \in Kinds, Both(q, t, u)
                   PROVE  t = Head(q).type /\ Only(Tail(q), u)
      OBVIOUS
    <2>2. Len(q) = 2 /\ q[1].type = t /\ q[2].type = u
      BY <2>1 DEF Both
    <2>3. Tail(q)[1] = q[2]
      BY <1>4, <2>2
    <2>4. Len(Tail(q)) = Len(q) - 1 /\ Head(q) = q[1]
      BY <1>1
    <2>5. Len(Tail(q)) = 1
      BY SMTT(60), <2>2, <2>4
    <2> QED
      BY <2>2, <2>3, <2>4, <2>5 DEF Only
  <1> QED
    BY <1>1, <1>2, <1>3, <1>4, <1>5 DEF Took

\* The handler sends a message of the type and is then elsewhere.
HandlerSays(v, type, then) ==
    \/ v = "hello" /\ type = "OK" /\ then = "serve"
    \/ v = "bye" /\ type = "DISCONNECT" /\ then = "leave"
    \/ v \in {"size", "open", "create", "openNew"} /\ type = "ERROR" /\ then = "serve"
    \/ v = "read" /\ type = "OK" /\ then = "ready"
    \/ v = "read" /\ type = "ERROR" /\ then = "drop"
    \/ v = "send" /\ type = "FILEDATA" /\ then = "stored"
    \/ v = "close" /\ type = "OK" /\ then = "serve"
    \/ v = "openNew" /\ type = "OK" /\ then = "await"
    \/ v = "write" /\ type = "OK" /\ then = "confirm"
    \/ v = "write" /\ type = "ERROR" /\ then = "discard"

\* The conversation goes on when the handler sends what its place calls for.
LEMMA HandlerSaysIt ==
    ASSUME NEW op, NEW c, NEW v, NEW toClient, NEW toServer, NEW refused, NEW changed,
           NEW v2, NEW toClient2, NEW type,
           Converses(op, c, v, toClient, toServer, refused, changed),
           HandlerSays(v, type, v2), Sent(toClient, toClient2, type)
    PROVE  Converses(op, c, v2, toClient2, toServer, refused, changed)
  BY DEF Converses, Meeting, Reading, Writing, HandlerSays, Sent, Ending, EndingAfter, Finishing

\* The handler takes a message of the type and is then elsewhere.
HandlerHears(v, type, then) ==
    \/ v = "serve" /\ type = "READFILE" /\ then = "size"
    \/ v = "serve" /\ type = "WRITEFILE" /\ then = "create"
    \/ v = "serve" /\ type = "DISCONNECT" /\ then = "bye"
    \/ v = "ready" /\ type = "OK" /\ then = "send"
    \/ v = "ready" /\ type = "ERROR" /\ then = "drop"
    \/ v = "stored" /\ type = "OK" /\ then = "close"
    \/ v = "stored" /\ type = "ERROR" /\ then = "drop"
    \/ v = "await" /\ type = "OK" /\ then = "data"
    \/ v = "await" /\ type = "ERROR" /\ then = "discard"
    \/ v = "data" /\ type = "FILEDATA" /\ then = "write"
    \/ v = "confirm" /\ type = "OK" /\ then = "keep"

\* The conversation goes on when the handler takes the message it waits for.
LEMMA HandlerHearsIt ==
    ASSUME NEW op \in {"r", "w"}, NEW c, NEW v, NEW toClient, NEW toServer, NEW refused, NEW changed,
           NEW v2, NEW toServer2, NEW type,
           Converses(op, c, v, toClient, toServer, refused, changed),
           HandlerHears(v, type, v2), Took(toServer, toServer2, type)
    PROVE  Converses(op, c, v2, toClient, toServer2, refused, changed)
  <1>1. {"OK", "ERROR", "FILEDATA", "READFILE", "WRITEFILE", "DISCONNECT"} \subseteq Kinds
    BY DEF Kinds
  <1> QED
    BY <1>1 DEF Converses, Meeting, Reading, Writing, HandlerHears, Took, Ending, EndingAfter,
                Finishing

\* What it can be told.
LEMMA HandlerToldIt ==
    ASSUME NEW op \in {"r", "w"}, NEW c, NEW v, NEW toClient, NEW toServer, NEW refused,
           NEW changed, NEW toServer2, NEW type,
           Converses(op, c, v, toClient, toServer, refused, changed),
           Took(toServer, toServer2, type)
    PROVE  /\ v = "serve" => type \in {"READFILE", "WRITEFILE", "DISCONNECT"}
           /\ v \in {"ready", "stored", "await"} => type \in {"OK", "ERROR"}
           /\ v = "confirm" => type = "OK"
           /\ v = "data" => op = "w" /\ c = "stored" /\ type = "FILEDATA"
                            /\ Only(toServer, "FILEDATA")
                            /\ Converses(op, c, v, toClient, toServer2, refused, TRUE)
  <1>1. {"OK", "ERROR", "FILEDATA", "READFILE", "WRITEFILE", "DISCONNECT"} \subseteq Kinds
    BY DEF Kinds
  <1>2. /\ v = "serve" => type \in {"READFILE", "WRITEFILE", "DISCONNECT"}
        /\ v \in {"ready", "stored", "await"} => type \in {"OK", "ERROR"}
        /\ v = "confirm" => type = "OK"
    BY <1>1 DEF Converses, Meeting, Reading, Writing, Took, Ending, EndingAfter
  <1>3. v = "data" => op = "w" /\ c = "stored" /\ type = "FILEDATA"
                      /\ Only(toServer, "FILEDATA")
                      /\ Converses(op, c, v, toClient, toServer2, refused, TRUE)
    BY <1>1 DEF Converses, Meeting, Reading, Writing, Took, Ending, EndingAfter
  <1> QED
    BY <1>2, <1>3

\* The handler goes on by itself.
HandlerGoes(v, then) ==
    \/ v = "size" /\ then = "open"
    \/ v = "open" /\ then = "read"
    \/ v = "drop" /\ then = "serve"
    \/ v = "create" /\ then = "openNew"
    \/ v = "keep" /\ then = "serve"
    \/ v = "discard" /\ then = "remove"
    \/ v = "remove" /\ then = "serve"
    \/ v = "leave" /\ then = "end"

\* The conversation goes on when the handler works on its file.
LEMMA HandlerGoesOn ==
    ASSUME NEW op, NEW c, NEW v, NEW toClient, NEW toServer, NEW refused, NEW changed, NEW v2,
           Converses(op, c, v, toClient, toServer, refused, changed), HandlerGoes(v, v2)
    PROVE  Converses(op, c, v2, toClient, toServer, refused, changed)
  BY DEF Converses, Meeting, Reading, Writing, HandlerGoes, Ending, EndingAfter, Finishing

\* The same for the client.
ClientSays(op, c, type, then) ==
    \/ c = "request" /\ op = "r" /\ type = "READFILE" /\ then = "answer"
    \/ c = "request" /\ op = "w" /\ type = "WRITEFILE" /\ then = "answer"
    \/ c = "disconnect" /\ type = "DISCONNECT" /\ then = "goodbye"
    \/ c \in {"size", "open", "create", "openNew"} /\ type = "ERROR" /\ then = "disconnect"
    \/ c = "read" /\ type = "OK" /\ then = "send"
    \/ c = "read" /\ type = "ERROR" /\ then = "drop"
    \/ c = "send" /\ type = "FILEDATA" /\ then = "stored"
    \/ c = "close" /\ type = "OK" /\ then = "disconnect"
    \/ c = "openNew" /\ type = "OK" /\ then = "data"
    \/ c = "write" /\ type = "OK" /\ then = "confirm"
    \/ c = "write" /\ type = "ERROR" /\ then = "discard"

\* The conversation goes on when the client sends what its place calls for.
LEMMA ClientSaysIt ==
    ASSUME NEW op, NEW c, NEW v, NEW toClient, NEW toServer, NEW refused, NEW changed,
           NEW c2, NEW toServer2, NEW type,
           Converses(op, c, v, toClient, toServer, refused, changed),
           ClientSays(op, c, type, c2), Sent(toServer, toServer2, type)
    PROVE  Converses(op, c2, v, toClient, toServer2, refused, changed)
  <1>1. {"OK", "ERROR", "FILEDATA"} \subseteq Kinds
    BY DEF Kinds
  <1>2. CASE Meeting(op, c, v, toClient, toServer, refused)
    BY <1>1, <1>2 DEF Converses, Meeting, ClientSays, Sent, Ending, EndingAfter, Finishing
  <1>3. CASE op = "r" /\ Reading(c, v, toClient, toServer)
    BY <1>1, <1>3 DEF Converses, Reading, ClientSays, Sent, Ending, EndingAfter, Finishing
  <1>4. CASE op = "w" /\ Writing(c, v, toClient, toServer, changed)
    BY <1>1, <1>4 DEF Converses, Writing, ClientSays, Sent, Ending, EndingAfter, Finishing
  <1> QED
    BY <1>2, <1>3, <1>4 DEF Converses

ClientHears(op, c, type, then) ==
    \/ c = "accept" /\ type = "OK" /\ then = "request"
    \/ c = "answer" /\ op = "r" /\ type = "OK" /\ then = "create"
    \/ c = "answer" /\ op = "w" /\ type = "OK" /\ then = "size"
    \/ c = "answer" /\ type = "ERROR" /\ then = "disconnect"
    \/ c = "stored" /\ type = "OK" /\ then = "close"
    \/ c = "stored" /\ type = "ERROR" /\ then = "drop"
    \/ c = "data" /\ type = "FILEDATA" /\ then = "write"
    \/ c = "confirm" /\ type = "OK" /\ then = "keep"
    \/ c = "goodbye" /\ type = "DISCONNECT" /\ then = "end"

\* The conversation goes on when the client takes the message it waits for.
LEMMA ClientHearsIt ==
    ASSUME NEW op, NEW c, NEW v, NEW toClient, NEW toServer, NEW refused, NEW changed,
           NEW c2, NEW toClient2, NEW type,
           Converses(op, c, v, toClient, toServer, refused, changed),
           ClientHears(op, c, type, c2), Took(toClient, toClient2, type)
    PROVE  Converses(op, c2, v, toClient2, toServer, refused, changed)
  <1>1. {"OK", "ERROR", "FILEDATA", "READFILE", "WRITEFILE", "DISCONNECT"} \subseteq Kinds
    BY DEF Kinds
  <1> QED
    BY <1>1 DEF Converses, Meeting, Reading, Writing, ClientHears, Took, Ending, EndingAfter,
                Finishing

\* What the client can find in its box, place by place.
LEMMA ClientToldIt ==
    ASSUME NEW op \in {"r", "w"}, NEW c, NEW v, NEW toClient, NEW toServer, NEW refused,
           NEW changed, NEW toClient2, NEW type,
           Converses(op, c, v, toClient, toServer, refused, changed),
           Took(toClient, toClient2, type)
    PROVE  /\ c = "accept" => type \in {"OK", "DISCONNECT"}
           /\ c = "accept" /\ type = "DISCONNECT" =>
                  refused /\ Converses(op, c, v, toClient2, toServer, refused, changed)
           /\ c \in {"answer", "stored"} => type \in {"OK", "ERROR"}
           /\ c = "answer" /\ type = "OK" => v = (IF op = "r" THEN "ready" ELSE "await")
           /\ c = "confirm" => type = "OK"
           /\ c = "goodbye" => type = "DISCONNECT"
           /\ c = "data" => op = "r" /\ v = "stored" /\ type = "FILEDATA"
           /\ c \notin {"ready", "await"}
  <1>1. {"OK", "ERROR", "FILEDATA", "READFILE", "WRITEFILE", "DISCONNECT"} \subseteq Kinds
    BY DEF Kinds
  <1>2. /\ c = "accept" => type \in {"OK", "DISCONNECT"}
        /\ c = "accept" /\ type = "DISCONNECT" =>
               refused /\ Converses(op, c, v, toClient2, toServer, refused, changed)
    BY <1>1 DEF Converses, Meeting, Reading, Writing, Took, Ending, EndingAfter, Finishing
  <1>3. /\ c \in {"answer", "stored"} => type \in {"OK", "ERROR"}
        /\ c = "answer" /\ type = "OK" => v = (IF op = "r" THEN "ready" ELSE "await")
        /\ c = "confirm" => type = "OK"
        /\ c = "goodbye" => type = "DISCONNECT"
        /\ c = "data" => op = "r" /\ v = "stored" /\ type = "FILEDATA"
        /\ c \notin {"ready", "await"}
    BY <1>1 DEF Converses, Meeting, Reading, Writing, Took, Ending, EndingAfter, Finishing
  <1> QED
    BY <1>2, <1>3

ClientGoes(op, c, then) ==
    \/ c = "start" /\ then = "accept"
    \/ c = "request" /\ op = "w" /\ then = "disconnect"
    \/ c = "size" /\ then = "open"
    \/ c = "open" /\ then = "read"
    \/ c = "drop" /\ then = "disconnect"
    \/ c = "create" /\ then = "openNew"
    \/ c = "keep" /\ then = "disconnect"
    \/ c = "discard" /\ then = "remove"
    \/ c = "remove" /\ then = "disconnect"

\* The conversation goes on when the client works on its file.
LEMMA ClientGoesOn ==
    ASSUME NEW op, NEW c, NEW v, NEW toClient, NEW toServer, NEW refused, NEW changed, NEW c2,
           Converses(op, c, v, toClient, toServer, refused, changed), ClientGoes(op, c, c2)
    PROVE  Converses(op, c2, v, toClient, toServer, refused, changed)
  BY DEF Converses, Meeting, Reading, Writing, ClientGoes, Ending, EndingAfter, Finishing

\* The server accepts a client or refuses it, and a client that has a handler's
\* attention has a handler.
LEMMA Accepted ==
    ASSUME NEW op, NEW toClient, NEW toServer, NEW refused, NEW changed,
           Converses(op, "accept", "start", toClient, toServer, refused, changed)
    PROVE  /\ Converses(op, "accept", "hello", toClient, toServer, refused, changed)
           /\ \A toClient2 : Sent(toClient, toClient2, "DISCONNECT") =>
                  Converses(op, "accept", "end", toClient2, toServer, TRUE, changed)
  BY DEF Converses, Meeting, Reading, Writing, Ending, EndingAfter, Finishing, Sent

\* A client in the middle of its request has a handler.
LEMMA BusyIsHandled ==
    ASSUME NEW op, NEW c, NEW v, NEW toClient, NEW toServer, NEW refused, NEW changed,
           Converses(op, c, v, toClient, toServer, refused, changed),
           c \notin {"start", "accept", "goodbye", "end"}
    PROVE  v \notin {"start", "end"}
  BY DEF Converses, Meeting, Reading, Writing, Ending, EndingAfter, Finishing

-------------------------------------------------------------------------------
(* The parts of a step.                                                       *)

\* Where a session is.
LEMMA Moved ==
    ASSUME pc \in Wheres, NEW side \in Sides, NEW s \in Sessions, NEW where \in Places,
           Goto(side, s, where)
    PROVE  /\ pc' \in Wheres /\ pc'[side][s] = where
           /\ \A x \in Sides, r \in Sessions : x # side \/ r # s => pc'[x][r] = pc[x][r]
  BY DEF Goto, Wheres

\* What a session has in mind.
LEMMA KeptType ==
    \A ms, jobs, side, s, n, file :
        jobs \in Jobs(ms) /\ side \in Sides /\ s \in Sessions =>
            /\ n \in Nat => [jobs EXCEPT ![side][s].size = n] \in Jobs(ms)
            /\ file \in Files(ms) => [jobs EXCEPT ![side][s].piece = file] \in Jobs(ms)
  BY SMTT(60) DEF Jobs

\* postOffice->Send: the message is behind the others, or lost.
LEMMA SendsMail ==
    ASSUME inbox \in Inboxes(Machines), lost \in Nat,
           NEW side \in Sides, NEW s \in Sessions, NEW msg \in Messages(Machines),
           Sends(side, s, msg)
    PROVE  /\ inbox' \in Inboxes(Machines) /\ lost' \in Nat /\ Other(side) \in Sides
           /\ lost' = 0 =>
                  /\ lost = 0
                  /\ inbox'[Other(side)][s] = Append(inbox[Other(side)][s], msg)
                  /\ Sent(inbox[Other(side)][s], inbox'[Other(side)][s], msg.type)
                  /\ inbox'[side][s] = inbox[side][s]
                  /\ \A x \in Sides, r \in Sessions : r # s => inbox'[x][r] = inbox[x][r]
  <1>1. Other(side) \in Sides /\ Other(side) # side
    BY DEF Other, Sides
  <1>2. /\ inbox[Other(side)][s] \in Seq(Messages(Machines))
        /\ Append(inbox[Other(side)][s], msg) \in Seq(Messages(Machines))
        /\ Sent(inbox[Other(side)][s], Append(inbox[Other(side)][s], msg), msg.type)
    BY SMTT(60), <1>1, Posted DEF Inboxes
  <1>3. CASE inbox' = [inbox EXCEPT ![Other(side)][s] = Append(@, msg)] /\ UNCHANGED lost
    <2>1. /\ inbox' \in Inboxes(Machines)
          /\ inbox'[Other(side)][s] = Append(inbox[Other(side)][s], msg)
          /\ \A x \in Sides, r \in Sessions :
                 x # Other(side) \/ r # s => inbox'[x][r] = inbox[x][r]
      BY <1>1, <1>2, <1>3 DEF Inboxes
    <2> QED
      BY <1>1, <1>2, <1>3, <2>1
  <1>4. CASE lost < MaxLost /\ lost' = lost + 1 /\ UNCHANGED inbox
    BY SMTT(60), <1>1, <1>4
  <1> QED
    BY <1>3, <1>4 DEF Sends

\* postOffice->Receive: the first message is taken.
LEMMA ReceivesMail ==
    ASSUME inbox \in Inboxes(Machines), NEW side \in Sides, NEW s \in Sessions,
           Receives(side, s)
    PROVE  /\ inbox' \in Inboxes(Machines) /\ lost' = lost
           /\ Received(side, s) \in Messages(Machines)
           /\ Received(side, s) = inbox[side][s][1] /\ Received(side, s).type \in Kinds
           /\ inbox'[side][s] = Tail(inbox[side][s])
           /\ Took(inbox[side][s], inbox'[side][s], Received(side, s).type)
           /\ Len(inbox[side][s]) = 2 => inbox'[side][s][1] = inbox[side][s][2]
           /\ \A x \in Sides, r \in Sessions :
                  x # side \/ r # s => inbox'[x][r] = inbox[x][r]
  <1>1. /\ inbox[side][s] \in Seq(Messages(Machines)) /\ inbox[side][s] # <<>>
        /\ inbox' = [inbox EXCEPT ![side][s] = Tail(@)] /\ lost' = lost
    BY DEF Receives, Inboxes
  <1> DEFINE q == inbox[side][s]
  <1>2. /\ Tail(q) \in Seq(Messages(Machines)) /\ Head(q) \in Messages(Machines)
        /\ Head(q) = q[1] /\ Head(q).type \in Kinds /\ Took(q, Tail(q), Head(q).type)
        /\ Len(q) = 2 => Tail(q)[1] = q[2]
    BY <1>1, Fetched
  <1>3. /\ inbox' \in Inboxes(Machines) /\ inbox'[side][s] = Tail(q)
        /\ \A x \in Sides, r \in Sessions :
               x # side \/ r # s => inbox'[x][r] = inbox[x][r]
    BY <1>1, <1>2 DEF Inboxes
  <1> QED
    BY <1>1, <1>2, <1>3 DEF Received

\* A notification and a message with the size of a file are messages.
LEMMA MessageTypes ==
    /\ Empty \in Files(Machines) /\ Absent \in Files(Machines)
    /\ \A type \in Kinds : /\ Notification(type) \in Messages(Machines)
                           /\ Notification(type).type = type
    /\ \A type \in Kinds, n \in Nat, file \in Files(Machines) :
           /\ Message(type, n, file) \in Messages(Machines)
           /\ Message(type, n, file).type = type /\ Message(type, n, file).size = n
  <1>1. Empty \in Files(Machines) /\ Absent \in Files(Machines)
    BY DEF Empty, Absent, Files, Machines
  <1> QED
    BY <1>1 DEF Notification, Message, Messages

\* The machines of a session, and its file there.
LEMMA Residence ==
    ASSUME Settings, NEW side \in Sides, NEW s \in Sessions
    PROVE  /\ Machine(side, s) \in Machines /\ Machine(side, s) = On(side, s, host)
           /\ host[s] \in Machines /\ host[s] # ServerAddr /\ Name(s) \in Names
           /\ Name(s) = request[s][2] /\ request[s][1] \in {"r", "w"}
           /\ Machines \subseteq 0 .. (MaxClients - 1)
  BY DEF Settings, Sides, Machine, Machines, On, Name

\* The file of a session.
LEMMA FileType ==
    ASSUME Settings, Types, NEW side \in Sides, NEW s \in Sessions
    PROVE  /\ File(side, s) \in Files(Machines)
           /\ File(side, s) # Absent => File(side, s).len \in Nat
           /\ File(side, s).len \in Nat => File(side, s) # Absent
           /\ \A n \in Nat : ReadFile(File(side, s), n) => Prefix(File(side, s), n) \in Files(Machines)
  <1>1. Machine(side, s) \in Machines /\ Name(s) \in Names
    BY Residence
  <1>2. File(side, s) \in Files(Machines)
    BY <1>1 DEF File, Types, Disks
  <1>3. /\ File(side, s) # Absent => File(side, s) \in [of : Machines, len : Nat]
        /\ Absent.len = -1
    BY <1>2 DEF Files, Absent
  <1>4. /\ File(side, s) # Absent => File(side, s).len \in Nat
        /\ File(side, s).len \in Nat => File(side, s) # Absent
    BY SMTT(60), <1>3
  <1>5. ASSUME NEW n \in Nat, ReadFile(File(side, s), n)
        PROVE  Prefix(File(side, s), n) \in Files(Machines)
    <2>1. CASE n = 0
      BY <2>1, MessageTypes DEF Prefix
    <2>2. CASE n # 0
      <3>1. n = File(side, s).len
        BY <1>5, <2>2 DEF ReadFile
      <3>2. File(side, s) \in [of : Machines, len : Nat]
        BY <1>3, <1>4, <3>1
      <3>3. [File(side, s) EXCEPT !.len = n] \in [of : Machines, len : Nat]
        BY <3>2
      <3> QED
        BY <2>2, <3>3 DEF Prefix, Files
    <2> QED
      BY <2>1, <2>2
  <1> QED
    BY <1>2, <1>4, <1>5

\* Where a function of the protocol returns to.
Back(side) == IF side = "server" THEN "serve" ELSE "disconnect"

\* What the parts of an action do to the types.
LEMMA PartTypes ==
    ASSUME Settings, Types, NEW side \in Sides, NEW s \in Sessions
    PROVE  /\ \A value \in {"done", "failed"} :
                  Returns(side, s, value) => Goto(side, s, Back(side)) /\ result' \in Results
           /\ \A where \in Places : Goto(side, s, where) => pc' \in Wheres
           /\ \A msg \in Messages(Machines) :
                  Sends(side, s, msg) => inbox' \in Inboxes(Machines) /\ lost' \in Nat
           /\ Receives(side, s) => inbox' \in Inboxes(Machines) /\ lost' \in Nat
           /\ \A m \in Machines : Aborts(m) => state' \in States(Machines)
           /\ \A file \in Files(Machines) : Puts(side, s, file) => files' \in Disks(Machines)
           /\ Opens(side, s) \/ Closes(side, s) => opened' \in [Machines -> SUBSET Names]
           /\ Back(side) \in Places
  <1>1. Machine(side, s) \in Machines /\ Name(s) \in Names
    BY Residence
  <1>2. ASSUME NEW value \in {"done", "failed"}, Returns(side, s, value)
        PROVE  Goto(side, s, Back(side)) /\ result' \in Results
    BY <1>2 DEF Returns, Back, Types, Results
  <1>3. \A where \in Places : Goto(side, s, where) => pc' \in Wheres
    BY Moved DEF Types
  <1>4. \A msg \in Messages(Machines) :
            Sends(side, s, msg) => inbox' \in Inboxes(Machines) /\ lost' \in Nat
    BY SendsMail DEF Types
  <1>5. Receives(side, s) => inbox' \in Inboxes(Machines) /\ lost' \in Nat
    BY ReceivesMail DEF Types
  <1>6. ASSUME NEW m \in Machines, Aborts(m) PROVE state' \in States(Machines)
    BY <1>6 DEF Aborts, Types, States
  <1>7. ASSUME NEW file \in Files(Machines), Puts(side, s, file) PROVE files' \in Disks(Machines)
    BY <1>1, <1>7 DEF Puts, Types, Disks
  <1>8. Opens(side, s) => opened' \in [Machines -> SUBSET Names]
    BY <1>1 DEF Opens, Types
  <1>9. Closes(side, s) => opened' \in [Machines -> SUBSET Names]
    BY <1>1 DEF Closes, Types
  <1>10. Back(side) \in Places
    BY DEF Back, Places
  <1> QED
    BY <1>2, <1>3, <1>4, <1>5, <1>6, <1>7, <1>8, <1>9, <1>10

\* Settings never change, so that the machines stay what they are.
LEMMA NewTypes ==
    ASSUME Settings, UNCHANGED setting,
           state' \in States(Machines), files' \in Disks(Machines),
           opened' \in [Machines -> SUBSET Names], inbox' \in Inboxes(Machines),
           pc' \in Wheres, job' \in Jobs(Machines), result' \in Results,
           rejected' \subseteq Sessions, lost' \in Nat, grown' \in Nat
    PROVE  Settings' /\ Types'
  <1>1. Machines' = Machines
    BY DEF setting, Machines
  <1> QED
    BY <1>1 DEF Settings, Types, setting

\* A confirmation.
LEMMA ConfirmationTypes ==
    ASSUME Settings, Types, NEW side \in Sides, NEW s \in Sessions,
           NEW yes \in Places, NEW no \in Places, Confirmation(side, s, yes, no)
    PROVE  /\ inbox' \in Inboxes(Machines) /\ lost' \in Nat
           /\ pc' \in Wheres /\ state' \in States(Machines)
  <1>1. inbox' \in Inboxes(Machines) /\ lost' \in Nat
    BY PartTypes DEF Confirmation
  <1>2. \/ \E where \in {yes, no} : Goto(side, s, where) /\ UNCHANGED state
        \/ Aborts(Machine(side, s)) /\ UNCHANGED pc
    BY DEF Confirmation
  <1>3. pc' \in Wheres /\ state' \in States(Machines)
    BY <1>2, PartTypes, Residence DEF Types
  <1> QED
    BY <1>1, <1>3

\* A call of the file system that failed.
LEMMA FailsTypes ==
    ASSUME Settings, Types, NEW side \in Sides, NEW s \in Sessions, Fails(side, s)
    PROVE  /\ inbox' \in Inboxes(Machines) /\ lost' \in Nat
           /\ pc' \in Wheres /\ result' \in Results /\ UNCHANGED <<files, opened, job>>
           /\ Goto(side, s, Back(side)) /\ Sends(side, s, Notification("ERROR"))
  <1>1. Notification("ERROR") \in Messages(Machines)
    BY MessageTypes DEF Kinds
  <1>2. /\ Sends(side, s, Notification("ERROR")) /\ Returns(side, s, "failed")
        /\ UNCHANGED <<files, opened, job>>
    BY DEF Fails, disks
  <1> QED
    BY <1>1, <1>2, PartTypes

\* SendFile keeps the types.
LEMMA SourceTypes ==
    ASSUME Settings, Types, NEW side \in Sides, NEW s \in Sessions, SendsFile(side, s)
    PROVE  Settings' /\ Types'
  <1>1. /\ UNCHANGED <<setting, rejected, grown>>
    BY DEF SendsFile, SourceSize, SourceOpen, SourceRead, SourceWait, SourceSend, SourceClose,
           server
  <1>2. {"open", "read", "ready", "send", "stored", "close", "drop"} \subseteq Places
        /\ {"OK", "ERROR", "FILEDATA"} \subseteq Kinds
    BY DEF Places, Holding, Kinds
  <1>3. /\ job[side][s].size \in Nat /\ job[side][s].piece \in Files(Machines)
        /\ job \in Jobs(Machines)
    BY DEF Types, Jobs
  <1>4. CASE SourceSize(side, s)
    <2>1. CASE Fails(side, s)
      BY <1>1, <1>4, <2>1, FailsTypes, NewTypes DEF SourceSize, Types
    <2>2. CASE ~Fails(side, s)
      <3>1. /\ File(side, s).len \in Nat
            /\ job' = [job EXCEPT ![side][s].size = File(side, s).len]
            /\ Goto(side, s, "open")
            /\ UNCHANGED <<state, files, opened, inbox, lost, result>>
        BY <1>4, <2>2, FileType DEF SourceSize, disks, mail
      <3>2. job' \in Jobs(Machines)
        BY <1>3, <3>1, KeptType
      <3>3. pc' \in Wheres
        BY <1>2, <3>1, PartTypes
      <3> QED
        BY <1>1, <3>1, <3>2, <3>3, NewTypes DEF Types
    <2> QED
      BY <2>1, <2>2
  <1>5. CASE SourceOpen(side, s)
    <2>1. CASE Fails(side, s)
      BY <1>1, <1>5, <2>1, FailsTypes, NewTypes DEF SourceOpen, Types
    <2>2. CASE ~Fails(side, s)
      <3>1. /\ Opens(side, s) /\ Goto(side, s, "read")
            /\ UNCHANGED <<state, files, inbox, lost, job, result>>
        BY <1>5, <2>2 DEF SourceOpen, mail
      <3>2. opened' \in [Machines -> SUBSET Names] /\ pc' \in Wheres
        BY <1>2, <3>1, PartTypes
      <3> QED
        BY <1>1, <3>1, <3>2, NewTypes DEF Types
    <2> QED
      BY <2>1, <2>2
  <1>6. CASE SourceRead(side, s)
    <2>1. UNCHANGED <<state, files, opened, result>>
      BY <1>6 DEF SourceRead, disks
    <2>2. PICK msg \in Messages(Machines), where \in Places :
              Sends(side, s, msg) /\ Goto(side, s, where)
      <3>1. /\ Message("OK", job[side][s].size, Empty) \in Messages(Machines)
            /\ Notification("ERROR") \in Messages(Machines)
        BY <1>2, <1>3, MessageTypes
      <3> QED
        BY <1>2, <1>6, <3>1 DEF SourceRead
    <2>3. job' \in Jobs(Machines)
      <3>1. CASE ReadFile(File(side, s), job[side][s].size)
        <4>1. Prefix(File(side, s), job[side][s].size) \in Files(Machines)
          BY <1>3, <3>1, FileType
        <4>2. job' = [job EXCEPT ![side][s].piece = Prefix(File(side, s), job[side][s].size)]
          BY <1>6, <3>1 DEF SourceRead
        <4> QED
          BY <1>3, <4>1, <4>2, KeptType
      <3>2. CASE ~ReadFile(File(side, s), job[side][s].size)
        BY <1>3, <1>6, <3>2 DEF SourceRead
      <3> QED
        BY <3>1, <3>2
    <2>4. inbox' \in Inboxes(Machines) /\ lost' \in Nat /\ pc' \in Wheres
      BY <2>2, PartTypes
    <2> QED
      BY <1>1, <2>1, <2>3, <2>4, NewTypes DEF Types
  <1>7. CASE SourceWait(side, s)
    <2>1. UNCHANGED <<files, opened, job, result>>
      BY <1>7 DEF SourceWait, disks
    <2>2. PICK yes \in Places, no \in Places : Confirmation(side, s, yes, no)
      BY <1>2, <1>7 DEF SourceWait
    <2> QED
      BY <1>1, <2>1, <2>2, ConfirmationTypes, NewTypes DEF Types
  <1>8. CASE SourceSend(side, s)
    <2>1. /\ UNCHANGED <<state, files, opened, job, result>>
          /\ Sends(side, s, Message("FILEDATA", job[side][s].size, job[side][s].piece))
          /\ Goto(side, s, "stored")
      BY <1>8 DEF SourceSend, disks
    <2>2. Message("FILEDATA", job[side][s].size, job[side][s].piece) \in Messages(Machines)
      BY <1>2, <1>3, MessageTypes
    <2>3. inbox' \in Inboxes(Machines) /\ lost' \in Nat /\ pc' \in Wheres
      BY <1>2, <2>1, <2>2, PartTypes
    <2> QED
      BY <1>1, <2>1, <2>3, NewTypes DEF Types
  <1>9. CASE SourceClose(side, s)
    <2>1. /\ UNCHANGED <<state, files, job>> /\ Closes(side, s)
          /\ Sends(side, s, Notification("OK")) \/ UNCHANGED <<inbox, lost>>
          /\ Returns(side, s, "done") \/ Returns(side, s, "failed")
      BY <1>9 DEF SourceClose, mail
    <2>2. Notification("OK") \in Messages(Machines)
      BY <1>2, MessageTypes
    <2>3. /\ inbox' \in Inboxes(Machines) /\ lost' \in Nat /\ pc' \in Wheres
          /\ result' \in Results /\ opened' \in [Machines -> SUBSET Names]
      BY <2>1, <2>2, PartTypes DEF Types
    <2> QED
      BY <1>1, <2>1, <2>3, NewTypes DEF Types
  <1> QED
    BY <1>4, <1>5, <1>6, <1>7, <1>8, <1>9 DEF SendsFile

\* ReceiveFile keeps the types.
LEMMA SinkTypes ==
    ASSUME Settings, Types, NEW side \in Sides, NEW s \in Sessions, ReceivesFile(side, s)
    PROVE  Settings' /\ Types'
  <1>1. /\ UNCHANGED <<setting, rejected, grown>>
    BY DEF ReceivesFile, SinkCreate, SinkOpen, SinkWait, SinkReceive, SinkWrite, SinkClose,
           SinkRemove, server
  <1>2. {"openNew", "await", "data", "write", "confirm", "keep", "discard", "remove"} \subseteq Places
        /\ {"OK", "ERROR"} \subseteq Kinds
    BY DEF Places, Holding, Kinds
  <1>3. /\ job[side][s].size \in Nat /\ job[side][s].piece \in Files(Machines)
        /\ job \in Jobs(Machines)
    BY DEF Types, Jobs
  <1>4. Empty \in Files(Machines) /\ Absent \in Files(Machines)
        /\ Notification("OK") \in Messages(Machines)
        /\ Notification("ERROR") \in Messages(Machines)
    BY <1>2, MessageTypes
  <1>5. CASE SinkCreate(side, s)
    <2>1. CASE Fails(side, s)
      BY <1>1, <1>5, <2>1, FailsTypes, NewTypes DEF SinkCreate, Types
    <2>2. CASE ~Fails(side, s)
      <3>1. /\ Puts(side, s, Empty) /\ Goto(side, s, "openNew")
            /\ UNCHANGED <<state, opened, inbox, lost, job, result>>
        BY <1>5, <2>2 DEF SinkCreate, mail
      <3>2. files' \in Disks(Machines) /\ pc' \in Wheres
        BY <1>2, <1>4, <3>1, PartTypes
      <3> QED
        BY <1>1, <3>1, <3>2, NewTypes DEF Types
    <2> QED
      BY <2>1, <2>2
  <1>6. CASE SinkOpen(side, s)
    <2>1. CASE Fails(side, s)
      BY <1>1, <1>6, <2>1, FailsTypes, NewTypes DEF SinkOpen, Types
    <2>2. CASE ~Fails(side, s)
      <3>1. /\ Opens(side, s) /\ Sends(side, s, Notification("OK"))
            /\ Goto(side, s, IF side = "server" THEN "await" ELSE "data")
            /\ UNCHANGED <<state, files, job, result>>
        BY <1>6, <2>2 DEF SinkOpen
      <3>2. /\ opened' \in [Machines -> SUBSET Names] /\ pc' \in Wheres
            /\ inbox' \in Inboxes(Machines) /\ lost' \in Nat
        BY <1>2, <1>4, <3>1, PartTypes
      <3> QED
        BY <1>1, <3>1, <3>2, NewTypes DEF Types
    <2> QED
      BY <2>1, <2>2
  <1>7. CASE SinkWait(side, s)
    <2>1. UNCHANGED <<files, opened, job, result>>
      BY <1>7 DEF SinkWait, disks
    <2>2. PICK yes \in Places, no \in Places : Confirmation(side, s, yes, no)
      BY <1>2, <1>7 DEF SinkWait
    <2> QED
      BY <1>1, <2>1, <2>2, ConfirmationTypes, NewTypes DEF Types
  <1>8. CASE SinkReceive(side, s)
    <2>1. /\ UNCHANGED <<files, opened, result>>
          /\ Receives(side, s)
      BY <1>8 DEF SinkReceive, disks
    <2>2. inbox' \in Inboxes(Machines) /\ lost' \in Nat
      BY <2>1, PartTypes
    <2>3. Received(side, s).piece \in Files(Machines)
      BY <2>1, ReceivesMail DEF Types, Messages
    <2>4. \/ /\ job' = [job EXCEPT ![side][s].piece = Received(side, s).piece]
             /\ Goto(side, s, "write") /\ UNCHANGED state
          \/ Aborts(Machine(side, s)) /\ UNCHANGED <<job, pc>>
      BY <1>8 DEF SinkReceive
    <2>5. job' \in Jobs(Machines)
      <3>1. [job EXCEPT ![side][s].piece = Received(side, s).piece] \in Jobs(Machines)
        BY <1>3, <2>3, KeptType
      <3> QED
        BY <1>3, <2>4, <3>1
    <2>6. pc' \in Wheres /\ state' \in States(Machines)
      BY <1>2, <2>4, PartTypes, Residence DEF Types
    <2> QED
      BY <1>1, <2>1, <2>2, <2>5, <2>6, NewTypes DEF Types
  <1>9. CASE SinkWrite(side, s)
    <2>1. /\ UNCHANGED <<state, opened, job, result>>
          /\ Puts(side, s, job[side][s].piece) \/ UNCHANGED files
          /\ Sends(side, s, Notification("OK")) \/ Sends(side, s, Notification("ERROR"))
          /\ Goto(side, s, "confirm") \/ Goto(side, s, "discard")
      BY <1>9 DEF SinkWrite
    <2>2. files' \in Disks(Machines)
      BY <1>3, <2>1, PartTypes DEF Types
    <2>3. inbox' \in Inboxes(Machines) /\ lost' \in Nat /\ pc' \in Wheres
      BY <1>2, <1>4, <2>1, PartTypes
    <2> QED
      BY <1>1, <2>1, <2>2, <2>3, NewTypes DEF Types
  <1>10. CASE SinkClose(side, s)
    <2>1. /\ UNCHANGED <<state, files, inbox, lost, job>> /\ Closes(side, s)
          /\ Returns(side, s, "done") \/ (Goto(side, s, "remove") /\ UNCHANGED result)
      BY <1>10 DEF SinkClose, mail
    <2>2. /\ pc' \in Wheres /\ result' \in Results /\ opened' \in [Machines -> SUBSET Names]
      BY <1>2, <2>1, PartTypes DEF Types
    <2> QED
      BY <1>1, <2>1, <2>2, NewTypes DEF Types
  <1>11. CASE SinkRemove(side, s)
    <2>1. /\ UNCHANGED <<state, opened, inbox, lost, job>>
          /\ Puts(side, s, Absent) \/ UNCHANGED files
          /\ Returns(side, s, "failed")
      BY <1>11 DEF SinkRemove, mail
    <2>2. /\ pc' \in Wheres /\ result' \in Results /\ files' \in Disks(Machines)
      BY <1>4, <2>1, PartTypes DEF Types
    <2> QED
      BY <1>1, <2>1, <2>2, NewTypes DEF Types
  <1> QED
    BY <1>5, <1>6, <1>7, <1>8, <1>9, <1>10, <1>11 DEF ReceivesFile

\* The server's own steps keep the types.
LEMMA ServerTypes ==
    ASSUME Settings, Types, NEW s \in Sessions,
           ServerRoutine(s) \/ Notifies(s) \/ Serves(s) \/ SaysBye(s) \/ ClientDisconnect(s)
    PROVE  Settings' /\ Types'
  <1>1. /\ UNCHANGED <<setting, files, opened, result, grown>>
    BY DEF ServerRoutine, Notifies, Serves, SaysBye, ClientDisconnect, disks
  <1>2. /\ {"end", "hello", "serve", "size", "create", "bye", "invalid", "leave"} \subseteq Places
        /\ "server" \in Sides /\ {"OK", "ERROR", "DISCONNECT"} \subseteq Kinds
    BY DEF Places, Sides, Kinds
  <1>3. /\ Notification("OK") \in Messages(Machines)
        /\ Notification("ERROR") \in Messages(Machines)
        /\ Notification("DISCONNECT") \in Messages(Machines)
    BY <1>2, MessageTypes
  <1>4. CASE ServerRoutine(s)
    <2>1. /\ UNCHANGED <<state, job>> /\ rejected' \subseteq Sessions
          /\ Sends("server", s, Notification("DISCONNECT")) \/ UNCHANGED <<inbox, lost>>
          /\ Goto("server", s, "end") \/ Goto("server", s, "hello")
      BY <1>4 DEF ServerRoutine, mail, Types
    <2>2. inbox' \in Inboxes(Machines) /\ lost' \in Nat /\ pc' \in Wheres
      BY <1>2, <1>3, <2>1, PartTypes DEF Types
    <2> QED
      BY <1>1, <2>1, <2>2, NewTypes DEF Types
  <1>5. CASE Notifies(s) \/ SaysBye(s)
    <2>1. /\ UNCHANGED <<state, job, rejected>>
          /\ \/ Sends("server", s, Notification("OK"))
             \/ Sends("server", s, Notification("ERROR"))
             \/ Sends("server", s, Notification("DISCONNECT"))
          /\ Goto("server", s, "serve") \/ Goto("server", s, "leave")
      BY <1>5 DEF Notifies, SaysBye, server
    <2>2. inbox' \in Inboxes(Machines) /\ lost' \in Nat /\ pc' \in Wheres
      BY <1>2, <1>3, <2>1, PartTypes
    <2> QED
      BY <1>1, <2>1, <2>2, NewTypes DEF Types
  <1>6. CASE Serves(s)
    <2>1. /\ UNCHANGED <<state, rejected>> /\ Receives("server", s)
          /\ job' = [job EXCEPT !["server"][s].size = Received("server", s).size]
          /\ \E where \in {"size", "create", "bye", "invalid"} : Goto("server", s, where)
      BY <1>6 DEF Serves, server
    <2>2. Received("server", s).size \in Nat
      BY <1>2, <2>1, ReceivesMail DEF Types, Messages
    <2>3. job' \in Jobs(Machines)
      BY <1>2, <2>1, <2>2, KeptType DEF Types
    <2>4. inbox' \in Inboxes(Machines) /\ lost' \in Nat /\ pc' \in Wheres
      BY <1>2, <2>1, PartTypes
    <2> QED
      BY <1>1, <2>1, <2>3, <2>4, NewTypes DEF Types
  <1>7. CASE ClientDisconnect(s)
    <2>1. /\ UNCHANGED <<inbox, lost, job, rejected>>
          /\ \/ Goto("server", s, "end") /\ UNCHANGED state
             \/ Aborts(ServerAddr) /\ UNCHANGED pc
      BY <1>7 DEF ClientDisconnect, mail
    <2>2. ServerAddr \in Machines
      BY DEF Machines
    <2>3. pc' \in Wheres /\ state' \in States(Machines)
      BY <1>2, <2>1, <2>2, PartTypes DEF Types
    <2> QED
      BY <1>1, <2>1, <2>3, NewTypes DEF Types
  <1> QED
    BY <1>4, <1>5, <1>6, <1>7

\* The client's own steps keep the types.
LEMMA ClientTypes ==
    ASSUME Settings, Types, NEW s \in Sessions,
           \/ Connect(s) \/ Connected(s) \/ SendFileRequest(s) \/ Answered(s)
           \/ Disconnect(s) \/ Disconnected(s)
    PROVE  Settings' /\ Types'
  <1>1. /\ UNCHANGED <<setting, files, opened, rejected, grown>>
    BY DEF Connect, Connected, SendFileRequest, Answered, Disconnect, Disconnected, disks, server
  <1>2. /\ {"accept", "request", "answer", "create", "size", "goodbye", "end"} \subseteq Places
        /\ "client" \in Sides /\ {"READFILE", "WRITEFILE", "DISCONNECT"} \subseteq Kinds
        /\ host[s] \in Machines
    BY Residence DEF Places, Sides, Kinds
  <1>3. CASE Connect(s)
    <2>1. /\ UNCHANGED <<inbox, lost, job, result>>
          /\ \/ Goto("client", s, "accept") /\ UNCHANGED state
             \/ state' = [state EXCEPT ![host[s]] = "halted"] /\ UNCHANGED pc
      BY <1>3 DEF Connect, mail
    <2>2. pc' \in Wheres
      BY <1>2, <2>1, PartTypes DEF Types
    <2>3. state' \in States(Machines)
      BY <2>1 DEF Types, States
    <2> QED
      BY <1>1, <2>1, <2>2, <2>3, NewTypes DEF Types
  <1>4. CASE Connected(s) \/ Disconnected(s)
    <2>1. /\ UNCHANGED <<job, result>> /\ Receives("client", s)
          /\ \/ Goto("client", s, "request") /\ UNCHANGED state
             \/ Goto("client", s, "end") /\ UNCHANGED state
             \/ Aborts(host[s]) /\ UNCHANGED pc
      BY <1>4 DEF Connected, Disconnected
    <2>2. inbox' \in Inboxes(Machines) /\ lost' \in Nat
      BY <1>2, <2>1, PartTypes
    <2>3. pc' \in Wheres /\ state' \in States(Machines)
      BY <1>2, <2>1, PartTypes DEF Types
    <2> QED
      BY <1>1, <2>1, <2>2, <2>3, NewTypes DEF Types
  <1>5. CASE SendFileRequest(s)
    <2>1. /\ UNCHANGED <<state, job>>
          /\ \/ Returns("client", s, "failed") /\ UNCHANGED <<inbox, lost>>
             \/ /\ \E msg \in {Notification("READFILE"),
                               Message("WRITEFILE", File("client", s).len, Empty)} :
                       /\ Sends("client", s, msg)
                       /\ msg # Notification("READFILE") => File("client", s) # Absent
                /\ Goto("client", s, "answer") /\ UNCHANGED result
      BY <1>5 DEF SendFileRequest, mail
    <2>2. /\ Notification("READFILE") \in Messages(Machines)
          /\ File("client", s) # Absent =>
                 Message("WRITEFILE", File("client", s).len, Empty) \in Messages(Machines)
      BY <1>2, FileType, MessageTypes
    <2>3. \/ Returns("client", s, "failed") /\ UNCHANGED <<inbox, lost>>
          \/ /\ \E msg \in Messages(Machines) : Sends("client", s, msg)
             /\ Goto("client", s, "answer") /\ UNCHANGED result
      BY <2>1, <2>2
    <2>4. inbox' \in Inboxes(Machines) /\ lost' \in Nat
      BY <1>2, <2>3, PartTypes DEF Types
    <2>5. pc' \in Wheres /\ result' \in Results
      BY <1>2, <2>3, PartTypes DEF Types
    <2> QED
      BY <1>1, <2>1, <2>4, <2>5, NewTypes DEF Types
  <1>6. CASE Answered(s)
    <2>1. /\ Receives("client", s)
          /\ job' = [job EXCEPT !["client"][s].size = Received("client", s).size]
          /\ \/ Goto("client", s, "create") /\ UNCHANGED <<state, result>>
             \/ Goto("client", s, "size") /\ UNCHANGED <<state, result>>
             \/ Returns("client", s, "failed") /\ UNCHANGED state
             \/ Aborts(host[s]) /\ UNCHANGED <<pc, result>>
      BY <1>6 DEF Answered
    <2>2. Received("client", s).size \in Nat
      BY <1>2, <2>1, ReceivesMail DEF Types, Messages
    <2>3. job' \in Jobs(Machines)
      BY <1>2, <2>1, <2>2, KeptType DEF Types
    <2>4. inbox' \in Inboxes(Machines) /\ lost' \in Nat
      BY <1>2, <2>1, PartTypes
    <2>5. pc' \in Wheres /\ state' \in States(Machines) /\ result' \in Results
      BY <1>2, <2>1, PartTypes DEF Types
    <2> QED
      BY <1>1, <2>3, <2>4, <2>5, NewTypes DEF Types
  <1>7. CASE Disconnect(s)
    <2>1. /\ UNCHANGED <<state, job, result>>
          /\ Sends("client", s, Notification("DISCONNECT"))
          /\ Goto("client", s, "goodbye")
      BY <1>7 DEF Disconnect
    <2>2. Notification("DISCONNECT") \in Messages(Machines)
      BY <1>2, MessageTypes
    <2>3. inbox' \in Inboxes(Machines) /\ lost' \in Nat /\ pc' \in Wheres
      BY <1>2, <2>1, <2>2, PartTypes
    <2> QED
      BY <1>1, <2>1, <2>3, NewTypes DEF Types
  <1> QED
    BY <1>3, <1>4, <1>5, <1>6, <1>7

\* A local write to a file keeps the types.
LEMMA GrowsTypes ==
    ASSUME Settings, Types, NEW m \in Machines, NEW n \in Names, Grows(m, n)
    PROVE  Settings' /\ Types'
  <1>1. /\ UNCHANGED <<setting, state, opened, inbox, pc, job, result, rejected, lost>>
        /\ files' = [files EXCEPT ![m][n] = [of |-> m, len |-> files[m][n].len + 1]]
        /\ grown' = grown + 1 /\ files[m][n] # Absent
    BY DEF Grows, server, mail
  <1>2. files[m][n] \in [of : Machines, len : Nat]
    BY <1>1 DEF Types, Disks, Files
  <1>3. [of |-> m, len |-> files[m][n].len + 1] \in Files(Machines)
    BY SMTT(60), <1>2 DEF Files
  <1>4. files' \in Disks(Machines)
    BY <1>1, <1>3 DEF Types, Disks
  <1>5. grown' \in Nat
    BY SMTT(60), <1>1 DEF Types
  <1> QED
    BY <1>1, <1>4, <1>5, NewTypes DEF Types

\* Every step keeps the types.
LEMMA NextTypes ==
    ASSUME Settings, Types, [Next]_vars
    PROVE  Settings' /\ Types'
  <1>1. CASE UNCHANGED vars
    <2>1. UNCHANGED <<setting, state, files, opened, inbox, pc, job, result, rejected, lost, grown>>
      BY <1>1 DEF vars, server, disks, mail
    <2> QED
      BY <2>1, NewTypes DEF Types
  <1>2. ASSUME NEW s \in Sessions, Connect(s) \/ ClientStep(s) \/ ServerStep(s)
        PROVE  Settings' /\ Types'
    <2>1. "client" \in Sides /\ "server" \in Sides
      BY DEF Sides
    <2> QED
      BY <1>2, <2>1, SourceTypes, SinkTypes, ServerTypes, ClientTypes DEF ClientStep, ServerStep
  <1>3. ASSUME NEW m \in Machines, NEW n \in Names, Grows(m, n) PROVE Settings' /\ Types'
    BY <1>3, GrowsTypes
  <1> QED
    BY <1>1, <1>2, <1>3 DEF Next

-------------------------------------------------------------------------------
(* The clients of the server.                                                 *)

\* A step of a transfer leaves the server's tables alone, and the handler is one.
LEMMA TransferMoves ==
    ASSUME NEW side, NEW s, SendsFile(side, s) \/ ReceivesFile(side, s)
    PROVE  /\ UNCHANGED <<clientMap, nbClients, rejected, setting, grown>>
           /\ pc[side][s] \notin {"start", "end", "accept", "goodbye"}
           /\ \/ UNCHANGED pc
              \/ \E where \in Places \ {"start", "end"} : Goto(side, s, where)
  <1>1. /\ UNCHANGED <<clientMap, nbClients, rejected, setting, grown>>
        /\ pc[side][s] \notin {"start", "end", "accept", "goodbye"}
    BY DEF SendsFile, SourceSize, SourceOpen, SourceRead, SourceWait, SourceSend, SourceClose,
           ReceivesFile, SinkCreate, SinkOpen, SinkWait, SinkReceive, SinkWrite, SinkClose,
           SinkRemove, server, At
  <1>2. {"open", "read", "ready", "send", "stored", "close", "drop", "openNew", "await", "data",
         "write", "confirm", "keep", "discard", "remove", "serve", "disconnect"}
            \subseteq Places \ {"start", "end"}
    BY DEF Places, Holding
  <1> DEFINE Moves == UNCHANGED pc \/ \E where \in Places \ {"start", "end"} : Goto(side, s, where)
  <1>3. SourceSize(side, s) => Moves
    BY <1>2 DEF SourceSize, Fails, Returns
  <1>4. SourceOpen(side, s) => Moves
    BY <1>2 DEF SourceOpen, Fails, Returns
  <1>5. SourceRead(side, s) => Moves
    BY <1>2 DEF SourceRead
  <1>6. SourceWait(side, s) => Moves
    BY <1>2 DEF SourceWait, Confirmation
  <1>7. SourceSend(side, s) => Moves
    BY <1>2 DEF SourceSend
  <1>8. SourceClose(side, s) => Moves
    BY <1>2 DEF SourceClose, Returns
  <1>9. SinkCreate(side, s) => Moves
    BY <1>2 DEF SinkCreate, Fails, Returns
  <1>10. SinkOpen(side, s) => Moves
    BY <1>2 DEF SinkOpen, Fails, Returns
  <1>11. SinkWait(side, s) => Moves
    BY <1>2 DEF SinkWait, Confirmation
  <1>12. SinkReceive(side, s) => Moves
    BY <1>2 DEF SinkReceive
  <1>13. SinkWrite(side, s) => Moves
    BY <1>2 DEF SinkWrite
  <1>14. SinkClose(side, s) => Moves
    BY <1>2 DEF SinkClose, Returns
  <1>15. SinkRemove(side, s) => Moves
    BY <1>2 DEF SinkRemove, Returns
  <1> HIDE DEF Moves
  <1>16. Moves
    BY <1>3, <1>4, <1>5, <1>6, <1>7, <1>8, <1>9, <1>10, <1>11, <1>12, <1>13, <1>14, <1>15 DEF SendsFile, ReceivesFile
  <1> QED
    BY <1>1, <1>16 DEF Moves

\* The machines of the clients, and one more or less.
LEMMA Counted ==
    ASSUME Settings, NEW at, NEW map, NEW n, Accounts(at, map, n, host)
    PROVE  /\ map \subseteq Machines /\ IsFiniteSet(map) /\ Cardinality(map) \in Nat
           /\ n \in 0 .. (MaxClients - 1) /\ n + 1 = Cardinality(map)
  <1>1. map \subseteq Machines /\ Machines \subseteq 0 .. (MaxClients - 1) /\ ServerAddr \in map
        /\ n = Cardinality(map) - 1
    BY SMTT(60) DEF Settings, Accounts, Machines, Handled
  <1>2. IsFiniteSet(0 .. (MaxClients - 1)) /\ Cardinality(0 .. (MaxClients - 1)) = MaxClients
    BY SMTT(60), FS_Interval
  <1>3. IsFiniteSet(map) /\ Cardinality(map) <= MaxClients
    BY <1>1, <1>2, FS_Subset
  <1>4. Cardinality(map) \in Nat /\ Cardinality(map) # 0
    BY <1>1, <1>3, FS_CardinalityType, FS_EmptySet
  <1> QED
    BY SMTT(60), <1>1, <1>3, <1>4

\* A machine gets a handler.
LEMMA ClientAdded ==
    ASSUME Settings, NEW at, NEW at2, NEW map, NEW n, Accounts(at, map, n, host),
           NEW s \in Sessions, host[s] \notin map, Handled(at2) = Handled(at) \cup {s}
    PROVE  Accounts(at2, map \cup {host[s]}, n + 1, host)
  <1>1. /\ \A r, q \in Handled(at) : host[r] = host[q] => r = q
        /\ map = {ServerAddr} \cup {host[r] : r \in Handled(at)}
    BY DEF Accounts
  <1>2. \A r, q \in Handled(at2) : host[r] = host[q] => r = q
    BY <1>1
  <1>3. map \cup {host[s]} = {ServerAddr} \cup {host[r] : r \in Handled(at2)}
    BY <1>1
  <1>4. Cardinality(map \cup {host[s]}) = Cardinality(map) + 1
    BY Counted, FS_AddElement
  <1>5. n + 1 = Cardinality(map \cup {host[s]}) - 1
    BY SMTT(60), <1>4, Counted
  <1> QED
    BY <1>2, <1>3, <1>5 DEF Accounts

\* A machine's handler ends.
LEMMA ClientRemoved ==
    ASSUME Settings, NEW at, NEW at2, NEW map, NEW n, Accounts(at, map, n, host),
           NEW s \in Handled(at), Handled(at2) = Handled(at) \ {s}
    PROVE  host[s] \in map /\ Accounts(at2, map \ {host[s]}, n - 1, host)
  <1>1. /\ \A r, q \in Handled(at) : host[r] = host[q] => r = q
        /\ map = {ServerAddr} \cup {host[r] : r \in Handled(at)} /\ host[s] # ServerAddr
    BY SMTT(60) DEF Accounts, Settings, Handled
  <1>2. \A r, q \in Handled(at2) : host[r] = host[q] => r = q
    BY <1>1
  <1>3. host[s] \in map
    BY <1>1
  <1>4. map \ {host[s]} = {ServerAddr} \cup {host[r] : r \in Handled(at2)}
    BY <1>1
  <1>5. Cardinality(map \ {host[s]}) = Cardinality(map) - 1
    BY <1>3, Counted, FS_RemoveElement
  <1>6. n - 1 = Cardinality(map \ {host[s]}) - 1
    BY SMTT(60), <1>5, Counted
  <1> QED
    BY <1>2, <1>3, <1>4, <1>6 DEF Accounts

\* Every step keeps the server's map and counter true.
LEMMA NextAccounts ==
    ASSUME Settings, Types, Accounts(pc["server"], clientMap, nbClients, host), [Next]_vars
    PROVE  Accounts(pc["server"], clientMap, nbClients, host)'
  <1>1. host' = host
    <2>1. ASSUME NEW side, NEW s, SendsFile(side, s) \/ ReceivesFile(side, s)
          PROVE  host' = host
      BY <2>1, TransferMoves DEF setting
    <2> QED
      BY <2>1 DEF Next, vars, setting, ClientStep, ServerStep, ServerRoutine, Notifies, Serves,
             SaysBye, ClientDisconnect, Connect, Connected, SendFileRequest, Answered, Disconnect,
             Disconnected, Grows
  <1>2. ASSUME Handled(pc'["server"]) = Handled(pc["server"]), UNCHANGED <<clientMap, nbClients>>
        PROVE  Accounts(pc["server"], clientMap, nbClients, host)'
    BY <1>1, <1>2 DEF Accounts
  <1>3. /\ "client" \in Sides /\ "server" \in Sides /\ pc \in Wheres
        /\ {"end", "hello", "serve", "size", "create", "bye", "invalid", "leave"} \subseteq Places
        /\ {"accept", "request", "answer", "create", "size", "disconnect", "goodbye", "end"}
               \subseteq Places
    BY DEF Sides, Types, Places
  <1>4. ASSUME NEW s \in Sessions, NEW where \in Places, Goto("server", s, where)
        PROVE  /\ where \notin {"start", "end"} =>
                      Handled(pc'["server"]) = Handled(pc["server"]) \cup {s}
               /\ where = "end" => Handled(pc'["server"]) = Handled(pc["server"]) \ {s}
               /\ \/ where \notin {"start", "end"} /\ s \in Handled(pc["server"])
                  \/ where = "end" /\ s \notin Handled(pc["server"])
                  => Handled(pc'["server"]) = Handled(pc["server"])
    <2>1. /\ pc'["server"][s] = where
          /\ \A r \in Sessions : r # s => pc'["server"][r] = pc["server"][r]
      BY SMTT(60), <1>3, <1>4, Moved
    <2>2. \A r \in Sessions :
              r \in Handled(pc'["server"]) <=>
                  IF r = s THEN where \notin {"start", "end"} ELSE r \in Handled(pc["server"])
      BY <2>1 DEF Handled
    <2>3. Handled(pc'["server"]) \subseteq Sessions /\ Handled(pc["server"]) \subseteq Sessions
      BY DEF Handled
    <2> QED
      BY <2>2, <2>3
  <1>5. ASSUME NEW s \in Sessions, NEW where \in Places, Goto("client", s, where)
        PROVE  Handled(pc'["server"]) = Handled(pc["server"])
    <2>1. \A r \in Sessions : pc'["server"][r] = pc["server"][r]
      BY SMTT(60), <1>3, <1>5, Moved
    <2> QED
      BY <2>1 DEF Handled
  <1>6. CASE UNCHANGED vars
    BY <1>2, <1>6 DEF vars, server
  <1>7. ASSUME NEW s \in Sessions, NEW side \in Sides, SendsFile(side, s) \/ ReceivesFile(side, s)
        PROVE  Accounts(pc["server"], clientMap, nbClients, host)'
    <2>1. /\ UNCHANGED <<clientMap, nbClients>> /\ pc[side][s] \notin {"start", "end"}
          /\ \/ UNCHANGED pc
             \/ \E where \in Places \ {"start", "end"} : Goto(side, s, where)
      BY <1>7, TransferMoves
    <2>2. side = "client" \/ (side = "server" /\ s \in Handled(pc["server"]))
      BY <2>1 DEF Sides, Handled
    <2>3. CASE UNCHANGED pc
      BY <1>2, <2>1, <2>3
    <2>4. ASSUME NEW where \in Places \ {"start", "end"}, Goto(side, s, where)
          PROVE  Handled(pc'["server"]) = Handled(pc["server"])
      BY SMTT(60), <1>4, <1>5, <2>2, <2>4
    <2> QED
      BY <1>2, <2>1, <2>3, <2>4
  <1>8. ASSUME NEW s \in Sessions, Connect(s) \/ Connected(s) \/ SendFileRequest(s) \/ Answered(s)
                                   \/ Disconnect(s) \/ Disconnected(s)
        PROVE  Accounts(pc["server"], clientMap, nbClients, host)'
    <2>1. /\ UNCHANGED <<clientMap, nbClients>>
          /\ UNCHANGED pc \/ \E where \in Places : Goto("client", s, where)
      BY <1>3, <1>8 DEF Connect, Connected, SendFileRequest, Answered, Disconnect, Disconnected,
                        server, Returns
    <2> QED
      BY <1>2, <1>5, <2>1
  <1>9. ASSUME NEW s \in Sessions, Notifies(s) \/ Serves(s) \/ SaysBye(s)
        PROVE  Accounts(pc["server"], clientMap, nbClients, host)'
    <2>1. /\ UNCHANGED <<clientMap, nbClients>>
          /\ pc["server"][s] \in {"hello", "invalid", "serve", "bye"}
          /\ \E where \in Places \ {"start", "end"} : Goto("server", s, where)
      BY <1>3, <1>9 DEF Notifies, Serves, SaysBye, server, At
    <2>2. s \in Handled(pc["server"])
      BY <2>1 DEF Handled
    <2>3. Handled(pc'["server"]) = Handled(pc["server"])
      BY <1>4, <2>1, <2>2
    <2> QED
      BY <1>2, <2>1, <2>3
  <1>10. ASSUME NEW s \in Sessions, ServerRoutine(s)
         PROVE  Accounts(pc["server"], clientMap, nbClients, host)'
    <2>1. s \notin Handled(pc["server"])
      BY <1>10 DEF ServerRoutine, At, Handled
    <2>2. CASE host[s] \in clientMap
      <3>1. Goto("server", s, "end") /\ UNCHANGED <<clientMap, nbClients>>
        BY <1>10, <2>2 DEF ServerRoutine
      <3>2. Handled(pc'["server"]) = Handled(pc["server"])
        BY <1>3, <1>4, <2>1, <3>1
      <3> QED
        BY <1>2, <3>1, <3>2
    <2>3. CASE host[s] \notin clientMap
      <3>1. Goto("server", s, "hello") /\ ClientConnect(host[s])
        BY <1>10, <2>3 DEF ServerRoutine
      <3>2. Handled(pc'["server"]) = Handled(pc["server"]) \cup {s}
        BY <1>3, <1>4, <3>1
      <3>3. nbClients < MaxClients
        BY SMTT(60), Counted
      <3>4. clientMap' = clientMap \cup {host[s]} /\ nbClients' = nbClients + 1
        BY SMTT(60), <3>1, <3>3, Counted DEF ClientConnect
      <3>5. Accounts(pc'["server"], clientMap \cup {host[s]}, nbClients + 1, host)
        BY <2>3, <3>2, ClientAdded
      <3> QED
        BY <1>1, <3>4, <3>5
    <2> QED
      BY <2>2, <2>3
  <1>11. ASSUME NEW s \in Sessions, ClientDisconnect(s)
         PROVE  Accounts(pc["server"], clientMap, nbClients, host)'
    <2>1. s \in Handled(pc["server"])
      BY <1>11 DEF ClientDisconnect, At, Handled
    <2>2. host[s] \in clientMap
      BY <2>1 DEF Accounts
    <2>3. /\ Goto("server", s, "end")
          /\ clientMap' = clientMap \ {host[s]} /\ nbClients' = nbClients - 1
      BY <1>11, <2>2 DEF ClientDisconnect
    <2>4. Handled(pc'["server"]) = Handled(pc["server"]) \ {s}
      BY <1>3, <1>4, <2>3
    <2>5. Accounts(pc'["server"], clientMap \ {host[s]}, nbClients - 1, host)
      BY <2>1, <2>4, ClientRemoved
    <2> QED
      BY <1>1, <2>3, <2>5
  <1>12. ASSUME NEW m, NEW n, Grows(m, n) PROVE Accounts(pc["server"], clientMap, nbClients, host)'
    BY <1>2, <1>12 DEF Grows, server
  <1> QED
    BY <1>3, <1>6, <1>7, <1>8, <1>9, <1>10, <1>11, <1>12 DEF Next, ClientStep, ServerStep

-------------------------------------------------------------------------------
(* The open files.                                                            *)

\* Who holds a file stays, opens one that was closed, or closes it.
LEMMA HeldKept ==
    ASSUME NEW at, NEW at2, NEW open, NEW where, NEW ask, Held(at, open, where, ask),
           \A x \in Sides, r \in Sessions : at2[x][r] \in Holding <=> at[x][r] \in Holding
    PROVE  Held(at2, open, where, ask)
  BY SMTT(60) DEF Held

\* A session that opens a file nobody had open is its only holder.
LEMMA HeldOpened ==
    ASSUME Settings, Types, Held(pc, opened, host, request),
           NEW side \in Sides, NEW s \in Sessions, NEW where \in Holding,
           Opens(side, s), ~IsOpen(side, s), Goto(side, s, where)
    PROVE  Held(pc', opened', host, request)
  <1> DEFINE m == Machine(side, s)
             n == Name(s)
  <1>1. /\ m \in Machines /\ DOMAIN opened = Machines /\ DOMAIN opened' = Machines
        /\ m = On(side, s, host) /\ n = request[s][2]
        /\ \A x \in Sides, r \in Sessions : On(x, r, host) \in Machines
        /\ \A k \in Machines : \A f : f \in opened'[k] <=> f \in opened[k] \/ (k = m /\ f = n)
        /\ n \notin opened[m]
    BY Residence DEF Types, Opens, IsOpen
  <1>2. /\ pc'[side][s] \in Holding
        /\ \A x \in Sides, r \in Sessions : x # side \/ r # s => pc'[x][r] = pc[x][r]
    BY Moved DEF Types, Places
  <1> HIDE DEF m, n
  <1>3. ASSUME NEW x \in Sides, NEW r \in Sessions, pc'[x][r] \in Holding
        PROVE  request[r][2] \in opened'[On(x, r, host)]
    <2>1. CASE x = side /\ r = s
      BY <1>1, <2>1
    <2>2. CASE x # side \/ r # s
      <3>1. request[r][2] \in opened[On(x, r, host)]
        BY SMTT(60), <1>2, <1>3, <2>2 DEF Held
      <3> QED
        BY <1>1, <3>1
    <2> QED
      BY <2>1, <2>2
  <1>4. ASSUME NEW x \in Sides, NEW y \in Sides, NEW r \in Sessions, NEW q \in Sessions,
               pc'[x][r] \in Holding, pc'[y][q] \in Holding,
               On(x, r, host) = On(y, q, host), request[r][2] = request[q][2]
        PROVE  x = y /\ r = q
    BY SMTT(60), <1>1, <1>2, <1>4 DEF Held
  <1>5. ASSUME NEW k \in DOMAIN opened', NEW f \in opened'[k]
        PROVE  \E x \in Sides, r \in Sessions :
                   pc'[x][r] \in Holding /\ On(x, r, host) = k /\ request[r][2] = f
    <2>1. CASE k = m /\ f = n
      BY <1>1, <1>2, <2>1
    <2>2. CASE f \in opened[k]
      <3>1. PICK x \in Sides, r \in Sessions :
                pc[x][r] \in Holding /\ On(x, r, host) = k /\ request[r][2] = f
        BY SMTT(60), <1>1, <1>5, <2>2 DEF Held
      <3>2. pc'[x][r] \in Holding
        BY <1>2, <3>1
      <3> QED
        BY <3>1, <3>2
    <2> QED
      BY <1>1, <1>5, <2>1, <2>2
  <1> QED
    BY SMTT(60), <1>3, <1>4, <1>5 DEF Held

\* The holder of a file gives it back when it closes it.
LEMMA HeldClosed ==
    ASSUME Settings, Types, Held(pc, opened, host, request),
           NEW side \in Sides, NEW s \in Sessions, NEW where \in Places \ Holding,
           Closes(side, s), pc[side][s] \in Holding, Goto(side, s, where)
    PROVE  Held(pc', opened', host, request)
  <1> DEFINE m == Machine(side, s)
             n == Name(s)
  <1>1. /\ m \in Machines /\ DOMAIN opened = Machines /\ DOMAIN opened' = Machines
        /\ m = On(side, s, host) /\ n = request[s][2]
        /\ \A x \in Sides, r \in Sessions : On(x, r, host) \in Machines
        /\ \A k \in Machines : \A f : f \in opened'[k] <=> f \in opened[k] /\ (k # m \/ f # n)
    BY Residence DEF Types, Closes
  <1>2. /\ pc'[side][s] \notin Holding
        /\ \A x \in Sides, r \in Sessions : x # side \/ r # s => pc'[x][r] = pc[x][r]
    BY SMTT(60), Moved DEF Types
  <1> HIDE DEF m, n
  <1>3. ASSUME NEW x \in Sides, NEW r \in Sessions, pc'[x][r] \in Holding
        PROVE  pc[x][r] \in Holding /\ (x # side \/ r # s)
    BY <1>2, <1>3
  <1>4. ASSUME NEW x \in Sides, NEW r \in Sessions, pc'[x][r] \in Holding
        PROVE  request[r][2] \in opened'[On(x, r, host)]
    <2>1. pc[x][r] \in Holding /\ (x # side \/ r # s)
      BY <1>3, <1>4
    <2>2. /\ request[r][2] \in opened[On(x, r, host)]
          /\ On(x, r, host) # On(side, s, host) \/ request[r][2] # request[s][2]
      BY SMTT(60), <2>1 DEF Held
    <2> QED
      BY <1>1, <2>2
  <1>5. ASSUME NEW x \in Sides, NEW y \in Sides, NEW r \in Sessions, NEW q \in Sessions,
               pc'[x][r] \in Holding, pc'[y][q] \in Holding,
               On(x, r, host) = On(y, q, host), request[r][2] = request[q][2]
        PROVE  x = y /\ r = q
    <2>1. pc[x][r] \in Holding /\ pc[y][q] \in Holding
      BY <1>3, <1>5
    <2> QED
      BY SMTT(60), <1>5, <2>1 DEF Held
  <1>6. ASSUME NEW k \in DOMAIN opened', NEW f \in opened'[k]
        PROVE  \E x \in Sides, r \in Sessions :
                   pc'[x][r] \in Holding /\ On(x, r, host) = k /\ request[r][2] = f
    <2>1. f \in opened[k] /\ k \in Machines /\ (k # m \/ f # n)
      BY <1>1, <1>6
    <2>2. PICK x \in Sides, r \in Sessions :
              pc[x][r] \in Holding /\ On(x, r, host) = k /\ request[r][2] = f
      BY <1>1, <2>1 DEF Held
    <2>3. pc'[x][r] \in Holding
      BY <1>1, <1>2, <2>1, <2>2
    <2> QED
      BY <2>2, <2>3
  <1> QED
    BY SMTT(60), <1>4, <1>5, <1>6 DEF Held

\* What a step of a transfer does to the open files.
LEMMA TransferHolds ==
    ASSUME NEW side, NEW s, SendsFile(side, s) \/ ReceivesFile(side, s)
    PROVE  \/ /\ UNCHANGED opened
              /\ \/ UNCHANGED pc
                 \/ \E where \in Places : /\ Goto(side, s, where)
                                          /\ where \in Holding <=> pc[side][s] \in Holding
           \/ /\ Opens(side, s) /\ ~IsOpen(side, s)
              /\ \E where \in Holding : Goto(side, s, where)
           \/ /\ Closes(side, s) /\ pc[side][s] \in Holding
              /\ \E where \in Places \ Holding : Goto(side, s, where)
  <1> DEFINE Alternatives ==
           \/ /\ UNCHANGED opened
              /\ \/ UNCHANGED pc
                 \/ \E where \in Places : /\ Goto(side, s, where)
                                          /\ where \in Holding <=> pc[side][s] \in Holding
           \/ /\ Opens(side, s) /\ ~IsOpen(side, s)
              /\ \E where \in Holding : Goto(side, s, where)
           \/ /\ Closes(side, s) /\ pc[side][s] \in Holding
              /\ \E where \in Places \ Holding : Goto(side, s, where)
  <1>1. /\ {"read", "ready", "send", "stored", "close", "drop", "await", "data", "write",
            "confirm", "keep", "discard"} \subseteq Holding
        /\ {"size", "open", "create", "openNew", "remove", "serve", "disconnect"}
               \subseteq Places \ Holding
        /\ Holding \subseteq Places
    BY DEF Places, Holding
  <1>2. SourceSize(side, s) => Alternatives
    BY <1>1 DEF SourceSize, At, Fails, Returns, disks
  <1>3. SourceOpen(side, s) => Alternatives
    BY <1>1 DEF SourceOpen, At, Fails, Returns, disks
  <1>4. SourceRead(side, s) => Alternatives
    BY <1>1 DEF SourceRead, At, disks
  <1>5. SourceWait(side, s) => Alternatives
    BY <1>1 DEF SourceWait, At, Confirmation, disks
  <1>6. SourceSend(side, s) => Alternatives
    BY <1>1 DEF SourceSend, At, disks
  <1>7. SourceClose(side, s) => Alternatives
    BY <1>1 DEF SourceClose, At, Returns
  <1>8. SinkCreate(side, s) => Alternatives
    BY <1>1 DEF SinkCreate, At, Fails, Returns, disks
  <1>9. SinkOpen(side, s) => Alternatives
    BY <1>1 DEF SinkOpen, At, Fails, Returns, disks
  <1>10. SinkWait(side, s) => Alternatives
    BY <1>1 DEF SinkWait, At, Confirmation, disks
  <1>11. SinkReceive(side, s) => Alternatives
    BY <1>1 DEF SinkReceive, At, disks
  <1>12. SinkWrite(side, s) => Alternatives
    BY <1>1 DEF SinkWrite, At
  <1>13. SinkClose(side, s) => Alternatives
    BY <1>1 DEF SinkClose, At, Returns
  <1>14. SinkRemove(side, s) => Alternatives
    BY <1>1 DEF SinkRemove, At, Returns
  <1> HIDE DEF Alternatives
  <1>15. Alternatives
    BY <1>2, <1>3, <1>4, <1>5, <1>6, <1>7, <1>8, <1>9, <1>10, <1>11, <1>12, <1>13, <1>14 DEF SendsFile, ReceivesFile
  <1> QED
    BY <1>15 DEF Alternatives

\* Every step keeps the open files those of the transfers that hold one.
LEMMA NextHeld ==
    ASSUME Settings, Types, Held(pc, opened, host, request), [Next]_vars
    PROVE  Held(pc, opened, host, request)'
  <1>1. host' = host /\ request' = request
    <2>1. ASSUME NEW side, NEW s, SendsFile(side, s) \/ ReceivesFile(side, s)
          PROVE  host' = host /\ request' = request
      BY <2>1, TransferMoves DEF setting
    <2> QED
      BY <2>1 DEF Next, vars, setting, ClientStep, ServerStep, ServerRoutine, Notifies, Serves,
             SaysBye, ClientDisconnect, Connect, Connected, SendFileRequest, Answered, Disconnect,
             Disconnected, Grows
  <1>2. ASSUME UNCHANGED <<pc, opened>> PROVE Held(pc, opened, host, request)'
    BY <1>1, <1>2
  <1>3. ASSUME NEW side \in Sides, NEW s \in Sessions, NEW where \in Places, Goto(side, s, where),
               UNCHANGED opened, where \in Holding <=> pc[side][s] \in Holding
        PROVE  Held(pc, opened, host, request)'
    <2>1. \A x \in Sides, r \in Sessions : pc'[x][r] \in Holding <=> pc[x][r] \in Holding
      BY SMTT(60), <1>3, Moved DEF Types
    <2> QED
      BY <1>1, <1>3, <2>1, HeldKept
  <1>4. "client" \in Sides /\ "server" \in Sides
    BY DEF Sides
  <1>5. /\ {"end", "hello", "serve", "size", "create", "bye", "invalid", "leave", "accept",
            "request", "answer", "disconnect", "goodbye", "start"} \subseteq Places \ Holding
    BY DEF Places, Holding
  <1>6. ASSUME NEW s \in Sessions, NEW side \in Sides, SendsFile(side, s) \/ ReceivesFile(side, s)
        PROVE  Held(pc, opened, host, request)'
    <2>1. ASSUME Opens(side, s), ~IsOpen(side, s), NEW where \in Holding, Goto(side, s, where)
          PROVE  Held(pc, opened, host, request)'
      BY <1>1, <2>1, HeldOpened
    <2>2. ASSUME Closes(side, s), pc[side][s] \in Holding,
                 NEW where \in Places \ Holding, Goto(side, s, where)
          PROVE  Held(pc, opened, host, request)'
      BY <1>1, <2>2, HeldClosed
    <2> QED
      BY <1>2, <1>3, <1>6, <2>1, <2>2, TransferHolds
  <1>7. ASSUME NEW s \in Sessions, Connect(s) \/ Connected(s) \/ SendFileRequest(s) \/ Answered(s)
                                   \/ Disconnect(s) \/ Disconnected(s)
        PROVE  Held(pc, opened, host, request)'
    <2>1. UNCHANGED opened /\ pc["client"][s] \in Places \ Holding
      BY <1>5, <1>7 DEF Connect, Connected, SendFileRequest, Answered, Disconnect, Disconnected,
                        At, disks
    <2>2. UNCHANGED pc \/ \E where \in Places \ Holding : Goto("client", s, where)
      BY <1>5, <1>7 DEF Connect, Connected, SendFileRequest, Answered, Disconnect, Disconnected,
                        Returns
    <2> QED
      BY <1>2, <1>3, <1>4, <2>1, <2>2
  <1>8. ASSUME NEW s \in Sessions, ServerRoutine(s) \/ Notifies(s) \/ Serves(s) \/ SaysBye(s)
                                   \/ ClientDisconnect(s)
        PROVE  Held(pc, opened, host, request)'
    <2>1. UNCHANGED opened /\ pc["server"][s] \in Places \ Holding
      BY <1>5, <1>8 DEF ServerRoutine, Notifies, Serves, SaysBye, ClientDisconnect, At, disks
    <2>2. UNCHANGED pc \/ \E where \in Places \ Holding : Goto("server", s, where)
      BY <1>5, <1>8 DEF ServerRoutine, Notifies, Serves, SaysBye, ClientDisconnect
    <2> QED
      BY <1>2, <1>3, <1>4, <2>1, <2>2
  <1>9. CASE UNCHANGED vars \/ \E m \in Machines, n \in Names : Grows(m, n)
    BY <1>2, <1>9 DEF vars, disks, Grows
  <1> QED
    BY <1>4, <1>6, <1>7, <1>8, <1>9 DEF Next, ClientStep, ServerStep

-------------------------------------------------------------------------------
(* The conversation of a session with its sizes, move by move.                *)

\* HandlerSaysIt, with the sizes the two sides have agreed on.
LEMMA HandlerSaysSize ==
    ASSUME NEW op, NEW c, NEW v, NEW toClient, NEW toServer, NEW refused, NEW n, NEW mine,
           NEW yours, NEW len, NEW v2, NEW toClient2, NEW type,
           Talk(op, c, v, toClient, toServer, refused, n, mine, yours, len),
           HandlerSays(v, type, v2), Sent(toClient, toClient2, type),
           Nothing(toClient) /\ type \in {"OK", "FILEDATA"} /\ v \in {"read", "send"} =>
               toClient2[1].size = yours
    PROVE  Talk(op, c, v2, toClient2, toServer, refused, n, mine, yours, len)
  <1>1. Converses(op, c, v2, toClient2, toServer, refused, n > 0)
    BY HandlerSaysIt DEF Talk
  <1>2. ASSUME op = "r" PROVE ReadSizes(c, v2, toClient2, mine, yours)
    <2>1. /\ ReadSizes(c, v, toClient, mine, yours)
          /\ v \in {"read", "send"} => Nothing(toClient)
      BY <1>2 DEF Talk, Converses, Meeting, Reading
    <2> QED
      BY <2>1 DEF ReadSizes, HandlerSays
  <1>3. ASSUME op = "w", n = 0 PROVE WriteSizes(c, v2, toServer, mine, yours, len)
    <2>1. WriteSizes(c, v, toServer, mine, yours, len)
      BY <1>3 DEF Talk
    <2>2. /\ c = "answer" => ~Only(toServer, "WRITEFILE")
          /\ c \in {"answer", "stored"} => v \notin {"size", "open", "read", "send", "hello", "close"}
          /\ c = "stored" => v # "openNew"
      BY SMTT(60), <1>3 DEF Talk, Converses, Meeting, Writing, HandlerSays, Nothing, Only, Ending, EndingAfter,
                  Finishing
    <2> QED
      BY <2>1, <2>2 DEF WriteSizes, HandlerSays
  <1> QED
    BY <1>1, <1>2, <1>3 DEF Talk

\* HandlerHearsIt, with the size the request carries.
LEMMA HandlerHearsSize ==
    ASSUME NEW op \in {"r", "w"}, NEW c, NEW v, NEW toClient, NEW toServer, NEW refused, NEW n,
           NEW mine, NEW yours, NEW len, NEW v2, NEW toServer2, NEW type \in Kinds, NEW yours2,
           Talk(op, c, v, toClient, toServer, refused, n, mine, yours, len),
           HandlerHears(v, type, v2), Took(toServer, toServer2, type),
           v # "serve" => yours2 = yours, v = "serve" => yours2 = toServer[1].size,
           toServer[1].type = type,
           Len(toServer) = 2 => toServer2[1] = toServer[2]
    PROVE  Talk(op, c, v2, toClient, toServer2, refused, n, mine, yours2, len)
  <1>1. Converses(op, c, v2, toClient, toServer2, refused, n > 0)
    BY HandlerHearsIt DEF Talk
  <1>2. ASSUME op = "r" PROVE ReadSizes(c, v2, toClient, mine, yours2)
    <2>1. /\ ReadSizes(c, v, toClient, mine, yours)
          /\ v = "serve" => c \notin {"create", "openNew", "data"}
      BY <1>2 DEF Talk, Converses, Meeting, Reading, Ending, EndingAfter, Finishing
    <2> QED
      BY <2>1 DEF ReadSizes, HandlerHears
  <1>3. ASSUME op = "w", n = 0 PROVE WriteSizes(c, v2, toServer2, mine, yours2, len)
    <2>1. WriteSizes(c, v, toServer, mine, yours, len)
      BY <1>3 DEF Talk
    <2>2. /\ v = "serve" => c \notin {"size", "open", "read", "send"}
          /\ c = "answer" => v = "serve" /\ Only(toServer, "WRITEFILE")
          /\ c = "stored" /\ v = "await" => Len(toServer) = 2
      <3>1. {"READFILE", "WRITEFILE", "DISCONNECT", "OK", "ERROR", "FILEDATA"} \subseteq Kinds
        BY DEF Kinds
      <3> QED
        BY <1>3, <3>1 DEF Talk, Converses, Meeting, Writing, HandlerHears, Took, Both, Ending,
                    EndingAfter, Finishing
    <2> QED
      BY <2>1, <2>2 DEF WriteSizes, HandlerHears, Only
  <1> QED
    BY <1>1, <1>2, <1>3 DEF Talk

\* HandlerGoesOn, with the size the handler reads from its file.
LEMMA HandlerGoesSize ==
    ASSUME NEW op, NEW c, NEW v, NEW toClient, NEW toServer, NEW refused, NEW n, NEW mine,
           NEW yours, NEW len, NEW v2, NEW yours2,
           Talk(op, c, v, toClient, toServer, refused, n, mine, yours, len),
           HandlerGoes(v, v2), v # "size" => yours2 = yours
    PROVE  Talk(op, c, v2, toClient, toServer, refused, n, mine, yours2, len)
  <1>1. Converses(op, c, v2, toClient, toServer, refused, n > 0)
    BY HandlerGoesOn DEF Talk
  <1>2. ASSUME op = "r" PROVE ReadSizes(c, v2, toClient, mine, yours2)
    <2>1. ReadSizes(c, v, toClient, mine, yours) /\ (v = "size" => c = "answer")
      BY <1>2 DEF Talk, Converses, Meeting, Reading
    <2> QED
      BY <2>1 DEF ReadSizes, HandlerGoes
  <1>3. ASSUME op = "w", n = 0 PROVE WriteSizes(c, v2, toServer, mine, yours2, len)
    <2>1. WriteSizes(c, v, toServer, mine, yours, len)
      BY <1>3 DEF Talk
    <2>2. /\ v # "size"
          /\ c = "answer" => v \in {"serve", "create", "openNew", "await"}
      BY <1>3 DEF Talk, Converses, Meeting, Writing, Ending, EndingAfter, Finishing
    <2> QED
      BY <2>1, <2>2 DEF WriteSizes, HandlerGoes
  <1> QED
    BY <1>1, <1>2, <1>3 DEF Talk

\* ClientSaysIt, with the size the client announces.
LEMMA ClientSaysSize ==
    ASSUME NEW op, NEW c, NEW v, NEW toClient, NEW toServer, NEW refused, NEW n, NEW mine,
           NEW yours, NEW len, NEW c2, NEW toServer2, NEW type, NEW len2,
           Talk(op, c, v, toClient, toServer, refused, n, mine, yours, len),
           ClientSays(op, c, type, c2), Sent(toServer, toServer2, type),
           c = "request" => len2 = len,
           Nothing(toServer) /\ type = "WRITEFILE" => toServer2[1].size = len,
           Nothing(toServer) /\ type = "FILEDATA" => toServer2[1].size = mine,
           Len(toServer) = 1 /\ type = "FILEDATA" => toServer2[2].size = mine
    PROVE  Talk(op, c2, v, toClient, toServer2, refused, n, mine, yours, len2)
  <1>1. Converses(op, c2, v, toClient, toServer2, refused, n > 0)
    BY ClientSaysIt DEF Talk
  <1>2. ASSUME op = "r" PROVE ReadSizes(c2, v, toClient, mine, yours)
    <2>1. /\ ReadSizes(c, v, toClient, mine, yours)
          /\ c \in {"openNew", "request"} => v \in {"ready", "serve"}
          /\ c = "request" => v # "ready"
      BY <1>2 DEF Talk, Converses, Meeting, Reading, Ending, EndingAfter, Finishing
    <2> QED
      BY <2>1 DEF ReadSizes, ClientSays
  <1>3. ASSUME op = "w", n = 0 PROVE WriteSizes(c2, v, toServer2, mine, yours, len2)
    <2>1. WriteSizes(c, v, toServer, mine, yours, len)
      BY <1>3 DEF Talk
    <2>2. /\ c = "request" => v = "serve" /\ Nothing(toServer)
          /\ c = "send" /\ v = "await" => Len(toServer) = 1
          /\ c = "send" /\ v = "data" => Nothing(toServer)
      BY <1>3 DEF Talk, Converses, Meeting, Writing, Ending, EndingAfter, Finishing, Only
    <2> QED
      BY <1>3, <2>1, <2>2 DEF WriteSizes, ClientSays, Only, Sent
  <1> QED
    BY <1>1, <1>2, <1>3 DEF Talk

\* ClientHearsIt, with the size the answer carries.
LEMMA ClientHearsSize ==
    ASSUME NEW op \in {"r", "w"}, NEW c, NEW v, NEW toClient, NEW toServer, NEW refused, NEW n,
           NEW mine, NEW yours, NEW len, NEW c2, NEW toClient2, NEW type, NEW mine2,
           Talk(op, c, v, toClient, toServer, refused, n, mine, yours, len),
           ClientHears(op, c, type, c2), Took(toClient, toClient2, type),
           c # "answer" => mine2 = mine, c = "answer" => mine2 = toClient[1].size
    PROVE  Talk(op, c2, v, toClient2, toServer, refused, n, mine2, yours, len)
  <1>1. Converses(op, c2, v, toClient2, toServer, refused, n > 0)
    BY ClientHearsIt DEF Talk
  <1>2. c = "answer" /\ type = "OK" => v = (IF op = "r" THEN "ready" ELSE "await")
    <2>1. {"OK", "ERROR", "FILEDATA", "DISCONNECT"} \subseteq Kinds
      BY DEF Kinds
    <2> QED
      BY <2>1 DEF Talk, Converses, Meeting, Reading, Writing, Took, Ending, EndingAfter, Finishing
  <1>3. ASSUME op = "r" PROVE ReadSizes(c2, v, toClient2, mine2, yours)
    <2>1. ReadSizes(c, v, toClient, mine, yours)
      BY <1>3 DEF Talk
    <2> QED
      BY <1>2, <1>3, <2>1 DEF ReadSizes, ClientHears
  <1>4. ASSUME op = "w", n = 0 PROVE WriteSizes(c2, v, toServer, mine2, yours, len)
    <2>1. WriteSizes(c, v, toServer, mine, yours, len)
      BY <1>4 DEF Talk
    <2> QED
      BY <1>2, <1>4, <2>1 DEF WriteSizes, ClientHears
  <1> QED
    BY <1>1, <1>3, <1>4 DEF Talk

\* ClientGoesOn, with the size the client reads from its file.
LEMMA ClientGoesSize ==
    ASSUME NEW op, NEW c, NEW v, NEW toClient, NEW toServer, NEW refused, NEW n, NEW mine,
           NEW yours, NEW len, NEW c2, NEW mine2, NEW len2,
           Talk(op, c, v, toClient, toServer, refused, n, mine, yours, len),
           ClientGoes(op, c, c2), c # "size" => mine2 = mine, c = "size" => mine2 = len
    PROVE  Talk(op, c2, v, toClient, toServer, refused, n, mine2, yours, len2)
  <1>1. Converses(op, c2, v, toClient, toServer, refused, n > 0)
    BY ClientGoesOn DEF Talk
  <1>2. ASSUME op = "r" PROVE ReadSizes(c2, v, toClient, mine2, yours)
    <2>1. ReadSizes(c, v, toClient, mine, yours)
      BY <1>2 DEF Talk
    <2> QED
      BY <2>1 DEF ReadSizes, ClientGoes
  <1>3. ASSUME op = "w", n = 0 PROVE WriteSizes(c2, v, toServer, mine2, yours, len2)
    <2>1. WriteSizes(c, v, toServer, mine, yours, len)
      BY <1>3 DEF Talk
    <2> QED
      BY <2>1 DEF WriteSizes, ClientGoes
  <1> QED
    BY <1>1, <1>2, <1>3 DEF Talk

\* A client that waits for no answer does not care for the length of the file; after
\* a change of the files nothing is known of the sizes.
LEMMA LengthAside ==
    ASSUME NEW op, NEW c, NEW v, NEW toClient, NEW toServer, NEW refused, NEW n, NEW mine,
           NEW yours, NEW len, NEW len2,
           Talk(op, c, v, toClient, toServer, refused, n, mine, yours, len),
           c \notin {"answer", "size"}
    PROVE  Talk(op, c, v, toClient, toServer, refused, n, mine, yours, len2)
  BY DEF Talk, WriteSizes

\* Once a file has grown locally the sizes are no longer compared.
LEMMA SizesAside ==
    ASSUME NEW op, NEW c, NEW v, NEW toClient, NEW toServer, NEW refused, NEW n \in Nat, NEW mine,
           NEW yours, NEW len, NEW len2,
           Talk(op, c, v, toClient, toServer, refused, n, mine, yours, len)
    PROVE  Talk(op, c, v, toClient, toServer, refused, n + 1, mine, yours, len2)
  <1>1. n + 1 > 0 /\ n + 1 # 0
    BY SMTT(60)
  <1>2. Converses(op, c, v, toClient, toServer, refused, n + 1 > 0)
    BY <1>1 DEF Talk, Converses, Writing
  <1> QED
    BY <1>1, <1>2 DEF Talk

-------------------------------------------------------------------------------
(* A session's own steps.                                                     *)

Says(side, op, at, type, then) ==
    IF side = "client" THEN ClientSays(op, at, type, then) ELSE HandlerSays(at, type, then)
Hears(side, op, at, type, then) ==
    IF side = "client" THEN ClientHears(op, at, type, then) ELSE HandlerHears(at, type, then)
Goes(side, op, at, then) ==
    IF side = "client" THEN ClientGoes(op, at, then) ELSE HandlerGoes(at, then)

\* The length of the client's file, and the size that a side has in mind.
Length(s) == files[host[s]][request[s][2]].len
Size(side, s) == job[side][s].size

\* The conversation of a session, from the parts of its new state.
LEMMA NewTalk ==
    ASSUME NEW s, UNCHANGED setting, NEW c, NEW v, NEW toClient, NEW toServer, NEW refused, NEW n,
           NEW mine, NEW yours, NEW len,
           Talk(request[s][1], c, v, toClient, toServer, refused, n, mine, yours, len),
           pc'["client"][s] = c, pc'["server"][s] = v,
           inbox'["client"][s] = toClient, inbox'["server"][s] = toServer,
           (s \in rejected') = refused, grown' = n,
           Size("client", s)' = mine, Size("server", s)' = yours, Length(s)' = len
    PROVE  TalkOf(s)'
  BY DEF TalkOf, Size, Length, setting

\* A step of either side that sends keeps its session's conversation.
LEMMA SessionSays ==
    ASSUME Settings, Types, NEW side \in Sides, NEW s \in Sessions, NEW where \in Places,
           NEW msg \in Messages(Machines), TalkOf(s), lost' = 0,
           Sends(side, s, msg), Goto(side, s, where),
           Says(side, request[s][1], pc[side][s], msg.type, where),
           msg.type \in {"OK", "FILEDATA"} /\ pc[side][s] \in {"read", "send"} =>
               msg.size = Size(side, s),
           msg.type = "WRITEFILE" => msg.size = Length(s),
           UNCHANGED <<setting, rejected, grown>>,
           \A x \in Sides : Size(x, s)' = Size(x, s),
           side = "server" \/ pc[side][s] = "request" => Length(s)' = Length(s)
    PROVE  TalkOf(s)'
  <1> DEFINE op == request[s][1]
             c == pc["client"][s]
             v == pc["server"][s]
             toClient == inbox["client"][s]
             toServer == inbox["server"][s]
             q == inbox[Other(side)][s]
             q2 == inbox'[Other(side)][s]
  <1>1. Talk(op, c, v, toClient, toServer, s \in rejected, grown, Size("client", s),
             Size("server", s), Length(s))
    BY DEF TalkOf, Size, Length
  <1>2. /\ Other(side) \in Sides /\ Other(side) # side
        /\ q2 = Append(q, msg) /\ Sent(q, q2, msg.type)
        /\ inbox'[side][s] = inbox[side][s]
        /\ q \in Seq(Messages(Machines))
    <2>1. /\ Other(side) \in Sides /\ Other(side) # side
      BY DEF Other, Sides
    <2>2. q \in Seq(Messages(Machines))
      BY <2>1 DEF Types, Inboxes
    <2> QED
      BY <2>1, <2>2, SendsMail DEF Types
  <1>3. /\ Nothing(q) => q2[1] = msg
        /\ Len(q) = 1 => q2[2] = msg
    <2>1. q2[Len(q) + 1] = msg
      BY SMTT(60), <1>2, Posted
    <2>2. Nothing(q) => Len(q) + 1 = 1
      BY SMTT(60) DEF Nothing
    <2>3. Len(q) = 1 => Len(q) + 1 = 2
      BY SMTT(60)
    <2> QED
      BY <2>1, <2>2, <2>3
  <1>4. pc'[side][s] = where /\ pc'[Other(side)][s] = pc[Other(side)][s]
    BY <1>2, Moved DEF Types
  <1>5. CASE side = "client"
    <2>1. Other(side) = "server"
      BY <1>5 DEF Other
    <2>2. ClientSays(op, c, msg.type, where)
      BY <1>5 DEF Says
    <2>3. /\ msg.type = "FILEDATA" => msg.size = Size("client", s)
          /\ c = "request" => Length(s)' = Length(s)
      BY <1>5, <2>2 DEF ClientSays
    <2>4. /\ Nothing(q) /\ msg.type = "WRITEFILE" => q2[1].size = Length(s)
          /\ Nothing(q) /\ msg.type = "FILEDATA" => q2[1].size = Size("client", s)
          /\ Len(q) = 1 /\ msg.type = "FILEDATA" => q2[2].size = Size("client", s)
      BY <1>3, <2>3
    <2>5. Talk(op, where, v, toClient, q2, s \in rejected, grown, Size("client", s),
               Size("server", s), Length(s)')
      <3>1. q = toServer
        BY <2>1
      <3>2. Sent(toServer, q2, msg.type)
        BY <1>2, <3>1
      <3>3. /\ Nothing(toServer) /\ msg.type = "WRITEFILE" => q2[1].size = Length(s)
            /\ Nothing(toServer) /\ msg.type = "FILEDATA" => q2[1].size = Size("client", s)
            /\ Len(toServer) = 1 /\ msg.type = "FILEDATA" => q2[2].size = Size("client", s)
        BY <2>4, <3>1
      <3> HIDE DEF op, c, v, toClient, toServer, q, q2
      <3> QED
        BY <1>1, <2>2, <2>3, <3>2, <3>3, ClientSaysSize
    <2> QED
      BY <1>2, <1>4, <1>5, <2>1, <2>5, NewTalk
  <1>6. CASE side = "server"
    <2>1. Other(side) = "client"
      BY <1>6 DEF Other
    <2>2. HandlerSays(v, msg.type, where)
      BY <1>6 DEF Says
    <2>3. Nothing(q) /\ msg.type \in {"OK", "FILEDATA"} /\ v \in {"read", "send"} =>
              q2[1].size = Size("server", s)
      BY <1>3, <1>6
    <2>4. Talk(op, c, where, q2, toServer, s \in rejected, grown, Size("client", s),
               Size("server", s), Length(s))
      BY <1>1, <1>2, <2>1, <2>2, <2>3, HandlerSaysSize
    <2> QED
      BY <1>2, <1>4, <1>6, <2>1, <2>4, NewTalk
  <1> QED
    BY <1>5, <1>6 DEF Sides

\* A step of either side that receives keeps its session's conversation.
LEMMA SessionHears ==
    ASSUME Settings, Types, NEW side \in Sides, NEW s \in Sessions, NEW where \in Places, TalkOf(s),
           Receives(side, s), Goto(side, s, where),
           Hears(side, request[s][1], pc[side][s], Received(side, s).type, where),
           UNCHANGED <<setting, rejected, grown>>, Length(s)' = Length(s),
           Size(Other(side), s)' = Size(Other(side), s),
           Size(side, s)' = IF pc[side][s] \in {"serve", "answer"} THEN Received(side, s).size
                                                                  ELSE Size(side, s)
    PROVE  TalkOf(s)'
  <1> DEFINE op == request[s][1]
             c == pc["client"][s]
             v == pc["server"][s]
             toClient == inbox["client"][s]
             toServer == inbox["server"][s]
             q2 == inbox'[side][s]
             type == Received(side, s).type
             new == Size(side, s)'
  <1>1. Talk(op, c, v, toClient, toServer, s \in rejected, grown, Size("client", s),
             Size("server", s), Length(s))
    BY DEF TalkOf, Size, Length
  <1>2. Other(side) \in Sides /\ Other(side) # side /\ op \in {"r", "w"}
    BY Residence DEF Other, Sides
  <1>3. /\ Took(inbox[side][s], q2, type) /\ type \in Kinds
        /\ inbox[side][s][1] = Received(side, s)
        /\ Len(inbox[side][s]) = 2 => q2[1] = inbox[side][s][2]
        /\ inbox'[Other(side)][s] = inbox[Other(side)][s]
    BY SMTT(60), <1>2, ReceivesMail DEF Types
  <1>4. pc'[side][s] = where /\ pc'[Other(side)][s] = pc[Other(side)][s]
    BY SMTT(60), <1>2, Moved DEF Types
  <1>5. CASE side = "client"
    <2>1. Other(side) = "server"
      BY <1>5 DEF Other
    <2>2. ClientHears(op, c, type, where) /\ Took(toClient, q2, type)
      BY <1>3, <1>5 DEF Hears
    <2>3. /\ c # "answer" => new = Size("client", s)
          /\ c = "answer" => new = toClient[1].size
      BY <1>3, <1>5, <2>2 DEF ClientHears
    <2>4. Talk(op, where, v, q2, toServer, s \in rejected, grown, new, Size("server", s), Length(s))
      <3> HIDE DEF op, c, v, toClient, toServer, q2, type, new
      <3> QED
        BY <1>1, <1>2, <2>2, <2>3, ClientHearsSize
    <2> QED
      BY <1>3, <1>4, <1>5, <2>1, <2>4, NewTalk
  <1>6. CASE side = "server"
    <2>1. Other(side) = "client"
      BY <1>6 DEF Other
    <2>2. HandlerHears(v, type, where) /\ Took(toServer, q2, type)
      BY <1>3, <1>6 DEF Hears
    <2>3. /\ v # "serve" => new = Size("server", s)
          /\ v = "serve" => new = toServer[1].size
      BY <1>3, <1>6, <2>2 DEF HandlerHears
    <2>4. /\ toServer[1].type = type
          /\ Len(toServer) = 2 => q2[1] = toServer[2]
      BY <1>3, <1>6
    <2>5. Talk(op, c, where, toClient, q2, s \in rejected, grown, Size("client", s), new, Length(s))
      <3>1. type \in Kinds
        BY <1>3
      <3> HIDE DEF op, c, v, toClient, toServer, q2, type, new
      <3> QED
        BY <1>1, <1>2, <2>2, <2>3, <2>4, <3>1, HandlerHearsSize
    <2> QED
      BY <1>3, <1>4, <1>6, <2>1, <2>5, NewTalk
  <1> QED
    BY <1>5, <1>6 DEF Sides

\* A step of either side on its own keeps its session's conversation.
LEMMA SessionGoes ==
    ASSUME Settings, Types, NEW side \in Sides, NEW s \in Sessions, NEW where \in Places, TalkOf(s),
           UNCHANGED <<inbox, setting, rejected, grown>>, Goto(side, s, where),
           Goes(side, request[s][1], pc[side][s], where),
           side = "server" => Length(s)' = Length(s),
           Size(Other(side), s)' = Size(Other(side), s),
           pc[side][s] # "size" => Size(side, s)' = Size(side, s),
           side = "client" /\ pc[side][s] = "size" => Size(side, s)' = Length(s)
    PROVE  TalkOf(s)'
  <1> DEFINE op == request[s][1]
             c == pc["client"][s]
             v == pc["server"][s]
             toClient == inbox["client"][s]
             toServer == inbox["server"][s]
             new == Size(side, s)'
             len2 == Length(s)'
  <1>1. Talk(op, c, v, toClient, toServer, s \in rejected, grown, Size("client", s),
             Size("server", s), Length(s))
    BY DEF TalkOf, Size, Length
  <1>2. Other(side) \in Sides /\ Other(side) # side
    BY DEF Other, Sides
  <1>3. pc'[side][s] = where /\ pc'[Other(side)][s] = pc[Other(side)][s]
    BY SMTT(60), <1>2, Moved DEF Types
  <1>4. CASE side = "client"
    <2>1. Other(side) = "server"
      BY <1>4 DEF Other
    <2>2. ClientGoes(op, c, where)
      BY <1>4 DEF Goes
    <2>3. (c # "size" => new = Size("client", s)) /\ (c = "size" => new = Length(s))
      BY <1>4
    <2>4. Talk(op, where, v, toClient, toServer, s \in rejected, grown, new, Size("server", s), len2)
      <3> HIDE DEF op, c, v, toClient, toServer, new, len2
      <3> QED
        BY <1>1, <2>2, <2>3, ClientGoesSize
    <2> QED
      BY <1>3, <1>4, <2>1, <2>4, NewTalk
  <1>5. CASE side = "server"
    <2>1. Other(side) = "client"
      BY <1>5 DEF Other
    <2>2. HandlerGoes(v, where)
      BY <1>5 DEF Goes
    <2>3. v # "size" => new = Size("server", s)
      BY <1>5
    <2>4. Talk(op, c, where, toClient, toServer, s \in rejected, grown, Size("client", s), new,
               Length(s))
      <3> HIDE DEF op, c, v, toClient, toServer, new, len2
      <3> QED
        BY <1>1, <2>2, <2>3, HandlerGoesSize
    <2> QED
      BY <1>3, <1>5, <2>1, <2>4, NewTalk
  <1> QED
    BY <1>4, <1>5 DEF Sides

\* The other sessions: nothing of theirs changes, except the file of a client that
\* does not care for its length.
LEMMA OtherSession ==
    ASSUME NEW r, TalkOf(r), UNCHANGED <<setting, grown>>,
           \A x \in Sides : /\ pc'[x][r] = pc[x][r] /\ inbox'[x][r] = inbox[x][r]
                            /\ Size(x, r)' = Size(x, r),
           (r \in rejected') = (r \in rejected),
           Length(r)' = Length(r) \/ pc["client"][r] \notin {"answer", "size"}
    PROVE  TalkOf(r)'
  <1>1. Talk(request[r][1], pc["client"][r], pc["server"][r], inbox["client"][r],
             inbox["server"][r], r \in rejected, grown, Size("client", r), Size("server", r),
             Length(r))
    BY DEF TalkOf, Size, Length
  <1>2. "client" \in Sides /\ "server" \in Sides
    BY DEF Sides
  <1>3. Talk(request[r][1], pc["client"][r], pc["server"][r], inbox["client"][r],
             inbox["server"][r], r \in rejected, grown, Size("client", r), Size("server", r),
             Length(r)')
    BY <1>1, LengthAside
  <1> QED
    BY <1>2, <1>3, NewTalk

\* What a session can be told, by where it is.
LEMMA HandlerTold ==
    ASSUME Settings, Types, NEW s \in Sessions, TalkOf(s), Receives("server", s)
    PROVE  LET v == pc["server"][s]
               msg == Received("server", s)
           IN  /\ v = "serve" => msg.type \in {"READFILE", "WRITEFILE", "DISCONNECT"}
               /\ v \in {"ready", "stored", "await"} => msg.type \in {"OK", "ERROR"}
               /\ v = "confirm" => msg.type = "OK"
               /\ v = "data" => /\ msg.type = "FILEDATA"
                                /\ grown = 0 => msg.size = Size("server", s)
                                /\ request[s][1] = "w"
                                /\ Converses("w", pc["client"][s], v, inbox["client"][s],
                                             inbox'["server"][s], s \in rejected, TRUE)
  <1> DEFINE op == request[s][1]
             c == pc["client"][s]
             v == pc["server"][s]
             toClient == inbox["client"][s]
             toServer == inbox["server"][s]
             q2 == inbox'["server"][s]
             msg == Received("server", s)
             type == msg.type
             refused == s \in rejected
             changed == grown > 0
  <1>1. /\ Converses(op, c, v, toClient, toServer, refused, changed)
        /\ op = "w" /\ grown = 0 =>
               WriteSizes(c, v, toServer, Size("client", s), Size("server", s), Length(s))
    BY DEF TalkOf, Talk, Size, Length
  <1>2. /\ Took(toServer, q2, type) /\ toServer[1] = msg
        /\ op \in {"r", "w"}
    <2>1. "server" \in Sides
      BY DEF Sides
    <2> QED
      BY <2>1, ReceivesMail, Residence DEF Types
  <1> HIDE DEF op, c, v, toClient, toServer, q2, type, msg, refused, changed
  <1>3. /\ v = "serve" => type \in {"READFILE", "WRITEFILE", "DISCONNECT"}
        /\ v \in {"ready", "stored", "await"} => type \in {"OK", "ERROR"}
        /\ v = "confirm" => type = "OK"
        /\ v = "data" => op = "w" /\ c = "stored" /\ type = "FILEDATA"
                         /\ Only(toServer, "FILEDATA")
                         /\ Converses(op, c, v, toClient, q2, refused, TRUE)
    BY <1>1, <1>2, HandlerToldIt
  <1>4. v = "data" /\ grown = 0 => msg.size = Size("server", s)
    BY <1>1, <1>2, <1>3 DEF WriteSizes
  <1> QED
    BY <1>3, <1>4 DEF op, c, v, toClient, toServer, q2, type, msg, refused

\* What the client receives is what the protocol has for its place.
LEMMA ClientTold ==
    ASSUME Settings, Types, NEW s \in Sessions, TalkOf(s), Receives("client", s)
    PROVE  LET c == pc["client"][s]
               msg == Received("client", s)
           IN  /\ c = "accept" => msg.type \in {"OK", "DISCONNECT"}
               /\ c = "accept" /\ msg.type = "DISCONNECT" =>
                      /\ s \in rejected
                      /\ Converses(request[s][1], c, pc["server"][s], inbox'["client"][s],
                                   inbox["server"][s], s \in rejected, grown > 0)
               /\ c \in {"answer", "stored"} => msg.type \in {"OK", "ERROR"}
               /\ c = "confirm" => msg.type = "OK"
               /\ c = "goodbye" => msg.type = "DISCONNECT"
               /\ c = "data" => msg.type = "FILEDATA" /\ msg.size = Size("client", s)
               /\ c \notin {"ready", "await"}
  <1> DEFINE op == request[s][1]
             c == pc["client"][s]
             v == pc["server"][s]
             toClient == inbox["client"][s]
             toServer == inbox["server"][s]
             q2 == inbox'["client"][s]
             msg == Received("client", s)
             type == msg.type
             refused == s \in rejected
             changed == grown > 0
  <1>1. /\ Converses(op, c, v, toClient, toServer, refused, changed)
        /\ op = "r" => ReadSizes(c, v, toClient, Size("client", s), Size("server", s))
    BY DEF TalkOf, Talk, Size
  <1>2. /\ Took(toClient, q2, type) /\ toClient[1] = msg
        /\ op \in {"r", "w"}
    <2>1. "client" \in Sides
      BY DEF Sides
    <2> QED
      BY <2>1, ReceivesMail, Residence DEF Types
  <1> HIDE DEF op, c, v, toClient, toServer, q2, type, msg, refused, changed
  <1>3. /\ c = "accept" => type \in {"OK", "DISCONNECT"}
        /\ c = "accept" /\ type = "DISCONNECT" =>
               refused /\ Converses(op, c, v, q2, toServer, refused, changed)
        /\ c \in {"answer", "stored"} => type \in {"OK", "ERROR"}
        /\ c = "confirm" => type = "OK"
        /\ c = "goodbye" => type = "DISCONNECT"
        /\ c = "data" => op = "r" /\ v = "stored" /\ type = "FILEDATA"
        /\ c \notin {"ready", "await"}
    BY <1>1, <1>2, ClientToldIt
  <1>4. c = "data" => msg.size = Size("client", s)
    BY <1>1, <1>2, <1>3 DEF ReadSizes
  <1> QED
    BY <1>3, <1>4 DEF op, c, v, toClient, toServer, q2, type, msg, refused, changed

\* What files and jobs do to lengths and sizes.
LEMMA LengthsKept ==
    ASSUME Settings, Types, UNCHANGED setting
    PROVE  /\ UNCHANGED files => \A r : Length(r)' = Length(r)
           /\ \A s \in Sessions : \A file : Puts("server", s, file) =>
                  \A r \in Sessions : Length(r)' = Length(r)
           /\ \A s \in Sessions : \A file : Puts("client", s, file) =>
                  \A r \in Sessions : Length(r)' = Length(r) \/ host[r] = host[s]
  <1>1. UNCHANGED files => \A r : Length(r)' = Length(r)
    BY DEF Length, setting
  <1>2. ASSUME NEW m, NEW n, NEW file, files' = [files EXCEPT ![m][n] = file], NEW r \in Sessions
        PROVE  Length(r)' = Length(r) \/ host[r] = m
    <2>1. host[r] \in Machines /\ host[r] \in DOMAIN files
      BY Residence DEF Sides, Types, Disks
    <2> QED
      BY <1>2, <2>1 DEF Length, setting
  <1>3. \A r \in Sessions : host[r] # ServerAddr
    BY DEF Settings
  <1> QED
    BY <1>1, <1>2, <1>3 DEF Puts, Machine

\* What the steps of a session do to the sizes in mind.
LEMMA SizesKept ==
    ASSUME Types, NEW side \in Sides, NEW s \in Sessions
    PROVE  /\ UNCHANGED job => \A x, r : Size(x, r)' = Size(x, r)
           /\ \A n \in Nat : job' = [job EXCEPT ![side][s].size = n] =>
                  /\ Size(side, s)' = n
                  /\ \A x \in Sides, r \in Sessions : x # side \/ r # s => Size(x, r)' = Size(x, r)
           /\ \A file \in Files(Machines) : job' = [job EXCEPT ![side][s].piece = file] =>
                  \A x \in Sides, r \in Sessions : Size(x, r)' = Size(x, r)
  <1>1. UNCHANGED job => \A x, r : Size(x, r)' = Size(x, r)
    BY DEF Size
  <1>2. ASSUME NEW n \in Nat, job' = [job EXCEPT ![side][s].size = n]
        PROVE  /\ Size(side, s)' = n
               /\ \A x \in Sides, r \in Sessions : x # side \/ r # s => Size(x, r)' = Size(x, r)
    BY SMTT(60), <1>2 DEF Size, Types, Jobs
  <1>3. ASSUME NEW file \in Files(Machines), job' = [job EXCEPT ![side][s].piece = file]
        PROVE  \A x \in Sides, r \in Sessions : Size(x, r)' = Size(x, r)
    BY SMTT(60), <1>3 DEF Size, Types, Jobs
  <1> QED
    BY <1>1, <1>2, <1>3

\* A call of the file system failed.
LEMMA FailsTalk ==
    ASSUME Settings, Types, NEW side \in Sides, NEW s \in Sessions, TalkOf(s), lost' = 0,
           Fails(side, s), UNCHANGED <<setting, rejected, grown>>,
           pc[side][s] \in {"size", "open", "create", "openNew"}
    PROVE  TalkOf(s)'
  <1>1. /\ Goto(side, s, Back(side)) /\ Sends(side, s, Notification("ERROR"))
        /\ UNCHANGED <<files, job>>
    BY FailsTypes
  <1>2. /\ Notification("ERROR") \in Messages(Machines) /\ Notification("ERROR").type = "ERROR"
        /\ Back(side) \in Places
    BY MessageTypes, PartTypes DEF Kinds
  <1>3. Says(side, request[s][1], pc[side][s], "ERROR", Back(side))
    BY DEF Says, ClientSays, HandlerSays, Back, Sides
  <1>4. Length(s)' = Length(s) /\ \A x \in Sides : Size(x, s)' = Size(x, s)
    BY <1>1, LengthsKept, SizesKept
  <1> QED
    BY <1>1, <1>2, <1>3, <1>4, SessionSays

\* A file is sent: the session goes on, and nobody stops.
LEMMA SourceTalk ==
    ASSUME Settings, Types, NEW side \in Sides, NEW s \in Sessions, TalkOf(s), lost' = 0,
           SendsFile(side, s)
    PROVE  TalkOf(s)' /\ UNCHANGED state
  <1>1. UNCHANGED <<setting, rejected, grown>>
    BY TransferMoves
  <1>2. {"open", "read", "ready", "send", "stored", "close", "drop"} \subseteq Places
        /\ {"OK", "ERROR", "FILEDATA"} \subseteq Kinds /\ Back(side) \in Places
    BY DEF Places, Holding, Kinds, Back
  <1>3. /\ job[side][s].size \in Nat /\ job[side][s].piece \in Files(Machines)
        /\ Size(side, s) = job[side][s].size
        /\ Other(side) \in Sides /\ Other(side) # side
    BY DEF Types, Jobs, Size, Other, Sides
  <1>4. /\ UNCHANGED files => Length(s)' = Length(s)
        /\ UNCHANGED job => \A x \in Sides : Size(x, s)' = Size(x, s)
    BY <1>1, LengthsKept, SizesKept
  <1>5. CASE SourceSize(side, s)
    <2>1. UNCHANGED state /\ pc[side][s] = "size"
      BY <1>5 DEF SourceSize, At
    <2>2. CASE Fails(side, s)
      BY <1>1, <2>1, <2>2, FailsTalk
    <2>3. CASE ~Fails(side, s)
      <3>1. /\ File(side, s).len \in Nat /\ UNCHANGED <<files, inbox>>
            /\ job' = [job EXCEPT ![side][s].size = File(side, s).len]
            /\ Goto(side, s, "open")
        BY <1>5, <2>3, FileType DEF SourceSize, disks, mail
      <3>2. /\ Size(side, s)' = File(side, s).len
            /\ Size(Other(side), s)' = Size(Other(side), s)
        <4> DEFINE n == File(side, s).len
        <4>1. n \in Nat /\ job' = [job EXCEPT ![side][s].size = n]
          BY <3>1
        <4> HIDE DEF n
        <4>2. /\ Size(side, s)' = n
              /\ \A x \in Sides, r \in Sessions : x # side \/ r # s => Size(x, r)' = Size(x, r)
          BY <4>1, SizesKept
        <4> QED
          BY <1>3, <4>2 DEF n
      <3>3. side = "client" => File(side, s).len = Length(s)
        BY DEF File, Length, Machine, Name
      <3>4. Goes(side, request[s][1], "size", "open")
        BY DEF Goes, ClientGoes, HandlerGoes
      <3>5. TalkOf(s)'
        BY <1>1, <1>2, <1>4, <2>1, <3>1, <3>2, <3>3, <3>4, SessionGoes
      <3> QED
        BY <2>1, <3>5
    <2> QED
      BY <2>2, <2>3
  <1>6. CASE SourceOpen(side, s)
    <2>1. UNCHANGED state /\ pc[side][s] = "open"
      BY <1>6 DEF SourceOpen, At
    <2>2. CASE Fails(side, s)
      BY <1>1, <2>1, <2>2, FailsTalk
    <2>3. CASE ~Fails(side, s)
      <3>1. Goto(side, s, "read") /\ UNCHANGED <<files, inbox, job>>
        BY <1>6, <2>3 DEF SourceOpen, mail
      <3>2. Goes(side, request[s][1], "open", "read")
        BY DEF Goes, ClientGoes, HandlerGoes
      <3>3. TalkOf(s)'
        BY <1>1, <1>2, <1>3, <1>4, <2>1, <3>1, <3>2, SessionGoes
      <3> QED
        BY <2>1, <3>3
    <2> QED
      BY <2>2, <2>3
  <1>7. CASE SourceRead(side, s)
    <2>1. UNCHANGED <<state, files>> /\ pc[side][s] = "read"
      BY <1>7 DEF SourceRead, At, disks
    <2>2. CASE ReadFile(File(side, s), job[side][s].size)
      <3> DEFINE msg == Message("OK", job[side][s].size, Empty)
                 where == IF side = "server" THEN "ready" ELSE "send"
                 piece == Prefix(File(side, s), job[side][s].size)
      <3>1. /\ msg \in Messages(Machines) /\ msg.type = "OK" /\ msg.size = Size(side, s)
            /\ where \in Places
        BY SMTT(60), <1>2, <1>3, MessageTypes
      <3>2. piece \in Files(Machines)
        BY <1>3, <2>2, FileType
      <3>3. /\ Sends(side, s, msg) /\ Goto(side, s, where)
            /\ job' = [job EXCEPT ![side][s].piece = piece]
        BY <1>7, <2>2 DEF SourceRead
      <3>4. \A x \in Sides : Size(x, s)' = Size(x, s)
        BY <3>2, <3>3, SizesKept
      <3>5. Says(side, request[s][1], "read", "OK", where)
        BY DEF Says, ClientSays, HandlerSays, Sides
      <3> HIDE DEF msg, where, piece
      <3>6. TalkOf(s)'
        BY <1>1, <1>4, <2>1, <3>1, <3>3, <3>4, <3>5, SessionSays
      <3> QED
        BY <2>1, <3>6
    <2>3. CASE ~ReadFile(File(side, s), job[side][s].size)
      <3>1. Notification("ERROR") \in Messages(Machines) /\ Notification("ERROR").type = "ERROR"
        BY <1>2, MessageTypes
      <3>2. /\ Sends(side, s, Notification("ERROR")) /\ Goto(side, s, "drop") /\ UNCHANGED job
        BY <1>7, <2>3 DEF SourceRead
      <3>3. Says(side, request[s][1], "read", "ERROR", "drop")
        BY DEF Says, ClientSays, HandlerSays
      <3>4. TalkOf(s)'
        BY <1>1, <1>2, <1>4, <2>1, <3>1, <3>2, <3>3, SessionSays
      <3> QED
        BY <2>1, <3>4
    <2> QED
      BY <2>2, <2>3
  <1>8. CASE SourceWait(side, s)
    <2> DEFINE type == Received(side, s).type
    <2>1. /\ Receives(side, s) /\ UNCHANGED <<files, job>>
          /\ pc[side][s] \in {"ready", "stored"}
      BY <1>8 DEF SourceWait, Confirmation, At, disks
    <2>2. type \in {"OK", "ERROR"} /\ (pc[side][s] = "ready" => side = "server")
      BY <2>1, ClientTold, HandlerTold DEF Sides
    <2>3. PICK where \in Places : /\ Goto(side, s, where) /\ UNCHANGED state
                                  /\ Hears(side, request[s][1], pc[side][s], type, where)
      BY <1>2, <1>8, <2>1, <2>2 DEF SourceWait, Confirmation, At, Hears, ClientHears, HandlerHears,
                                    Sides
    <2>4. TalkOf(s)'
      BY <1>1, <1>3, <1>4, <2>1, <2>3, SessionHears
    <2> QED
      BY <2>3, <2>4
  <1>9. CASE SourceSend(side, s)
    <2> DEFINE msg == Message("FILEDATA", job[side][s].size, job[side][s].piece)
    <2>1. /\ UNCHANGED <<state, files, job>> /\ pc[side][s] = "send"
          /\ Sends(side, s, msg) /\ Goto(side, s, "stored")
      BY <1>9 DEF SourceSend, At, disks
    <2>2. msg \in Messages(Machines) /\ msg.type = "FILEDATA" /\ msg.size = Size(side, s)
      <3>1. \A n \in Nat, file \in Files(Machines) :
                /\ Message("FILEDATA", n, file) \in Messages(Machines)
                /\ Message("FILEDATA", n, file).type = "FILEDATA"
                /\ Message("FILEDATA", n, file).size = n
        BY <1>2, MessageTypes
      <3> QED
        BY <1>3, <3>1
    <2>3. Says(side, request[s][1], "send", "FILEDATA", "stored")
      BY DEF Says, ClientSays, HandlerSays
    <2> HIDE DEF msg
    <2>4. TalkOf(s)'
      BY <1>1, <1>2, <1>4, <2>1, <2>2, <2>3, SessionSays
    <2> QED
      BY <2>1, <2>4
  <1>10. CASE SourceClose(side, s)
    <2>1. UNCHANGED <<state, files, job>>
      BY <1>10 DEF SourceClose
    <2>2. CASE pc[side][s] = "close"
      <3>1. Sends(side, s, Notification("OK")) /\ Goto(side, s, Back(side))
        BY <1>10, <2>2, PartTypes DEF SourceClose, At
      <3>2. Notification("OK") \in Messages(Machines) /\ Notification("OK").type = "OK"
        BY <1>2, MessageTypes
      <3>3. Says(side, request[s][1], "close", "OK", Back(side))
        BY DEF Says, ClientSays, HandlerSays, Back, Sides
      <3>4. TalkOf(s)'
        BY <1>1, <1>2, <1>4, <2>1, <2>2, <3>1, <3>2, <3>3, SessionSays
      <3> QED
        BY <2>1, <3>4
    <2>3. CASE pc[side][s] = "drop"
      <3>1. UNCHANGED inbox /\ Goto(side, s, Back(side))
        BY <1>10, <2>3, PartTypes DEF SourceClose, At, mail
      <3>2. Goes(side, request[s][1], "drop", Back(side))
        BY DEF Goes, ClientGoes, HandlerGoes, Back, Sides
      <3>3. TalkOf(s)'
        BY <1>1, <1>2, <1>3, <1>4, <2>1, <2>3, <3>1, <3>2, SessionGoes
      <3> QED
        BY <2>1, <3>3
    <2> QED
      BY <1>10, <2>2, <2>3 DEF SourceClose, At
  <1> QED
    BY <1>5, <1>6, <1>7, <1>8, <1>9, <1>10 DEF SendsFile

\* A file is received: nobody stops but a server that got data of another size, after
\* the file changed.
LEMMA SinkTalk ==
    ASSUME Settings, Types, NEW side \in Sides, NEW s \in Sessions, TalkOf(s), lost' = 0,
           ReceivesFile(side, s)
    PROVE  TalkOf(s)' /\ (UNCHANGED state \/ (Aborts(ServerAddr) /\ grown > 0))
  <1>1. UNCHANGED <<setting, rejected, grown>>
    BY TransferMoves
  <1>2. {"openNew", "await", "data", "write", "confirm", "keep", "discard", "remove"} \subseteq Places
        /\ {"OK", "ERROR"} \subseteq Kinds /\ Back(side) \in Places
    BY DEF Places, Holding, Kinds, Back
  <1>3. /\ job[side][s].size \in Nat /\ job[side][s].piece \in Files(Machines)
        /\ Size(side, s) = job[side][s].size
        /\ Other(side) \in Sides /\ Other(side) # side
    BY DEF Types, Jobs, Size, Other, Sides
  <1>4. /\ UNCHANGED files => Length(s)' = Length(s)
        /\ UNCHANGED job => \A x \in Sides : Size(x, s)' = Size(x, s)
        /\ side = "server" => \A file : Puts(side, s, file) => Length(s)' = Length(s)
    BY <1>1, LengthsKept, SizesKept
  <1>5. /\ Notification("OK") \in Messages(Machines) /\ Notification("OK").type = "OK"
        /\ Notification("ERROR") \in Messages(Machines) /\ Notification("ERROR").type = "ERROR"
    BY <1>2, MessageTypes
  <1>6. CASE SinkCreate(side, s)
    <2>1. UNCHANGED state /\ pc[side][s] = "create"
      BY <1>6 DEF SinkCreate, At
    <2>2. CASE Fails(side, s)
      BY <1>1, <2>1, <2>2, FailsTalk
    <2>3. CASE ~Fails(side, s)
      <3>1. Goto(side, s, "openNew") /\ UNCHANGED <<inbox, job>> /\ Puts(side, s, Empty)
        BY <1>6, <2>3 DEF SinkCreate, mail
      <3>2. Goes(side, request[s][1], "create", "openNew")
        BY DEF Goes, ClientGoes, HandlerGoes
      <3>3. TalkOf(s)'
        BY <1>1, <1>2, <1>3, <1>4, <2>1, <3>1, <3>2, SessionGoes
      <3> QED
        BY <2>1, <3>3
    <2> QED
      BY <2>2, <2>3
  <1>7. CASE SinkOpen(side, s)
    <2>1. UNCHANGED state /\ pc[side][s] = "openNew"
      BY <1>7 DEF SinkOpen, At
    <2>2. CASE Fails(side, s)
      BY <1>1, <2>1, <2>2, FailsTalk
    <2>3. CASE ~Fails(side, s)
      <3> DEFINE where == IF side = "server" THEN "await" ELSE "data"
      <3>1. Goto(side, s, where) /\ UNCHANGED <<files, job>> /\ Sends(side, s, Notification("OK"))
        BY <1>7, <2>3 DEF SinkOpen
      <3>2. Says(side, request[s][1], "openNew", "OK", where) /\ where \in Places
        BY <1>2 DEF Says, ClientSays, HandlerSays, Sides
      <3> HIDE DEF where
      <3>3. TalkOf(s)'
        BY <1>1, <1>4, <1>5, <2>1, <3>1, <3>2, SessionSays
      <3> QED
        BY <2>1, <3>3
    <2> QED
      BY <2>2, <2>3
  <1>8. CASE SinkWait(side, s)
    <2> DEFINE type == Received(side, s).type
    <2>1. /\ Receives(side, s) /\ UNCHANGED <<files, job>>
          /\ pc[side][s] \in {"await", "confirm"}
      BY <1>8 DEF SinkWait, Confirmation, At, disks
    <2>2. /\ type \in {"OK", "ERROR"} /\ (pc[side][s] = "await" => side = "server")
          /\ pc[side][s] = "confirm" => type = "OK"
      BY <2>1, ClientTold, HandlerTold DEF Sides
    <2>3. PICK where \in Places : /\ Goto(side, s, where) /\ UNCHANGED state
                                  /\ Hears(side, request[s][1], pc[side][s], type, where)
      BY <1>2, <1>8, <2>1, <2>2 DEF SinkWait, Confirmation, At, Hears, ClientHears, HandlerHears,
                                    Sides
    <2>4. TalkOf(s)'
      BY <1>1, <1>3, <1>4, <2>1, <2>3, SessionHears
    <2> QED
      BY <2>3, <2>4
  <1>9. CASE SinkReceive(side, s)
    <2> DEFINE msg == Received(side, s)
    <2>1. /\ Receives(side, s) /\ UNCHANGED files /\ pc[side][s] = "data"
      BY <1>9 DEF SinkReceive, At, disks
    <2>2. /\ msg.type = "FILEDATA"
          /\ side = "client" \/ grown = 0 => msg.size = Size(side, s)
      BY <2>1, ClientTold, HandlerTold DEF Sides
    <2>3. msg.piece \in Files(Machines)
      BY <2>1, ReceivesMail DEF Types, Messages
    <2>4. CASE msg.size = Size(side, s)
      <3>1. /\ job' = [job EXCEPT ![side][s].piece = msg.piece] /\ Goto(side, s, "write")
            /\ UNCHANGED state
        BY <1>3, <1>9, <2>2, <2>4 DEF SinkReceive
      <3>2. \A x \in Sides : Size(x, s)' = Size(x, s)
        BY <2>3, <3>1, SizesKept
      <3>3. Hears(side, request[s][1], "data", "FILEDATA", "write")
        BY DEF Hears, ClientHears, HandlerHears
      <3> HIDE DEF msg
      <3>4. TalkOf(s)'
        BY <1>1, <1>2, <1>3, <1>4, <2>1, <2>2, <3>1, <3>2, <3>3, SessionHears DEF msg
      <3> QED
        BY <3>1, <3>4
    <2>5. CASE msg.size # Size(side, s)
      <3>1. side = "server" /\ grown # 0 /\ grown > 0
        BY SMTT(60), <2>2, <2>5 DEF Sides, Types
      <3>2. /\ Aborts(ServerAddr) /\ UNCHANGED <<job, pc>>
        BY <1>3, <1>9, <2>5, <3>1 DEF SinkReceive, Machine
      <3>3. /\ request[s][1] = "w"
            /\ Converses("w", pc["client"][s], "data", inbox["client"][s], inbox'["server"][s],
                         s \in rejected, TRUE)
        BY <2>1, <3>1, HandlerTold
      <3>4. Talk(request[s][1], pc["client"][s], "data", inbox["client"][s], inbox'["server"][s],
                 s \in rejected, grown, Size("client", s), Size("server", s), Length(s))
        <4>1. (grown > 0) = TRUE
          BY <3>1
        <4> QED
          BY <3>1, <3>3, <4>1 DEF Talk
      <3>5. inbox'["client"][s] = inbox["client"][s]
        BY <2>1, <3>1, ReceivesMail DEF Types, Sides
      <3>6. "client" \in Sides /\ "server" \in Sides
        BY DEF Sides
      <3>7. TalkOf(s)'
        BY <1>1, <1>4, <2>1, <3>1, <3>2, <3>4, <3>5, <3>6, NewTalk
      <3> QED
        BY <3>1, <3>2, <3>7
    <2> QED
      BY <2>4, <2>5
  <1>10. CASE SinkWrite(side, s)
    <2>1. UNCHANGED <<state, job>> /\ pc[side][s] = "write"
      BY <1>10 DEF SinkWrite, At
    <2>2. \/ /\ Sends(side, s, Notification("OK")) /\ Goto(side, s, "confirm")
             /\ Puts(side, s, job[side][s].piece)
          \/ /\ Sends(side, s, Notification("ERROR")) /\ Goto(side, s, "discard")
             /\ UNCHANGED files
      BY <1>10 DEF SinkWrite
    <2>3. /\ Says(side, request[s][1], "write", "OK", "confirm")
          /\ Says(side, request[s][1], "write", "ERROR", "discard")
      BY DEF Says, ClientSays, HandlerSays
    <2>4. side = "server" => Length(s)' = Length(s)
      BY <1>4, <2>2
    <2>5. CASE Sends(side, s, Notification("OK")) /\ Goto(side, s, "confirm")
      BY <1>1, <1>2, <1>4, <1>5, <2>1, <2>3, <2>4, <2>5, SessionSays
    <2>6. CASE Sends(side, s, Notification("ERROR")) /\ Goto(side, s, "discard")
      BY <1>1, <1>2, <1>4, <1>5, <2>1, <2>3, <2>4, <2>6, SessionSays
    <2> QED
      BY <2>2, <2>5, <2>6
  <1>11. CASE SinkClose(side, s) \/ SinkRemove(side, s)
    <2>1. /\ UNCHANGED <<state, inbox, job>> /\ pc[side][s] \in {"keep", "discard", "remove"}
          /\ UNCHANGED files \/ Puts(side, s, Absent)
      BY <1>11 DEF SinkClose, SinkRemove, At, mail
    <2>2. \/ pc[side][s] \in {"keep", "remove"} /\ Goto(side, s, Back(side))
          \/ pc[side][s] = "discard" /\ Goto(side, s, "remove")
      BY <1>11, PartTypes DEF SinkClose, SinkRemove, At
    <2>3. PICK where \in Places : /\ Goto(side, s, where)
                                  /\ Goes(side, request[s][1], pc[side][s], where)
      BY <1>2, <2>2 DEF Goes, ClientGoes, HandlerGoes, Back, Sides
    <2>4. side = "server" => Length(s)' = Length(s)
      BY <1>4, <2>1
    <2>5. pc[side][s] # "size"
      BY <2>1
    <2>6. TalkOf(s)'
      BY <1>1, <1>3, <1>4, <2>1, <2>3, <2>4, <2>5, SessionGoes
    <2> QED
      BY <2>1, <2>6
  <1> QED
    BY <1>6, <1>7, <1>8, <1>9, <1>10, <1>11 DEF ReceivesFile

\* The handler outside a transfer.
LEMMA HandlerTalk ==
    ASSUME Settings, Types, NEW s \in Sessions, TalkOf(s), lost' = 0,
           \/ Notifies(s) \/ Serves(s) \/ SaysBye(s)
           \/ ClientDisconnect(s) /\ host[s] \in clientMap
    PROVE  TalkOf(s)' /\ UNCHANGED <<state, rejected>>
  <1>1. UNCHANGED <<setting, files, rejected, grown>>
    BY DEF Notifies, Serves, SaysBye, ClientDisconnect, disks, server
  <1>2. /\ {"serve", "size", "create", "bye", "leave", "end"} \subseteq Places
        /\ "server" \in Sides /\ {"OK", "DISCONNECT"} \subseteq Kinds
        /\ Other("server") \in Sides /\ Other("server") # "server"
    BY DEF Places, Sides, Kinds, Other
  <1>3. /\ Length(s)' = Length(s)
        /\ UNCHANGED job => \A x \in Sides : Size(x, s)' = Size(x, s)
    BY <1>1, <1>2, LengthsKept, SizesKept
  <1>4. /\ Notification("OK") \in Messages(Machines) /\ Notification("OK").type = "OK"
        /\ Notification("DISCONNECT") \in Messages(Machines)
        /\ Notification("DISCONNECT").type = "DISCONNECT"
    BY <1>2, MessageTypes
  <1>5. CASE Notifies(s)
    <2>1. pc["server"][s] # "invalid"
      BY DEF TalkOf, Talk, Converses, Meeting, Reading, Writing
    <2>2. /\ UNCHANGED <<state, job>> /\ pc["server"][s] = "hello"
          /\ Sends("server", s, Notification("OK")) /\ Goto("server", s, "serve")
      BY <1>5, <2>1 DEF Notifies, At
    <2>3. Says("server", request[s][1], "hello", "OK", "serve")
      BY DEF Says, HandlerSays
    <2>4. TalkOf(s)'
      BY <1>1, <1>2, <1>3, <1>4, <2>2, <2>3, SessionSays
    <2> QED
      BY <1>1, <2>2, <2>4
  <1>6. CASE SaysBye(s)
    <2>1. /\ UNCHANGED <<state, job>> /\ pc["server"][s] = "bye"
          /\ Sends("server", s, Notification("DISCONNECT")) /\ Goto("server", s, "leave")
      BY <1>6 DEF SaysBye, At
    <2>2. Says("server", request[s][1], "bye", "DISCONNECT", "leave")
      BY DEF Says, HandlerSays
    <2>3. TalkOf(s)'
      BY <1>1, <1>2, <1>3, <1>4, <2>1, <2>2, SessionSays
    <2> QED
      BY <1>1, <2>1, <2>3
  <1>7. CASE Serves(s)
    <2> DEFINE msg == Received("server", s)
               n == msg.size
    <2>1. /\ UNCHANGED state /\ pc["server"][s] = "serve" /\ Receives("server", s)
          /\ job' = [job EXCEPT !["server"][s].size = n]
      BY <1>7 DEF Serves, At
    <2>2. msg.type \in {"READFILE", "WRITEFILE", "DISCONNECT"}
      BY <2>1, HandlerTold
    <2>3. PICK where \in Places : /\ Goto("server", s, where)
                                  /\ Hears("server", request[s][1], "serve", msg.type, where)
      BY <1>2, <1>7, <2>2 DEF Serves, Hears, HandlerHears
    <2>4. n \in Nat
      BY <1>2, <2>1, ReceivesMail DEF Types, Messages
    <2>5. /\ Size("server", s)' = n
          /\ Size(Other("server"), s)' = Size(Other("server"), s)
      <3> HIDE DEF n
      <3>1. /\ Size("server", s)' = n
            /\ \A x \in Sides, r \in Sessions : x # "server" \/ r # s => Size(x, r)' = Size(x, r)
        BY <1>2, <2>1, <2>4, SizesKept
      <3> QED
        BY <1>2, <3>1
    <2>6. TalkOf(s)'
      BY <1>1, <1>2, <1>3, <2>1, <2>3, <2>5, SessionHears
    <2> QED
      BY <1>1, <2>1, <2>6
  <1>8. CASE ClientDisconnect(s) /\ host[s] \in clientMap
    <2>1. /\ UNCHANGED <<state, inbox, job>> /\ pc["server"][s] = "leave" /\ Goto("server", s, "end")
      BY <1>8 DEF ClientDisconnect, At, mail
    <2>2. Goes("server", request[s][1], "leave", "end")
      BY DEF Goes, HandlerGoes
    <2>3. TalkOf(s)'
      BY <1>1, <1>2, <1>3, <2>1, <2>2, SessionGoes
    <2> QED
      BY <1>1, <2>1, <2>3
  <1> QED
    BY <1>5, <1>6, <1>7, <1>8

\* A connection is accepted or refused.
LEMMA RoutineTalk ==
    ASSUME Settings, Types, NEW s \in Sessions, TalkOf(s), lost' = 0, ServerRoutine(s)
    PROVE  TalkOf(s)' /\ UNCHANGED state /\ rejected' \in {rejected, rejected \cup {s}}
  <1> DEFINE op == request[s][1]
             toClient == inbox["client"][s]
             toServer == inbox["server"][s]
             changed == grown > 0
  <1>1. /\ pc["server"][s] = "start" /\ pc["client"][s] = "accept"
        /\ UNCHANGED <<state, setting, files, job, grown>>
    BY DEF ServerRoutine, At, disks
  <1>2. /\ "server" \in Sides /\ "client" \in Sides /\ {"hello", "end"} \subseteq Places
        /\ Other("server") = "client" /\ "DISCONNECT" \in Kinds
    BY DEF Sides, Places, Other, Kinds
  <1>3. /\ Length(s)' = Length(s)
        /\ \A x \in Sides : Size(x, s)' = Size(x, s)
    BY <1>1, <1>2, LengthsKept, SizesKept
  <1>4. Converses(op, "accept", "start", toClient, toServer, s \in rejected, changed)
    BY <1>1 DEF TalkOf, Talk
  <1>5. CASE host[s] \in clientMap
    <2>1. /\ rejected' = rejected \cup {s} /\ Goto("server", s, "end")
          /\ Sends("server", s, Notification("DISCONNECT"))
      BY <1>5 DEF ServerRoutine
    <2> DEFINE q2 == inbox'["client"][s]
    <2>2. Sent(toClient, q2, "DISCONNECT") /\ inbox'["server"][s] = toServer
      <3>1. /\ Notification("DISCONNECT") \in Messages(Machines)
            /\ Notification("DISCONNECT").type = "DISCONNECT"
        BY <1>2, MessageTypes
      <3> QED
        BY SMTT(60), <1>2, <2>1, <3>1, SendsMail DEF Types
    <2>3. Converses(op, "accept", "end", q2, toServer, TRUE, changed)
      BY <1>4, <2>2, Accepted
    <2>4. Talk(op, "accept", "end", q2, toServer, TRUE, grown, Size("client", s), Size("server", s),
               Length(s))
      BY <2>3 DEF Talk, ReadSizes, WriteSizes
    <2>5. pc'["server"][s] = "end" /\ pc'["client"][s] = "accept"
      BY SMTT(60), <1>1, <1>2, <2>1, Moved DEF Types
    <2>6. (s \in rejected') = TRUE
      BY <2>1
    <2>7. TalkOf(s)'
      BY <1>1, <1>2, <1>3, <2>2, <2>4, <2>5, <2>6, NewTalk
    <2> QED
      BY <1>1, <2>1, <2>7
  <1>6. CASE host[s] \notin clientMap
    <2>1. UNCHANGED <<rejected, inbox>> /\ Goto("server", s, "hello")
      BY <1>6 DEF ServerRoutine, mail
    <2>2. Converses(op, "accept", "hello", toClient, toServer, s \in rejected, changed)
      BY <1>4, Accepted
    <2>3. Talk(op, "accept", "hello", toClient, toServer, s \in rejected, grown, Size("client", s),
               Size("server", s), Length(s))
      BY <2>2 DEF Talk, ReadSizes, WriteSizes
    <2>4. pc'["server"][s] = "hello" /\ pc'["client"][s] = "accept"
      BY SMTT(60), <1>1, <1>2, <2>1, Moved DEF Types
    <2>5. TalkOf(s)'
      BY <1>1, <1>2, <1>3, <2>1, <2>3, <2>4, NewTalk
    <2> QED
      BY <1>1, <2>1, <2>5
  <1> QED
    BY <1>5, <1>6

\* The client outside a transfer: only one that was refused fails an ASSERT.
LEMMA ClientTalk ==
    ASSUME Settings, Types, NEW s \in Sessions, TalkOf(s), lost' = 0,
           \/ Connect(s) \/ Connected(s) \/ SendFileRequest(s) \/ Answered(s)
           \/ Disconnect(s) \/ Disconnected(s)
    PROVE  /\ TalkOf(s)' /\ UNCHANGED rejected
           /\ \/ UNCHANGED state
              \/ state' = [state EXCEPT ![host[s]] = "halted"]
              \/ Aborts(host[s]) /\ s \in rejected
  <1>1. UNCHANGED <<setting, files, rejected, grown>>
    BY DEF Connect, Connected, SendFileRequest, Answered, Disconnect, Disconnected, disks, server
  <1>2. /\ {"accept", "request", "answer", "create", "size", "disconnect", "goodbye", "end"}
               \subseteq Places
        /\ "client" \in Sides /\ "server" \in Sides
        /\ {"READFILE", "WRITEFILE", "DISCONNECT"} \subseteq Kinds
        /\ Other("client") \in Sides /\ Other("client") # "client"
    BY DEF Places, Sides, Kinds, Other
  <1>3. /\ Length(s)' = Length(s)
        /\ UNCHANGED job => \A x \in Sides : Size(x, s)' = Size(x, s)
    BY <1>1, <1>2, LengthsKept, SizesKept
  <1>4. request[s][1] \in {"r", "w"}
    BY <1>2, Residence
  <1>5. CASE Connect(s)
    <2>1. UNCHANGED <<inbox, job>> /\ pc["client"][s] = "start"
      BY <1>5 DEF Connect, At, mail
    <2>2. CASE Goto("client", s, "accept") /\ UNCHANGED state
      <3>1. Goes("client", request[s][1], "start", "accept")
        BY DEF Goes, ClientGoes
      <3>2. TalkOf(s)'
        BY <1>1, <1>2, <1>3, <2>1, <2>2, <3>1, SessionGoes
      <3> QED
        BY <1>1, <2>2, <3>2
    <2>3. CASE state' = [state EXCEPT ![host[s]] = "halted"] /\ UNCHANGED pc
      <3>1. TalkOf(s)'
        BY <1>1, <1>3, <2>1, <2>3, OtherSession
      <3> QED
        BY <1>1, <2>3, <3>1
    <2> QED
      BY <1>5, <2>2, <2>3 DEF Connect
  <1>6. CASE Connected(s)
    <2> DEFINE type == Received("client", s).type
    <2>1. UNCHANGED job /\ pc["client"][s] = "accept" /\ Receives("client", s)
      BY <1>6 DEF Connected, At
    <2>2. /\ type \in {"OK", "DISCONNECT"}
          /\ type = "DISCONNECT" =>
                 /\ s \in rejected
                 /\ Converses(request[s][1], "accept", pc["server"][s], inbox'["client"][s],
                              inbox["server"][s], s \in rejected, grown > 0)
      BY <2>1, ClientTold
    <2>3. CASE type = "OK"
      <3>1. Goto("client", s, "request") /\ UNCHANGED state
        BY <1>6, <2>3 DEF Connected
      <3>2. Hears("client", request[s][1], "accept", "OK", "request")
        BY DEF Hears, ClientHears
      <3>3. TalkOf(s)'
        BY <1>1, <1>2, <1>3, <2>1, <2>3, <3>1, <3>2, SessionHears
      <3> QED
        BY <1>1, <3>1, <3>3
    <2>4. CASE type = "DISCONNECT"
      <3>1. Aborts(host[s]) /\ UNCHANGED pc
        BY <1>6, <2>4 DEF Connected
      <3>2. Talk(request[s][1], "accept", pc["server"][s], inbox'["client"][s], inbox["server"][s],
                 s \in rejected, grown, Size("client", s), Size("server", s), Length(s))
        BY <2>2, <2>4 DEF Talk, ReadSizes, WriteSizes
      <3>3. inbox'["server"][s] = inbox["server"][s]
        BY <1>2, <2>1, ReceivesMail DEF Types
      <3>4. TalkOf(s)'
        BY <1>1, <1>2, <1>3, <2>1, <3>1, <3>2, <3>3, NewTalk
      <3> QED
        BY <1>1, <2>2, <2>4, <3>1, <3>4
    <2> QED
      BY <2>2, <2>3, <2>4
  <1>7. CASE SendFileRequest(s)
    <2>1. UNCHANGED <<state, job>> /\ pc["client"][s] = "request"
      BY <1>7 DEF SendFileRequest, At
    <2>2. CASE Returns("client", s, "failed")
      <3>1. UNCHANGED inbox /\ Goto("client", s, "disconnect") /\ request[s][1] = "w"
        <4>1. "answer" # "disconnect"
          OBVIOUS
        <4>2. pc' # [pc EXCEPT !["client"][s] = "answer"]
          BY <1>2, <2>2, <4>1 DEF Returns, Goto, Types, Wheres
        <4> QED
          BY <1>7, <2>2, <4>2 DEF SendFileRequest, Returns, Goto, mail
      <3>2. Goes("client", request[s][1], "request", "disconnect")
        BY <3>1 DEF Goes, ClientGoes
      <3>3. TalkOf(s)'
        BY <1>1, <1>2, <1>3, <2>1, <3>1, <3>2, SessionGoes
      <3> QED
        BY <1>1, <2>1, <3>3
    <2>3. CASE request[s][1] = "r" /\ ~Returns("client", s, "failed")
      <3>1. Sends("client", s, Notification("READFILE")) /\ Goto("client", s, "answer")
        BY <1>7, <2>3 DEF SendFileRequest
      <3>2. /\ Notification("READFILE") \in Messages(Machines)
            /\ Notification("READFILE").type = "READFILE"
        BY <1>2, MessageTypes
      <3>3. Says("client", request[s][1], "request", "READFILE", "answer")
        BY <2>3 DEF Says, ClientSays
      <3>4. TalkOf(s)'
        BY <1>1, <1>2, <1>3, <2>1, <3>1, <3>2, <3>3, SessionSays
      <3> QED
        BY <1>1, <2>1, <3>4
    <2>4. CASE request[s][1] = "w" /\ ~Returns("client", s, "failed")
      <3> DEFINE n == File("client", s).len
                 msg == Message("WRITEFILE", n, Empty)
      <3>1. Sends("client", s, msg) /\ Goto("client", s, "answer") /\ File("client", s) # Absent
        BY <1>7, <2>4 DEF SendFileRequest
      <3>2. n \in Nat /\ n = Length(s)
        BY <1>2, <3>1, FileType DEF File, Length, Machine, Name
      <3>3. msg \in Messages(Machines) /\ msg.type = "WRITEFILE" /\ msg.size = Length(s)
        <4> HIDE DEF n
        <4> QED
          BY SMTT(60), <1>2, <3>2, MessageTypes
      <3>4. Says("client", request[s][1], "request", "WRITEFILE", "answer")
        BY <2>4 DEF Says, ClientSays
      <3> HIDE DEF msg
      <3>5. TalkOf(s)'
        BY <1>1, <1>2, <1>3, <2>1, <3>1, <3>3, <3>4, SessionSays
      <3> QED
        BY <1>1, <2>1, <3>5
    <2> QED
      BY <1>4, <2>2, <2>3, <2>4
  <1>8. CASE Answered(s)
    <2> DEFINE msg == Received("client", s)
               n == msg.size
    <2>1. /\ pc["client"][s] = "answer" /\ Receives("client", s)
          /\ job' = [job EXCEPT !["client"][s].size = n]
      BY <1>8 DEF Answered, At
    <2>2. msg.type \in {"OK", "ERROR"}
      BY <2>1, ClientTold
    <2>3. PICK where \in Places : /\ Goto("client", s, where) /\ UNCHANGED state
                                  /\ Hears("client", request[s][1], "answer", msg.type, where)
      BY <1>2, <1>4, <1>8, <2>2 DEF Answered, Hears, ClientHears, Returns
    <2>4. n \in Nat
      BY <1>2, <2>1, ReceivesMail DEF Types, Messages
    <2>5. /\ Size("client", s)' = n
          /\ Size(Other("client"), s)' = Size(Other("client"), s)
      <3> HIDE DEF n
      <3>1. /\ Size("client", s)' = n
            /\ \A x \in Sides, r \in Sessions : x # "client" \/ r # s => Size(x, r)' = Size(x, r)
        BY <1>2, <2>1, <2>4, SizesKept
      <3> QED
        BY <1>2, <3>1
    <2>6. TalkOf(s)'
      BY <1>1, <1>2, <1>3, <2>1, <2>3, <2>5, SessionHears
    <2> QED
      BY <1>1, <2>3, <2>6
  <1>9. CASE Disconnect(s)
    <2>1. /\ UNCHANGED <<state, job>> /\ pc["client"][s] = "disconnect"
          /\ Sends("client", s, Notification("DISCONNECT")) /\ Goto("client", s, "goodbye")
      BY <1>9 DEF Disconnect, At
    <2>2. /\ Notification("DISCONNECT") \in Messages(Machines)
          /\ Notification("DISCONNECT").type = "DISCONNECT"
      BY <1>2, MessageTypes
    <2>3. Says("client", request[s][1], "disconnect", "DISCONNECT", "goodbye")
      BY DEF Says, ClientSays
    <2>4. TalkOf(s)'
      BY <1>1, <1>2, <1>3, <2>1, <2>2, <2>3, SessionSays
    <2> QED
      BY <1>1, <2>1, <2>4
  <1>10. CASE Disconnected(s)
    <2> DEFINE type == Received("client", s).type
    <2>1. UNCHANGED job /\ pc["client"][s] = "goodbye" /\ Receives("client", s)
      BY <1>10 DEF Disconnected, At
    <2>2. type = "DISCONNECT"
      BY <2>1, ClientTold
    <2>3. Goto("client", s, "end") /\ UNCHANGED state
      BY <1>10, <2>2 DEF Disconnected
    <2>4. Hears("client", request[s][1], "goodbye", "DISCONNECT", "end")
      BY DEF Hears, ClientHears
    <2>5. TalkOf(s)'
      BY <1>1, <1>2, <1>3, <2>1, <2>2, <2>3, <2>4, SessionHears
    <2> QED
      BY <1>1, <2>3, <2>5
  <1> QED
    BY <1>5, <1>6, <1>7, <1>8, <1>9, <1>10

-------------------------------------------------------------------------------
(* The conversations of all sessions.                                         *)

\* What a step of a transfer touches.
LEMMA TransferTouches ==
    ASSUME NEW side, NEW s, SendsFile(side, s) \/ ReceivesFile(side, s)
    PROVE  /\ UNCHANGED inbox \/ Receives(side, s) \/ \E msg : Sends(side, s, msg)
           /\ \/ UNCHANGED job
              \/ \E k : job' = [job EXCEPT ![side][s].size = k]
              \/ \E piece : job' = [job EXCEPT ![side][s].piece = piece]
           /\ \/ UNCHANGED files
              \/ /\ pc[side][s] \in {"create", "write", "remove"}
                 /\ \E file : Puts(side, s, file)
  <1> DEFINE Parts ==
           /\ UNCHANGED inbox \/ Receives(side, s) \/ \E msg : Sends(side, s, msg)
           /\ \/ UNCHANGED job
              \/ \E k : job' = [job EXCEPT ![side][s].size = k]
              \/ \E piece : job' = [job EXCEPT ![side][s].piece = piece]
           /\ \/ UNCHANGED files
              \/ /\ pc[side][s] \in {"create", "write", "remove"}
                 /\ \E file : Puts(side, s, file)
  <1>1. SourceSize(side, s) => Parts
    BY DEF SourceSize, Fails, disks, mail
  <1>2. SourceOpen(side, s) => Parts
    BY DEF SourceOpen, Fails, disks, mail
  <1>3. SourceRead(side, s) => Parts
    BY DEF SourceRead, disks
  <1>4. SourceWait(side, s) => Parts
    BY DEF SourceWait, Confirmation, disks
  <1>5. SourceSend(side, s) => Parts
    BY DEF SourceSend, disks
  <1>6. SourceClose(side, s) => Parts
    BY DEF SourceClose, mail
  <1>7. SinkCreate(side, s) => Parts
    BY DEF SinkCreate, Fails, disks, mail, At
  <1>8. SinkOpen(side, s) => Parts
    BY DEF SinkOpen, Fails, disks
  <1>9. SinkWait(side, s) => Parts
    BY DEF SinkWait, Confirmation, disks
  <1>10. SinkReceive(side, s) => Parts
    BY DEF SinkReceive, disks
  <1>11. SinkWrite(side, s) => Parts
    BY DEF SinkWrite, At
  <1>12. SinkClose(side, s) => Parts
    BY DEF SinkClose, mail
  <1>13. SinkRemove(side, s) => Parts
    BY DEF SinkRemove, At, mail
  <1> HIDE DEF Parts
  <1>14. Parts
    BY <1>1, <1>2, <1>3, <1>4, <1>5, <1>6, <1>7, <1>8, <1>9, <1>10, <1>11, <1>12, <1>13 DEF SendsFile, ReceivesFile
  <1> QED
    BY <1>14 DEF Parts

\* The mail, the place and the job of another session stay.
LEMMA Elsewhere ==
    ASSUME Types, NEW side \in Sides, NEW s \in Sessions, NEW r \in Sessions, r # s,
           UNCHANGED pc \/ \E where : Goto(side, s, where),
           UNCHANGED inbox \/ Receives(side, s) \/ \E msg : Sends(side, s, msg),
           \/ UNCHANGED job
           \/ \E k : job' = [job EXCEPT ![side][s].size = k]
           \/ \E piece : job' = [job EXCEPT ![side][s].piece = piece],
           NEW x \in Sides
    PROVE  pc'[x][r] = pc[x][r] /\ inbox'[x][r] = inbox[x][r] /\ Size(x, r)' = Size(x, r)
  <1>1. pc'[x][r] = pc[x][r]
    BY SMTT(60) DEF Goto, Types, Wheres
  <1>2. Receives(side, s) => inbox'[x][r] = inbox[x][r]
    BY SMTT(60) DEF Receives, Types, Inboxes
  <1>3. ASSUME NEW msg, Sends(side, s, msg) PROVE inbox'[x][r] = inbox[x][r]
    <2>1. UNCHANGED inbox \/ \E y \in Sides : \E q : inbox' = [inbox EXCEPT ![y][s] = q]
      BY <1>3 DEF Sends, Other, Sides
    <2>2. ASSUME NEW y \in Sides, NEW q, inbox' = [inbox EXCEPT ![y][s] = q]
          PROVE  inbox'[x][r] = inbox[x][r]
      BY <2>2 DEF Types, Inboxes
    <2> QED
      BY <2>1, <2>2
  <1>4. ASSUME NEW k, job' = [job EXCEPT ![side][s].size = k] PROVE job'[x][r] = job[x][r]
    BY <1>4 DEF Types, Jobs
  <1>5. ASSUME NEW p, job' = [job EXCEPT ![side][s].piece = p] PROVE job'[x][r] = job[x][r]
    BY <1>5 DEF Types, Jobs
  <1>6. job'[x][r] = job[x][r]
    BY <1>4, <1>5
  <1> QED
    BY <1>1, <1>2, <1>3, <1>6 DEF Size

\* A transfer and the other sessions.
LEMMA TransferFrame ==
    ASSUME IInv, lost = 0, NEW side \in Sides, NEW s \in Sessions, NEW r \in Sessions, r # s,
           SendsFile(side, s) \/ ReceivesFile(side, s)
    PROVE  TalkOf(r)'
  <1>1. Settings /\ Types /\ TalkOf(r) /\ TalkOf(s) /\ Accounts(pc["server"], clientMap, nbClients, host)
    BY DEF IInv, Protocol
  <1>2. /\ UNCHANGED <<rejected, setting, grown>>
        /\ UNCHANGED pc \/ \E where : Goto(side, s, where)
    BY TransferMoves
  <1>3. /\ UNCHANGED inbox \/ Receives(side, s) \/ \E msg : Sends(side, s, msg)
        /\ \/ UNCHANGED job
           \/ \E k : job' = [job EXCEPT ![side][s].size = k]
           \/ \E piece : job' = [job EXCEPT ![side][s].piece = piece]
        /\ \/ UNCHANGED files
           \/ /\ pc[side][s] \in {"create", "write", "remove"}
              /\ \E file : Puts(side, s, file)
    BY TransferTouches
  <1>4. \A x \in Sides : /\ pc'[x][r] = pc[x][r] /\ inbox'[x][r] = inbox[x][r]
                         /\ Size(x, r)' = Size(x, r)
    BY <1>1, <1>2, <1>3, Elsewhere
  <1>5. Length(r)' = Length(r) \/ pc["client"][r] \notin {"answer", "size"}
    <2>1. CASE UNCHANGED files
      BY <1>1, <1>2, <2>1, LengthsKept
    <2>2. CASE side = "server" /\ \E file : Puts(side, s, file)
      BY <1>1, <1>2, <2>2, LengthsKept
    <2>3. CASE /\ side = "client" /\ pc[side][s] \in {"create", "write", "remove"}
               /\ \E file : Puts(side, s, file)
      <3>1. Length(r)' = Length(r) \/ host[r] = host[s]
        BY <1>1, <1>2, <2>3, LengthsKept
      <3>2. SUFFICES ASSUME host[r] = host[s], pc["client"][r] \in {"answer", "size"} PROVE FALSE
        BY <3>1
      <3>3. \A q \in {r, s} : /\ TalkOf(q)
                              /\ pc["client"][q] \notin {"start", "accept", "goodbye", "end"}
        BY <1>1, <2>3, <3>2
      <3>4. \A q \in {r, s} : pc["server"][q] \notin {"start", "end"}
        BY SMTT(60), <3>3, BusyIsHandled DEF TalkOf, Talk
      <3>5. r \in Handled(pc["server"]) /\ s \in Handled(pc["server"])
        BY <3>4 DEF Handled
      <3> QED
        BY <1>1, <3>2, <3>5 DEF Accounts
    <2> QED
      BY <1>3, <2>1, <2>2, <2>3 DEF Sides
  <1> QED
    BY <1>1, <1>2, <1>4, <1>5, OtherSession

\* The other steps and the other sessions.
LEMMA StepFrame ==
    ASSUME IInv, lost = 0, NEW s \in Sessions, NEW r \in Sessions, r # s,
           \/ Connect(s) \/ Connected(s) \/ SendFileRequest(s) \/ Answered(s)
           \/ Disconnect(s) \/ Disconnected(s)
           \/ ServerRoutine(s) \/ Notifies(s) \/ Serves(s) \/ SaysBye(s) \/ ClientDisconnect(s)
    PROVE  TalkOf(r)'
  <1>1. Settings /\ Types /\ TalkOf(r)
    BY DEF IInv, Protocol
  <1>2. UNCHANGED <<setting, grown, files>> /\ ((r \in rejected') = (r \in rejected))
    <2>1. UNCHANGED <<setting, grown, files>>
      BY DEF Connect, Connected, SendFileRequest, Answered, Disconnect, Disconnected, ServerRoutine,
             Notifies, Serves, SaysBye, ClientDisconnect, disks
    <2>2. UNCHANGED rejected \/ rejected' = rejected \cup {s}
      BY DEF Connect, Connected, SendFileRequest, Answered, Disconnect, Disconnected, ServerRoutine,
             Notifies, Serves, SaysBye, ClientDisconnect, server
    <2> QED
      BY SMTT(60), <2>1, <2>2
  <1>3. \E side \in Sides :
            /\ UNCHANGED pc \/ \E where : Goto(side, s, where)
            /\ UNCHANGED inbox \/ Receives(side, s) \/ \E msg : Sends(side, s, msg)
            /\ UNCHANGED job \/ \E k : job' = [job EXCEPT ![side][s].size = k]
    <2>1. "client" \in Sides /\ "server" \in Sides
      BY DEF Sides
    <2>2. CASE \/ Connect(s) \/ Connected(s) \/ SendFileRequest(s) \/ Answered(s)
               \/ Disconnect(s) \/ Disconnected(s)
      <3>1. /\ UNCHANGED pc \/ \E where : Goto("client", s, where)
            /\ UNCHANGED inbox \/ Receives("client", s) \/ \E msg : Sends("client", s, msg)
            /\ UNCHANGED job \/ \E k : job' = [job EXCEPT !["client"][s].size = k]
        BY <2>2 DEF Connect, Connected, SendFileRequest, Answered, Disconnect, Disconnected,
                    Returns, mail
      <3> QED
        BY <2>1, <3>1
    <2>3. CASE \/ ServerRoutine(s) \/ Notifies(s) \/ Serves(s) \/ SaysBye(s)
               \/ ClientDisconnect(s)
      <3>1. /\ UNCHANGED pc \/ \E where : Goto("server", s, where)
            /\ UNCHANGED inbox \/ Receives("server", s) \/ \E msg : Sends("server", s, msg)
            /\ UNCHANGED job \/ \E k : job' = [job EXCEPT !["server"][s].size = k]
        BY <2>3 DEF ServerRoutine, Notifies, Serves, SaysBye, ClientDisconnect, mail
      <3> QED
        BY <2>1, <3>1
    <2> QED
      BY <2>2, <2>3
  <1>4. \A x \in Sides : /\ pc'[x][r] = pc[x][r] /\ inbox'[x][r] = inbox[x][r]
                         /\ Size(x, r)' = Size(x, r)
    BY <1>1, <1>3, Elsewhere
  <1>5. Length(r)' = Length(r)
    BY <1>1, <1>2, LengthsKept
  <1> QED
    BY <1>1, <1>2, <1>4, <1>5, OtherSession

\* Another program of a client adds to a file.
LEMMA GrowsTalk ==
    ASSUME Settings, Types, NEW m, NEW n, Grows(m, n), NEW s \in Sessions, TalkOf(s)
    PROVE  TalkOf(s)'
  <1>1. /\ UNCHANGED <<setting, pc, inbox, job, rejected>> /\ grown' = grown + 1
        /\ grown \in Nat
    BY DEF Grows, mail, server, Types
  <1>2. Talk(request[s][1], pc["client"][s], pc["server"][s], inbox["client"][s],
             inbox["server"][s], s \in rejected, grown, Size("client", s), Size("server", s),
             Length(s))
    BY DEF TalkOf, Size, Length
  <1>3. Talk(request[s][1], pc["client"][s], pc["server"][s], inbox["client"][s],
             inbox["server"][s], s \in rejected, grown + 1, Size("client", s), Size("server", s),
             Length(s)')
    BY <1>1, <1>2, SizesAside
  <1>4. Size("client", s)' = Size("client", s) /\ Size("server", s)' = Size("server", s)
    BY <1>1 DEF Size
  <1> QED
    BY <1>1, <1>3, <1>4, NewTalk

\* Who stops.
LEMMA StopsKept ==
    ASSUME Settings, Types, Stops, UNCHANGED setting, rejected \subseteq rejected', grown' >= grown,
           grown' \in Nat,
           \/ UNCHANGED state
           \/ Aborts(ServerAddr) /\ grown > 0
           \/ \E s \in Sessions : \/ state' = [state EXCEPT ![host[s]] = "halted"]
                                  \/ Aborts(host[s]) /\ s \in rejected
    PROVE  Stops'
  <1>1. /\ Machines' = Machines /\ host' = host /\ ServerAddr \in Machines
        /\ state \in [Machines -> {"up", "halted", "aborted"}] /\ grown \in Nat
        /\ \A s \in Sessions : host[s] # ServerAddr /\ host[s] \in Machines
    BY DEF setting, Machines, Types, States, Settings
  <1>2. ASSUME NEW m \in Machines, state'[m] = "aborted", m # ServerAddr
        PROVE  \E s \in rejected' : host'[s] = m
    <2>1. CASE state[m] = "aborted"
      BY <1>1, <1>2, <2>1 DEF Stops
    <2>2. CASE state[m] # "aborted"
      <3>1. PICK s \in Sessions : \/ state' = [state EXCEPT ![host[s]] = "halted"]
                                  \/ Aborts(host[s]) /\ s \in rejected
        BY <1>1, <1>2, <2>2 DEF Aborts
      <3>2. Aborts(host[s]) /\ s \in rejected /\ host[s] = m
        BY <1>1, <1>2, <2>2, <3>1 DEF Aborts
      <3> QED
        BY <1>1, <3>2
    <2> QED
      BY <2>1, <2>2
  <1>3. ASSUME state'[ServerAddr] = "aborted" PROVE grown' > 0
    <2>1. CASE state[ServerAddr] = "aborted"
      BY SMTT(60), <1>1, <2>1 DEF Stops
    <2>2. CASE state[ServerAddr] # "aborted"
      <3>1. Aborts(ServerAddr) /\ grown > 0
        BY <1>1, <1>3, <2>2 DEF Aborts
      <3> QED
        BY SMTT(60), <1>1, <3>1
    <2> QED
      BY <2>1, <2>2
  <1> QED
    BY <1>1, <1>2, <1>3 DEF Stops

\* If no message is lost, every step keeps the conversations and who has stopped.
LEMMA NextProtocol ==
    ASSUME IInv, [Next]_vars, lost' = 0
    PROVE  Protocol' /\ Stops'
  <1>1. /\ Settings /\ Types /\ Settings' /\ Types'
        /\ Accounts(pc["server"], clientMap, nbClients, host)
    BY NextTypes DEF IInv
  <1>2. UNCHANGED setting
    <2>1. ASSUME NEW side, NEW s, SendsFile(side, s) \/ ReceivesFile(side, s)
          PROVE  UNCHANGED setting
      BY <2>1, TransferMoves
    <2> QED
      BY <2>1 DEF Next, vars, ClientStep, ServerStep, ServerRoutine, Notifies, Serves,
             SaysBye, ClientDisconnect, Connect, Connected, SendFileRequest, Answered, Disconnect,
             Disconnected, Grows
  <1>3. lost = 0
    <2>1. lost \in Nat
      BY <1>1 DEF Types
    <2>2. UNCHANGED lost \/ lost' = lost + 1
      <3>1. \A side, s, msg : Sends(side, s, msg) => UNCHANGED lost \/ lost' = lost + 1
        BY DEF Sends
      <3>2. \A side, s : Receives(side, s) => UNCHANGED lost
        BY DEF Receives
      <3>3. ASSUME NEW side, NEW s, SendsFile(side, s) PROVE UNCHANGED lost \/ lost' = lost + 1
        BY <3>1, <3>2, <3>3 DEF SendsFile, SourceSize, SourceOpen, SourceRead, SourceWait,
                                SourceSend, SourceClose, Fails, Confirmation, mail
      <3>4. ASSUME NEW side, NEW s, ReceivesFile(side, s) PROVE UNCHANGED lost \/ lost' = lost + 1
        BY <3>1, <3>2, <3>4 DEF ReceivesFile, SinkCreate, SinkOpen, SinkWait, SinkReceive,
                                SinkWrite, SinkClose, SinkRemove, Fails, Confirmation, mail
      <3>5. CASE UNCHANGED vars \/ \E m \in Machines, n \in Names : Grows(m, n)
        BY <3>5 DEF vars, mail, Grows
      <3>6. ASSUME NEW s, \/ Connect(s) \/ Connected(s) \/ SendFileRequest(s) \/ Answered(s)
                          \/ Disconnect(s) \/ Disconnected(s)
            PROVE  UNCHANGED lost \/ lost' = lost + 1
        BY <3>1, <3>2, <3>6 DEF Connect, Connected, SendFileRequest, Answered, Disconnect,
                                Disconnected, mail
      <3>7. ASSUME NEW s, \/ ServerRoutine(s) \/ Notifies(s) \/ Serves(s) \/ SaysBye(s)
                          \/ ClientDisconnect(s)
            PROVE  UNCHANGED lost \/ lost' = lost + 1
        BY <3>1, <3>2, <3>7 DEF ServerRoutine, Notifies, Serves, SaysBye, ClientDisconnect, mail
      <3> QED
        BY <3>3, <3>4, <3>5, <3>6, <3>7 DEF Next, ClientStep, ServerStep
    <2> QED
      BY SMTT(60), <2>1, <2>2
  <1>4. Protocol /\ Stops
    BY <1>3 DEF IInv
  <1>5. CASE UNCHANGED vars
    <2>1. UNCHANGED <<pc, inbox, rejected, grown, job, files, state>>
      BY <1>5 DEF vars, server, mail, disks
    <2>2. ASSUME NEW r \in Sessions PROVE TalkOf(r)'
      <3>1. TalkOf(r)
        BY <1>4 DEF Protocol
      <3> QED
        BY <1>2, <2>1, <3>1 DEF TalkOf, setting
    <2>3. Stops'
      BY <1>2, <1>4, <2>1 DEF Stops, Machines, setting
    <2> QED
      BY <2>2, <2>3 DEF Protocol
  <1>6. ASSUME NEW side \in Sides, NEW s \in Sessions, SendsFile(side, s) \/ ReceivesFile(side, s)
        PROVE  Protocol' /\ Stops'
    <2>1. UNCHANGED <<rejected, grown>>
      BY <1>6, TransferMoves
    <2>2. TalkOf(s)
      BY <1>4 DEF Protocol
    <2>3. TalkOf(s)' /\ (UNCHANGED state \/ (Aborts(ServerAddr) /\ grown > 0))
      BY <1>1, <1>6, <2>2, SourceTalk, SinkTalk
    <2>4. Stops'
      BY SMTT(60), <1>1, <1>2, <1>4, <2>1, <2>3, StopsKept DEF Types
    <2>5. Protocol'
      BY <1>3, <1>6, <2>3, TransferFrame DEF Protocol
    <2> QED
      BY <2>4, <2>5
  <1>7. ASSUME NEW s \in Sessions,
               \/ Connect(s) \/ Connected(s) \/ SendFileRequest(s) \/ Answered(s)
               \/ Disconnect(s) \/ Disconnected(s)
               \/ ServerRoutine(s) \/ Notifies(s) \/ Serves(s) \/ SaysBye(s) \/ ClientDisconnect(s)
        PROVE  Protocol' /\ Stops'
    <2>1. UNCHANGED grown
      BY <1>7 DEF Connect, Connected, SendFileRequest, Answered, Disconnect, Disconnected,
                  ServerRoutine, Notifies, Serves, SaysBye, ClientDisconnect
    <2>2. TalkOf(s)
      BY <1>4 DEF Protocol
    <2>3. ClientDisconnect(s) => host[s] \in clientMap
      BY <1>1 DEF ClientDisconnect, At, Accounts, Handled
    <2>4. /\ TalkOf(s)' /\ rejected' \in {rejected, rejected \cup {s}}
          /\ \/ UNCHANGED state
             \/ state' = [state EXCEPT ![host[s]] = "halted"]
             \/ Aborts(host[s]) /\ s \in rejected
      BY <1>1, <1>7, <2>2, <2>3, HandlerTalk, RoutineTalk, ClientTalk
    <2>5. rejected \subseteq rejected'
      BY <2>4
    <2>6. Stops'
      BY SMTT(60), <1>1, <1>2, <1>4, <2>1, <2>4, <2>5, StopsKept DEF Types
    <2>7. Protocol'
      BY <1>3, <1>7, <2>4, StepFrame DEF Protocol
    <2> QED
      BY <2>6, <2>7
  <1>8. ASSUME NEW m \in Machines, NEW n \in Names, Grows(m, n)
        PROVE  Protocol' /\ Stops'
    <2>1. UNCHANGED <<state, rejected>> /\ grown' = grown + 1 /\ grown \in Nat
      BY <1>1, <1>8 DEF Grows, server, Types
    <2>2. Protocol'
      BY <1>1, <1>4, <1>8, GrowsTalk DEF Protocol
    <2>3. grown' >= grown /\ grown' \in Nat /\ rejected \subseteq rejected'
      BY SMTT(60), <2>1
    <2>4. Stops'
      BY <1>1, <1>2, <1>4, <2>1, <2>3, StopsKept
    <2> QED
      BY <2>2, <2>4
  <1> QED
    BY <1>5, <1>6, <1>7, <1>8 DEF Next, ClientStep, ServerStep, Sides

-------------------------------------------------------------------------------
(* The theorems.                                                              *)

\* The invariant holds when the machines start.
LEMMA InitInv == Init => IInv
  <1> SUFFICES ASSUME Init PROVE IInv
    OBVIOUS
  <1>1. Settings
    BY DEF Init, Settings
  <1>2. Types
    <2>1. ServerAddr \in Machines /\ "start" \in Places /\ "none" \in {"none", "done", "failed"}
      BY DEF Machines, Places
    <2>2. Empty \in Files(Machines) /\ Absent \in Files(Machines)
      BY MessageTypes
    <2>3. state \in States(Machines) /\ opened \in [Machines -> SUBSET Names]
      BY DEF Init, States
    <2>4. files \in Disks(Machines)
      <3>1. PICK has \in SUBSET (Machines \X Names) :
                files = [m \in Machines |-> [n \in Names |->
                            IF <<m, n>> \in has THEN [of |-> m, len |-> 1] ELSE Absent]]
        BY DEF Init
      <3>2. \A m \in Machines : [of |-> m, len |-> 1] \in Files(Machines)
        BY DEF Files
      <3> QED
        BY <2>2, <3>1, <3>2 DEF Disks
    <2>5. inbox \in Inboxes(Machines)
      BY SMTT(60) DEF Init, Inboxes
    <2>6. pc \in Wheres
      BY <2>1 DEF Init, Wheres
    <2>7. job \in Jobs(Machines)
      BY <2>2 DEF Init, Jobs
    <2>8. result \in Results /\ rejected \subseteq Sessions /\ lost \in Nat /\ grown \in Nat
      BY DEF Init, Results
    <2> QED
      BY <2>3, <2>4, <2>5, <2>6, <2>7, <2>8 DEF Types
  <1>3. \A side \in Sides, s \in Sessions :
            pc[side][s] = "start" /\ inbox[side][s] = <<>> /\ s \notin rejected
    BY DEF Init
  <1>4. Accounts(pc["server"], clientMap, nbClients, host)
    <2>1. Handled(pc["server"]) = {}
      BY <1>3 DEF Handled, Sides
    <2>2. Cardinality({ServerAddr}) = 1
      BY FS_Singleton
    <2>3. clientMap = {ServerAddr} /\ nbClients = 0
      BY DEF Init
    <2> QED
      BY SMTT(60), <2>1, <2>2, <2>3 DEF Accounts
  <1>5. Held(pc, opened, host, request)
    <2>1. "start" \notin Holding
      BY DEF Holding
    <2>2. \A m \in DOMAIN opened : opened[m] = {}
      BY DEF Init
    <2> QED
      BY <1>3, <2>1, <2>2 DEF Held
  <1>6. Protocol
    <2>1. SUFFICES ASSUME NEW s \in Sessions PROVE TalkOf(s)
      BY DEF Protocol
    <2>2. /\ pc["client"][s] = "start" /\ pc["server"][s] = "start"
          /\ Nothing(inbox["client"][s]) /\ Nothing(inbox["server"][s])
      BY SMTT(60), <1>3 DEF Sides, Nothing
    <2> QED
      BY <2>2 DEF TalkOf, Talk, Converses, Meeting, ReadSizes, WriteSizes
  <1>7. Stops
    <2>1. \A m \in Machines : state[m] = "up"
      BY DEF Init
    <2>2. ServerAddr \in Machines
      BY DEF Machines
    <2> QED
      BY <2>1, <2>2 DEF Stops
  <1> QED
    BY <1>1, <1>2, <1>4, <1>5, <1>6, <1>7 DEF IInv

\* Every step keeps the invariant.
LEMMA NextInv == IInv /\ [Next]_vars => IInv'
  <1> SUFFICES ASSUME IInv, [Next]_vars PROVE IInv'
    OBVIOUS
  <1>1. /\ Settings /\ Types /\ Accounts(pc["server"], clientMap, nbClients, host)
        /\ Held(pc, opened, host, request)
    BY DEF IInv
  <1>2. Settings' /\ Types'
    BY <1>1, NextTypes
  <1>3. Accounts(pc["server"], clientMap, nbClients, host)'
    BY <1>1, NextAccounts
  <1>4. Held(pc, opened, host, request)'
    BY <1>1, NextHeld
  <1>5. lost' = 0 => Protocol' /\ Stops'
    BY NextProtocol
  <1> QED
    BY <1>2, <1>3, <1>4, <1>5 DEF IInv

\* What the invariant says of the server.
LEMMA IInvServer == IInv => ServerSound
  <1> SUFFICES ASSUME IInv PROVE ServerSound
    OBVIOUS
  <1>1. /\ Settings /\ Types /\ Accounts(pc["server"], clientMap, nbClients, host)
        /\ lost = 0 => Stops
    BY DEF IInv
  <1>2. /\ clientMap \subseteq Machines /\ nbClients \in 0 .. (MaxClients - 1)
        /\ Cardinality(clientMap) \in Nat /\ nbClients + 1 = Cardinality(clientMap)
    BY <1>1, Counted
  <1>3. /\ nbClients \in 0 .. MaxClients /\ nbClients < MaxClients
        /\ nbClients = Cardinality(clientMap) - 1
    BY SMTT(60), <1>2
  <1>4. ASSUME NEW m \in Machines, NEW n \in Names
        PROVE  files[m][n].of \in Machines /\ files[m][n].len >= -1
    <2>1. files[m][n] \in Files(Machines) /\ ServerAddr \in Machines
      BY <1>1 DEF Types, Disks, Machines
    <2>2. CASE files[m][n] = Absent
      BY SMTT(60), <2>1, <2>2 DEF Absent
    <2>3. CASE files[m][n] \in [of : Machines, len : Nat]
      BY SMTT(60), <2>3
    <2> QED
      BY <2>1, <2>2, <2>3 DEF Files
  <1>5. TypeOK
    BY <1>1, <1>2, <1>3, <1>4 DEF TypeOK, Types, States, Results
  <1>6. \A s \in Sessions : Handling(s) <=> s \in Handled(pc["server"])
    BY DEF Handling, Handled
  <1>7. \A s, r \in Sessions : Handling(s) /\ Handling(r) /\ s # r => host[s] # host[r]
    BY <1>1, <1>6 DEF Accounts
  <1>8. clientMap = {ServerAddr} \cup {host[s] : s \in {r \in Sessions : Handling(r)}}
    <2>1. {r \in Sessions : Handling(r)} = Handled(pc["server"])
      BY <1>6 DEF Handled
    <2> QED
      BY <1>1, <2>1 DEF Accounts
  <1> QED
    BY <1>1, <1>3, <1>5, <1>7, <1>8 DEF ServerSound, Stops

\* What it says of the open files.
LEMMA IInvOpen == IInv => OpenHasOneHolder
  <1> SUFFICES ASSUME IInv, NEW m \in Machines, NEW n \in Names
               PROVE  LET holders == {h \in Sides \X Sessions :
                                          /\ Machine(h[1], h[2]) = m /\ Name(h[2]) = n
                                          /\ Holds(h[1], h[2])}
                      IN  Cardinality(holders) = IF n \in opened[m] THEN 1 ELSE 0
    BY DEF OpenHasOneHolder
  <1> DEFINE holders == {h \in Sides \X Sessions : /\ Machine(h[1], h[2]) = m /\ Name(h[2]) = n
                                                   /\ Holds(h[1], h[2])}
  <1>1. Held(pc, opened, host, request) /\ m \in DOMAIN opened
    BY DEF IInv, Types
  <1>2. \A side \in Sides, s \in Sessions :
            <<side, s>> \in holders <=> /\ pc[side][s] \in Holding
                                        /\ On(side, s, host) = m /\ request[s][2] = n
    BY DEF Machine, On, Name, Holds, Holding
  <1>3. CASE n \in opened[m]
    <2>1. PICK side \in Sides, s \in Sessions :
              pc[side][s] \in Holding /\ On(side, s, host) = m /\ request[s][2] = n
      BY <1>1, <1>3 DEF Held
    <2>2. <<side, s>> \in holders
      BY <1>2, <2>1
    <2>3. ASSUME NEW h \in holders PROVE h = <<side, s>>
      <3>1. PICK other \in Sides, r \in Sessions : h = <<other, r>>
        BY SMTT(60)
      <3>2. pc[other][r] \in Holding /\ On(other, r, host) = m /\ request[r][2] = n
        BY <1>2, <2>3, <3>1
      <3>3. side = other /\ s = r
        BY SMTT(60), <1>1, <2>1, <3>2 DEF Held
      <3> QED
        BY <3>1, <3>3
    <2> HIDE DEF holders
    <2>4. holders = {<<side, s>>}
      BY <2>2, <2>3
    <2>5. Cardinality(holders) = 1
      BY <2>4, FS_Singleton
    <2> QED
      BY <1>3, <2>5 DEF holders
  <1>4. CASE n \notin opened[m]
    <2>1. ASSUME NEW h \in holders PROVE FALSE
      <3>1. PICK side \in Sides, s \in Sessions : h = <<side, s>>
        BY SMTT(60)
      <3>2. pc[side][s] \in Holding /\ On(side, s, host) = m /\ request[s][2] = n
        BY <1>2, <2>1, <3>1
      <3> QED
        BY <1>1, <1>4, <3>2 DEF Held
    <2> HIDE DEF holders
    <2>2. holders = {}
      BY <2>1
    <2>3. Cardinality(holders) = 0
      BY <2>2, FS_EmptySet
    <2> QED
      BY <1>4, <2>3 DEF holders
  <1> QED
    BY <1>3, <1>4

\* A machine has at most one handler and clientMap and nbClients say which and how
\* many, so that a full server is never reached; without lost messages no ASSERT of
\* ftp.cc fails, but the one on the size of the data after the client's file changed,
\* and that of a client that was refused.
THEOREM ServerIsSound == Spec => []ServerSound
  <1>1. Spec => []IInv
    BY InitInv, NextInv, PTL DEF Spec
  <1> QED
    BY <1>1, IInvServer, PTL

\* A file is open exactly as long as one transfer of its machine holds it, whatever
\* messages are lost: no path of SendFile and ReceiveFile leaks a descriptor.
THEOREM OpenFilesHaveOneHolder == Spec => []OpenHasOneHolder
  <1>1. Spec => []IInv
    BY InitInv, NextInv, PTL DEF Spec
  <1> QED
    BY <1>1, IInvOpen, PTL
==============================================================================
