------------------------------- MODULE Server -------------------------------
(***************************************************************************)
(* The server (server.cc): one thread in a poll loop over an array of      *)
(* descriptors, and an array of the clients those descriptors belong to.   *)
(*                                                                         *)
(* One action is one iteration of the loop over pollfds: the handler runs  *)
(* to its end before anything else of the server does, while peers         *)
(* connect, send, close and reset at any time between.  The receive queue  *)
(* of a connection is empty between two handlers (PacketQueue), so it is   *)
(* not part of the state here.                                             *)
(***************************************************************************)
EXTENDS Protocol, FiniteSets

CONSTANTS
    FirstFd   \* the lowest descriptor accept can return; 4 in the program

ASSUME FirstFdAssumption == FirstFd \in Nat \ {0}
ASSUME FiniteAssumption  == IsFiniteSet(Conns)

Listener  == FirstFd - 1
Capacity  == Cardinality(Conns)
Fds       == FirstFd .. FirstFd + Capacity - 1
Protocols == {1}

VARIABLES
    phase,         \* poll, scan, shutdown; stopped and crashed are final
    scan,          \* the loop variable i
    pollfds,       \* the array, by index; pollfds[0] is the listener's
    pollfd_count,
    clients,       \* clients[1 .. client_count]
    fdtab,         \* the kernel's descriptor table: which connection an fd is
    lifo,          \* history: only ever the newest client has been removed
    at_exit        \* history: whom the server served when SIGINT came, see Served

serverVars == <<phase, scan, pollfds, pollfd_count, clients, fdtab, lifo, at_exit>>

Slots == 0 .. Capacity
Revents == {"none", "nval", "lost", "in"}
Pollfd == [fd : Fds \cup {Listener}, revents : Revents]
ClientRecord == [fd : Fds, state : 0 .. 2, version : Versions, nickname : Names]

\* A client, its connection, and what had been written to it.
Served == [client : ClientRecord, conn : Conns, before : Seq(Packets)]

\* What a slot at or past pollfd_count holds is never read.
FreeSlot == [fd |-> Listener, revents |-> "none"]

client_count == Len(clients)
Running      == phase \in {"poll", "scan"}

ServerInit ==
    /\ phase = "poll"
    /\ scan = 1
    /\ pollfds = [k \in Slots |-> FreeSlot]
    /\ pollfd_count = 1
    /\ clients = <<>>
    /\ fdtab = [fd \in Fds |-> NoConn]
    /\ lifo = TRUE
    /\ at_exit = <<>>

-----------------------------------------------------------------------------
(* Helpers                                                                 *)

OpenConns == {fdtab[fd] : fd \in Fds} \ {NoConn}

\* find_client_id
ClientIds(fd) == {k \in 1 .. client_count : clients[k].fd = fd}

RemoveClient(k) ==
    [j \in 1 .. client_count - 1 |-> IF j < k THEN clients[j] ELSE clients[j + 1]]

\* Mutant: the loop starts one FirstFd early, at the listener's entry.
RemovePollfdFromFront(fd) ==
    [k \in Slots |->
        IF fd - FirstFd <= k /\ k < pollfd_count - 1 THEN pollfds[k + 1]
        ELSE IF k = pollfd_count - 1 THEN FreeSlot
        ELSE pollfds[k]]

\* The loop in disconnect_client and disconnect_socket that closes the gap in
\* pollfds starts at the descriptor, not at the index the descriptor has.
RemovePollfd(fd) ==
    [k \in Slots |->
        IF fd <= k /\ k < pollfd_count - 1 THEN pollfds[k + 1]
        ELSE IF k = pollfd_count - 1 THEN FreeSlot
        ELSE pollfds[k]]

\* send_packet writes nothing for a client whose version is not 1.
Written(client, packets) == IF client.version = 1 THEN packets ELSE <<>>

\* Mutant: clients that are not ready get the message as well.
BroadcastToAll(c, cls, packet) ==
    IF \E k \in DOMAIN cls : cls[k].version = 1 /\ fdtab[cls[k].fd] = c
    THEN <<packet>> ELSE <<>>

\* send_all_message: what connection c gets of a message to all of cls.
Broadcast(c, cls, packet) ==
    IF \E k \in DOMAIN cls : cls[k].state = 2 /\ cls[k].version = 1 /\ fdtab[cls[k].fd] = c
    THEN <<packet>> ELSE <<>>

WriteTo(c, packets) == s2c' = [s2c EXCEPT ![c] = @ \o packets]

\* Mutant: the descriptor is not closed.
DisconnectClientLeaks(k, notify, left) ==
    LET client == clients[k]
        Out(c) == IF c = fdtab[client.fd] /\ ~left
                  THEN Written(client, <<Disconnect>>) ELSE <<>>
    IN
    /\ clients' = RemoveClient(k)
    /\ s2c' = [c \in Conns |-> s2c[c] \o Out(c)]
    /\ pollfds' = RemovePollfd(client.fd)
    /\ pollfd_count' = pollfd_count - 1
    /\ lifo' = (lifo /\ k = client_count)
    /\ UNCHANGED <<c2s, fdtab>>

\* Mutant: the notice is sent before the client is taken out, after DISCONNECT.
DisconnectClientEarly(k, notify, left) ==
    LET client == clients[k]
        Out(c) == (IF c = fdtab[client.fd] /\ ~left
                   THEN Written(client, <<Disconnect>>) ELSE <<>>)
                  \o (IF notify
                      THEN Broadcast(c, clients, RecvMessage(LeftNotice(client.nickname), System))
                      ELSE <<>>)
    IN
    /\ clients' = RemoveClient(k)
    /\ s2c' = [c \in Conns |-> s2c[c] \o Out(c)]
    /\ c2s' = [c2s EXCEPT ![fdtab[client.fd]] = <<>>]
    /\ fdtab' = [fdtab EXCEPT ![client.fd] = NoConn]
    /\ pollfds' = RemovePollfd(client.fd)
    /\ pollfd_count' = pollfd_count - 1
    /\ lifo' = (lifo /\ k = client_count)

\* Mutant: pollfds keeps its length.
DisconnectClientKeepsPollfd(k, notify, left) ==
    LET client == clients[k]
        Out(c) == IF c = fdtab[client.fd] /\ ~left
                  THEN Written(client, <<Disconnect>>) ELSE <<>>
    IN
    /\ clients' = RemoveClient(k)
    /\ s2c' = [c \in Conns |-> s2c[c] \o Out(c)]
    /\ c2s' = [c2s EXCEPT ![fdtab[client.fd]] = <<>>]
    /\ fdtab' = [fdtab EXCEPT ![client.fd] = NoConn]
    /\ lifo' = (lifo /\ k = client_count)
    /\ UNCHANGED <<pollfds, pollfd_count>>

\* disconnect_client for clients[k]: the others are told, if notify; the client
\* is sent DISCONNECT, unless it was the one to leave.
DisconnectClient(k, notify, left) ==
    LET client == clients[k]
        rest   == RemoveClient(k)
        Out(c) == (IF notify
                   THEN Broadcast(c, rest, RecvMessage(LeftNotice(client.nickname), System))
                   ELSE <<>>)
                  \o (IF c = fdtab[client.fd] /\ ~left
                      THEN Written(client, <<Disconnect>>) ELSE <<>>)
    IN
    /\ clients' = rest
    /\ s2c' = [c \in Conns |-> s2c[c] \o Out(c)]
    /\ c2s' = [c2s EXCEPT ![fdtab[client.fd]] = <<>>]
    /\ fdtab' = [fdtab EXCEPT ![client.fd] = NoConn]
    /\ pollfds' = RemovePollfd(client.fd)
    /\ pollfd_count' = pollfd_count - 1
    /\ lifo' = (lifo /\ k = client_count)

\* disconnect_socket.  Also a descriptor without a client is closed; it is one
\* that was closed before.
DisconnectSocket(fd, notify, left) ==
    IF ClientIds(fd) # {}
    THEN \E k \in ClientIds(fd) : DisconnectClient(k, notify, left)
    ELSE /\ pollfds' = RemovePollfd(fd)
         /\ pollfd_count' = pollfd_count - 1
         /\ lifo' = FALSE
         /\ fdtab' = [fdtab EXCEPT ![fd] = NoConn]
         /\ c2s' = [c \in Conns |-> IF c = fdtab[fd] THEN <<>> ELSE c2s[c]]
         /\ UNCHANGED <<clients, s2c>>

-----------------------------------------------------------------------------
(* poll                                                                    *)

Ready(fd) ==
    IF fd = Listener THEN (IF backlog # <<>> THEN "in" ELSE "none")
    ELSE IF fdtab[fd] = NoConn THEN "nval"
    ELSE IF peer[fdtab[fd]] = "reset" THEN "lost"
    ELSE IF c2s[fdtab[fd]] # <<>> \/ peer[fdtab[fd]] = "fin" THEN "in"
    ELSE "none"

\* Mutant: the listener's entry gets no events.
PollSkipsListener ==
    /\ phase = "poll"
    /\ \E k \in 0 .. pollfd_count - 1 : Ready(pollfds[k].fd) # "none"
    /\ pollfds' = [k \in Slots |->
                    IF 0 < k /\ k < pollfd_count
                    THEN [pollfds[k] EXCEPT !.revents = Ready(pollfds[k].fd)]
                    ELSE pollfds[k]]
    /\ phase' = "scan"
    /\ scan' = 1
    /\ UNCHANGED <<sockets, pollfd_count, clients, fdtab, lifo, at_exit>>

\* Mutant: the scan starts after the first client.
PollSkipsFirst ==
    /\ phase = "poll"
    /\ \E k \in 0 .. pollfd_count - 1 : Ready(pollfds[k].fd) # "none"
    /\ pollfds' = [k \in Slots |->
                    IF k < pollfd_count
                    THEN [pollfds[k] EXCEPT !.revents = Ready(pollfds[k].fd)]
                    ELSE pollfds[k]]
    /\ phase' = "scan"
    /\ scan' = 2
    /\ UNCHANGED <<sockets, pollfd_count, clients, fdtab, lifo, at_exit>>

\* poll blocks until some entry has an event; a closed descriptor is one.
Poll ==
    /\ phase = "poll"
    /\ \E k \in 0 .. pollfd_count - 1 : Ready(pollfds[k].fd) # "none"
    /\ pollfds' = [k \in Slots |->
                    IF k < pollfd_count
                    THEN [pollfds[k] EXCEPT !.revents = Ready(pollfds[k].fd)]
                    ELSE pollfds[k]]
    /\ phase' = "scan"
    /\ scan' = 1
    /\ UNCHANGED <<sockets, pollfd_count, clients, fdtab, lifo, at_exit>>

-----------------------------------------------------------------------------
(* One iteration of the loop over pollfds.                                 *)

Here == pollfds[scan].fd

Visit(event) ==
    /\ phase = "scan"
    /\ scan < pollfd_count
    /\ pollfds[scan].revents \in event
    /\ scan' = scan + 1
    /\ UNCHANGED <<peer, backlog, sent, at_exit>>

VisitQuiet ==
    /\ Visit({"none", "nval"})
    /\ UNCHANGED <<phase, pollfds, pollfd_count, clients, fdtab, lifo, c2s, s2c>>

\* POLLERR, POLLHUP
VisitLost ==
    /\ Visit({"lost"})
    /\ DisconnectSocket(Here, TRUE, FALSE)
    /\ UNCHANGED phase

\* find_client returns -1, and the handler writes through it.
VisitNoClient ==
    /\ Visit({"in"})
    /\ ClientIds(Here) = {}
    /\ phase' = "crashed"
    /\ fdtab' = [fd \in Fds |-> NoConn]
    /\ UNCHANGED <<pollfds, pollfd_count, clients, lifo, c2s, s2c>>

\* Nothing came: the end of the stream, no data after all, or a version in
\* which recv_packet reads nothing.
VisitMalformed ==
    /\ Visit({"in"})
    /\ \E k \in ClientIds(Here) :
        /\ clients[k].version # 1 \/ c2s[fdtab[Here]] = <<>>
        /\ DisconnectClient(k, TRUE, FALSE)
    /\ UNCHANGED phase

\* The client k is here and its next packet is p.
VisitPacket(k, p) ==
    /\ Visit({"in"})
    /\ k \in ClientIds(Here)
    /\ clients[k].version = 1
    /\ c2s[fdtab[Here]] # <<>>
    /\ p = Head(c2s[fdtab[Here]])
    /\ UNCHANGED phase

Consume == c2s' = [c2s EXCEPT ![fdtab[Here]] = Tail(@)]

\* The handler changes only client k and answers only it.
Update(k, client, packets) ==
    /\ clients' = [clients EXCEPT ![k] = client]
    /\ WriteTo(fdtab[Here], packets)
    /\ Consume
    /\ UNCHANGED <<pollfds, pollfd_count, fdtab, lifo>>

\* Mutant: the new nickname is confirmed but not kept.
NotRenamed(client, nick) == client

\* set_nickname
Renamed(client, nick) == [client EXCEPT !.nickname = nick]
RenameReply(client, nick) == Written(client, <<NicknameUpdated(nick)>>)

VisitHelloMaster(k, p) ==
    /\ VisitPacket(k, p)
    /\ p.op = "HELLO"
    /\ p.master
    /\ Update(k, [clients[k] EXCEPT !.state = 1], <<>>)

VisitHello(k, p) ==
    /\ VisitPacket(k, p)
    /\ p.op = "HELLO"
    /\ ~p.master
    /\ \E sel \in p.protocols \cap Protocols :
        LET client == [clients[k] EXCEPT !.version = sel, !.state = 2] IN
        /\ \A v \in p.protocols \cap Protocols : v <= sel
        /\ Update(k, Renamed(client, Anon), 
                  <<SetProto(sel)>> \o RenameReply(client, Anon))

VisitHelloUnsupported(k, p) ==
    /\ VisitPacket(k, p)
    /\ p.op = "HELLO"
    /\ ~p.master
    /\ p.protocols \cap Protocols = {}
    /\ DisconnectClient(k, FALSE, FALSE)

VisitSetProto(k, p) ==
    /\ VisitPacket(k, p)
    /\ p.op = "SET_PROTO"
    /\ clients[k].state = 1
    /\ LET client == [clients[k] EXCEPT !.version = p.protocol, !.state = 2] IN
       Update(k, Renamed(client, Anon), RenameReply(client, Anon))

VisitSetNickname(k, p) ==
    /\ VisitPacket(k, p)
    /\ p.op = "SET_NICKNAME"
    /\ clients[k].state = 2
    /\ Update(k, Renamed(clients[k], p.nickname), RenameReply(clients[k], p.nickname))

\* Mutant: the author does not get its own message.
VisitSendMessageToOthers(k, p) ==
    /\ VisitPacket(k, p)
    /\ p.op = "SEND_MESSAGE"
    /\ clients[k].state = 2
    /\ s2c' = [c \in Conns |-> IF c = fdtab[Here] THEN s2c[c] ELSE
                s2c[c] \o Broadcast(c, clients, RecvMessage(p.message, clients[k].nickname))]
    /\ Consume
    /\ UNCHANGED <<clients, pollfds, pollfd_count, fdtab, lifo>>

VisitSendMessage(k, p) ==
    /\ VisitPacket(k, p)
    /\ p.op = "SEND_MESSAGE"
    /\ clients[k].state = 2
    /\ s2c' = [c \in Conns |->
                s2c[c] \o Broadcast(c, clients, RecvMessage(p.message, clients[k].nickname))]
    /\ Consume
    /\ UNCHANGED <<clients, pollfds, pollfd_count, fdtab, lifo>>

VisitDisconnect(k, p) ==
    /\ VisitPacket(k, p)
    /\ p.op = "DISCONNECT"
    /\ DisconnectClient(k, FALSE, TRUE)

VisitIgnored(k, p) ==
    /\ VisitPacket(k, p)
    /\ \/ p.op \in {"RECV_MESSAGE", "NICKNAME_UPDATED"}
       \/ p.op = "SET_PROTO" /\ clients[k].state # 1
       \/ p.op \in {"SET_NICKNAME", "SEND_MESSAGE"} /\ clients[k].state # 2
    /\ Update(k, clients[k], <<>>)

HandlePacket ==
    \E k \in 1 .. client_count :
        LET p == Head(c2s[fdtab[Here]]) IN
        \/ VisitHelloMaster(k, p)
        \/ VisitHello(k, p)
        \/ VisitHelloUnsupported(k, p)
        \/ VisitSetProto(k, p)
        \/ VisitSetNickname(k, p)
        \/ VisitSendMessage(k, p)
        \/ VisitDisconnect(k, p)
        \/ VisitIgnored(k, p)

-----------------------------------------------------------------------------
(* After the loop over pollfds: accept one connection, if there was one.   *)

ScanOver == phase = "scan" /\ scan >= pollfd_count

NothingToAccept ==
    /\ ScanOver
    /\ pollfds[0].revents # "in"
    /\ phase' = "poll"
    /\ UNCHANGED <<sockets, scan, pollfds, pollfd_count, clients, fdtab, lifo, at_exit>>

\* What accept returns: the lowest descriptor that is free.
NewFd == {fd \in Fds : /\ fdtab[fd] = NoConn
                       /\ \A g \in Fds : fdtab[g] = NoConn => fd <= g}

\* Mutant: the client's record keeps the listening descriptor.
AcceptKeepsListener ==
    /\ ScanOver
    /\ pollfds[0].revents = "in"
    /\ \E fd \in NewFd :
        LET c      == Head(backlog)
            client == [fd |-> Listener, state |-> 0, version |-> 1, nickname |-> Anon]
        IN
        /\ backlog' = Tail(backlog)
        /\ fdtab' = [fdtab EXCEPT ![fd] = c]
        /\ clients' = Append(clients, client)
        /\ WriteTo(c, Written(client, <<Hello(FALSE, Protocols)>>))
        /\ pollfds' = [pollfds EXCEPT ![pollfd_count] = [fd |-> fd, revents |-> "none"]]
    /\ pollfd_count' = pollfd_count + 1
    /\ phase' = "poll"
    /\ UNCHANGED <<peer, c2s, sent, scan, lifo, at_exit>>

\* The new client gets a HELLO at once and is "anon" until it says otherwise.
Accept ==
    /\ ScanOver
    /\ pollfds[0].revents = "in"
    /\ \E fd \in NewFd :
        LET c      == Head(backlog)
            client == [fd |-> fd, state |-> 0, version |-> 1, nickname |-> Anon]
        IN
        /\ backlog' = Tail(backlog)
        /\ fdtab' = [fdtab EXCEPT ![fd] = c]
        /\ clients' = Append(clients, client)
        /\ WriteTo(c, Written(client, <<Hello(FALSE, Protocols)>>))
        /\ pollfds' = [pollfds EXCEPT ![pollfd_count] = [fd |-> fd, revents |-> "none"]]
    /\ pollfd_count' = pollfd_count + 1
    /\ phase' = "poll"
    /\ UNCHANGED <<peer, c2s, sent, scan, lifo, at_exit>>

-----------------------------------------------------------------------------
(* SIGINT: longjmp out of the loop, then disconnect the clients.  The loop *)
(* index goes up while the clients behind it move down.                    *)

Sigint ==
    /\ Running
    /\ phase' = "shutdown"
    /\ scan' = 1
    /\ at_exit' = [k \in 1 .. client_count |->
                    [client |-> clients[k], conn |-> fdtab[clients[k].fd],
                     before |-> s2c[fdtab[clients[k].fd]]]]
    /\ UNCHANGED <<sockets, pollfds, pollfd_count, clients, fdtab, lifo>>

\* Mutant: the client is removed as if it had left by itself, untold.
ShutdownClientSilent ==
    /\ phase = "shutdown"
    /\ scan <= client_count
    /\ DisconnectSocket(clients[scan].fd, TRUE, TRUE)
    /\ scan' = scan + 1
    /\ UNCHANGED <<phase, peer, backlog, sent, at_exit>>

ShutdownClient ==
    /\ phase = "shutdown"
    /\ scan <= client_count
    /\ DisconnectSocket(clients[scan].fd, TRUE, FALSE)
    /\ scan' = scan + 1
    /\ UNCHANGED <<phase, peer, backlog, sent, at_exit>>

\* The process ends and the kernel closes what is left.
ShutdownOver ==
    /\ phase = "shutdown"
    /\ scan > client_count
    /\ phase' = "stopped"
    /\ fdtab' = [fd \in Fds |-> NoConn]
    /\ UNCHANGED <<sockets, scan, pollfds, pollfd_count, clients, lifo, at_exit>>

-----------------------------------------------------------------------------
ServerStep ==
    \/ Poll
    \/ VisitQuiet
    \/ VisitLost
    \/ VisitNoClient
    \/ VisitMalformed
    \/ HandlePacket
    \/ NothingToAccept
    \/ Accept
    \/ ShutdownClient
    \/ ShutdownOver

-----------------------------------------------------------------------------
(* Properties of the server, whatever its clients are.                     *)

ServerTypeOK ==
    /\ phase \in {"poll", "scan", "shutdown", "stopped", "crashed"}
    /\ scan \in Nat
    /\ pollfds \in [Slots -> Pollfd]
    /\ pollfd_count \in Int
    /\ clients \in Seq(ClientRecord)
    /\ fdtab \in [Fds -> Conns \cup {NoConn}]
    /\ lifo \in BOOLEAN
    /\ at_exit \in Seq(Served)

\* disconnect_client and disconnect_socket take one entry out of pollfds for
\* every call, also when the descriptor's own entry is not the one they take
\* and when the descriptor had been closed before.  They never take the
\* listener's: the server does not stop accepting.
ListenerPolled ==
    Running => pollfd_count >= 1 /\ pollfds[0].fd = Listener

\* The clients array and the descriptor table agree at every step: each client
\* has an open descriptor of its own, each descriptor accept returned and
\* nothing closed belongs to a client.  Nothing leaks and no client is left
\* with a descriptor that now is someone else's.
DescriptorsMatchClients ==
    Running =>
        /\ \A j, k \in DOMAIN clients : clients[j].fd = clients[k].fd => j = k
        /\ {fd \in Fds : fdtab[fd] # NoConn} = {clients[k].fd : k \in DOMAIN clients}
        /\ \A f, g \in Fds : fdtab[f] = fdtab[g] /\ fdtab[f] # NoConn => f = g

\* pollfds mirrors clients, and the server does not crash, as long as the only
\* clients ever removed were the newest at that moment.  Any other removal
\* takes the wrong entry (disconnect_client:151).
MirroredWhileLifo ==
    lifo =>
        /\ phase # "crashed"
        /\ Running =>
            /\ pollfd_count = client_count + 1
            /\ \A k \in DOMAIN clients : pollfds[k].fd = clients[k].fd

\* DISCONNECT is the last packet the server writes on a connection: nothing a
\* later broadcast, a reused descriptor or the shutdown does follows it.
DisconnectIsLast ==
    \A c \in Conns : \A i \in 1 .. Len(s2c[c]) - 1 : s2c[c][i] # Disconnect

\* server.cc:102: no message goes to a client that is not ready.  Seen from the
\* connection: the nickname the protocol selection ends with comes before the
\* first message.
NoMessageBeforeReady ==
    \A c \in Conns : \A i \in 1 .. Len(s2c[c]) :
        s2c[c][i].op = "RECV_MESSAGE" =>
            \E j \in 1 .. i - 1 : s2c[c][j].op = "NICKNAME_UPDATED"

\* The nickname the server uses for a client, the author of its messages, is
\* the last one it confirmed to it; before the first confirmation it is "anon".
NicknameConfirmed ==
    Running => \A k \in DOMAIN clients :
        LET out   == s2c[fdtab[clients[k].fd]]
            named == {i \in DOMAIN out : out[i].op = "NICKNAME_UPDATED"}
        IN
        clients[k].version = 1 =>
            IF named = {} THEN clients[k].nickname = Anon
            ELSE \E i \in named : /\ \A j \in named : j <= i
                                  /\ clients[k].nickname = out[i].nickname

\* The loop steps over every second client: it disconnects the one at each odd
\* place, and tells those that are ready and still there.
Departures(n) == [i \in 1 .. n |-> RecvMessage(LeftNotice(at_exit[2 * i - 1].client.nickname), System)]

\* What the client at place k is written while the server shuts down: the
\* departures before its own, and then DISCONNECT; all of them, and no
\* DISCONNECT, if the loop steps over it.
Farewell(k) ==
    LET client == at_exit[k].client
        told   == IF k % 2 = 1 THEN k \div 2 ELSE (Len(at_exit) + 1) \div 2
    IN (IF client.version = 1 /\ client.state = 2 THEN Departures(told) ELSE <<>>)
       \o (IF k % 2 = 1 THEN Written(client, <<Disconnect>>) ELSE <<>>)

\* Who is told what when the server ends (server.cc:439-445): the clients at
\* odd places of the array get DISCONNECT, oldest first and last of all; those
\* that are ready hear of each departure before their own, once and in order.
\* The clients at even places hear of all of these, and nothing of their own end.
ShutdownTellsEveryOther ==
    phase = "stopped" =>
        \A k \in DOMAIN at_exit :
            s2c[at_exit[k].conn] = at_exit[k].before \o Farewell(k)
=============================================================================
