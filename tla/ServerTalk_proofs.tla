-------------------------- MODULE ServerTalk_proofs --------------------------
(***************************************************************************)
(* Proofs about what the server says on a connection from its first packet *)
(* to its last: no message before the nickname, the nickname in use is the *)
(* one that was confirmed, and all connections together hear one room.     *)
(* The last part is about the server and reference clients: it disconnects *)
(* none that stays, and everything else holds among them too.              *)
(***************************************************************************)
EXTENDS Server_proofs, ChatSystem, DataInduction

\* Where s gives a nickname.
Named(s) == {i \in 1 .. Len(s) : s[i].op = "NICKNAME_UPDATED"}

NoMessages(s) == \A i \in 1 .. Len(s) : s[i].op # "RECV_MESSAGE"

MessagesAfterName(s) ==
    \A i \in 1 .. Len(s) : s[i].op = "RECV_MESSAGE" => \E j \in Named(s) : j <= i - 1

\* n is the last nickname s gives, or the first one a client has.
KnownAs(s, n) ==
    IF Named(s) = {} THEN n = Anon
    ELSE \E i \in Named(s) : (\A j \in Named(s) : j <= i) /\ n = s[i].nickname

-----------------------------------------------------------------------------
(* The inductive invariant.                                                *)

\* The server has not accepted c.
Fresh(c) == peer[c] = "unused" \/ \E i \in DOMAIN backlog : backlog[i] = c

FreshIsSilent == \A c \in Conns : Fresh(c) => s2c[c] = <<>>

\* A client that messages are sent to was given a nickname.
ReadyIsNamed ==
    \A k \in DOMAIN clients :
        (/\ clients[k].state = 2
         /\ clients[k].version = 1
         /\ fdtab[clients[k].fd] \in Conns) => Named(s2c[fdtab[clients[k].fd]]) # {}

Confirmed ==
    Running => \A k \in DOMAIN clients :
        clients[k].version = 1 => KnownAs(s2c[fdtab[clients[k].fd]], clients[k].nickname)

TalkInv ==
    /\ \A c \in Conns : MessagesAfterName(s2c[c])
    /\ FreshIsSilent
    /\ ReadyIsNamed
    /\ Confirmed

-----------------------------------------------------------------------------
(* What is added to a conversation.                                        *)

LEMMA Concat ==
    ASSUME NEW s \in Seq(Packets), NEW t \in Seq(Packets)
    PROVE  /\ Len(s) \in Nat /\ Len(t) \in Nat
           /\ s \o t \in Seq(Packets) /\ Len(s \o t) = Len(s) + Len(t)
           /\ \A i \in 1 .. Len(s) : i \in 1 .. Len(s \o t) /\ (s \o t)[i] = s[i]
           /\ \A i \in 1 .. Len(s \o t) : i \notin 1 .. Len(s) =>
                i - Len(s) \in 1 .. Len(t) /\ (s \o t)[i] = t[i - Len(s)]
  BY ConcatProperties, LenProperties

\* Without a nickname in t nothing about names changes.
LEMMA NoNewName ==
    ASSUME NEW s \in Seq(Packets), NEW t \in Seq(Packets), Named(t) = {}
    PROVE  /\ Named(s \o t) = Named(s)
           /\ \A n : KnownAs(s, n) => KnownAs(s \o t, n)
  <1>1. Named(s \o t) = Named(s)
    BY Concat DEF Named
  <1>2. \A i \in Named(s) : (s \o t)[i] = s[i]
    BY Concat DEF Named
  <1> QED BY <1>1, <1>2 DEF KnownAs

LEMMA StaysNamed ==
    ASSUME NEW s \in Seq(Packets), NEW t \in Seq(Packets), Named(s) # {}
    PROVE  Named(s \o t) # {}
  BY Concat DEF Named

\* Messages may be added to a conversation with a nickname.
LEMMA AddMessages ==
    ASSUME NEW s \in Seq(Packets), NEW t \in Seq(Packets), MessagesAfterName(s),
           NoMessages(t) \/ Named(s) # {}
    PROVE  MessagesAfterName(s \o t)
  <1> SUFFICES ASSUME NEW i \in 1 .. Len(s \o t), (s \o t)[i].op = "RECV_MESSAGE"
               PROVE  \E j \in Named(s \o t) : j <= i - 1
    BY DEF MessagesAfterName
  <1>1. \A j \in Named(s) : j \in Named(s \o t) /\ j \in 1 .. Len(s)
    BY Concat DEF Named
  <1>2. CASE i \in 1 .. Len(s)
    <2>1. s[i].op = "RECV_MESSAGE"
      BY <1>2, Concat
    <2>2. PICK j \in Named(s) : j <= i - 1
      BY <1>2, <2>1 DEF MessagesAfterName
    <2> QED BY <1>1, <2>2
  <1>3. CASE i \notin 1 .. Len(s)
    <2>1. i - Len(s) \in 1 .. Len(t) /\ t[i - Len(s)].op = "RECV_MESSAGE"
      BY <1>3, Concat
    <2>2. PICK j \in Named(s) : TRUE
      BY <2>1 DEF NoMessages
    <2>3. j <= Len(s) /\ Len(s) <= i - 1 /\ j \in Nat /\ Len(s) \in Nat
      BY <1>1, <1>3, <2>1, <2>2, Concat
    <2>4. j <= i - 1
      BY <2>3
    <2> QED BY <1>1, <2>2, <2>4
  <1> QED BY <1>2, <1>3

\* A nickname at the end of t is the one the client is known by.
LEMMA NewName ==
    ASSUME NEW s \in Seq(Packets), NEW t \in Seq(Packets), NEW n,
           Len(t) \in Nat \ {0}, t[Len(t)] = NicknameUpdated(n)
    PROVE  Named(s \o t) # {} /\ KnownAs(s \o t, n)
  <1> DEFINE m == Len(s) + Len(t)
  <1>1. m \in 1 .. Len(s \o t) /\ m \notin 1 .. Len(s) /\ m - Len(s) = Len(t) /\ Len(s \o t) = m
    BY Concat
  <1>2. (s \o t)[m] = NicknameUpdated(n)
    BY <1>1, Concat
  <1>3. NicknameUpdated(n).op = "NICKNAME_UPDATED" /\ NicknameUpdated(n).nickname = n
    BY DEF NicknameUpdated
  <1> HIDE DEF m
  <1>4. m \in Named(s \o t) /\ \A j \in Named(s \o t) : j <= m
    BY <1>1, <1>2, <1>3 DEF Named
  <1> QED BY <1>2, <1>3, <1>4 DEF KnownAs

LEMMA OpOf ==
    /\ Disconnect.op = "DISCONNECT"
    /\ \A m, p : Hello(m, p).op = "HELLO"
    /\ \A v : SetProto(v).op = "SET_PROTO"
    /\ \A n : NicknameUpdated(n).op = "NICKNAME_UPDATED"
    /\ \A m, n : RecvMessage(m, n).op = "RECV_MESSAGE"
  BY DEF Disconnect, Hello, SetProto, NicknameUpdated, RecvMessage

LEMMA ShortTalk ==
    /\ Named(<<>>) = {} /\ NoMessages(<<>>) /\ MessagesAfterName(<<>>)
    /\ \A p \in Packets :
        /\ p.op # "NICKNAME_UPDATED" => Named(<<p>>) = {}
        /\ p.op # "RECV_MESSAGE" => NoMessages(<<p>>)
  BY DEF Named, NoMessages, MessagesAfterName

-----------------------------------------------------------------------------
(* What a step may do.                                                     *)

ClientTypes ==
    /\ DOMAIN clients = 1 .. client_count
    /\ \A k \in DOMAIN clients : clients[k] \in ClientRecord /\ clients[k].fd \in Fds

LEMMA ClientsTyped == ServerInv => ClientTypes
  <1> SUFFICES ASSUME ServerInv PROVE ClientTypes
    OBVIOUS
  <1>1. clients \in Seq(ClientRecord)
    BY DEF ServerInv, TypeOK, ServerTypeOK
  <1>2. DOMAIN clients = 1 .. client_count /\ \A k \in DOMAIN clients : clients[k] \in ClientRecord
    BY <1>1, LenProperties, ElementOfSeq DEF client_count
  <1> QED BY <1>2 DEF ClientTypes, ClientRecord

\* An accepted connection is not fresh.
LEMMA AcceptedNotFresh ==
    ASSUME ServerInv, NEW fd \in Fds, fdtab[fd] # NoConn
    PROVE  ~Fresh(fdtab[fd])
  BY DEF ServerInv, BacklogFresh, Fresh

\* Most steps give nobody a nickname.
LEMMA NamelessStep ==
    ASSUME ServerInv, TalkInv, Running' => Running,
           \A c \in Conns : Fresh(c)' => Fresh(c),
           \A c \in Conns : \E t \in Seq(Packets) :
            /\ s2c'[c] = s2c[c] \o t
            /\ Named(t) = {}
            /\ NoMessages(t) \/ Named(s2c[c]) # {}
            /\ t = <<>> \/ ~Fresh(c),
           \A k \in DOMAIN clients' : \E j \in DOMAIN clients :
            /\ clients'[k].fd = clients[j].fd
            /\ clients'[k].version = clients[j].version
            /\ clients'[k].nickname = clients[j].nickname
            /\ clients'[k].state = 2 => clients[j].state = 2
            /\ \/ fdtab'[clients[j].fd] = fdtab[clients[j].fd]
               \/ fdtab'[clients[j].fd] = NoConn /\ ~Running'
    PROVE  TalkInv'
  <1>1. \A c \in Conns : s2c[c] \in Seq(Packets)
    BY DEF ServerInv, TypeOK, SocketsTypeOK
  <1>2. ASSUME NEW c \in Conns
        PROVE  /\ MessagesAfterName(s2c'[c])
               /\ Fresh(c)' => s2c'[c] = <<>>
               /\ Named(s2c'[c]) = Named(s2c[c])
               /\ \A n : KnownAs(s2c[c], n) => KnownAs(s2c'[c], n)
    <2>1. PICK t \in Seq(Packets) :
            /\ s2c'[c] = s2c[c] \o t
            /\ Named(t) = {}
            /\ NoMessages(t) \/ Named(s2c[c]) # {}
            /\ t = <<>> \/ ~Fresh(c)
      OBVIOUS
    <2>2. MessagesAfterName(s2c'[c])
      BY <1>1, <2>1, AddMessages DEF TalkInv
    <2>3. Named(s2c'[c]) = Named(s2c[c]) /\ \A n : KnownAs(s2c[c], n) => KnownAs(s2c'[c], n)
      BY <1>1, <2>1, NoNewName
    <2>4. ASSUME Fresh(c)' PROVE s2c'[c] = <<>>
      <3>1. t = <<>> /\ s2c[c] = <<>>
        BY <2>1, <2>4 DEF TalkInv, FreshIsSilent
      <3> QED BY <1>1, <2>1, <3>1, ConcatEmptySeq
    <2> QED BY <2>2, <2>3, <2>4
  <1>3. FreshIsSilent'
    BY <1>2 DEF FreshIsSilent
  <1>4. ReadyIsNamed'
    <2> SUFFICES ASSUME NEW k \in DOMAIN clients', clients'[k].state = 2,
                        clients'[k].version = 1, fdtab'[clients'[k].fd] \in Conns
                 PROVE  Named(s2c'[fdtab'[clients'[k].fd]]) # {}
      BY DEF ReadyIsNamed
    <2>1. PICK j \in DOMAIN clients :
            /\ clients'[k].fd = clients[j].fd
            /\ clients'[k].version = clients[j].version
            /\ clients[j].state = 2
            /\ \/ fdtab'[clients[j].fd] = fdtab[clients[j].fd]
               \/ fdtab'[clients[j].fd] = NoConn
      OBVIOUS
    <2>2. fdtab'[clients'[k].fd] = fdtab[clients[j].fd]
      BY <2>1, ConnsAssumption
    <2>3. Named(s2c[fdtab[clients[j].fd]]) # {}
      BY <2>1, <2>2 DEF TalkInv, ReadyIsNamed
    <2> QED BY <1>2, <2>2, <2>3
  <1>5. Confirmed'
    <2> SUFFICES ASSUME Running', NEW k \in DOMAIN clients', clients'[k].version = 1
                 PROVE  KnownAs(s2c'[fdtab'[clients'[k].fd]], clients'[k].nickname)
      BY DEF Confirmed
    <2>1. PICK j \in DOMAIN clients :
            /\ clients'[k].fd = clients[j].fd
            /\ clients[j].version = 1
            /\ clients'[k].nickname = clients[j].nickname
            /\ fdtab'[clients[j].fd] = fdtab[clients[j].fd]
      OBVIOUS
    <2>2. fdtab[clients[j].fd] \in Conns
      <3>1. clients[j].fd \in Fds /\ fdtab[clients[j].fd] # NoConn
        BY ClientsTyped DEF ServerInv, DescriptorsMatchClients, ClientTypes
      <3> QED BY <3>1 DEF ServerInv, TypeOK, ServerTypeOK
    <2>3. KnownAs(s2c[fdtab[clients[j].fd]], clients[j].nickname)
      BY <2>1 DEF TalkInv, Confirmed
    <2> QED BY <1>2, <2>1, <2>2, <2>3
  <1> QED BY <1>2, <1>3, <1>4, <1>5 DEF TalkInv

\* Steps that write nothing to anyone.
LEMMA SilentStep ==
    ASSUME ServerInv, TalkInv, Running' => Running, UNCHANGED <<s2c, clients>>,
           \A c \in Conns : Fresh(c)' => Fresh(c),
           \A fd \in Fds : fdtab'[fd] = fdtab[fd] \/ (fdtab'[fd] = NoConn /\ ~Running')
    PROVE  TalkInv'
  <1>1. ASSUME NEW c \in Conns PROVE s2c'[c] = s2c[c] \o <<>>
    <2>1. s2c[c] \in Seq(Packets)
      BY DEF ServerInv, TypeOK, SocketsTypeOK
    <2> QED BY <2>1, ConcatEmptySeq
  <1>2. \A c \in Conns : \E t \in Seq(Packets) :
            /\ s2c'[c] = s2c[c] \o t
            /\ Named(t) = {}
            /\ NoMessages(t) \/ Named(s2c[c]) # {}
            /\ t = <<>> \/ ~Fresh(c)
    BY <1>1, ShortSeqs, ShortTalk
  <1>3. \A k \in DOMAIN clients' : \E j \in DOMAIN clients :
            /\ clients'[k].fd = clients[j].fd
            /\ clients'[k].version = clients[j].version
            /\ clients'[k].nickname = clients[j].nickname
            /\ clients'[k].state = 2 => clients[j].state = 2
            /\ \/ fdtab'[clients[j].fd] = fdtab[clients[j].fd]
               \/ fdtab'[clients[j].fd] = NoConn /\ ~Running'
    BY ClientsTyped DEF ClientTypes
  <1> QED BY <1>2, <1>3, NamelessStep

\* Messages go to clients that were given a nickname.
LEMMA BroadcastTalk ==
    ASSUME ServerInv, TalkInv, NEW c \in Conns, NEW cls,
           \A k \in DOMAIN cls : \E j \in DOMAIN clients : cls[k] = clients[j],
           NEW p \in Packets, p.op = "RECV_MESSAGE"
    PROVE  /\ Broadcast(c, cls, p) \in Seq(Packets)
           /\ Named(Broadcast(c, cls, p)) = {}
           /\ Broadcast(c, cls, p) = <<>> \/ (~Fresh(c) /\ Named(s2c[c]) # {})
  <1>1. CASE \E k \in DOMAIN cls :
                cls[k].state = 2 /\ cls[k].version = 1 /\ fdtab[cls[k].fd] = c
    <2>1. PICK j \in DOMAIN clients :
                clients[j].state = 2 /\ clients[j].version = 1 /\ fdtab[clients[j].fd] = c
      BY <1>1
    <2>2. Named(s2c[c]) # {}
      BY <2>1 DEF TalkInv, ReadyIsNamed
    <2>3. clients[j].fd \in Fds
      BY ClientsTyped DEF ClientTypes
    <2>4. ~Fresh(c)
      BY <2>1, <2>3, AcceptedNotFresh, ConnsAssumption
    <2>5. Broadcast(c, cls, p) = <<p>>
      BY <1>1 DEF Broadcast
    <2> QED BY <2>2, <2>4, <2>5, ShortSeqs, ShortTalk
  <1>2. CASE ~\E k \in DOMAIN cls :
                cls[k].state = 2 /\ cls[k].version = 1 /\ fdtab[cls[k].fd] = c
    <2>1. Broadcast(c, cls, p) = <<>>
      BY <1>2 DEF Broadcast
    <2> QED BY <2>1, ShortSeqs, ShortTalk
  <1> QED BY <1>1, <1>2

LEMMA DisconnectClientTalk ==
    ASSUME ServerInv, TalkInv, NEW k \in 1 .. client_count, NEW notify, NEW left,
           DisconnectClient(k, notify, left), UNCHANGED <<phase, peer, backlog>>
    PROVE  TalkInv'
  <1> DEFINE fd     == clients[k].fd
             notice == RecvMessage(LeftNotice(clients[k].nickname), System)
             Told(c) == IF notify THEN Broadcast(c, RemoveClient(k), notice) ELSE <<>>
             Bye(c) == IF c = fdtab[fd] /\ ~left THEN Written(clients[k], <<Disconnect>>) ELSE <<>>
  <1>1. clients[k] \in ClientRecord /\ fd \in Fds /\ clients[k].nickname \in Names
    BY ClientsTyped DEF ClientTypes, ClientRecord
  <1>2. notice \in Packets /\ notice.op = "RECV_MESSAGE"
    BY <1>1, PacketTypes, OpOf
  <1>3. \A i \in DOMAIN RemoveClient(k) : \E j \in DOMAIN clients :
            j # k /\ RemoveClient(k)[i] = clients[j]
    <2>1. client_count \in Nat /\ DOMAIN clients = 1 .. client_count
      BY LenProperties DEF ServerInv, TypeOK, ServerTypeOK, client_count
    <2>2. /\ DOMAIN RemoveClient(k) = 1 .. client_count - 1
          /\ \A j \in 1 .. client_count - 1 :
                RemoveClient(k)[j] = IF j < k THEN clients[j] ELSE clients[j + 1]
      BY RemoveClientFacts DEF ServerInv, TypeOK
    <2> TAKE i \in DOMAIN RemoveClient(k)
    <2>3. CASE i < k
      BY <2>1, <2>2, <2>3
    <2>4. CASE ~(i < k)
      <3>1. i + 1 \in DOMAIN clients /\ i + 1 # k
        BY <2>1, <2>2, <2>4
      <3> QED BY <2>2, <2>4, <3>1
    <2> QED BY <2>3, <2>4
  <1>4. \A f \in Fds : fdtab'[f] = IF f = fd THEN NoConn ELSE fdtab[f]
    BY <1>1 DEF DisconnectClient, ServerInv, TypeOK, ServerTypeOK
  <1>5. ASSUME NEW c \in Conns
        PROVE  \E t \in Seq(Packets) :
                /\ s2c'[c] = s2c[c] \o t
                /\ Named(t) = {}
                /\ NoMessages(t) \/ Named(s2c[c]) # {}
                /\ t = <<>> \/ ~Fresh(c)
    <2>1. s2c'[c] = s2c[c] \o (Told(c) \o Bye(c))
      BY DEF DisconnectClient
    <2>2. /\ Told(c) \in Seq(Packets) /\ Named(Told(c)) = {}
          /\ Told(c) = <<>> \/ (~Fresh(c) /\ Named(s2c[c]) # {})
      <3> HIDE DEF notice
      <3>1. CASE notify
        BY <1>2, <1>3, <3>1, BroadcastTalk
      <3>2. CASE ~notify
        BY <3>2, ShortSeqs, ShortTalk
      <3> QED BY <3>1, <3>2
    <2>3. /\ Bye(c) \in Seq(Packets) /\ Named(Bye(c)) = {} /\ NoMessages(Bye(c))
          /\ Bye(c) = <<>> \/ ~Fresh(c)
      <3>1. Bye(c) = <<>> \/ (c = fdtab[fd] /\ Bye(c) = <<Disconnect>>)
        BY DEF Written
      <3>2. c = fdtab[fd] => ~Fresh(c)
        BY <1>1, AcceptedNotFresh, ConnsAssumption
      <3> HIDE DEF Bye
      <3>3. Disconnect \in Packets /\ Disconnect.op = "DISCONNECT"
        BY PacketTypes, OpOf
      <3> QED BY <3>1, <3>2, <3>3, ShortSeqs, ShortTalk
    <2> HIDE DEF Told, Bye
    <2>4. Told(c) \o Bye(c) \in Seq(Packets) /\ Named(Told(c) \o Bye(c)) = {}
      BY <2>2, <2>3, ShortSeqs, NoNewName
    <2>5. CASE Told(c) = <<>>
      <3>1. Told(c) \o Bye(c) = Bye(c)
        BY <2>3, <2>5, ConcatEmptySeq
      <3> QED BY <2>1, <2>3, <3>1
    <2>6. CASE Told(c) # <<>>
      BY <2>1, <2>2, <2>4, <2>6
    <2> QED BY <2>5, <2>6
  <1>6. ASSUME NEW i \in DOMAIN clients'
        PROVE  \E j \in DOMAIN clients :
                /\ clients'[i] = clients[j]
                /\ fdtab'[clients[j].fd] = fdtab[clients[j].fd]
    <2>1. clients' = RemoveClient(k)
      BY DEF DisconnectClient
    <2>2. PICK j \in DOMAIN clients : j # k /\ clients'[i] = clients[j]
      BY <1>3, <2>1
    <2>3. clients[j].fd \in Fds /\ clients[j].fd # fd
      BY <2>2, ClientsTyped DEF ClientTypes, ServerInv, ClientsDistinct
    <2> QED BY <1>4, <2>2, <2>3
  <1>7. (Running' => Running) /\ \A c \in Conns : Fresh(c)' => Fresh(c)
    BY DEF Running, Fresh
  <1>8. \A i \in DOMAIN clients' : \E j \in DOMAIN clients :
            /\ clients'[i].fd = clients[j].fd
            /\ clients'[i].version = clients[j].version
            /\ clients'[i].nickname = clients[j].nickname
            /\ clients'[i].state = 2 => clients[j].state = 2
            /\ \/ fdtab'[clients[j].fd] = fdtab[clients[j].fd]
               \/ fdtab'[clients[j].fd] = NoConn /\ ~Running'
    BY <1>6
  <1> QED BY <1>5, <1>7, <1>8, NamelessStep

\* A lost descriptor is a client's or was one; a turn of the shutdown is a client's.
LEMMA LostDescriptor == ServerInv /\ VisitLost => Here \in Fds /\ Running
  <1> SUFFICES ASSUME ServerInv, VisitLost PROVE Here \in Fds /\ Running
    OBVIOUS
  <1>1. scan \in Slots
    BY ClientsFit, FdsFacts
    DEF ServerInv, TypeOK, ServerTypeOK, ScanBounds, VisitLost, Visit, Slots
  <1>2. Here \in Fds \cup {Listener}
    BY <1>1 DEF Here, ServerInv, TypeOK, ServerTypeOK, Pollfd
  <1>3. Here # Listener /\ Running
    BY <1>1 DEF VisitLost, Visit, Here, ServerInv, ListenerNeverLost, Running
  <1> QED BY <1>2, <1>3

LEMMA TurnHasClient ==
    ServerInv /\ ShutdownClient =>
        clients[scan].fd \in Fds /\ scan \in ClientIds(clients[scan].fd)
  <1> SUFFICES ASSUME ServerInv, ShutdownClient
               PROVE  clients[scan].fd \in Fds /\ scan \in ClientIds(clients[scan].fd)
    OBVIOUS
  <1>1. clients \in Seq(ClientRecord) /\ scan \in 1 .. Len(clients)
    BY DEF ShutdownClient, client_count, ServerInv, TypeOK, ServerTypeOK, ScanBounds
  <1>2. clients[scan] \in ClientRecord
    BY <1>1, ElementOfSeq
  <1> QED BY <1>1, <1>2 DEF ClientRecord, ClientIds, client_count

LEMMA DisconnectSocketTalk ==
    ASSUME ServerInv, TalkInv, NEW fd \in Fds, NEW notify, NEW left,
           Running \/ ClientIds(fd) # {},
           DisconnectSocket(fd, notify, left), UNCHANGED <<phase, peer, backlog>>
    PROVE  TalkInv'
  <1>1. CASE ClientIds(fd) # {}
    <2>1. PICK k \in ClientIds(fd) : DisconnectClient(k, notify, left)
      BY <1>1 DEF DisconnectSocket
    <2>2. k \in 1 .. client_count
      BY DEF ClientIds
    <2> QED BY <2>1, <2>2, DisconnectClientTalk
  <1>2. CASE ClientIds(fd) = {}
    <2>1. UNCHANGED <<s2c, clients, fdtab>>
      BY <1>2, ClosedAgain
    <2>2. (Running' => Running) /\ \A c \in Conns : Fresh(c)' => Fresh(c)
      BY DEF Running, Fresh
    <2> QED BY <2>1, <2>2, SilentStep
  <1> QED BY <1>1, <1>2

\* A handler that answers one client, with a nickname at the end or without any.
LEMMA UpdateTalk ==
    ASSUME ServerInv, TalkInv, NEW k, NEW p, VisitPacket(k, p),
           NEW client, NEW packets \in Seq(Packets), Update(k, client, packets),
           client.fd = clients[k].fd, NoMessages(packets),
           \/ /\ packets = <<>>
              /\ client.version = clients[k].version
              /\ client.nickname = clients[k].nickname
              /\ client.state = 2 => clients[k].state = 2
           \/ client.version # 1
           \/ /\ Len(packets) \in Nat \ {0}
              /\ packets[Len(packets)] = NicknameUpdated(client.nickname)
    PROVE  TalkInv'
  <1>1. /\ k \in DOMAIN clients /\ fdtab[Here] \in Conns /\ phase = "scan"
        /\ Here = clients[k].fd
        /\ UNCHANGED <<phase, peer, backlog>>
    BY VisitPacketFacts, VisitedClient, ClientsTyped DEF VisitPacket, ClientTypes
  <1>2. ClientTypes /\ Running /\ Running'
    BY <1>1, ClientsTyped DEF Running
  <1>3. /\ UNCHANGED fdtab /\ DOMAIN clients' = DOMAIN clients
        /\ \A j \in DOMAIN clients : clients'[j] = IF j = k THEN client ELSE clients[j]
    <2>1. clients' = [clients EXCEPT ![k] = client] /\ UNCHANGED fdtab
      BY DEF Update
    <2> QED BY <1>1, <2>1
  <1>4. \A c \in Conns : /\ s2c[c] \in Seq(Packets)
                         /\ s2c'[c] = IF c = fdtab[Here] THEN s2c[c] \o packets ELSE s2c[c]
    BY DEF Update, WriteTo, ServerInv, TypeOK, SocketsTypeOK
  <1>5. \A c \in Conns : MessagesAfterName(s2c'[c])
    BY <1>4, AddMessages DEF TalkInv
  <1>6. FreshIsSilent'
    <2>1. ~Fresh(fdtab[Here])
      <3>1. Here \in Fds /\ fdtab[Here] # NoConn
        BY <1>1, <1>2, ConnsAssumption DEF ClientTypes
      <3> QED BY <3>1, AcceptedNotFresh
    <2>2. \A c \in Conns : Fresh(c)' => Fresh(c)
      BY <1>1 DEF Fresh
    <2> QED BY <1>4, <2>1, <2>2 DEF TalkInv, FreshIsSilent
  <1>7. ASSUME NEW j \in DOMAIN clients, j # k
        PROVE  /\ clients[j].fd \in Fds /\ fdtab[clients[j].fd] \in Conns
               /\ fdtab[clients[j].fd] # fdtab[Here]
    <2>1. clients[j].fd \in Fds /\ clients[k].fd \in Fds /\ clients[j].fd # clients[k].fd
      BY <1>1, <1>2, <1>7 DEF ClientTypes, ServerInv, ClientsDistinct
    <2>2. fdtab[clients[j].fd] # NoConn /\ fdtab[clients[k].fd] # NoConn
      BY <1>1, <1>2 DEF ServerInv, DescriptorsMatchClients
    <2>3. fdtab[clients[j].fd] # fdtab[clients[k].fd]
      BY <1>2, <2>1, <2>2 DEF ServerInv, DescriptorsMatchClients
    <2> QED BY <1>1, <2>1, <2>2, <2>3 DEF ServerInv, TypeOK, ServerTypeOK
  <1>8. ASSUME client.version = 1
        PROVE  /\ client.state = 2 => Named(s2c'[fdtab[Here]]) # {}
               /\ KnownAs(s2c'[fdtab[Here]], client.nickname)
    <2>1. s2c'[fdtab[Here]] = s2c[fdtab[Here]] \o packets /\ s2c[fdtab[Here]] \in Seq(Packets)
      BY <1>1, <1>4
    <2>2. CASE /\ packets = <<>>
               /\ client.version = clients[k].version
               /\ client.nickname = clients[k].nickname
               /\ client.state = 2 => clients[k].state = 2
      <3>1. s2c'[fdtab[Here]] = s2c[fdtab[Here]]
        BY <2>1, <2>2, ConcatEmptySeq
      <3>2. client.state = 2 => Named(s2c[fdtab[Here]]) # {}
        BY <1>1, <1>8, <2>2 DEF TalkInv, ReadyIsNamed
      <3>3. KnownAs(s2c[fdtab[Here]], client.nickname)
        BY <1>1, <1>2, <1>8, <2>2 DEF TalkInv, Confirmed
      <3> QED BY <3>1, <3>2, <3>3
    <2>3. CASE /\ Len(packets) \in Nat \ {0}
               /\ packets[Len(packets)] = NicknameUpdated(client.nickname)
      BY <2>1, <2>3, NewName
    <2> QED BY <1>8, <2>2, <2>3
  <1>9. ReadyIsNamed'
    <2> SUFFICES ASSUME NEW j \in DOMAIN clients, clients'[j].state = 2, clients'[j].version = 1
                 PROVE  Named(s2c'[fdtab[clients'[j].fd]]) # {}
      BY <1>3 DEF ReadyIsNamed
    <2>1. CASE j = k
      BY <1>1, <1>3, <1>8, <2>1
    <2>2. CASE j # k
      <3>1. Named(s2c[fdtab[clients[j].fd]]) # {}
        BY <1>3, <1>7, <2>2 DEF TalkInv, ReadyIsNamed
      <3> QED BY <1>3, <1>4, <1>7, <2>2, <3>1
    <2> QED BY <2>1, <2>2
  <1>10. Confirmed'
    <2> SUFFICES ASSUME NEW j \in DOMAIN clients, clients'[j].version = 1
                 PROVE  KnownAs(s2c'[fdtab[clients'[j].fd]], clients'[j].nickname)
      BY <1>3 DEF Confirmed
    <2>1. CASE j = k
      BY <1>1, <1>3, <1>8, <2>1
    <2>2. CASE j # k
      <3>1. KnownAs(s2c[fdtab[clients[j].fd]], clients[j].nickname)
        BY <1>2, <1>3, <2>2 DEF TalkInv, Confirmed
      <3> QED BY <1>3, <1>4, <1>7, <2>2, <3>1
    <2> QED BY <2>1, <2>2
  <1> QED BY <1>5, <1>6, <1>9, <1>10 DEF TalkInv

\* The connection that is accepted was written nothing before its HELLO.
LEMMA AcceptTalk == ServerInv /\ TalkInv /\ Accept => TalkInv'
  <1> SUFFICES ASSUME ServerInv, TalkInv, Accept PROVE TalkInv'
    OBVIOUS
  <1> DEFINE a == Head(backlog)
             hello == <<Hello(FALSE, Protocols)>>
  <1>1. PICK fd \in NewFd :
            /\ fdtab' = [fdtab EXCEPT ![fd] = a]
            /\ clients' = Append(clients, [fd |-> fd, state |-> 0, version |-> 1,
                                           nickname |-> Anon])
            /\ s2c' = [s2c EXCEPT ![a] = @ \o Written([fd |-> fd, state |-> 0, version |-> 1,
                                                       nickname |-> Anon], hello)]
    BY DEF Accept, WriteTo
  <1> DEFINE client == [fd |-> fd, state |-> 0, version |-> 1, nickname |-> Anon]
  <1>2. /\ a \in Conns /\ Fresh(a) /\ UNCHANGED peer
        /\ \A i \in DOMAIN backlog' : \E j \in DOMAIN backlog : backlog[j] = backlog'[i]
        /\ \A i \in DOMAIN backlog' : backlog'[i] # a
    <2>1. backlog \in Seq(Conns) /\ backlog # <<>> /\ backlog' = Tail(backlog) /\ UNCHANGED peer
      BY DEF Accept, ScanOver, ServerInv, TypeOK, SocketsTypeOK, AcceptReady
    <2>2. /\ a \in Conns /\ backlog' \in Seq(Conns)
          /\ Len(backlog') = Len(backlog) - 1
          /\ \A i \in 1 .. Len(backlog') : backlog'[i] = backlog[i + 1]
      BY <2>1, HeadTailProperties
    <2>3. /\ DOMAIN backlog = 1 .. Len(backlog) /\ DOMAIN backlog' = 1 .. Len(backlog')
          /\ Len(backlog) \in Nat \ {0}
      BY <2>1, <2>2, LenProperties, EmptySeq
    <2>4. a = backlog[1] /\ 1 \in DOMAIN backlog
      BY <2>1, <2>3
    <2>5. \A i \in DOMAIN backlog' : i + 1 \in DOMAIN backlog /\ i + 1 # 1
      BY <2>2, <2>3
    <2> HIDE DEF a
    <2>6. \A i \in DOMAIN backlog' : backlog'[i] # a
      BY <2>2, <2>3, <2>4, <2>5 DEF ServerInv, BacklogFresh
    <2> QED BY <2>1, <2>2, <2>3, <2>4, <2>5, <2>6 DEF Fresh
  <1> HIDE DEF a
  <1>3. fd \in Fds /\ fdtab[fd] = NoConn
    BY DEF NewFd
  <1>4. /\ ClientTypes /\ client_count \in Nat
        /\ DOMAIN clients' = DOMAIN clients \cup {client_count + 1}
        /\ clients'[client_count + 1] = client
        /\ \A j \in DOMAIN clients : clients'[j] = clients[j] /\ clients[j].fd # fd
    <2>1. clients \in Seq(ClientRecord) /\ client \in ClientRecord
      BY <1>3, VersionsAssumption DEF ServerInv, TypeOK, ServerTypeOK, ClientRecord, Names
    <2>2. clients' = Append(clients, client)
      BY <1>1
    <2> HIDE DEF client
    <2>3. /\ Len(clients') = client_count + 1 /\ clients' \in Seq(ClientRecord)
          /\ clients'[client_count + 1] = client
          /\ \A j \in 1 .. client_count : clients'[j] = clients[j]
      BY <2>1, <2>2, AppendProperties DEF client_count
    <2>4. client_count \in Nat /\ DOMAIN clients' = 1 .. client_count + 1 /\ ClientTypes
      BY <2>1, <2>3, LenProperties, ClientsTyped DEF client_count
    <2>5. \A j \in DOMAIN clients : fdtab[clients[j].fd] # NoConn
      BY DEF Accept, ScanOver, ServerInv, DescriptorsMatchClients, Running
    <2> QED BY <1>3, <2>3, <2>4, <2>5 DEF ClientTypes
  <1>5. Written(client, hello) = hello
    BY DEF Written
  <1>6. /\ hello \in Seq(Packets) /\ Named(hello) = {} /\ NoMessages(hello)
    BY PacketTypes, OpOf, ShortSeqs, ShortTalk
  <1>7. s2c[a] = <<>>
    BY <1>2 DEF TalkInv, FreshIsSilent
  <1>8. \A c \in Conns : s2c'[c] = IF c = a THEN hello ELSE s2c[c]
    <2>1. \A c \in Conns : s2c'[c] = IF c = a THEN s2c[a] \o hello ELSE s2c[c]
      BY <1>1, <1>5 DEF ServerInv, TypeOK, SocketsTypeOK
    <2>2. s2c[a] \o hello = hello
      BY <1>6, <1>7, ConcatEmptySeq
    <2> QED BY <2>1, <2>2
  <1>9. \A f \in Fds : fdtab'[f] = IF f = fd THEN a ELSE fdtab[f]
    BY <1>1 DEF ServerInv, TypeOK, ServerTypeOK
  <1>10. \A f \in Fds : fdtab[f] # a
    BY <1>2, ConnsAssumption, AcceptedNotFresh
  <1> HIDE DEF hello
  <1>11. \A c \in Conns : MessagesAfterName(s2c'[c])
    BY <1>6, <1>8 DEF TalkInv, NoMessages, MessagesAfterName
  <1>12. FreshIsSilent'
    <2> SUFFICES ASSUME NEW c \in Conns, Fresh(c)' PROVE s2c'[c] = <<>>
      BY DEF FreshIsSilent
    <2>1. c # a
      <3>1. peer[a] # "unused"
        <4>1. backlog \in Seq(Conns) /\ backlog # <<>> /\ a = backlog[1]
          BY DEF Accept, ScanOver, ServerInv, TypeOK, SocketsTypeOK, AcceptReady, a
        <4>2. 1 \in DOMAIN backlog
          BY <4>1, LenProperties, EmptySeq
        <4> QED BY <4>1, <4>2 DEF ServerInv, BacklogFresh
      <3> QED BY <1>2, <3>1 DEF Fresh
    <2>2. Fresh(c)
      BY <1>2 DEF Fresh
    <2> QED BY <1>8, <2>1, <2>2 DEF TalkInv, FreshIsSilent
  <1>13. ReadyIsNamed'
    <2> SUFFICES ASSUME NEW j \in DOMAIN clients', clients'[j].state = 2,
                        clients'[j].version = 1, fdtab'[clients'[j].fd] \in Conns
                 PROVE  Named(s2c'[fdtab'[clients'[j].fd]]) # {}
      BY DEF ReadyIsNamed
    <2>1. j \in DOMAIN clients
      BY <1>4
    <2>2. clients'[j] = clients[j] /\ fdtab'[clients[j].fd] = fdtab[clients[j].fd]
          /\ fdtab[clients[j].fd] # a
      BY <1>4, <1>9, <1>10, <2>1 DEF ClientTypes
    <2> QED BY <1>8, <2>1, <2>2 DEF TalkInv, ReadyIsNamed
  <1>14. Confirmed'
    <2> SUFFICES ASSUME Running', NEW j \in DOMAIN clients', clients'[j].version = 1
                 PROVE  KnownAs(s2c'[fdtab'[clients'[j].fd]], clients'[j].nickname)
      BY DEF Confirmed
    <2>1. CASE j = client_count + 1
      <3>1. clients'[j].fd = fd /\ clients'[j].nickname = Anon
        BY <1>4, <2>1
      <3> HIDE DEF client
      <3>2. s2c'[fdtab'[clients'[j].fd]] = hello
        BY <1>2, <1>3, <1>8, <1>9, <3>1
      <3> QED BY <1>6, <3>1, <3>2 DEF KnownAs
    <2>2. CASE j \in DOMAIN clients
      <3>1. clients'[j] = clients[j] /\ fdtab'[clients[j].fd] = fdtab[clients[j].fd]
            /\ fdtab[clients[j].fd] # a /\ fdtab[clients[j].fd] \in Conns
        <4>1. clients[j].fd \in Fds /\ fdtab[clients[j].fd] # NoConn
          BY <1>4, <2>2 DEF ClientTypes, Accept, ScanOver, ServerInv,
                            DescriptorsMatchClients, Running
        <4>2. fdtab[clients[j].fd] \in Conns
          BY <4>1 DEF ServerInv, TypeOK, ServerTypeOK
        <4> QED BY <1>4, <1>9, <1>10, <2>2, <4>1, <4>2
      <3>2. KnownAs(s2c[fdtab[clients[j].fd]], clients[j].nickname)
        BY <2>2, <3>1 DEF TalkInv, Confirmed, Accept, ScanOver, Running
      <3> QED BY <1>8, <3>1, <3>2
    <2> QED BY <1>4, <2>1, <2>2
  <1> QED BY <1>11, <1>12, <1>13, <1>14 DEF TalkInv

LEMMA HandlePacketTalk == ServerInv /\ TalkInv /\ HandlePacket => TalkInv'
  <1> SUFFICES ASSUME ServerInv, TalkInv, NEW k \in 1 .. client_count, NEW p,
                      \/ VisitHelloMaster(k, p)
                      \/ VisitHello(k, p)
                      \/ VisitHelloUnsupported(k, p)
                      \/ VisitSetProto(k, p)
                      \/ VisitSetNickname(k, p)
                      \/ VisitSendMessage(k, p)
                      \/ VisitDisconnect(k, p)
                      \/ VisitIgnored(k, p)
               PROVE  TalkInv'
    BY DEF HandlePacket
  <1>1. VisitPacket(k, p)
    BY DEF VisitHelloMaster, VisitHello, VisitHelloUnsupported, VisitSetProto,
           VisitSetNickname, VisitSendMessage, VisitDisconnect, VisitIgnored
  <1>2. /\ clients[k] \in ClientRecord /\ clients[k].version = 1
        /\ p \in Packets
        /\ UNCHANGED <<phase, peer, backlog>>
    BY <1>1, VisitPacketFacts DEF VisitPacket
  <1>3. /\ <<>> \in Seq(Packets) /\ NoMessages(<<>>)
        /\ \A n \in Names : /\ <<NicknameUpdated(n)>> \in Seq(Packets)
                            /\ NoMessages(<<NicknameUpdated(n)>>)
                            /\ Len(<<NicknameUpdated(n)>>) = 1
                            /\ <<NicknameUpdated(n)>>[1] = NicknameUpdated(n)
    BY PacketTypes, OpOf, ShortSeqs, ShortTalk
  <1>4. \A c : \A n \in Names :
            RenameReply(c, n) = IF c.version = 1 THEN <<NicknameUpdated(n)>> ELSE <<>>
    BY DEF RenameReply, Written
  <1>5. CASE VisitHelloMaster(k, p)
    <2> DEFINE client == [clients[k] EXCEPT !.state = 1]
    <2>1. /\ client.fd = clients[k].fd /\ client.version = clients[k].version
          /\ client.nickname = clients[k].nickname /\ client.state # 2
      BY <1>2 DEF ClientRecord
    <2>2. Update(k, client, <<>>)
      BY <1>5 DEF VisitHelloMaster
    <2> HIDE DEF client
    <2> QED BY <1>1, <1>3, <2>1, <2>2, UpdateTalk
  <1>6. CASE VisitHello(k, p)
    <2>1. PICK sel \in Protocols :
            LET client == [clients[k] EXCEPT !.version = sel, !.state = 2] IN
            Update(k, Renamed(client, Anon), <<SetProto(sel)>> \o RenameReply(client, Anon))
      BY <1>6 DEF VisitHello
    <2> DEFINE client == [clients[k] EXCEPT !.version = sel, !.state = 2]
               named  == Renamed(client, Anon)
               reply  == <<SetProto(sel)>> \o <<NicknameUpdated(Anon)>>
    <2>2. client.version = 1 /\ client.fd = clients[k].fd /\ sel = 1
      BY <1>2, <2>1 DEF Protocols, ClientRecord
    <2>3. named.fd = clients[k].fd /\ named.nickname = Anon
      BY <1>2, <2>2 DEF Renamed, ClientRecord
    <2>4. Update(k, named, reply)
      BY <1>4, <2>1, <2>2 DEF Names
    <2>5. /\ reply \in Seq(Packets) /\ NoMessages(reply)
          /\ Len(reply) = 2 /\ reply[2] = NicknameUpdated(Anon)
      <3>1. SetProto(sel) \in Packets /\ SetProto(sel).op = "SET_PROTO"
            /\ NicknameUpdated(Anon) \in Packets /\ NicknameUpdated(Anon).op = "NICKNAME_UPDATED"
        BY <2>2, PacketTypes, OpOf, VersionsAssumption DEF Names
      <3>2. <<SetProto(sel)>> \in Seq(Packets) /\ <<NicknameUpdated(Anon)>> \in Seq(Packets)
        BY <3>1, ShortSeqs
      <3>3. /\ reply \in Seq(Packets) /\ Len(reply) = 2
            /\ reply[1] = SetProto(sel) /\ reply[2] = NicknameUpdated(Anon)
        BY <3>2, ConcatProperties
      <3> QED BY <3>1, <3>3 DEF NoMessages
    <2> HIDE DEF named, reply
    <2>6. Len(reply) \in Nat \ {0} /\ reply[Len(reply)] = NicknameUpdated(named.nickname)
      BY <2>3, <2>5
    <2> QED BY <1>1, <2>3, <2>4, <2>5, <2>6, UpdateTalk
  <1>7. CASE VisitHelloUnsupported(k, p)
    BY <1>2, <1>7, DisconnectClientTalk DEF VisitHelloUnsupported
  <1>8. CASE VisitSetProto(k, p)
    <2> DEFINE client == [clients[k] EXCEPT !.version = p.protocol, !.state = 2]
               named  == Renamed(client, Anon)
               reply  == RenameReply(client, Anon)
    <2>1. Update(k, named, reply)
      BY <1>8 DEF VisitSetProto
    <2>2. named.fd = clients[k].fd /\ named.nickname = Anon /\ named.version = client.version
      BY <1>2 DEF Renamed, ClientRecord
    <2>3. reply = IF client.version = 1 THEN <<NicknameUpdated(Anon)>> ELSE <<>>
      BY <1>4 DEF Names
    <2> HIDE DEF client, named, reply
    <2>4. reply \in Seq(Packets) /\ NoMessages(reply)
      BY <1>3, <2>3 DEF Names
    <2>5. named.version # 1 \/ ( /\ Len(reply) \in Nat \ {0}
                                 /\ reply[Len(reply)] = NicknameUpdated(named.nickname))
      BY <1>3, <2>2, <2>3 DEF Names
    <2> QED BY <1>1, <2>1, <2>2, <2>4, <2>5, UpdateTalk
  <1>9. CASE VisitSetNickname(k, p)
    <2> DEFINE n == p.nickname
               named == Renamed(clients[k], n)
               reply == <<NicknameUpdated(n)>>
    <2>1. n \in Names
      BY <1>2, <1>9, PacketFields DEF VisitSetNickname
    <2>2. Update(k, named, reply)
      BY <1>2, <1>4, <1>9, <2>1 DEF VisitSetNickname
    <2>3. named.fd = clients[k].fd /\ named.nickname = n
      BY <1>2 DEF Renamed, ClientRecord
    <2>4. /\ reply \in Seq(Packets) /\ NoMessages(reply)
          /\ Len(reply) \in Nat \ {0} /\ reply[Len(reply)] = NicknameUpdated(n)
      BY <1>3, <2>1
    <2> HIDE DEF n, named, reply
    <2> QED BY <1>1, <2>2, <2>3, <2>4, UpdateTalk
  <1>10. CASE VisitSendMessage(k, p)
    <2> DEFINE message == RecvMessage(p.message, clients[k].nickname)
    <2>1. message \in Packets /\ message.op = "RECV_MESSAGE"
      BY <1>2, <1>10, PacketFields, PacketTypes, OpOf DEF VisitSendMessage, ClientRecord
    <2>2. /\ s2c' = [c \in Conns |-> s2c[c] \o Broadcast(c, clients, message)]
          /\ UNCHANGED <<fdtab, clients>>
      BY <1>10 DEF VisitSendMessage
    <2> HIDE DEF message
    <2>3. ASSUME NEW c \in Conns
          PROVE  \E t \in Seq(Packets) :
                    /\ s2c'[c] = s2c[c] \o t
                    /\ Named(t) = {}
                    /\ NoMessages(t) \/ Named(s2c[c]) # {}
                    /\ t = <<>> \/ ~Fresh(c)
      <3>1. s2c'[c] = s2c[c] \o Broadcast(c, clients, message)
        BY <2>2
      <3>2. /\ Broadcast(c, clients, message) \in Seq(Packets)
            /\ Named(Broadcast(c, clients, message)) = {}
            /\ \/ Broadcast(c, clients, message) = <<>>
               \/ ~Fresh(c) /\ Named(s2c[c]) # {}
        BY <2>1, BroadcastTalk
      <3> QED BY <3>1, <3>2, ShortTalk
    <2>4. (Running' => Running) /\ \A c \in Conns : Fresh(c)' => Fresh(c)
      BY <1>2 DEF Running, Fresh
    <2>5. \A i \in DOMAIN clients' : \E j \in DOMAIN clients :
            /\ clients'[i].fd = clients[j].fd
            /\ clients'[i].version = clients[j].version
            /\ clients'[i].nickname = clients[j].nickname
            /\ clients'[i].state = 2 => clients[j].state = 2
            /\ \/ fdtab'[clients[j].fd] = fdtab[clients[j].fd]
               \/ fdtab'[clients[j].fd] = NoConn /\ ~Running'
      BY <2>2
    <2> QED BY <2>3, <2>4, <2>5, NamelessStep
  <1>11. CASE VisitDisconnect(k, p)
    BY <1>2, <1>11, DisconnectClientTalk DEF VisitDisconnect
  <1>12. CASE VisitIgnored(k, p)
    BY <1>1, <1>3, <1>12, UpdateTalk DEF VisitIgnored
  <1> QED BY <1>5, <1>6, <1>7, <1>8, <1>9, <1>10, <1>11, <1>12

LEMMA TalkNext == ServerInv /\ TalkInv /\ [Next]_vars => TalkInv'
  <1> SUFFICES ASSUME ServerInv, TalkInv, [Next]_vars PROVE TalkInv'
    OBVIOUS
  <1>1. CASE \/ Poll \/ VisitQuiet \/ VisitNoClient \/ NothingToAccept
             \/ Sigint \/ ShutdownOver \/ UNCHANGED vars
    <2>1. UNCHANGED <<peer, backlog, s2c, clients>>
      BY <1>1 DEF Poll, VisitQuiet, VisitNoClient, NothingToAccept, Sigint, ShutdownOver,
                  Visit, vars, sockets, serverVars
    <2>2. \A fd \in Fds : fdtab'[fd] = fdtab[fd] \/ (fdtab'[fd] = NoConn /\ ~Running')
      BY <1>1 DEF Poll, VisitQuiet, VisitNoClient, NothingToAccept, Sigint, ShutdownOver,
                  vars, serverVars, Running
    <2>3. (Running' => Running) /\ \A c \in Conns : Fresh(c)' => Fresh(c)
      BY <1>1, <2>1 DEF Fresh, Running, Poll, VisitQuiet, VisitNoClient, NothingToAccept,
                        ScanOver, Sigint, ShutdownOver, Visit, vars, serverVars
    <2> QED BY <2>1, <2>2, <2>3, SilentStep
  <1>2. CASE PeerStep
    <2>1. UNCHANGED <<phase, fdtab, clients, s2c>>
      BY <1>2 DEF PeerStep, serverVars, Connect, PeerSend, PeerClose, PeerReset
    <2>2. ASSUME NEW c \in Conns, Fresh(c)' PROVE Fresh(c)
      <3>1. CASE UNCHANGED backlog
        BY <1>2, <2>2, <3>1 DEF Fresh, PeerStep, Connect, PeerSend, PeerClose, PeerReset,
                                ServerInv, TypeOK, SocketsTypeOK
      <3>2. ASSUME NEW d \in Conns, Connect(d) PROVE Fresh(c)
        <4>1. /\ backlog \in Seq(Conns) /\ backlog' = Append(backlog, d)
              /\ peer[d] = "unused" /\ peer' = [peer EXCEPT ![d] = "open"]
              /\ peer \in [Conns -> {"unused", "open", "fin", "reset"}]
          BY <3>2 DEF Connect, ServerInv, TypeOK, SocketsTypeOK
        <4>2. /\ backlog' \in Seq(Conns) /\ Len(backlog') = Len(backlog) + 1
              /\ backlog'[Len(backlog) + 1] = d
              /\ \A i \in 1 .. Len(backlog) : backlog'[i] = backlog[i]
          BY <4>1, AppendProperties
        <4>3. /\ DOMAIN backlog = 1 .. Len(backlog) /\ DOMAIN backlog' = 1 .. Len(backlog')
              /\ Len(backlog) \in Nat
          BY <4>1, <4>2, LenProperties
        <4>4. \A i \in DOMAIN backlog' : backlog'[i] = d
                    \/ \E j \in DOMAIN backlog : backlog[j] = backlog'[i]
          BY <4>2, <4>3
        <4> QED BY <2>2, <4>1, <4>4 DEF Fresh
      <3> QED BY <1>2, <3>1, <3>2 DEF PeerStep, PeerSend, PeerClose, PeerReset
    <2> QED BY <2>1, <2>2, SilentStep DEF Running
  <1>3. CASE VisitLost
    BY <1>3, LostDescriptor, DisconnectSocketTalk DEF VisitLost, Visit
  <1>4. CASE VisitMalformed
    <2>1. PICK k \in ClientIds(Here) : DisconnectClient(k, TRUE, FALSE)
      BY <1>4 DEF VisitMalformed
    <2>2. k \in 1 .. client_count /\ UNCHANGED <<phase, peer, backlog>>
      BY <1>4 DEF ClientIds, VisitMalformed, Visit
    <2> QED BY <2>1, <2>2, DisconnectClientTalk
  <1>5. CASE HandlePacket
    BY <1>5, HandlePacketTalk
  <1>6. CASE Accept
    BY <1>6, AcceptTalk
  <1>7. CASE ShutdownClient
    BY <1>7, TurnHasClient, DisconnectSocketTalk DEF ShutdownClient
  <1> QED BY <1>1, <1>2, <1>3, <1>4, <1>5, <1>6, <1>7 DEF Next, ServerStep

-----------------------------------------------------------------------------
(* The theorems.                                                           *)

LEMMA TalkInit == Init => TalkInv
  <1> SUFFICES ASSUME Init PROVE TalkInv
    OBVIOUS
  <1>1. \A c \in Conns : s2c[c] = <<>>
    BY DEF Init, SocketsInit
  <1>2. clients = <<>> /\ DOMAIN clients = {}
    BY DEF Init, ServerInit
  <1> QED BY <1>1, <1>2, ShortTalk DEF TalkInv, FreshIsSilent, ReadyIsNamed, Confirmed

LEMMA TalkInvariance == Spec => []TalkInv
  BY TalkInit, TalkNext, Invariance, PTL DEF Spec

LEMMA ReadyFollows == TalkInv => NoMessageBeforeReady
  <1> SUFFICES ASSUME TalkInv PROVE NoMessageBeforeReady
    OBVIOUS
  <1> SUFFICES ASSUME NEW c \in Conns, NEW i \in 1 .. Len(s2c[c]),
                      s2c[c][i].op = "RECV_MESSAGE"
               PROVE  \E j \in 1 .. i - 1 : s2c[c][j].op = "NICKNAME_UPDATED"
    BY DEF NoMessageBeforeReady
  <1>1. PICK j \in Named(s2c[c]) : j <= i - 1
    BY DEF TalkInv, MessagesAfterName
  <1> QED BY <1>1 DEF Named

LEMMA NicknameFollows == ServerInv /\ TalkInv => NicknameConfirmed
  <1> SUFFICES ASSUME ServerInv, TalkInv PROVE NicknameConfirmed
    OBVIOUS
  <1> SUFFICES ASSUME Running, NEW k \in DOMAIN clients, clients[k].version = 1
               PROVE  LET out   == s2c[fdtab[clients[k].fd]]
                          named == {i \in DOMAIN out : out[i].op = "NICKNAME_UPDATED"}
                      IN
                      IF named = {} THEN clients[k].nickname = Anon
                      ELSE \E i \in named : /\ \A j \in named : j <= i
                                            /\ clients[k].nickname = out[i].nickname
    BY DEF NicknameConfirmed
  <1> DEFINE out == s2c[fdtab[clients[k].fd]]
  <1>1. KnownAs(out, clients[k].nickname)
    BY DEF TalkInv, Confirmed
  <1>2. out \in Seq(Packets)
    <2>1. clients[k].fd \in Fds /\ fdtab[clients[k].fd] # NoConn
      BY ClientsTyped DEF ServerInv, DescriptorsMatchClients, ClientTypes
    <2> QED BY <2>1 DEF ServerInv, TypeOK, ServerTypeOK, SocketsTypeOK
  <1>3. DOMAIN out = 1 .. Len(out)
    BY <1>2, LenProperties
  <1> QED BY <1>1, <1>3 DEF KnownAs, Named

\* server.cc:102 and its callers: no client is sent a message before it was
\* given a nickname, whatever the others do meanwhile.
THEOREM ReadyCorrect == Spec => []NoMessageBeforeReady
  BY ReadyFollows, TalkInvariance, PTL

\* The nickname the server signs a client's messages with is the last one it
\* confirmed to that client, for any interleaving with other clients.
THEOREM NicknameCorrect == Spec => []NicknameConfirmed
  BY NicknameFollows, Invariance, TalkInvariance, PTL

-----------------------------------------------------------------------------
(* The room: who is in it.                                                 *)

\* Clients have descriptors of their own, and these connections of their own.
Distinct(cls, tab) ==
    /\ cls \in Seq(ClientRecord)
    /\ tab \in [Fds -> Conns \cup {NoConn}]
    /\ \A j, k \in DOMAIN cls : cls[j].fd = cls[k].fd => j = k
    /\ \A f, g \in Fds : tab[f] = tab[g] /\ tab[f] # NoConn => f = g

\* The roster is what it is meant to be: a nickname for each client inside.
LEMMA RosterFacts ==
    ASSUME NEW cls, NEW tab, Distinct(cls, tab)
    PROVE  LET r == Roster(cls, tab) IN
           /\ \A k \in DOMAIN cls : cls[k] \in ClientRecord /\ cls[k].fd \in Fds
           /\ r = [c \in DOMAIN r |-> r[c]]
           /\ \A c : c \in DOMAIN r <=>
                c # NoConn /\ \E k \in Inside(cls) : tab[cls[k].fd] = c
           /\ \A k \in Inside(cls) :
                tab[cls[k].fd] # NoConn => r[tab[cls[k].fd]] = cls[k].nickname
           /\ DOMAIN r \subseteq Conns
  <1> DEFINE r == Roster(cls, tab)
             The(c) == CHOOSE k \in Inside(cls) : tab[cls[k].fd] = c
  <1>1. \A k \in DOMAIN cls : cls[k] \in ClientRecord /\ cls[k].fd \in Fds
    <2>1. \A k \in DOMAIN cls : cls[k] \in ClientRecord
      BY LenProperties, ElementOfSeq DEF Distinct
    <2> QED BY <2>1 DEF ClientRecord
  <1>2. r = [c \in {tab[cls[k].fd] : k \in Inside(cls)} \ {NoConn} |-> cls[The(c)].nickname]
    BY DEF Roster
  <1>3. \A c : c \in DOMAIN r <=> c # NoConn /\ \E k \in Inside(cls) : tab[cls[k].fd] = c
    <2> HIDE DEF The, r
    <2> QED BY <1>2
  <1>4. r = [c \in DOMAIN r |-> r[c]]
    <2> HIDE DEF The, r
    <2> QED BY <1>2
  <1>5. ASSUME NEW k \in Inside(cls), tab[cls[k].fd] # NoConn
        PROVE  r[tab[cls[k].fd]] = cls[k].nickname
    <2> DEFINE c == tab[cls[k].fd]
    <2>1. The(c) \in Inside(cls) /\ tab[cls[The(c)].fd] = c
      OBVIOUS
    <2>2. c \in DOMAIN r
      BY <1>3, <1>5
    <2> HIDE DEF The
    <2>3. k \in DOMAIN cls /\ The(c) \in DOMAIN cls
      BY <2>1 DEF Inside
    <2>4. The(c) = k
      BY <1>1, <1>5, <2>1, <2>3 DEF Distinct
    <2>5. r[c] = cls[The(c)].nickname
      <3> HIDE DEF r, c
      <3> QED BY <1>2, <2>2
    <2> QED BY <2>4, <2>5
  <1>6. DOMAIN r \subseteq Conns
    <2>1. \A k \in Inside(cls) : tab[cls[k].fd] \in Conns \cup {NoConn}
      BY <1>1 DEF Inside, Distinct
    <2> HIDE DEF r
    <2> QED BY <1>3, <2>1
  <1> QED BY <1>1, <1>3, <1>4, <1>5, <1>6

\* And nothing else is.
LEMMA RosterIs ==
    ASSUME NEW cls, NEW tab, Distinct(cls, tab), NEW r,
           r = [c \in DOMAIN r |-> r[c]],
           \A c : c \in DOMAIN r <=> c # NoConn /\ \E k \in Inside(cls) : tab[cls[k].fd] = c,
           \A k \in Inside(cls) :
                tab[cls[k].fd] # NoConn => r[tab[cls[k].fd]] = cls[k].nickname
    PROVE  Roster(cls, tab) = r
  <1> DEFINE q == Roster(cls, tab)
  <1>1. /\ q = [c \in DOMAIN q |-> q[c]]
        /\ \A c : c \in DOMAIN q <=> c # NoConn /\ \E k \in Inside(cls) : tab[cls[k].fd] = c
        /\ \A k \in Inside(cls) :
                tab[cls[k].fd] # NoConn => q[tab[cls[k].fd]] = cls[k].nickname
    BY RosterFacts
  <1> HIDE DEF q
  <1>2. DOMAIN q = DOMAIN r
    BY <1>1
  <1>3. \A c \in DOMAIN r : q[c] = r[c]
    BY <1>1
  <1> QED BY <1>1, <1>2, <1>3 DEF q

Without(r, c) == [d \in DOMAIN r \ {c} |-> r[d]]

\* A client that is taken out leaves the room, its connection closed or not.
LEMMA RosterWithout ==
    ASSUME NEW cls, NEW tab, Distinct(cls, tab), NEW k \in DOMAIN cls,
           NEW rest, NEW closed,
           \A i \in DOMAIN rest : \E j \in DOMAIN cls : j # k /\ rest[i] = cls[j],
           \A j \in DOMAIN cls : j # k => \E i \in DOMAIN rest : rest[i] = cls[j],
           \A fd \in Fds : fd # cls[k].fd => closed[fd] = tab[fd],
           Distinct(rest, closed)
    PROVE  Roster(rest, closed) = Without(Roster(cls, tab), tab[cls[k].fd])
  <1> DEFINE r == Roster(cls, tab)
             out == tab[cls[k].fd]
             q == [c \in DOMAIN r \ {out} |-> r[c]]
  <1>1. /\ \A j \in DOMAIN cls : cls[j] \in ClientRecord /\ cls[j].fd \in Fds
        /\ \A c : c \in DOMAIN r <=> c # NoConn /\ \E j \in Inside(cls) : tab[cls[j].fd] = c
        /\ \A j \in Inside(cls) :
                tab[cls[j].fd] # NoConn => r[tab[cls[j].fd]] = cls[j].nickname
    BY RosterFacts
  <1> HIDE DEF r
  <1>2. \A j \in DOMAIN cls : j # k => closed[cls[j].fd] = tab[cls[j].fd]
    BY <1>1 DEF Distinct
  <1>3. \A j \in DOMAIN cls : j # k /\ tab[cls[j].fd] # NoConn => tab[cls[j].fd] # out
    BY <1>1 DEF Distinct
  <1>4. \A i \in Inside(rest) : \E j \in Inside(cls) : j # k /\ rest[i] = cls[j]
    BY DEF Inside
  <1>5. \A j \in Inside(cls) : j # k => \E i \in Inside(rest) : rest[i] = cls[j]
    BY DEF Inside
  <1>6. \A j \in Inside(cls) : j \in DOMAIN cls
    BY DEF Inside
  <1>7. ASSUME NEW c
        PROVE  c \in DOMAIN r \ {out} <=>
                    c # NoConn /\ \E i \in Inside(rest) : closed[rest[i].fd] = c
    <2>1. ASSUME c \in DOMAIN r \ {out}
          PROVE  c # NoConn /\ \E i \in Inside(rest) : closed[rest[i].fd] = c
      <3>1. PICK j \in Inside(cls) : c # NoConn /\ tab[cls[j].fd] = c
        BY <1>1, <2>1
      <3>2. j # k
        BY <2>1, <3>1
      <3>3. PICK i \in Inside(rest) : rest[i] = cls[j]
        BY <1>5, <3>2
      <3>4. closed[rest[i].fd] = c
        BY <1>2, <1>6, <3>1, <3>2, <3>3
      <3> QED BY <3>1, <3>4
    <2>2. ASSUME c # NoConn, NEW i \in Inside(rest), closed[rest[i].fd] = c
          PROVE  c \in DOMAIN r \ {out}
      <3>1. PICK j \in Inside(cls) : j # k /\ rest[i] = cls[j]
        BY <1>4
      <3>2. tab[cls[j].fd] = c
        BY <1>2, <1>6, <2>2, <3>1
      <3>3. c # out
        BY <1>3, <1>6, <2>2, <3>1, <3>2
      <3>4. c \in DOMAIN r
        BY <1>1, <2>2, <3>2
      <3> QED BY <3>3, <3>4
    <2> QED BY <2>1, <2>2
  <1>8. ASSUME NEW i \in Inside(rest), closed[rest[i].fd] # NoConn
        PROVE  q[closed[rest[i].fd]] = rest[i].nickname
    <2>1. PICK j \in Inside(cls) : j # k /\ rest[i] = cls[j]
      BY <1>4
    <2>2. closed[rest[i].fd] = tab[cls[j].fd]
      BY <1>2, <1>6, <2>1
    <2>3. tab[cls[j].fd] \in DOMAIN r \ {out}
      BY <1>7, <1>8, <2>2
    <2> QED BY <1>1, <1>8, <2>1, <2>2, <2>3
  <1>9. DOMAIN q = DOMAIN r \ {out} /\ q = [c \in DOMAIN q |-> q[c]]
    OBVIOUS
  <1> HIDE DEF q, out
  <1>10. Roster(rest, closed) = q
    BY <1>7, <1>8, <1>9, RosterIs
  <1> QED BY <1>10 DEF q, out, r, Without

\* A client whose record changes comes in, stays under another nickname, or leaves.
LEMMA RosterUpdated ==
    ASSUME NEW cls, NEW tab, Distinct(cls, tab), NEW k \in DOMAIN cls, tab[cls[k].fd] # NoConn,
           NEW client, client.fd = cls[k].fd, Distinct([cls EXCEPT ![k] = client], tab)
    PROVE  LET r   == Roster(cls, tab)
               new == Roster([cls EXCEPT ![k] = client], tab)
               c   == tab[cls[k].fd]
           IN
           /\ client.state = 2 /\ client.version = 1 =>
                new = [d \in DOMAIN r \cup {c} |-> IF d = c THEN client.nickname ELSE r[d]]
           /\ ~(client.state = 2 /\ client.version = 1) => new = [d \in DOMAIN r \ {c} |-> r[d]]
  <1> DEFINE r    == Roster(cls, tab)
             c    == tab[cls[k].fd]
             news == [cls EXCEPT ![k] = client]
             is   == client.state = 2 /\ client.version = 1
             q    == [d \in (IF is THEN DOMAIN r \cup {c} ELSE DOMAIN r \ {c}) |->
                        IF d = c THEN client.nickname ELSE r[d]]
  <1>1. /\ \A j \in DOMAIN cls : cls[j].fd \in Fds
        /\ \A d : d \in DOMAIN r <=> d # NoConn /\ \E j \in Inside(cls) : tab[cls[j].fd] = d
        /\ \A j \in Inside(cls) :
                tab[cls[j].fd] # NoConn => r[tab[cls[j].fd]] = cls[j].nickname
    BY RosterFacts
  <1> HIDE DEF r
  <1>2. /\ DOMAIN news = DOMAIN cls /\ news[k] = client
        /\ \A j \in DOMAIN cls : j # k => news[j] = cls[j]
    OBVIOUS
  <1>3. \A j \in DOMAIN cls : tab[news[j].fd] = tab[cls[j].fd]
    BY <1>2
  <1>4. \A j \in DOMAIN cls : tab[cls[j].fd] = c => j = k
    BY <1>1 DEF Distinct
  <1> HIDE DEF c, news, is
  <1>5. /\ k \in Inside(news) <=> is
        /\ \A j \in DOMAIN cls : j # k => (j \in Inside(news) <=> j \in Inside(cls))
        /\ \A j : j \in Inside(cls) \/ j \in Inside(news) => j \in DOMAIN cls
    BY <1>2 DEF Inside, is
  <1>6. c # NoConn /\ tab[cls[k].fd] = c
    BY DEF c
  <1>7. ASSUME NEW d
        PROVE  d \in DOMAIN q <=> d # NoConn /\ \E j \in Inside(news) : tab[news[j].fd] = d
    <2>1. DOMAIN q = IF is THEN DOMAIN r \cup {c} ELSE DOMAIN r \ {c}
      OBVIOUS
    <2> HIDE DEF q
    <2>2. CASE d = c
      <3>1. d \in DOMAIN q <=> is
        BY <2>1, <2>2
      <3>2. (\E j \in Inside(news) : tab[news[j].fd] = d) <=> is
        BY <1>3, <1>4, <1>5, <1>6, <2>2
      <3> QED BY <1>6, <2>2, <3>1, <3>2
    <2>3. CASE d # c
      <3>1. d \in DOMAIN q <=> d \in DOMAIN r
        BY <2>1, <2>3
      <3>2. ASSUME NEW j \in Inside(news), tab[news[j].fd] = d
            PROVE  j \in Inside(cls) /\ tab[cls[j].fd] = d
        BY <1>3, <1>5, <1>6, <2>3, <3>2
      <3>3. ASSUME NEW j \in Inside(cls), tab[cls[j].fd] = d
            PROVE  j \in Inside(news) /\ tab[news[j].fd] = d
        BY <1>3, <1>5, <1>6, <2>3, <3>3
      <3> QED BY <1>1, <3>1, <3>2, <3>3
    <2> QED BY <2>2, <2>3
  <1>8. ASSUME NEW j \in Inside(news), tab[news[j].fd] # NoConn
        PROVE  q[tab[news[j].fd]] = news[j].nickname
    <2>1. tab[news[j].fd] \in DOMAIN q /\ j \in DOMAIN cls /\ tab[news[j].fd] = tab[cls[j].fd]
      BY <1>3, <1>5, <1>7, <1>8
    <2>2. CASE j = k
      BY <1>2, <1>6, <2>1, <2>2
    <2>3. CASE j # k
      <3>1. tab[cls[j].fd] # c
        BY <1>4, <2>1, <2>3
      <3>2. q[tab[cls[j].fd]] = r[tab[cls[j].fd]]
        BY <2>1, <3>1
      <3>3. r[tab[cls[j].fd]] = cls[j].nickname
        BY <1>1, <1>5, <1>8, <2>1, <2>3
      <3> QED BY <1>2, <2>1, <2>3, <3>2, <3>3
    <2> QED BY <2>2, <2>3
  <1>9. q = [d \in DOMAIN q |-> q[d]]
    OBVIOUS
  <1>10. Distinct(news, tab)
    BY DEF news
  <1>11. Roster(news, tab) = q
    <2> HIDE DEF q
    <2> QED BY <1>7, <1>8, <1>9, <1>10, RosterIs
  <1>12. ~is => q = [d \in DOMAIN r \ {c} |-> r[d]]
    OBVIOUS
  <1>13. is => q = [d \in DOMAIN r \cup {c} |-> IF d = c THEN client.nickname ELSE r[d]]
    OBVIOUS
  <1> HIDE DEF q
  <1> QED BY <1>11, <1>12, <1>13 DEF is, news, c, r

\* A new client is not in the room yet.
LEMMA RosterAppended ==
    ASSUME NEW cls, NEW tab, Distinct(cls, tab), NEW client \in ClientRecord, client.state # 2,
           NEW opened, \A fd \in Fds : fd # client.fd => opened[fd] = tab[fd],
           Distinct(Append(cls, client), opened)
    PROVE  Roster(Append(cls, client), opened) = Roster(cls, tab)
  <1> DEFINE r    == Roster(cls, tab)
             news == Append(cls, client)
  <1>1. /\ \A j \in DOMAIN cls : cls[j].fd \in Fds
        /\ r = [c \in DOMAIN r |-> r[c]]
        /\ \A d : d \in DOMAIN r <=> d # NoConn /\ \E j \in Inside(cls) : tab[cls[j].fd] = d
        /\ \A j \in Inside(cls) :
                tab[cls[j].fd] # NoConn => r[tab[cls[j].fd]] = cls[j].nickname
    BY RosterFacts
  <1> HIDE DEF r
  <1> DEFINE n == Len(cls) + 1
  <1>2. /\ n \in DOMAIN news /\ n \notin DOMAIN cls /\ news[n] = client
        /\ \A j \in DOMAIN news : j = n \/ j \in DOMAIN cls
        /\ \A j \in DOMAIN cls : j \in DOMAIN news /\ news[j] = cls[j]
    <2>1. /\ cls \in Seq(ClientRecord) /\ Len(cls) \in Nat /\ DOMAIN cls = 1 .. Len(cls)
      BY LenProperties DEF Distinct
    <2>2. /\ news \in Seq(ClientRecord) /\ Len(news) = n /\ news[n] = client
          /\ \A j \in 1 .. Len(cls) : news[j] = cls[j]
      BY <2>1, AppendProperties
    <2>3. DOMAIN news = 1 .. n
      BY <2>2, LenProperties
    <2> HIDE DEF news
    <2> QED BY <2>1, <2>2, <2>3
  <1> HIDE DEF n, news
  <1>3. \A j : j \in Inside(news) <=> j \in Inside(cls)
    BY <1>2 DEF Inside
  <1>4. \A j \in Inside(cls) : news[j] = cls[j] /\ j \in DOMAIN cls /\ j # n
    BY <1>2 DEF Inside
  <1>5. \A j \in Inside(cls) : cls[j].fd # client.fd
    BY <1>2, <1>4 DEF Distinct, news
  <1>6. \A j \in Inside(cls) : opened[news[j].fd] = tab[cls[j].fd]
    BY <1>1, <1>4, <1>5
  <1>7. \A d : d \in DOMAIN r <=> d # NoConn /\ \E j \in Inside(news) : opened[news[j].fd] = d
    BY <1>1, <1>3, <1>6
  <1>8. \A j \in Inside(news) :
            opened[news[j].fd] # NoConn => r[opened[news[j].fd]] = news[j].nickname
    BY <1>1, <1>3, <1>4, <1>6
  <1>9. Distinct(news, opened)
    BY DEF news
  <1>10. Roster(news, opened) = r
    BY <1>1, <1>7, <1>8, <1>9, RosterIs
  <1> QED BY <1>10 DEF r, news

\* Without open connections there is nobody in the room.
LEMMA RosterClosed ==
    ASSUME NEW cls, NEW tab, Distinct(cls, tab), \A fd \in Fds : tab[fd] = NoConn
    PROVE  Roster(cls, tab) = [c \in {} |-> Anon]
  <1> DEFINE r == Roster(cls, tab)
  <1>1. /\ \A j \in DOMAIN cls : cls[j].fd \in Fds
        /\ r = [c \in DOMAIN r |-> r[c]]
        /\ \A d : d \in DOMAIN r <=> d # NoConn /\ \E j \in Inside(cls) : tab[cls[j].fd] = d
    BY RosterFacts
  <1> HIDE DEF r
  <1>2. \A d : d \notin DOMAIN r
    BY <1>1 DEF Inside
  <1>3. DOMAIN r = {}
    BY <1>2
  <1> QED BY <1>1, <1>3 DEF r

-----------------------------------------------------------------------------
(* The room: what was said.                                                *)

\* A line of the room.
LineOf(p) == [message |-> p.message, author |-> p.author]

\* The lines of a longer list.
LEMMA LinesAppend ==
    ASSUME NEW t \in Seq(Packets), NEW p \in Packets
    PROVE  [i \in DOMAIN Append(t, p) |-> LineOf(Append(t, p)[i])]
              = Append([i \in DOMAIN t |-> LineOf(t[i])], LineOf(p))
  <1> DEFINE u == Append(t, p)
             h == [i \in DOMAIN t |-> LineOf(t[i])]
             g == [i \in DOMAIN u |-> LineOf(u[i])]
  <1>1. /\ Len(t) \in Nat /\ DOMAIN t = 1 .. Len(t)
        /\ u \in Seq(Packets) /\ Len(u) = Len(t) + 1 /\ DOMAIN u = 1 .. Len(t) + 1
        /\ u[Len(t) + 1] = p /\ \A i \in 1 .. Len(t) : u[i] = t[i]
    BY AppendProperties, LenProperties
  <1> DEFINE n == Len(t)
             R == {LineOf(x) : x \in Packets}
  <1>2. \A i \in 1 .. n : t[i] \in Packets
    BY <1>1, ElementOfSeq
  <1>3. h \in [1 .. n -> R]
    BY <1>1, <1>2
  <1>4. h \in Seq(R) /\ Len(h) = n /\ LineOf(p) \in R
    <2> HIDE DEF h, R, n
    <2>1. h \in Seq(R)
      BY <1>1, <1>3, SeqDef DEF n
    <2>2. Len(h) = n
      BY <1>1, <1>3, <2>1, LenProperties DEF n
    <2> QED BY <2>1, <2>2 DEF R
  <1>5. /\ Append(h, LineOf(p)) \in Seq(R) /\ Len(Append(h, LineOf(p))) = n + 1
        /\ Append(h, LineOf(p))[n + 1] = LineOf(p)
        /\ \A i \in 1 .. n : Append(h, LineOf(p))[i] = h[i]
    <2> HIDE DEF h, R, n
    <2> QED BY <1>4, AppendProperties
  <1>6. Append(h, LineOf(p)) \in [1 .. n + 1 -> R]
    <2> HIDE DEF h, R
    <2> QED BY <1>5, LenProperties
  <1>7. \A i \in 1 .. n + 1 : i \in 1 .. n \/ i = n + 1
    BY <1>1
  <1>8. \A i \in 1 .. n : h[i] = LineOf(t[i])
    BY <1>1
  <1>9. g = [i \in 1 .. n + 1 |-> LineOf(u[i])]
    BY <1>1
  <1> HIDE DEF h, g, u, R, LineOf
  <1>10. \A i \in 1 .. n + 1 : Append(h, LineOf(p))[i] = LineOf(u[i])
    BY <1>1, <1>5, <1>7, <1>8
  <1>11. Append(h, LineOf(p)) = g
    BY <1>6, <1>9, <1>10
  <1>12. g = [i \in DOMAIN Append(t, p) |-> LineOf(Append(t, p)[i])]
    BY DEF g, u
  <1>13. h = [i \in DOMAIN t |-> LineOf(t[i])]
    BY DEF h
  <1> QED BY <1>11, <1>12, <1>13

\* One packet more is one line more, if it is a message.
LEMMA HeardAppend ==
    ASSUME NEW s \in Seq(Packets), NEW p \in Packets
    PROVE  /\ p.op = "RECV_MESSAGE" => Heard(Append(s, p)) = Append(Heard(s), LineOf(p))
           /\ p.op # "RECV_MESSAGE" => Heard(Append(s, p)) = Heard(s)
  <1> DEFINE t == Among(s, Messages)
  <1>1. t \in Seq(Packets)
    BY AmongType
  <1>2. Among(Append(s, p), Messages) = IF p \in Messages THEN Append(t, p) ELSE t
    <2> HIDE DEF Packets, Messages
    <2> QED BY AmongAppend
  <1>3. p \in Messages <=> p.op = "RECV_MESSAGE"
    BY DEF Messages, Packets
  <1>4. Heard(s) = [i \in DOMAIN t |-> LineOf(t[i])]
    BY DEF Heard, LineOf
  <1>5. Heard(Append(s, p)) = IF p.op = "RECV_MESSAGE"
                              THEN [i \in DOMAIN Append(t, p) |-> LineOf(Append(t, p)[i])]
                              ELSE Heard(s)
    BY <1>2, <1>3, <1>4 DEF Heard, LineOf
  <1>6. [i \in DOMAIN Append(t, p) |-> LineOf(Append(t, p)[i])]
            = Append([i \in DOMAIN t |-> LineOf(t[i])], LineOf(p))
    <2> HIDE DEF t, LineOf
    <2> QED BY <1>1, LinesAppend
  <1> HIDE DEF t
  <1> QED BY <1>4, <1>5, <1>6

\* What a step may write on a connection and say nothing.
Quiet == {<<>>} \cup {<<p>> : p \in {q \in Packets : q.op # "RECV_MESSAGE"}}

LEMMA HeardQuiet ==
    ASSUME NEW s \in Seq(Packets), NEW t \in Quiet
    PROVE  s \o t \in Seq(Packets) /\ Heard(s \o t) = Heard(s)
  <1>1. CASE t = <<>>
    BY <1>1, ConcatEmptySeq
  <1>2. ASSUME NEW p \in Packets, p.op # "RECV_MESSAGE", t = <<p>>
        PROVE  s \o t \in Seq(Packets) /\ Heard(s \o t) = Heard(s)
    <2>1. s \o <<p>> = Append(s, p)
      BY AppendIsConcat
    <2>2. Append(s, p) \in Seq(Packets)
      BY AppendProperties
    <2>3. Heard(Append(s, p)) = Heard(s)
      BY <1>2, HeardAppend
    <2> QED BY <1>2, <2>1, <2>2, <2>3
  <1> QED BY <1>1, <1>2 DEF Quiet

\* And what is a line.
LEMMA HeardMessage ==
    ASSUME NEW s \in Seq(Packets), NEW p \in Packets, p.op = "RECV_MESSAGE"
    PROVE  s \o <<p>> \in Seq(Packets) /\ Heard(s \o <<p>>) = Append(Heard(s), LineOf(p))
  <1>1. s \o <<p>> = Append(s, p)
    BY AppendIsConcat
  <1>2. Append(s, p) \in Seq(Packets)
    BY AppendProperties
  <1>3. Heard(Append(s, p)) = Append(Heard(s), LineOf(p))
    BY HeardAppend
  <1> QED BY <1>1, <1>2, <1>3

-----------------------------------------------------------------------------
(* The room: its steps.                                                    *)

\* The state the room is seen in.
RoomInv == ServerInv /\ OneFdPerConn

Members    == Roster(clients, fdtab)
Transcript == [c \in Conns |-> Heard(s2c[c])]

Silent  == Members' = Members /\ Transcript' = Transcript
\* What every step of the server is, seen from the room.
OneRoom == Room!Next \/ Silent

LEMMA NowDistinct == RoomInv => Distinct(clients, fdtab)
  BY DEF RoomInv, OneFdPerConn, ServerInv, TypeOK, ServerTypeOK, ClientsDistinct, Distinct

LEMMA ThenDistinct == RoomInv' => Distinct(clients', fdtab')
  BY DEF RoomInv, OneFdPerConn, ServerInv, TypeOK, ServerTypeOK, ClientsDistinct, Distinct,
         Fds, Capacity

\* A write that says nothing.
LEMMA TranscriptKept ==
    ASSUME RoomInv,
           \A c \in Conns : \E p, q \in Quiet : s2c'[c] = s2c[c] \o (p \o q)
    PROVE  Transcript' = Transcript
  <1>1. ASSUME NEW c \in Conns
        PROVE  Heard(s2c'[c]) = Heard(s2c[c])
    <2>1. PICK p \in Quiet, q \in Quiet : s2c'[c] = s2c[c] \o (p \o q)
      OBVIOUS
    <2>2. s2c[c] \in Seq(Packets)
      BY DEF RoomInv, ServerInv, TypeOK, SocketsTypeOK
    <2>3. p \in Seq(Packets) /\ q \in Seq(Packets)
      BY ShortSeqs DEF Quiet
    <2>4. s2c[c] \o (p \o q) = (s2c[c] \o p) \o q
      BY <2>2, <2>3, Assoc
    <2>5. s2c[c] \o p \in Seq(Packets) /\ Heard(s2c[c] \o p) = Heard(s2c[c])
      BY <2>2, HeardQuiet
    <2>6. Heard((s2c[c] \o p) \o q) = Heard(s2c[c] \o p)
      BY <2>5, HeardQuiet
    <2> QED BY <2>1, <2>4, <2>5, <2>6
  <1> QED BY <1>1 DEF Transcript

Told(t, room, line) == [c \in Conns |-> IF c \in room THEN Append(t[c], line) ELSE t[c]]

\* The same line for those in the room, and nothing for the others.
LEMMA TranscriptTold ==
    ASSUME RoomInv, NEW room, NEW p \in Packets, p.op = "RECV_MESSAGE",
           \A c \in Conns : \E q \in Quiet :
                s2c'[c] = s2c[c] \o ((IF c \in room THEN <<p>> ELSE <<>>) \o q)
    PROVE  Transcript' = Told(Transcript, room, LineOf(p))
  <1>1. ASSUME NEW c \in Conns
        PROVE  Heard(s2c'[c]) = IF c \in room THEN Append(Heard(s2c[c]), LineOf(p))
                                ELSE Heard(s2c[c])
    <2> DEFINE said == IF c \in room THEN <<p>> ELSE <<>>
    <2>1. PICK q \in Quiet : s2c'[c] = s2c[c] \o (said \o q)
      OBVIOUS
    <2>2. s2c[c] \in Seq(Packets)
      BY DEF RoomInv, ServerInv, TypeOK, SocketsTypeOK
    <2>3. said \in Seq(Packets) /\ q \in Seq(Packets)
      BY ShortSeqs DEF Quiet
    <2>4. /\ s2c[c] \o said \in Seq(Packets)
          /\ Heard(s2c[c] \o said) = IF c \in room THEN Append(Heard(s2c[c]), LineOf(p))
                                     ELSE Heard(s2c[c])
      BY <2>2, HeardMessage, HeardQuiet DEF Quiet
    <2> HIDE DEF said
    <2>5. s2c[c] \o (said \o q) = (s2c[c] \o said) \o q
      BY <2>2, <2>3, Assoc
    <2>6. Heard((s2c[c] \o said) \o q) = Heard(s2c[c] \o said)
      BY <2>4, HeardQuiet
    <2> QED BY <2>1, <2>4, <2>5, <2>6
  <1> QED BY <1>1 DEF Transcript, Told

\* send_all_message reaches the room.
LEMMA BroadcastIs ==
    ASSUME NEW cls, Distinct(cls, fdtab), NEW p, NEW c \in Conns
    PROVE  Broadcast(c, cls, p) = IF c \in DOMAIN Roster(cls, fdtab) THEN <<p>> ELSE <<>>
  <1>1. c \in DOMAIN Roster(cls, fdtab) <=> \E k \in Inside(cls) : fdtab[cls[k].fd] = c
    BY RosterFacts, ConnsAssumption
  <1> QED BY <1>1 DEF Broadcast, Inside

\* Who is in the room, by the place in clients.
LEMMA MemberIs ==
    ASSUME RoomInv, NEW k \in 1 .. client_count
    PROVE  LET c == fdtab[clients[k].fd] IN
           /\ clients[k].fd \in Fds /\ clients[k].nickname \in Names
           /\ c \in DOMAIN Members => c \in Conns /\ c # NoConn /\ k \in Inside(clients)
           /\ k \in Inside(clients) /\ c # NoConn =>
                c \in DOMAIN Members /\ Members[c] = clients[k].nickname
           /\ c \in DOMAIN Members => Members[c] = clients[k].nickname
  <1> DEFINE c == fdtab[clients[k].fd]
  <1>1. Distinct(clients, fdtab)
    BY NowDistinct
  <1>2. /\ \A j \in DOMAIN clients : clients[j] \in ClientRecord /\ clients[j].fd \in Fds
        /\ \A d : d \in DOMAIN Members <=>
                d # NoConn /\ \E j \in Inside(clients) : fdtab[clients[j].fd] = d
        /\ \A j \in Inside(clients) : fdtab[clients[j].fd] # NoConn =>
                Members[fdtab[clients[j].fd]] = clients[j].nickname
        /\ DOMAIN Members \subseteq Conns
    BY <1>1, RosterFacts DEF Members
  <1>3. k \in DOMAIN clients
    BY ClientsTyped DEF RoomInv, ClientTypes
  <1>4. clients[k].fd \in Fds /\ clients[k].nickname \in Names
    BY <1>2, <1>3 DEF ClientRecord
  <1>5. ASSUME c \in DOMAIN Members
        PROVE  c \in Conns /\ c # NoConn /\ k \in Inside(clients)
    <2>1. PICK j \in Inside(clients) : c # NoConn /\ fdtab[clients[j].fd] = c
      BY <1>2, <1>5
    <2>2. j \in DOMAIN clients
      BY DEF Inside
    <2>3. clients[j].fd = clients[k].fd
      BY <1>1, <1>2, <1>4, <2>1, <2>2 DEF Distinct
    <2>4. j = k
      BY <1>1, <1>3, <2>2, <2>3 DEF Distinct
    <2> QED BY <1>2, <1>5, <2>1, <2>4
  <1>6. k \in Inside(clients) /\ c # NoConn =>
            c \in DOMAIN Members /\ Members[c] = clients[k].nickname
    BY <1>2
  <1> QED BY <1>4, <1>5, <1>6

\* Room!Next from its parts.
LEMMA RoomSteps ==
    /\ \A c \in Conns :
        /\ Room!Enter(c) => Room!Next
        /\ \A n \in Names : Room!Rename(c, n) => Room!Next
        /\ \A m \in Msgs : Room!Say(c, m) => Room!Next
        /\ Room!Leave(c) => Room!Next
        /\ Room!CutOff(c) => Room!Next
    /\ \A n \in Names : Room!VisitorCutOff(n) => Room!Next
    /\ Room!Close => Room!Next
  BY DEF Room!Next

\* The array without a client, and the descriptors before the client's is closed.
LEMMA RestDistinct ==
    ASSUME RoomInv, NEW k \in 1 .. client_count
    PROVE  LET rest == RemoveClient(k) IN
           /\ Distinct(rest, fdtab)
           /\ \A i \in DOMAIN rest : \E j \in DOMAIN clients : j # k /\ rest[i] = clients[j]
           /\ \A j \in DOMAIN clients : j # k => \E i \in DOMAIN rest : rest[i] = clients[j]
  <1> DEFINE rest == RemoveClient(k)
             n == client_count
             At(x) == IF x < k THEN x ELSE x + 1
  <1>1. n \in Nat /\ DOMAIN clients = 1 .. n
    BY LenProperties DEF RoomInv, ServerInv, TypeOK, ServerTypeOK, client_count
  <1>2. /\ rest \in Seq(ClientRecord)
        /\ DOMAIN rest = 1 .. n - 1
        /\ \A i \in 1 .. n - 1 : rest[i] = IF i < k THEN clients[i] ELSE clients[i + 1]
    BY RemoveClientFacts DEF RoomInv, ServerInv, TypeOK
  <1> HIDE DEF rest, n
  <1>3. k \in 1 .. n
    BY DEF n
  <1>4. \A i \in DOMAIN rest : At(i) \in DOMAIN clients /\ At(i) # k /\ rest[i] = clients[At(i)]
    BY <1>1, <1>2, <1>3
  <1>5. ASSUME NEW j \in DOMAIN clients, j # k
        PROVE  \E i \in DOMAIN rest : rest[i] = clients[j]
    <2>1. CASE j < k
      BY <1>1, <1>2, <1>3, <2>1
    <2>2. CASE ~(j < k)
      <3>1. j - 1 \in 1 .. n - 1 /\ ~(j - 1 < k) /\ (j - 1) + 1 = j
        BY <1>1, <1>3, <1>5, <2>2
      <3> QED BY <1>2, <3>1
    <2> QED BY <2>1, <2>2
  <1>6. \A x, y \in DOMAIN rest : At(x) = At(y) => x = y
    BY <1>1, <1>2, <1>3
  <1> HIDE DEF At
  <1>7. \A x, y \in DOMAIN rest : rest[x].fd = rest[y].fd => x = y
    BY <1>4, <1>6 DEF RoomInv, ServerInv, ClientsDistinct
  <1>8. Distinct(rest, fdtab)
    BY <1>2, <1>7, NowDistinct DEF Distinct
  <1> QED BY <1>4, <1>5, <1>8 DEF rest

LEMMA QuietAre ==
    /\ <<>> \in Quiet /\ <<Disconnect>> \in Quiet
    /\ \A client : Written(client, <<Disconnect>>) \in Quiet
    /\ <<Hello(FALSE, Protocols)>> \in Quiet
    /\ \A v \in Versions : <<SetProto(v)>> \in Quiet
    /\ \A n \in Names : \A client : RenameReply(client, n) \in Quiet
  BY PacketTypes, OpOf DEF Quiet, Written, RenameReply

LEMMA LinesAre ==
    \A m, n : LineOf(RecvMessage(m, n)) = Room!Line(m, n)
              /\ LineOf(RecvMessage(LeftNotice(n), System)) = Room!Gone(n)
  BY DEF LineOf, RecvMessage, LeftNotice, Room!Line, Room!Gone

\* disconnect_client: announced or not, of a member or not.
LEMMA DisconnectClientRoom ==
    ASSUME RoomInv, RoomInv', NEW k \in 1 .. client_count,
           NEW notify \in BOOLEAN, NEW left \in BOOLEAN, DisconnectClient(k, notify, left)
    PROVE  OneRoom
  <1> DEFINE rest == RemoveClient(k)
             fd   == clients[k].fd
             cc   == fdtab[fd]
             name == clients[k].nickname
             p    == RecvMessage(LeftNotice(name), System)
             stay == DOMAIN Members \ {cc}
             Bye(c) == IF c = cc /\ ~left THEN Written(clients[k], <<Disconnect>>) ELSE <<>>
  <1>1. /\ Distinct(clients, fdtab) /\ Distinct(clients', fdtab') /\ Distinct(rest, fdtab)
        /\ \A i \in DOMAIN rest : \E j \in DOMAIN clients : j # k /\ rest[i] = clients[j]
        /\ \A j \in DOMAIN clients : j # k => \E i \in DOMAIN rest : rest[i] = clients[j]
    BY NowDistinct, ThenDistinct, RestDistinct
  <1>2. /\ k \in DOMAIN clients /\ fd \in Fds /\ name \in Names
        /\ cc \in DOMAIN Members => cc \in Conns /\ Members[cc] = name
    BY MemberIs, ClientsTyped DEF RoomInv, ClientTypes
  <1>3. clients' = rest /\ fdtab' = [fdtab EXCEPT ![fd] = NoConn]
    BY DEF DisconnectClient
  <1>4. \A f \in Fds : f # fd => fdtab'[f] = fdtab[f]
    BY <1>3 DEF Distinct
  <1>5. Members' = [c \in stay |-> Members[c]]
    <2>1. Roster(rest, fdtab') = Without(Roster(clients, fdtab), cc)
      <3> HIDE DEF rest, cc
      <3>1. Distinct(rest, fdtab')
        BY <1>1, <1>3
      <3> QED BY <1>1, <1>2, <1>4, <3>1, RosterWithout DEF cc, fd
    <2> QED BY <1>3, <2>1 DEF Members, Without
  <1>6. DOMAIN Roster(rest, fdtab) = stay
    <2>1. Roster(rest, fdtab) = Without(Roster(clients, fdtab), cc)
      <3> HIDE DEF rest, cc
      <3>1. \A f \in Fds : f # fd => fdtab[f] = fdtab[f]
        OBVIOUS
      <3> QED BY <1>1, <1>2, <3>1, RosterWithout DEF cc, fd
    <2> QED BY <2>1 DEF Members, Without
  <1>7. \A c \in Conns : s2c'[c] = s2c[c] \o ((IF notify THEN Broadcast(c, rest, p) ELSE <<>>) \o Bye(c))
    BY DEF DisconnectClient
  <1>8. p \in Packets /\ p.op = "RECV_MESSAGE"
    BY <1>2, PacketTypes, OpOf
  <1>9. \A c \in Conns : Bye(c) \in Quiet
    BY QuietAre
  <1>10. \A c \in Conns : Broadcast(c, rest, p) = IF c \in stay THEN <<p>> ELSE <<>>
    <2> HIDE DEF rest, stay, p
    <2> QED BY <1>1, <1>6, BroadcastIs
  <1>11. LineOf(p) = Room!Gone(name)
    BY LinesAre
  <1> HIDE DEF rest, fd, cc, name, p, stay, Bye
  <1>12. CASE notify
    <2>1. \A c \in Conns : \E q \in Quiet :
                s2c'[c] = s2c[c] \o ((IF c \in stay THEN <<p>> ELSE <<>>) \o q)
      BY <1>7, <1>9, <1>10, <1>12
    <2>2. Transcript' = Told(Transcript, stay, Room!Gone(name))
      <3>1. Transcript' = Told(Transcript, stay, LineOf(p))
        BY <1>8, <2>1, TranscriptTold
      <3> QED BY <1>11, <3>1
    <2>3. CASE cc \in DOMAIN Members
      <3>1. Room!CutOff(cc)
        BY <1>2, <1>5, <2>2, <2>3 DEF Room!CutOff, Room!Without, Room!Tell, Told, Members, Transcript, stay
      <3> QED BY <1>2, <2>3, <3>1, RoomSteps DEF OneRoom
    <2>4. CASE cc \notin DOMAIN Members
      <3>1. stay = DOMAIN Members
        BY <2>4 DEF stay
      <3>2. Members' = Members
        BY <1>1, <1>5, <3>1, RosterFacts DEF Members
      <3>3. Room!VisitorCutOff(name)
        BY <2>2, <3>1, <3>2 DEF Room!VisitorCutOff, Room!Tell, Told, Members, Transcript
      <3> QED BY <1>2, <3>3, RoomSteps DEF OneRoom
    <2> QED BY <2>3, <2>4
  <1>13. CASE ~notify
    <2>1. \A c \in Conns : \E q, r \in Quiet : s2c'[c] = s2c[c] \o (q \o r)
      BY <1>7, <1>9, <1>13, QuietAre
    <2>2. Transcript' = Transcript
      BY <2>1, TranscriptKept
    <2>3. CASE cc \in DOMAIN Members
      <3>1. Room!Leave(cc)
        BY <1>5, <2>2, <2>3 DEF Room!Leave, Room!Without, Members, Transcript, stay
      <3> QED BY <1>2, <2>3, <3>1, RoomSteps DEF OneRoom
    <2>4. CASE cc \notin DOMAIN Members
      <3>1. stay = DOMAIN Members
        BY <2>4 DEF stay
      <3>2. Members' = Members
        BY <1>1, <1>5, <3>1, RosterFacts DEF Members
      <3> QED BY <2>2, <3>2 DEF OneRoom, Silent
    <2> QED BY <2>3, <2>4
  <1> QED BY <1>12, <1>13

\* A descriptor without a client concerns nobody.
LEMMA DisconnectSocketRoom ==
    ASSUME RoomInv, RoomInv', NEW fd \in Fds,
           NEW notify \in BOOLEAN, NEW left \in BOOLEAN, DisconnectSocket(fd, notify, left),
           Running \/ ClientIds(fd) # {}
    PROVE  OneRoom
  <1>1. CASE ClientIds(fd) # {}
    <2>1. PICK k \in ClientIds(fd) : DisconnectClient(k, notify, left)
      BY <1>1 DEF DisconnectSocket
    <2>2. k \in 1 .. client_count
      BY DEF ClientIds
    <2> QED BY <2>1, <2>2, DisconnectClientRoom
  <1>2. CASE ClientIds(fd) = {}
    <2>1. UNCHANGED <<clients, s2c, fdtab>>
      BY <1>2, ClosedAgain DEF RoomInv
    <2> QED BY <2>1 DEF OneRoom, Silent, Members, Transcript
  <1> QED BY <1>1, <1>2

With(r, c, name) == [d \in DOMAIN r \cup {c} |-> IF d = c THEN name ELSE r[d]]

\* The handlers that change one client and answer it.
LEMMA UpdateRoom ==
    ASSUME RoomInv, RoomInv', NEW k, NEW p, VisitPacket(k, p),
           NEW client, client.fd = clients[k].fd,
           NEW q \in Quiet, NEW r \in Quiet, Update(k, client, q \o r)
    PROVE  LET c == fdtab[clients[k].fd] IN
           /\ Transcript' = Transcript
           /\ c \in Conns
           /\ client.state = 2 /\ client.version = 1 =>
                Members' = With(Members, c, client.nickname)
           /\ ~(client.state = 2 /\ client.version = 1) => Members' = Without(Members, c)
  <1> DEFINE c == fdtab[clients[k].fd]
  <1>1. /\ k \in 1 .. client_count /\ clients[k] \in ClientRecord
        /\ fdtab[Here] \in Conns
    BY VisitPacketFacts DEF RoomInv
  <1>2. Here = clients[k].fd
    BY DEF VisitPacket, ClientIds
  <1>3. k \in DOMAIN clients
    BY <1>1, ClientsTyped DEF RoomInv, ClientTypes
  <1>4. c \in Conns /\ c # NoConn
    BY <1>1, <1>2, ConnsAssumption
  <1>5. /\ clients' = [clients EXCEPT ![k] = client] /\ fdtab' = fdtab
        /\ s2c' = [s2c EXCEPT ![c] = @ \o (q \o r)]
    BY <1>2 DEF Update, WriteTo
  <1>6. Transcript' = Transcript
    <2>1. s2c \in [Conns -> Seq(Packets)]
      BY DEF RoomInv, ServerInv, TypeOK, SocketsTypeOK
    <2>2. ASSUME NEW d \in Conns
          PROVE  \E x, y \in Quiet : s2c'[d] = s2c[d] \o (x \o y)
      <3>1. CASE d = c
        <4>1. s2c'[d] = s2c[d] \o (q \o r)
          BY <1>5, <2>1, <3>1
        <4> QED BY <4>1
      <3>2. CASE d # c
        <4>1. s2c'[d] = s2c[d] /\ s2c[d] \in Seq(Packets)
          BY <1>5, <2>1, <3>2
        <4>2. s2c[d] = s2c[d] \o (<<>> \o <<>>)
          <5>1. <<>> \o <<>> = <<>>
            BY ConcatEmptySeq, ShortSeqs
          <5>2. s2c[d] \o <<>> = s2c[d]
            BY <4>1, ConcatEmptySeq
          <5> QED BY <5>1, <5>2
        <4> QED BY <4>1, <4>2, QuietAre
      <3> QED BY <3>1, <3>2
    <2> QED BY <2>2, TranscriptKept
  <1>7. Distinct(clients, fdtab) /\ Distinct([clients EXCEPT ![k] = client], fdtab)
    BY <1>5, NowDistinct, ThenDistinct
  <1>8. LET new == Roster([clients EXCEPT ![k] = client], fdtab) IN
        /\ client.state = 2 /\ client.version = 1 =>
                new = [d \in DOMAIN Members \cup {c} |->
                                IF d = c THEN client.nickname ELSE Members[d]]
        /\ ~(client.state = 2 /\ client.version = 1) =>
                new = [d \in DOMAIN Members \ {c} |-> Members[d]]
    BY <1>3, <1>4, <1>7, RosterUpdated DEF Members, With, Without
  <1>9. Members' = Roster([clients EXCEPT ![k] = client], fdtab)
    BY <1>5 DEF Members
  <1> QED BY <1>4, <1>6, <1>8, <1>9 DEF With, Without

\* What the handlers of packets have in common, and what VisitHello does.
LEMMA HandlersVisit ==
    ASSUME NEW k, NEW p
    PROVE  /\ VisitHelloMaster(k, p) => VisitPacket(k, p)
           /\ VisitHello(k, p) =>
                /\ VisitPacket(k, p)
                /\ \E sel \in Protocols :
                    LET selected == [clients[k] EXCEPT !.version = sel, !.state = 2] IN
                    Update(k, Renamed(selected, Anon),
                           <<SetProto(sel)>> \o RenameReply(selected, Anon))
           /\ VisitHelloUnsupported(k, p) => VisitPacket(k, p)
           /\ VisitSetProto(k, p) => VisitPacket(k, p)
           /\ VisitSetNickname(k, p) => VisitPacket(k, p)
           /\ VisitSendMessage(k, p) => VisitPacket(k, p)
           /\ VisitDisconnect(k, p) => VisitPacket(k, p)
           /\ VisitIgnored(k, p) => VisitPacket(k, p)
  BY Zenon DEF VisitHelloMaster, VisitHello, VisitHelloUnsupported, VisitSetProto,
         VisitSetNickname, VisitSendMessage, VisitDisconnect, VisitIgnored

LEMMA HandlePacketRoom == RoomInv /\ RoomInv' /\ HandlePacket => OneRoom
  <1> SUFFICES ASSUME RoomInv, RoomInv', NEW k \in 1 .. client_count, NEW p,
                      \/ VisitHelloMaster(k, p)
                      \/ VisitHello(k, p)
                      \/ VisitHelloUnsupported(k, p)
                      \/ VisitSetProto(k, p)
                      \/ VisitSetNickname(k, p)
                      \/ VisitSendMessage(k, p)
                      \/ VisitDisconnect(k, p)
                      \/ VisitIgnored(k, p)
               PROVE  OneRoom
    BY DEF HandlePacket
  <1>1. VisitPacket(k, p)
    BY HandlersVisit, Zenon
  <1> DEFINE client == clients[k]
             c == fdtab[client.fd]
  <1>2. client \in ClientRecord /\ p \in Packets /\ client.version = 1
    BY <1>1, VisitPacketFacts DEF RoomInv, VisitPacket
  <1>3. /\ c \in DOMAIN Members => c \in Conns /\ c # NoConn /\ k \in Inside(clients)
        /\ k \in Inside(clients) /\ c # NoConn =>
                c \in DOMAIN Members /\ Members[c] = client.nickname
        /\ client.nickname \in Names
    BY MemberIs
  <1>4. k \in DOMAIN clients /\ Distinct(clients, fdtab)
    BY ClientsTyped, NowDistinct DEF RoomInv, ClientTypes
  <1>5. k \in Inside(clients) <=> client.state = 2
    BY <1>2, <1>4 DEF Inside
  <1>6. c \in Conns /\ c # NoConn
    <2>1. fdtab[Here] \in Conns /\ Here = client.fd
      BY <1>1, VisitPacketFacts DEF RoomInv, VisitPacket, ClientIds
    <2> QED BY <2>1, ConnsAssumption
  <1>7. c \notin DOMAIN Members => Without(Members, c) = Members
    <2>1. Members = [d \in DOMAIN Members |-> Members[d]]
      BY <1>4, RosterFacts DEF Members
    <2>2. c \notin DOMAIN Members => DOMAIN Members \ {c} = DOMAIN Members
      OBVIOUS
    <2> HIDE DEF c
    <2> QED BY <2>1, <2>2 DEF Without
  <1>8. <<>> \o <<>> = <<>>
    BY ConcatEmptySeq, ShortSeqs
  <1> HIDE DEF c
  <1>9. CASE VisitHelloMaster(k, p)
    <2> DEFINE master == [client EXCEPT !.state = 1]
    <2>1. master.fd = client.fd /\ master.state # 2
      BY <1>2 DEF ClientRecord
    <2>2. Update(k, master, <<>> \o <<>>)
      BY <1>8, <1>9 DEF VisitHelloMaster
    <2> HIDE DEF master
    <2>3. /\ Transcript' = Transcript
          /\ Members' = Without(Members, c)
      BY <1>1, <2>1, <2>2, QuietAre, UpdateRoom DEF c
    <2>4. CASE c \in DOMAIN Members
      <3>1. Room!Leave(c)
        BY <2>3, <2>4 DEF Room!Leave, Room!Without, Without, Members, Transcript
      <3> QED BY <1>6, <3>1, RoomSteps DEF OneRoom
    <2>5. CASE c \notin DOMAIN Members
      BY <1>7, <2>3, <2>5 DEF OneRoom, Silent
    <2> QED BY <2>4, <2>5
  <1>10. CASE VisitHello(k, p)
    <2>1. PICK sel \in Protocols :
            LET selected == [clients[k] EXCEPT !.version = sel, !.state = 2] IN
            Update(k, Renamed(selected, Anon), <<SetProto(sel)>> \o RenameReply(selected, Anon))
      BY <1>10, HandlersVisit, Zenon
    <2> DEFINE selected == [client EXCEPT !.version = sel, !.state = 2]
               new == Renamed(selected, Anon)
    <2>2. sel \in Versions /\ sel = 1
      BY VersionsAssumption DEF Protocols
    <2>3. new.fd = client.fd /\ new.state = 2 /\ new.version = 1 /\ new.nickname = Anon
      BY <1>2, <2>2 DEF ClientRecord, Renamed
    <2>4. <<SetProto(sel)>> \in Quiet /\ RenameReply(selected, Anon) \in Quiet
      BY <2>2, QuietAre DEF Names
    <2>5. Update(k, new, <<SetProto(sel)>> \o RenameReply(selected, Anon))
      BY <2>1
    <2> HIDE DEF new, selected
    <2>6. /\ Transcript' = Transcript
          /\ Members' = With(Members, c, new.nickname)
      BY <1>1, <2>3, <2>4, <2>5, UpdateRoom DEF c
    <2>7. Room!Enter(c)
      BY <2>3, <2>6 DEF Room!Enter, With, Members, Transcript
    <2> QED BY <1>6, <2>7, RoomSteps DEF OneRoom
  <1>11. CASE VisitHelloUnsupported(k, p)
    BY <1>11, DisconnectClientRoom DEF VisitHelloUnsupported
  <1>12. CASE VisitSetProto(k, p)
    <2> DEFINE selected == [client EXCEPT !.version = p.protocol, !.state = 2]
               new == Renamed(selected, Anon)
    <2>1. new.fd = client.fd /\ new.state = 2 /\ new.version = p.protocol /\ new.nickname = Anon
      BY <1>2 DEF ClientRecord, Renamed
    <2>2. RenameReply(selected, Anon) \in Quiet /\ <<>> \o RenameReply(selected, Anon) = RenameReply(selected, Anon)
      <3>1. RenameReply(selected, Anon) \in Quiet
        BY QuietAre DEF Names
      <3>2. RenameReply(selected, Anon) \in Seq(Packets)
        BY <3>1, ShortSeqs DEF Quiet
      <3> QED BY <3>1, <3>2, ConcatEmptySeq
    <2>3. Update(k, new, RenameReply(selected, Anon)) /\ client.state = 1
      BY <1>12 DEF VisitSetProto
    <2> HIDE DEF new, selected
    <2>4. /\ Transcript' = Transcript
          /\ p.protocol = 1 => Members' = With(Members, c, new.nickname)
          /\ p.protocol # 1 => Members' = Without(Members, c)
      <3>1. <<>> \in Quiet /\ Update(k, new, <<>> \o RenameReply(selected, Anon))
        BY <2>2, <2>3, QuietAre
      <3> QED BY <1>1, <2>1, <2>2, <3>1, UpdateRoom DEF c
    <2>5. CASE p.protocol = 1
      <3>1. Room!Enter(c)
        BY <2>1, <2>4, <2>5 DEF Room!Enter, With, Members, Transcript
      <3> QED BY <1>6, <3>1, RoomSteps DEF OneRoom
    <2>6. CASE p.protocol # 1
      <3>1. c \notin DOMAIN Members
        BY <1>3, <1>5, <2>3
      <3> QED BY <1>7, <2>4, <2>6, <3>1 DEF OneRoom, Silent
    <2> QED BY <2>5, <2>6
  <1>13. CASE VisitSetNickname(k, p)
    <2> DEFINE new == Renamed(client, p.nickname)
    <2>1. p.nickname \in Names
      BY <1>2, <1>13, PacketFields DEF VisitSetNickname
    <2>2. client.state = 2 /\ Update(k, new, RenameReply(client, p.nickname))
      BY <1>13 DEF VisitSetNickname
    <2>3. new.fd = client.fd /\ new.state = 2 /\ new.version = 1 /\ new.nickname = p.nickname
      BY <1>2, <2>2 DEF ClientRecord, Renamed
    <2>4. RenameReply(client, p.nickname) \in Quiet
      BY <2>1, QuietAre
    <2>5. <<>> \o RenameReply(client, p.nickname) = RenameReply(client, p.nickname)
      <3>1. RenameReply(client, p.nickname) \in Seq(Packets)
        BY <2>4, ShortSeqs DEF Quiet
      <3> QED BY <3>1, ConcatEmptySeq
    <2> HIDE DEF new
    <2>6. /\ Transcript' = Transcript
          /\ Members' = With(Members, c, new.nickname)
      <3>1. <<>> \in Quiet /\ Update(k, new, <<>> \o RenameReply(client, p.nickname))
        BY <2>2, <2>5, QuietAre
      <3> QED BY <1>1, <2>3, <2>4, <3>1, UpdateRoom DEF c
    <2>7. c \in DOMAIN Members
      BY <1>3, <1>5, <1>6, <2>2
    <2>8. Members' = [Members EXCEPT ![c] = p.nickname]
      <3>1. Members = [d \in DOMAIN Members |-> Members[d]]
        BY <1>4, RosterFacts DEF Members
      <3>2. DOMAIN Members \cup {c} = DOMAIN Members
        BY <2>7
      <3> QED BY <2>3, <2>6, <3>1, <3>2 DEF With
    <2>9. Room!Rename(c, p.nickname)
      BY <2>6, <2>7, <2>8 DEF Room!Rename, Members, Transcript
    <2> QED BY <1>6, <2>1, <2>9, RoomSteps DEF OneRoom
  <1>14. CASE VisitSendMessage(k, p)
    <2> DEFINE line == RecvMessage(p.message, client.nickname)
    <2>1. p.message \in Msgs /\ client.state = 2
      BY <1>2, <1>14, PacketFields DEF VisitSendMessage
    <2>2. line \in Packets /\ line.op = "RECV_MESSAGE"
      BY <1>3, <2>1, PacketTypes, OpOf
    <2>3. \A d \in Conns : s2c'[d] = s2c[d] \o Broadcast(d, clients, line)
      BY <1>14 DEF VisitSendMessage
    <2>4. clients' = clients /\ fdtab' = fdtab
      BY <1>14 DEF VisitSendMessage
    <2>5. LineOf(line) = Room!Line(p.message, client.nickname)
      BY LinesAre
    <2>6. c \in DOMAIN Members /\ Members[c] = client.nickname
      BY <1>3, <1>5, <1>6, <2>1
    <2> HIDE DEF line
    <2>7. \A d \in Conns : \E q \in Quiet :
            s2c'[d] = s2c[d] \o ((IF d \in DOMAIN Members THEN <<line>> ELSE <<>>) \o q)
      <3> SUFFICES ASSUME NEW d \in Conns
                   PROVE  s2c'[d] = s2c[d] \o ((IF d \in DOMAIN Members THEN <<line>> ELSE <<>>) \o <<>>)
        BY QuietAre
      <3> DEFINE said == IF d \in DOMAIN Members THEN <<line>> ELSE <<>>
      <3>1. Broadcast(d, clients, line) = said
        BY <1>4, BroadcastIs DEF Members
      <3>2. said \in Seq(Packets)
        BY <2>2, ShortSeqs
      <3> HIDE DEF said
      <3>3. said \o <<>> = said
        BY <3>2, ConcatEmptySeq
      <3>4. s2c'[d] = s2c[d] \o (said \o <<>>)
        BY <2>3, <3>1, <3>3
      <3> QED BY <3>4 DEF said
    <2>8. Transcript' = Told(Transcript, DOMAIN Members, LineOf(line))
      BY <2>2, <2>7, TranscriptTold
    <2>9. Room!Say(c, p.message)
      <3>1. Members' = Members
        BY <2>4 DEF Members
      <3>2. Transcript' = Told(Transcript, DOMAIN Members, Room!Line(p.message, Members[c]))
        BY <2>5, <2>6, <2>8
      <3> QED BY <2>6, <3>1, <3>2 DEF Room!Say, Room!Tell, Told, Members, Transcript
    <2> QED BY <1>6, <2>1, <2>9, RoomSteps DEF OneRoom
  <1>15. CASE VisitDisconnect(k, p)
    BY <1>15, DisconnectClientRoom DEF VisitDisconnect
  <1>16. CASE VisitIgnored(k, p)
    <2>1. Update(k, client, <<>> \o <<>>)
      BY <1>8, <1>16 DEF VisitIgnored
    <2>2. Transcript' = Transcript
      <3>1. <<>> \in Quiet /\ client.fd = clients[k].fd
        BY QuietAre
      <3> QED BY <1>1, <2>1, <3>1, UpdateRoom
    <2>3. clients' = clients /\ fdtab' = fdtab
      <3>1. clients' = [clients EXCEPT ![k] = clients[k]] /\ fdtab' = fdtab
        BY <2>1 DEF Update
      <3>2. clients \in Seq(ClientRecord) /\ DOMAIN clients = 1 .. Len(clients)
        BY <1>4, LenProperties DEF Distinct
      <3>3. clients \in [1 .. Len(clients) -> ClientRecord]
        BY <3>2, SeqDef
      <3> QED BY <3>1, <3>3
    <2> QED BY <2>2, <2>3 DEF OneRoom, Silent, Members
  <1> QED BY <1>9, <1>10, <1>11, <1>12, <1>13, <1>14, <1>15, <1>16

\* The connection accepted is told HELLO, and is not in the room.
LEMMA AcceptRoom == RoomInv /\ RoomInv' /\ Accept => OneRoom
  <1> SUFFICES ASSUME RoomInv, RoomInv', Accept PROVE OneRoom
    OBVIOUS
  <1> DEFINE c == Head(backlog)
  <1>1. PICK fd \in NewFd :
        LET client == [fd |-> fd, state |-> 0, version |-> 1, nickname |-> Anon] IN
        /\ fdtab' = [fdtab EXCEPT ![fd] = c]
        /\ clients' = Append(clients, client)
        /\ WriteTo(c, Written(client, <<Hello(FALSE, Protocols)>>))
    BY DEF Accept
  <1> DEFINE client == [fd |-> fd, state |-> 0, version |-> 1, nickname |-> Anon]
             hello  == <<Hello(FALSE, Protocols)>>
  <1>2. fd \in Fds
    BY DEF NewFd
  <1>3. client \in ClientRecord /\ client.state # 2 /\ client.fd = fd
    BY <1>2, VersionsAssumption DEF ClientRecord, Names
  <1>4. Distinct(clients, fdtab) /\ Distinct(clients', fdtab')
    BY NowDistinct, ThenDistinct
  <1>5. clients' = Append(clients, client)
    BY <1>1
  <1>6. \A f \in Fds : f # fd => fdtab'[f] = fdtab[f]
    BY <1>1, <1>4 DEF Distinct
  <1>7. s2c' = [s2c EXCEPT ![c] = @ \o hello]
    BY <1>1 DEF WriteTo, Written
  <1> HIDE DEF client, hello
  <1>8. Members' = Members
    <2>1. Distinct(Append(clients, client), fdtab')
      BY <1>4, <1>5
    <2>2. Roster(Append(clients, client), fdtab') = Roster(clients, fdtab)
      BY <1>3, <1>4, <1>6, <2>1, RosterAppended
    <2> QED BY <1>5, <2>2 DEF Members
  <1>9. Transcript' = Transcript
    <2>1. s2c \in [Conns -> Seq(Packets)]
      BY DEF RoomInv, ServerInv, TypeOK, SocketsTypeOK
    <2>2. hello \in Quiet /\ hello \in Seq(Packets)
      BY QuietAre, PacketTypes, ShortSeqs DEF hello
    <2>3. ASSUME NEW d \in Conns
          PROVE  \E x, y \in Quiet : s2c'[d] = s2c[d] \o (x \o y)
      <3>1. <<>> \o <<>> = <<>> /\ <<>> \o hello = hello
        BY <2>2, ConcatEmptySeq, ShortSeqs
      <3>2. s2c[d] \o <<>> = s2c[d]
        BY <2>1, ConcatEmptySeq
      <3>3. s2c'[d] = s2c[d] \o (<<>> \o <<>>) \/ s2c'[d] = s2c[d] \o (<<>> \o hello)
        BY <1>7, <2>1, <3>1, <3>2
      <3> QED BY <2>2, <3>3, QuietAre
    <2> QED BY <2>3, TranscriptKept
  <1> QED BY <1>8, <1>9 DEF OneRoom, Silent

\* The end of the process ends the room.
LEMMA CloseRoom ==
    ASSUME RoomInv, RoomInv', fdtab' = [fd \in Fds |-> NoConn], s2c' = s2c
    PROVE  OneRoom
  <1>1. Distinct(clients', fdtab')
    BY ThenDistinct
  <1>2. \A fd \in Fds : fdtab'[fd] = NoConn
    OBVIOUS
  <1>3. Roster(clients', fdtab') = [c \in {} |-> Anon]
    BY <1>1, <1>2, RosterClosed
  <1>4. Room!Close
    BY <1>3 DEF Room!Close
  <1> QED BY <1>4, RoomSteps DEF OneRoom

LEMMA RoomNext == RoomInv /\ RoomInv' /\ [Next]_vars => OneRoom
  <1> SUFFICES ASSUME RoomInv, RoomInv', [Next]_vars PROVE OneRoom
    OBVIOUS
  <1>1. ASSUME UNCHANGED <<clients, fdtab, s2c>>
        PROVE  OneRoom
    BY <1>1 DEF OneRoom, Silent, Members, Transcript
  <1>2. CASE Poll \/ NothingToAccept \/ Sigint \/ UNCHANGED vars
    BY <1>1, <1>2 DEF Poll, NothingToAccept, Sigint, vars, sockets, serverVars
  <1>3. CASE VisitQuiet
    BY <1>1, <1>3 DEF VisitQuiet
  <1>4. CASE PeerStep
    BY <1>1, <1>4 DEF PeerStep, serverVars, Connect, PeerSend, PeerClose, PeerReset
  <1>5. CASE VisitLost
    BY <1>5, LostDescriptor, DisconnectSocketRoom DEF VisitLost, RoomInv
  <1>6. CASE VisitMalformed
    <2>1. PICK k \in ClientIds(Here) : DisconnectClient(k, TRUE, FALSE)
      BY <1>6 DEF VisitMalformed
    <2>2. k \in 1 .. client_count
      BY DEF ClientIds
    <2> QED BY <2>1, <2>2, DisconnectClientRoom
  <1>7. CASE VisitNoClient
    BY <1>7, CloseRoom DEF VisitNoClient
  <1>8. CASE ShutdownOver
    BY <1>8, CloseRoom DEF ShutdownOver, sockets
  <1>9. CASE ShutdownClient
    BY <1>9, TurnHasClient, DisconnectSocketRoom DEF ShutdownClient, RoomInv
  <1>10. CASE HandlePacket
    BY <1>10, HandlePacketRoom
  <1>11. CASE Accept
    BY <1>11, AcceptRoom
  <1> QED BY <1>2, <1>3, <1>4, <1>5, <1>6, <1>7, <1>8, <1>9, <1>10, <1>11
          DEF Next, ServerStep

LEMMA RoomInit == Init => Room!Init
  <1> SUFFICES ASSUME Init PROVE Room!Init
    OBVIOUS
  <1>1. clients = <<>> /\ s2c = [c \in Conns |-> <<>>] /\ fdtab = [fd \in Fds |-> NoConn]
    BY DEF Init, SocketsInit, ServerInit
  <1>2. Roster(clients, fdtab) = [c \in {} |-> Anon]
    <2>1. Inside(clients) = {}
      BY <1>1 DEF Inside
    <2> QED BY <2>1 DEF Roster
  <1>3. Heard(<<>>) = <<>>
    <2>1. Among(<<>>, Messages) = <<>>
      <3>1. <<>> \in Seq(Packets) /\ Disconnect \in Packets
        BY ShortSeqs, PacketTypes
      <3> HIDE DEF Packets, Messages
      <3> QED BY <3>1, AmongAppend
    <2> QED BY <2>1 DEF Heard
  <1> QED BY <1>1, <1>2, <1>3 DEF Room!Init

\* The server with its arrays, its descriptors and its loop over them is one
\* room: every line is told to all who are in at that moment, under the
\* author's nickname of that moment, and to nobody else.
THEOREM RoomCorrect == Spec => ImplementsChatRoom
  <1>1. Init => Room!Init
    BY RoomInit
  <1>2. RoomInv /\ RoomInv' /\ [Next]_vars
            => [Room!Next]_<<Roster(clients, fdtab), [c \in Conns |-> Heard(s2c[c])]>>
    BY RoomNext DEF OneRoom, Silent, Members, Transcript
  <1>3. Spec => []RoomInv
    <2>1. ServerInv /\ FarewellInv => RoomInv
      BY DEF RoomInv, FarewellInv
    <2> QED BY <2>1, Invariance, FarewellInvariance, PTL
  <1> QED BY <1>1, <1>2, <1>3, PTL DEF Spec, ImplementsChatRoom, Room!Spec

-----------------------------------------------------------------------------
(* The server and reference clients.                                       *)

\* All that reference clients ever write.
ClientPackets ==
    {Hello(FALSE, {1}), Disconnect}
        \cup {SendMessage(m) : m \in Msgs} \cup {SetNickname(n) : n \in Nicks}

UsersTyped ==
    /\ connection \in [Users -> Conns \cup {NoConn}]
    /\ await_nick \in [Users -> Nicks \cup {NoNick}]

ClientsTalk == c2s \in [Conns -> Seq(ClientPackets)]

\* A client that says goodbye closes in the same step.
GoodbyeMeansGone == \A c \in Conns : peer[c] = "open" => NoFarewell(c2s[c])

\* No packet of theirs selects another version or waits for a selection.
PlainClients == \A k \in 1 .. Len(clients) : clients[k].version = 1 /\ clients[k].state # 1

\* What poll reported of the clients the scan has still to visit is true when
\* it gets there: no earlier visit of the scan reads what they have sent.
StillTrue ==
    lifo /\ phase = "scan" =>
        \A k \in 1 .. Len(clients) : k >= scan =>
            /\ pollfds[k].revents = "lost" => peer[fdtab[clients[k].fd]] = "reset"
            /\ pollfds[k].revents = "in" =>
                c2s[fdtab[clients[k].fd]] # <<>> \/ peer[fdtab[clients[k].fd]] # "open"

\* An open client waits for accept or has a descriptor.
OpenIsServed == lifo /\ Running => \A c \in Conns : peer[c] = "open" => Alive(c)

ChatInv ==
    /\ ServerInv
    /\ FarewellInv
    /\ UsersTyped
    /\ ClientsTalk
    /\ GoodbyeMeansGone
    /\ PlainClients
    /\ StillTrue
    /\ OpenIsServed

LEMMA ClientPacketFacts ==
    /\ ClientPackets \subseteq Packets
    /\ \A p \in ClientPackets :
        /\ p.op \in {"HELLO", "DISCONNECT", "SEND_MESSAGE", "SET_NICKNAME"}
        /\ p.op = "HELLO" => ~p.master /\ p.protocols = {1}
        /\ p.op = "DISCONNECT" => p = Disconnect
    /\ Hello(FALSE, {1}) # Disconnect
    /\ \A m : SendMessage(m) # Disconnect
    /\ \A n : SetNickname(n) # Disconnect
  <1>1. /\ Hello(FALSE, {1}).op = "HELLO" /\ ~Hello(FALSE, {1}).master
        /\ Hello(FALSE, {1}).protocols = {1}
        /\ Hello(FALSE, {1}) \in Packets
    BY VersionsAssumption DEF Hello, Packets
  <1>2. Disconnect.op = "DISCONNECT" /\ Disconnect \in Packets
    BY DEF Disconnect, Packets
  <1>3. \A m : SendMessage(m).op = "SEND_MESSAGE"
    BY DEF SendMessage
  <1>4. \A n : SetNickname(n).op = "SET_NICKNAME"
    BY DEF SetNickname
  <1>5. \A m \in Msgs : SendMessage(m) \in Packets
    BY DEF SendMessage, Packets
  <1>6. \A n \in Nicks : SetNickname(n) \in Packets
    BY DEF SetNickname, Packets, Names
  <1> HIDE DEF Packets
  <1>7. \A p \in ClientPackets :
            \/ p = Hello(FALSE, {1}) \/ p = Disconnect
            \/ \E m \in Msgs : p = SendMessage(m)
            \/ \E n \in Nicks : p = SetNickname(n)
    BY DEF ClientPackets
  <1>8. ClientPackets \subseteq Packets
    BY <1>1, <1>2, <1>5, <1>6, <1>7
  <1>9. \A p \in ClientPackets :
        /\ p.op \in {"HELLO", "DISCONNECT", "SEND_MESSAGE", "SET_NICKNAME"}
        /\ p.op = "HELLO" => ~p.master /\ p.protocols = {1}
        /\ p.op = "DISCONNECT" => p = Disconnect
    BY <1>1, <1>2, <1>3, <1>4, <1>7
  <1>10. /\ Hello(FALSE, {1}) # Disconnect
         /\ \A m : SendMessage(m) # Disconnect
         /\ \A n : SetNickname(n) # Disconnect
    BY <1>1, <1>2, <1>3, <1>4
  <1> QED BY <1>8, <1>9, <1>10

LEMMA SeqWiden ==
    ASSUME NEW S, NEW T, S \subseteq T, NEW s \in Seq(S)
    PROVE  s \in Seq(T)
  <1>1. /\ Len(s) \in Nat /\ s \in [1 .. Len(s) -> S]
    BY LenProperties
  <1>2. s \in [1 .. Len(s) -> T]
    BY <1>1
  <1> QED BY <1>1, <1>2, SeqDef

LEMMA ClientTalkIsTalk ==
    ASSUME NEW f \in [Conns -> Seq(ClientPackets)]
    PROVE  f \in [Conns -> Seq(Packets)]
  <1> HIDE DEF Packets, ClientPackets
  <1>1. \A c \in Conns : f[c] \in Seq(Packets)
    BY ClientPacketFacts, SeqWiden
  <1> QED BY <1>1

\* What is added to a conversation of a client.
LEMMA AddTalk ==
    ASSUME NEW s \in Seq(ClientPackets), NEW p \in ClientPackets
    PROVE  /\ s \o <<p>> \in Seq(ClientPackets)
           /\ s \o <<p>> # <<>>
           /\ NoFarewell(s) /\ p # Disconnect => NoFarewell(s \o <<p>>)
           /\ Append(s, p) = s \o <<p>>
           /\ s \o <<>> = s
           /\ <<p>> \in Seq(ClientPackets) /\ <<p>> # <<>>
           /\ p # Disconnect => NoFarewell(<<p>>)
  <1> HIDE DEF Packets, ClientPackets
  <1>1. s \in Seq(Packets) /\ p \in Packets
    BY ClientPacketFacts, SeqWiden
  <1>2. <<p>> \in Seq(Packets) /\ <<p>> \in Seq(ClientPackets) /\ Len(<<p>>) = 1
    BY <1>1
  <1>3. s \o <<p>> \in Seq(ClientPackets) /\ Len(s \o <<p>>) = Len(s) + 1 /\ Len(s) \in Nat
    BY <1>2, ConcatProperties, LenProperties
  <1>4. s \o <<p>> # <<>> /\ <<p>> # <<>>
    BY <1>2, <1>3
  <1>5. p # Disconnect => NoFarewell(<<p>>)
    BY <1>1, FarewellShort
  <1>6. NoFarewell(s) /\ p # Disconnect => NoFarewell(s \o <<p>>)
    BY <1>1, <1>2, <1>5, FarewellConcat
  <1>7. Append(s, p) = s \o <<p>>
    BY AppendIsConcat
  <1>8. s \o <<>> = s
    BY ConcatEmptySeq
  <1> QED BY <1>2, <1>3, <1>4, <1>5, <1>6, <1>7, <1>8

-----------------------------------------------------------------------------
(* The steps of users, clients and the network.                            *)

\* What such a step does to the connections.
PeersMove ==
    /\ UNCHANGED <<serverVars, s2c>>
    /\ SocketsTypeOK'
    /\ \A c \in Conns :
        /\ c2s[c] # <<>> => c2s'[c] # <<>>
        /\ peer[c] # "unused" => peer'[c] # "unused"
        /\ peer[c] \in {"fin", "reset"} => peer'[c] # "open"
        /\ peer[c] = "reset" => peer'[c] = "reset"
    /\ \/ backlog' = backlog /\ \A c \in Conns : peer[c] = "unused" => peer'[c] = "unused"
       \/ \E c \in Conns :
            /\ peer[c] = "unused" /\ peer'[c] # "unused"
            /\ backlog' = Append(backlog, c)
            /\ \A d \in Conns : peer[d] = "unused" => d = c \/ peer'[d] = "unused"

UsersMove == PeersMove /\ UsersTyped' /\ ClientsTalk' /\ GoodbyeMeansGone'

\* A step that connects nobody.
LEMMA NoCalls ==
    ASSUME ChatInv, UNCHANGED <<serverVars, s2c, backlog>>, ClientsTalk', sent' \in 0 .. MaxSent,
           peer' \in [Conns -> {"unused", "open", "fin", "reset"}],
           \A c \in Conns : /\ c2s[c] # <<>> => c2s'[c] # <<>>
                            /\ peer[c] = "unused" <=> peer'[c] = "unused"
                            /\ peer[c] \in {"fin", "reset"} => peer'[c] # "open"
                            /\ peer[c] = "reset" => peer'[c] = "reset"
    PROVE  PeersMove
  <1>1. SocketsTypeOK'
    <2>1. c2s' \in [Conns -> Seq(Packets)]
      BY ClientTalkIsTalk DEF ClientsTalk
    <2> QED BY <2>1 DEF ChatInv, ServerInv, TypeOK, SocketsTypeOK
  <1> QED BY <1>1 DEF PeersMove

LEMMA SendersFacts ==
    ASSUME ChatInv, NEW u \in Users, Connected(u)
    PROVE  /\ connection[u] \in Conns
           /\ \A p \in ClientPackets : Sent(u, p) \in {<<>>, <<p>>}
  BY DEF ChatInv, UsersTyped, Connected, Sent

\* The packets t are written on connection d.
Appended(after, d, t) == after = [c2s EXCEPT ![d] = @ \o t]

\* Packet p is written, or nothing.
LEMMA Sending ==
    ASSUME ChatInv, NEW d \in Conns, NEW p \in ClientPackets, NEW t, t \in {<<>>, <<p>>},
           NEW after, Appended(after, d, t)
    PROVE  /\ after \in [Conns -> Seq(ClientPackets)]
           /\ \A c \in Conns : c2s[c] # <<>> => after[c] # <<>>
           /\ \A c \in Conns : c # d => after[c] = c2s[c]
           /\ p # Disconnect => \A c \in Conns : NoFarewell(c2s[c]) => NoFarewell(after[c])
  <1> HIDE DEF ClientPackets
  <1>1. c2s \in [Conns -> Seq(ClientPackets)]
    BY DEF ChatInv, ClientsTalk
  <1>2. c2s[d] \in Seq(ClientPackets)
    BY <1>1
  <1>3. /\ c2s[d] \o t \in Seq(ClientPackets)
        /\ c2s[d] # <<>> => c2s[d] \o t # <<>>
        /\ p # Disconnect => (NoFarewell(c2s[d]) => NoFarewell(c2s[d] \o t))
    <2>1. CASE t = <<>>
      BY <1>2, <2>1, AddTalk
    <2>2. CASE t = <<p>>
      BY <1>2, <2>2, AddTalk
    <2> QED BY <2>1, <2>2
  <1>4. after[d] = c2s[d] \o t /\ \A c \in Conns : c # d => after[c] = c2s[c]
    BY <1>1 DEF Appended
  <1>5. after \in [Conns -> Seq(ClientPackets)]
    BY <1>1, <1>3 DEF Appended
  <1>6. \A c \in Conns : c2s[c] # <<>> => after[c] # <<>>
    BY <1>3, <1>4
  <1>7. p # Disconnect => \A c \in Conns : NoFarewell(c2s[c]) => NoFarewell(after[c])
    BY <1>3, <1>4
  <1> QED BY <1>4, <1>5, <1>6, <1>7

\* What client_disconnect does to the packets and the connections.
LEMMA Closing ==
    ASSUME ChatInv, NEW u \in Users, Connected(u)
    PROVE  /\ Closed(u, c2s) \in [Conns -> Seq(ClientPackets)]
           /\ \A c \in Conns : c2s[c] # <<>> => Closed(u, c2s)[c] # <<>>
           /\ \A c \in Conns : c # connection[u] => Closed(u, c2s)[c] = c2s[c]
  <1>1. connection[u] \in Conns /\ Disconnect \in ClientPackets
    BY SendersFacts DEF ClientPackets
  <1> DEFINE t == Sent(u, Disconnect)
  <1>2. t \in {<<>>, <<Disconnect>>}
    BY <1>1, SendersFacts
  <1>3. Closed(u, c2s) = [c2s EXCEPT ![connection[u]] = @ \o t]
    BY DEF Closed
  <1> HIDE DEF t, ClientPackets
  <1>4. PICK after, said, d :
            after = Closed(u, c2s) /\ said = t /\ d = connection[u]
    OBVIOUS
  <1>5. Appended(after, d, said) /\ said \in {<<>>, <<Disconnect>>} /\ d \in Conns
    BY <1>1, <1>2, <1>3, <1>4 DEF Appended
  <1>6. /\ after \in [Conns -> Seq(ClientPackets)]
        /\ \A c \in Conns : c2s[c] # <<>> => after[c] # <<>>
        /\ \A c \in Conns : c # d => after[c] = c2s[c]
    BY <1>1, <1>5, Sending
  <1> QED BY <1>4, <1>6

LEMMA LeaveMoves ==
    ASSUME ChatInv, NEW u \in Users, Connected(u), Leave(u),
           UNCHANGED <<serverVars, backlog, s2c, await_nick>>, sent' \in 0 .. MaxSent
    PROVE  UsersMove
  <1>1. /\ connection[u] \in Conns
        /\ c2s' = Closed(u, c2s)
        /\ peer' = [peer EXCEPT ![connection[u]] = IF @ = "open" THEN "fin" ELSE @]
        /\ connection' = [connection EXCEPT ![u] = NoConn]
    BY SendersFacts DEF Leave
  <1>2. peer \in [Conns -> {"unused", "open", "fin", "reset"}]
    BY DEF ChatInv, ServerInv, TypeOK, SocketsTypeOK
  <1>3. /\ c2s' \in [Conns -> Seq(ClientPackets)]
        /\ \A c \in Conns : c2s[c] # <<>> => c2s'[c] # <<>>
        /\ \A c \in Conns : c # connection[u] => c2s'[c] = c2s[c]
    BY <1>1, Closing
  <1>4. /\ peer' \in [Conns -> {"unused", "open", "fin", "reset"}]
        /\ \A c \in Conns : /\ peer[c] = "unused" <=> peer'[c] = "unused"
                            /\ peer[c] \in {"fin", "reset"} => peer'[c] # "open"
                            /\ peer[c] = "reset" => peer'[c] = "reset"
                            /\ peer'[c] = "open" => peer[c] = "open" /\ c # connection[u]
    BY <1>1, <1>2
  <1>5. ClientsTalk'
    BY <1>3 DEF ClientsTalk, ClientPackets
  <1>6. PeersMove
    BY <1>3, <1>4, <1>5, NoCalls
  <1>7. UsersTyped'
    BY <1>1 DEF ChatInv, UsersTyped
  <1>8. GoodbyeMeansGone'
    BY <1>3, <1>4 DEF ChatInv, GoodbyeMeansGone, NoFarewell, Disconnect
  <1> QED BY <1>5, <1>6, <1>7, <1>8 DEF UsersMove

\* A packet that is no goodbye.
LEMMA SendMoves ==
    ASSUME ChatInv, NEW u \in Users, NEW d \in Conns, NEW p \in ClientPackets, p # Disconnect,
           NEW t \in {<<>>, <<p>>}, c2s' = [c2s EXCEPT ![d] = @ \o t],
           UNCHANGED <<serverVars, peer, backlog, s2c, connection, await_nick>>,
           sent' \in 0 .. MaxSent
    PROVE  UsersMove
  <1>1. /\ c2s' \in [Conns -> Seq(ClientPackets)]
        /\ \A c \in Conns : c2s[c] # <<>> => c2s'[c] # <<>>
        /\ \A c \in Conns : NoFarewell(c2s[c]) => NoFarewell(c2s'[c])
    <2> HIDE DEF ClientPackets
    <2>1. PICK after : after = c2s'
      OBVIOUS
    <2>2. Appended(after, d, t)
      BY <2>1 DEF Appended
    <2>3. /\ after \in [Conns -> Seq(ClientPackets)]
          /\ \A c \in Conns : c2s[c] # <<>> => after[c] # <<>>
          /\ \A c \in Conns : NoFarewell(c2s[c]) => NoFarewell(after[c])
      BY <2>2, Sending
    <2> QED BY <2>1, <2>3
  <1>2. peer' = peer /\ peer \in [Conns -> {"unused", "open", "fin", "reset"}]
    BY DEF ChatInv, ServerInv, TypeOK, SocketsTypeOK
  <1>3. ClientsTalk'
    BY <1>1 DEF ClientsTalk, ClientPackets
  <1>4. PeersMove
    BY <1>1, <1>2, <1>3, NoCalls
  <1>5. UsersTyped'
    BY DEF ChatInv, UsersTyped
  <1>6. GoodbyeMeansGone'
    <2>1. ASSUME NEW c \in Conns, peer'[c] = "open" PROVE NoFarewell(c2s'[c])
      BY <1>1, <1>2, <2>1 DEF ChatInv, GoodbyeMeansGone
    <2> QED BY <2>1 DEF GoodbyeMeansGone, NoFarewell, Disconnect
  <1> QED BY <1>3, <1>4, <1>5, <1>6 DEF UsersMove

\* Nothing is written and nothing closed.
LEMMA StillMoves ==
    ASSUME ChatInv, UNCHANGED <<serverVars, peer, backlog, c2s, s2c, await_nick>>,
           sent' \in 0 .. MaxSent,
           connection' \in [Users -> Conns \cup {NoConn}]
    PROVE  UsersMove
  <1>1. ClientsTalk' /\ UsersTyped' /\ GoodbyeMeansGone'
    BY DEF ChatInv, ClientsTalk, ClientPackets, UsersTyped, GoodbyeMeansGone, NoFarewell,
           Disconnect
  <1>2. PeersMove
    BY <1>1, NoCalls DEF ChatInv, ServerInv, TypeOK, SocketsTypeOK
  <1> QED BY <1>1, <1>2 DEF UsersMove

LEMMA ClickMoves ==
    ASSUME ChatInv, NEW u \in Users, Running, Click(u), UNCHANGED serverVars
    PROVE  UsersMove
  <1>1. PICK d \in Conns, nick \in Configured : ServerButtonClicked(u, d, nick)
    BY DEF Click
  <1> DEFINE hello  == Hello(FALSE, {1})
             before == IF Connected(u) THEN Closed(u, c2s) ELSE c2s
  <1>2. /\ peer[d] = "unused"
        /\ peer' = [c \in Conns |-> IF c = d THEN "open"
                                    ELSE IF c = connection[u] /\ peer[c] = "open" THEN "fin"
                                    ELSE peer[c]]
        /\ backlog' = Append(backlog, d)
        /\ c2s' = [before EXCEPT ![d] = <<hello>>]
        /\ connection' = [connection EXCEPT ![u] = d]
        /\ await_nick' = [await_nick EXCEPT ![u] = nick]
        /\ sent < MaxSent /\ sent' = sent + 1
        /\ s2c' = s2c /\ u \notin exited
    BY <1>1 DEF ServerButtonClicked, Act
  <1>3. /\ peer \in [Conns -> {"unused", "open", "fin", "reset"}]
        /\ backlog \in Seq(Conns) /\ s2c \in [Conns -> Seq(Packets)] /\ sent \in 0 .. MaxSent
        /\ c2s \in [Conns -> Seq(ClientPackets)]
    BY DEF ChatInv, ServerInv, TypeOK, SocketsTypeOK, ClientsTalk
  <1>4. /\ before \in [Conns -> Seq(ClientPackets)]
        /\ \A c \in Conns : c2s[c] # <<>> => before[c] # <<>>
        /\ \A c \in Conns : c # connection[u] => before[c] = c2s[c]
    BY <1>3, Closing
  <1>5. /\ <<hello>> \in Seq(ClientPackets) /\ <<hello>> # <<>> /\ NoFarewell(<<hello>>)
    <2>1. hello \in ClientPackets /\ hello # Disconnect
      BY ClientPacketFacts DEF ClientPackets
    <2>2. <<>> \in Seq(ClientPackets)
      OBVIOUS
    <2> HIDE DEF hello, ClientPackets
    <2> QED BY <2>1, <2>2, AddTalk
  <1> HIDE DEF hello, before, ClientPackets
  <1>6. /\ c2s' \in [Conns -> Seq(ClientPackets)]
        /\ c2s'[d] = <<hello>>
        /\ \A c \in Conns : c # d => c2s'[c] = before[c]
    BY <1>2, <1>4, <1>5
  <1>7. ClientsTalk'
    BY <1>6 DEF ClientsTalk, ClientPackets
  <1>8. SocketsTypeOK'
    <2>1. c2s' \in [Conns -> Seq(Packets)]
      BY <1>6, ClientTalkIsTalk
    <2>2. backlog' \in Seq(Conns)
      BY <1>2, <1>3, AppendProperties
    <2>3. peer' \in [Conns -> {"unused", "open", "fin", "reset"}]
      BY <1>2, <1>3
    <2>4. sent' \in 0 .. MaxSent
      BY <1>2, <1>3, MaxSentAssumption
    <2> QED BY <1>2, <1>3, <2>1, <2>2, <2>3, <2>4 DEF SocketsTypeOK
  <1>9. \A c \in Conns :
        /\ peer[c] # "unused" => peer'[c] # "unused"
        /\ peer[c] \in {"fin", "reset"} => peer'[c] # "open"
        /\ peer[c] = "reset" => peer'[c] = "reset"
        /\ peer[c] = "unused" => c = d \/ peer'[c] = "unused"
        /\ peer'[c] = "open" => c = d \/ (peer[c] = "open" /\ c # connection[u])
    BY <1>2, <1>3
  <1>10. peer'[d] # "unused"
    BY <1>2
  <1>11. PeersMove
    BY <1>2, <1>4, <1>5, <1>6, <1>8, <1>9, <1>10 DEF PeersMove
  <1>12. UsersTyped'
    BY <1>2, ConfiguredAssumption DEF ChatInv, UsersTyped
  <1>13. GoodbyeMeansGone'
    <2>1. ASSUME NEW c \in Conns, peer'[c] = "open" PROVE NoFarewell(c2s'[c])
      <3>1. CASE c = d
        BY <1>5, <1>6, <3>1
      <3>2. CASE c # d
        <4>1. c2s'[c] = c2s[c] /\ peer[c] = "open"
          BY <1>4, <1>6, <1>9, <2>1, <3>2
        <4> QED BY <4>1 DEF ChatInv, GoodbyeMeansGone
      <3> QED BY <3>1, <3>2
    <2> QED BY <2>1 DEF GoodbyeMeansGone, NoFarewell, Disconnect
  <1> QED BY <1>7, <1>11, <1>12, <1>13 DEF UsersMove

LEMMA ExitMoves ==
    ASSUME ChatInv, NEW u \in Users, Exit(u), UNCHANGED serverVars
    PROVE  UsersMove
  <1> DEFINE after == IF Connected(u) THEN Closed(u, c2s) ELSE c2s
  <1>1. /\ peer' = [c \in Conns |->
                    IF (c = connection[u] \/ c \in leaked[u]) /\ peer[c] = "open"
                    THEN "fin" ELSE peer[c]]
        /\ c2s' = after
        /\ connection' = [connection EXCEPT ![u] = NoConn]
        /\ UNCHANGED <<backlog, s2c, await_nick>>
        /\ sent < MaxSent /\ sent' = sent + 1
    BY DEF Exit, Act
  <1>2. /\ peer \in [Conns -> {"unused", "open", "fin", "reset"}]
        /\ c2s \in [Conns -> Seq(ClientPackets)]
        /\ sent' \in 0 .. MaxSent
    BY <1>1, MaxSentAssumption DEF ChatInv, ServerInv, TypeOK, SocketsTypeOK, ClientsTalk
  <1>3. /\ after \in [Conns -> Seq(ClientPackets)]
        /\ \A c \in Conns : c2s[c] # <<>> => after[c] # <<>>
        /\ \A c \in Conns : c # connection[u] => after[c] = c2s[c]
    BY <1>2, Closing
  <1> HIDE DEF after
  <1>4. /\ peer' \in [Conns -> {"unused", "open", "fin", "reset"}]
        /\ \A c \in Conns : /\ peer[c] = "unused" <=> peer'[c] = "unused"
                            /\ peer[c] \in {"fin", "reset"} => peer'[c] # "open"
                            /\ peer[c] = "reset" => peer'[c] = "reset"
                            /\ peer'[c] = "open" => peer[c] = "open" /\ c # connection[u]
    BY <1>1, <1>2
  <1>5. ClientsTalk'
    BY <1>1, <1>3 DEF ClientsTalk, ClientPackets
  <1>6. PeersMove
    BY <1>1, <1>2, <1>3, <1>4, <1>5, NoCalls
  <1>7. UsersTyped'
    BY <1>1 DEF ChatInv, UsersTyped
  <1>8. GoodbyeMeansGone'
    BY <1>1, <1>3, <1>4 DEF ChatInv, GoodbyeMeansGone, NoFarewell, Disconnect
  <1> QED BY <1>5, <1>6, <1>7, <1>8 DEF UsersMove

LEMMA TaskMoves ==
    ASSUME ChatInv, NEW u \in Users, RunTask(u), UNCHANGED serverVars
    PROVE  UsersMove
  <1>1. sent \in 0 .. MaxSent
    BY DEF ChatInv, ServerInv, TypeOK, SocketsTypeOK
  <1>2. CASE TaskUnreadable(u)
    <2>1. /\ UNCHANGED <<sockets, await_nick>>
          /\ connection' = [connection EXCEPT ![u] = NoConn]
      BY <1>2 DEF TaskUnreadable
    <2>2. connection' \in [Users -> Conns \cup {NoConn}]
      BY <2>1 DEF ChatInv, UsersTyped
    <2> QED BY <1>1, <2>1, <2>2, StillMoves DEF sockets
  <1>3. ASSUME NEW p, TaskConsume(u, p) \/ TaskShow(u, p)
        PROVE  UsersMove
    <2>1. UNCHANGED <<sockets, connection, await_nick>>
      BY <1>3 DEF TaskConsume, TaskShow
    <2>2. connection' \in [Users -> Conns \cup {NoConn}]
      BY <2>1 DEF ChatInv, UsersTyped
    <2> QED BY <1>1, <2>1, <2>2, StillMoves DEF sockets
  <1>4. ASSUME NEW p, TaskSetProto(u, p)
        PROVE  UsersMove
    <2>1. /\ UNCHANGED <<peer, backlog, s2c, sent, connection, await_nick>>
          /\ Connected(u)
          /\ \/ c2s' = c2s
             \/ /\ await_nick[u] # NoNick
                /\ c2s' = [c2s EXCEPT ![connection[u]] = Append(@, SetNickname(await_nick[u]))]
      BY <1>4 DEF TaskSetProto, Task, Pending
    <2>2. CASE c2s' = c2s
      <3>1. connection' \in [Users -> Conns \cup {NoConn}]
        BY <2>1 DEF ChatInv, UsersTyped
      <3> QED BY <1>1, <2>1, <2>2, <3>1, StillMoves
    <2>3. CASE /\ await_nick[u] # NoNick
               /\ c2s' = [c2s EXCEPT ![connection[u]] = Append(@, SetNickname(await_nick[u]))]
      <3>1. PICK d, n : d = connection[u] /\ n = await_nick[u]
        OBVIOUS
      <3>2. d \in Conns /\ n \in Nicks
        BY <2>1, <2>3, <3>1, SendersFacts DEF ChatInv, UsersTyped
      <3> DEFINE p0 == SetNickname(n)
      <3>3. p0 \in ClientPackets /\ p0 # Disconnect
        BY <3>2, ClientPacketFacts DEF ClientPackets
      <3>4. c2s' = [c2s EXCEPT ![d] = Append(@, p0)]
        BY <2>3, <3>1
      <3> HIDE DEF p0, ClientPackets
      <3>5. Append(c2s[d], p0) = c2s[d] \o <<p0>>
        <4>1. c2s[d] \in Seq(ClientPackets)
          BY <3>2 DEF ChatInv, ClientsTalk
        <4> QED BY <3>3, <4>1, AddTalk
      <3>6. c2s' = [c2s EXCEPT ![d] = @ \o <<p0>>]
        BY <3>4, <3>5
      <3> QED BY <1>1, <2>1, <3>2, <3>3, <3>6, SendMoves
    <2> QED BY <2>1, <2>2, <2>3
  <1>5. ASSUME NEW p, TaskDisconnect(u, p)
        PROVE  UsersMove
    BY <1>1, <1>5, LeaveMoves DEF TaskDisconnect, Task, Pending
  <1> QED BY <1>2, <1>3, <1>4, <1>5 DEF RunTask

\* Every step of a user or a client.
LEMMA ClientMoves ==
    ASSUME ChatInv, NEW u \in Users, ClientStep(u)
    PROVE  UsersMove
  <1>1. UNCHANGED serverVars /\ ((Running /\ Click(u)) \/ UserAction(u) \/ RunTask(u))
    BY DEF ClientStep
  <1>2. sent \in 0 .. MaxSent /\ MaxSent \in Nat
    BY MaxSentAssumption DEF ChatInv, ServerInv, TypeOK, SocketsTypeOK
  <1>3. CASE ServerButtonFails(u)
    <2>1. /\ Connected(u) /\ Leave(u) /\ sent' \in 0 .. MaxSent
          /\ UNCHANGED <<backlog, s2c, await_nick>>
      BY <1>2, <1>3 DEF ServerButtonFails, Act
    <2> QED BY <1>1, <2>1, LeaveMoves
  <1>4. ASSUME NEW p \in ClientPackets, p # Disconnect,
               Connected(u), Act,
               c2s' = [c2s EXCEPT ![connection[u]] = @ \o Sent(u, p)],
               UNCHANGED <<peer, backlog, s2c, clientVars>>
        PROVE  UsersMove
    <2>1. PICK d, t : d = connection[u] /\ t = Sent(u, p)
      OBVIOUS
    <2>2. d \in Conns /\ t \in {<<>>, <<p>>} /\ c2s' = [c2s EXCEPT ![d] = @ \o t]
      <3> HIDE DEF ClientPackets
      <3> QED BY <1>4, <2>1, SendersFacts
    <2>3. UNCHANGED <<connection, await_nick>> /\ sent' \in 0 .. MaxSent
      BY <1>2, <1>4 DEF clientVars, Act
    <2> HIDE DEF ClientPackets
    <2> QED BY <1>1, <1>4, <2>2, <2>3, SendMoves
  <1>5. ASSUME NEW m \in Msgs, MessageSubmit(u, m)
        PROVE  UsersMove
    <2>1. SendMessage(m) \in ClientPackets /\ SendMessage(m) # Disconnect
      BY ClientPacketFacts DEF ClientPackets
    <2> HIDE DEF ClientPackets
    <2> QED BY <1>4, <1>5, <2>1 DEF MessageSubmit
  <1>6. ASSUME NEW n \in Nicks, NicknameSubmit(u, n)
        PROVE  UsersMove
    <2>1. SetNickname(n) \in ClientPackets /\ SetNickname(n) # Disconnect
      BY ClientPacketFacts DEF ClientPackets
    <2> HIDE DEF ClientPackets
    <2> QED BY <1>4, <1>6, <2>1 DEF NicknameSubmit
  <1>7. CASE Exit(u)
    BY <1>1, <1>7, ExitMoves
  <1>8. CASE Running /\ Click(u)
    BY <1>1, <1>8, ClickMoves
  <1>9. CASE RunTask(u)
    BY <1>1, <1>9, TaskMoves
  <1> QED BY <1>1, <1>3, <1>5, <1>6, <1>7, <1>8, <1>9 DEF UserAction

\* A reset that arrives.
LEMMA ResetMoves ==
    ASSUME ChatInv, NEW d \in Conns, ResetArrives(d)
    PROVE  UsersMove
  <1>1. /\ peer[d] = "fin" /\ peer' = [peer EXCEPT ![d] = "reset"]
        /\ UNCHANGED <<serverVars, backlog, c2s, s2c, sent, connection, await_nick>>
    BY DEF ResetArrives, PeerReset, clientVars
  <1>2. /\ peer \in [Conns -> {"unused", "open", "fin", "reset"}] /\ sent \in 0 .. MaxSent
    BY DEF ChatInv, ServerInv, TypeOK, SocketsTypeOK
  <1>3. ClientsTalk' /\ UsersTyped'
    BY <1>1 DEF ChatInv, ClientsTalk, ClientPackets, UsersTyped
  <1>4. PeersMove
    BY <1>1, <1>2, <1>3, NoCalls
  <1>5. GoodbyeMeansGone'
    BY <1>1, <1>2 DEF ChatInv, GoodbyeMeansGone, NoFarewell, Disconnect
  <1> QED BY <1>3, <1>4, <1>5 DEF UsersMove

\* Where a backlog may come from.
LEMMA BacklogGrows ==
    ASSUME ServerInv, PeersMove
    PROVE  /\ backlog' \in Seq(Conns)
           /\ DOMAIN backlog \subseteq DOMAIN backlog'
           /\ \A i \in DOMAIN backlog : backlog[i] \in Conns /\ backlog'[i] = backlog[i]
           /\ \A c \in Conns : peer[c] = "unused" /\ peer'[c] # "unused" =>
                    \E i \in DOMAIN backlog' : backlog'[i] = c
           /\ \A i, j \in DOMAIN backlog' : backlog'[i] = backlog'[j] => i = j
           /\ \A i \in DOMAIN backlog' :
                /\ peer'[backlog'[i]] # "unused"
                /\ i \notin DOMAIN backlog => peer[backlog'[i]] = "unused"
           /\ backlog # <<>> => backlog' # <<>>
  <1>1. backlog \in Seq(Conns) /\ Len(backlog) \in Nat /\ DOMAIN backlog = 1 .. Len(backlog)
    BY LenProperties DEF ServerInv, TypeOK, SocketsTypeOK
  <1>2. \A i \in DOMAIN backlog : backlog[i] \in Conns /\ peer[backlog[i]] # "unused"
    BY <1>1, ElementOfSeq DEF ServerInv, BacklogFresh
  <1>3. \A c \in Conns : peer[c] # "unused" => peer'[c] # "unused"
    BY DEF PeersMove
  <1>4. \A i, j \in DOMAIN backlog : backlog[i] = backlog[j] => i = j
    BY DEF ServerInv, BacklogFresh
  <1>5. CASE backlog' = backlog /\ \A c \in Conns : peer[c] = "unused" => peer'[c] = "unused"
    BY <1>1, <1>2, <1>3, <1>4, <1>5
  <1>6. CASE \E c \in Conns :
                /\ peer[c] = "unused" /\ peer'[c] # "unused"
                /\ backlog' = Append(backlog, c)
                /\ \A d \in Conns : peer[d] = "unused" => d = c \/ peer'[d] = "unused"
    <2>1. PICK c \in Conns :
                /\ peer[c] = "unused" /\ peer'[c] # "unused"
                /\ backlog' = Append(backlog, c)
                /\ \A d \in Conns : peer[d] = "unused" => d = c \/ peer'[d] = "unused"
      BY <1>6
    <2>2. /\ backlog' \in Seq(Conns) /\ backlog' # <<>>
          /\ Len(backlog') = Len(backlog) + 1
          /\ backlog'[Len(backlog) + 1] = c
          /\ \A i \in 1 .. Len(backlog) : backlog'[i] = backlog[i]
      BY <1>1, <2>1, AppendProperties
    <2>3. DOMAIN backlog' = 1 .. Len(backlog) + 1
      BY <2>2, LenProperties
    <2>4. DOMAIN backlog \subseteq DOMAIN backlog'
      BY <1>1, <2>3
    <2>5. \A i \in DOMAIN backlog' : i \in DOMAIN backlog \/ (i = Len(backlog) + 1 /\ backlog'[i] = c)
      BY <1>1, <2>2, <2>3
    <2>6. \A i \in DOMAIN backlog : backlog[i] # c
      BY <1>2, <2>1
    <2>7. \A i \in DOMAIN backlog : backlog'[i] = backlog[i]
      BY <1>1, <2>2
    <2>8. Len(backlog) + 1 \in DOMAIN backlog'
      BY <1>1, <2>3
    <2>9. \A i, j \in DOMAIN backlog' : backlog'[i] = backlog'[j] => i = j
      BY <1>4, <2>5, <2>6, <2>7
    <2>10. \A i \in DOMAIN backlog' :
                /\ peer'[backlog'[i]] # "unused"
                /\ i \notin DOMAIN backlog => peer[backlog'[i]] = "unused"
      BY <1>2, <1>3, <2>1, <2>5, <2>7
    <2>11. \A d \in Conns : peer[d] = "unused" /\ peer'[d] # "unused" =>
                    \E i \in DOMAIN backlog' : backlog'[i] = d
      BY <2>1, <2>2, <2>8
    <2> QED BY <1>2, <2>2, <2>4, <2>7, <2>9, <2>10, <2>11
  <1> QED BY <1>5, <1>6 DEF PeersMove

\* The server's invariants do not depend on what clients do.
LEMMA MovesServerInv ==
    ASSUME ServerInv, PeersMove
    PROVE  ServerInv'
  <1> USE DEF ServerInv
  <1>1. UNCHANGED <<phase, scan, pollfds, pollfd_count, clients, fdtab, lifo, at_exit>>
    BY DEF PeersMove, serverVars
  <1>2. SocketsTypeOK'
    BY DEF PeersMove
  <1>3. \A fd \in Fds : fdtab[fd] \in Conns \cup {NoConn}
    BY DEF TypeOK, ServerTypeOK
  <1>4. BacklogFresh'
    <2>1. /\ \A i, j \in DOMAIN backlog' : backlog'[i] = backlog'[j] => i = j
          /\ \A i \in DOMAIN backlog' : peer'[backlog'[i]] # "unused"
      BY BacklogGrows
    <2>2. ASSUME NEW i \in DOMAIN backlog', NEW fd \in Fds
          PROVE  fdtab[fd] # backlog'[i]
      <3>1. CASE i \in DOMAIN backlog
        BY <3>1, BacklogGrows DEF BacklogFresh
      <3>2. CASE i \notin DOMAIN backlog
        <4>1. peer[backlog'[i]] = "unused" /\ backlog'[i] \in Conns
          <5>1. backlog' \in Seq(Conns)
            BY BacklogGrows
          <5>2. backlog'[i] \in Conns
            BY <5>1, LenProperties, ElementOfSeq
          <5> QED BY <3>2, <5>2, BacklogGrows
        <4> QED BY <4>1, ConnsAssumption DEF BacklogFresh
      <3> QED BY <3>1, <3>2
    <2>3. \A fd \in Fds : fdtab[fd] # NoConn => peer'[fdtab[fd]] # "unused"
      BY <1>3 DEF BacklogFresh, PeersMove
    <2> QED BY <1>1, <2>1, <2>2, <2>3 DEF BacklogFresh, Fds, Capacity
  <1>5. AcceptReady'
    BY <1>1, BacklogGrows DEF AcceptReady
  <1> QED BY <1>1, <1>2, <1>4, <1>5
    DEF TypeOK, ServerTypeOK, ClientsDistinct, ScanBounds, ListenerNeverLost, FdsInOrder,
        ListenerPolled, DescriptorsMatchClients, MirroredWhileLifo, Running, client_count,
        Slots, Fds, Capacity, Listener

LEMMA MovesFarewellInv ==
    ASSUME ServerInv, FarewellInv, PeersMove
    PROVE  FarewellInv'
  <1>1. UNCHANGED s2c /\ \A fd \in Fds : fdtab'[fd] \in {fdtab[fd], NoConn}
    BY DEF PeersMove, serverVars
  <1>2. \A c \in Conns : peer'[c] = "unused" => peer[c] = "unused"
    BY DEF PeersMove
  <1>3. \A i \in DOMAIN backlog' :
            (\E j \in DOMAIN backlog : backlog[j] = backlog'[i]) \/ peer[backlog'[i]] = "unused"
    BY BacklogGrows
  <1> QED BY <1>1, <1>2, <1>3, SilentFarewell

\* Steps of users, clients and the network.
LEMMA MovesChatInv == ChatInv /\ UsersMove => ChatInv'
  <1> SUFFICES ASSUME ChatInv, UsersMove PROVE ChatInv'
    OBVIOUS
  <1> USE DEF UsersMove
  <1>1. UNCHANGED <<phase, scan, pollfds, pollfd_count, clients, fdtab, lifo, at_exit>>
    BY DEF PeersMove, serverVars
  <1>2. ServerInv' /\ FarewellInv'
    BY MovesServerInv, MovesFarewellInv DEF ChatInv
  <1>3. PlainClients'
    BY <1>1 DEF ChatInv, PlainClients
  <1>4. StillTrue'
    <2> SUFFICES ASSUME lifo, phase = "scan", NEW k \in 1 .. Len(clients), k >= scan
                 PROVE  /\ pollfds[k].revents = "lost" => peer'[fdtab[clients[k].fd]] = "reset"
                        /\ pollfds[k].revents = "in" =>
                            \/ c2s'[fdtab[clients[k].fd]] # <<>>
                            \/ peer'[fdtab[clients[k].fd]] # "open"
      BY <1>1 DEF StillTrue
    <2> DEFINE c == fdtab[clients[k].fd]
    <2>1. c \in Conns /\ peer[c] # "unused"
      <3>1. k \in DOMAIN clients /\ clients[k] \in ClientRecord
        BY LenProperties, ElementOfSeq DEF ChatInv, ServerInv, TypeOK, ServerTypeOK
      <3>2. clients[k].fd \in {fd \in Fds : fdtab[fd] # NoConn}
        BY <3>1 DEF ChatInv, ServerInv, DescriptorsMatchClients, Running
      <3> QED BY <3>2 DEF ChatInv, ServerInv, TypeOK, ServerTypeOK, BacklogFresh
    <2>2. /\ pollfds[k].revents = "lost" => peer[c] = "reset"
          /\ pollfds[k].revents = "in" => c2s[c] # <<>> \/ peer[c] # "open"
      BY DEF ChatInv, StillTrue
    <2>3. peer[c] \in {"unused", "open", "fin", "reset"}
      BY <2>1 DEF ChatInv, ServerInv, TypeOK, SocketsTypeOK
    <2> HIDE DEF c
    <2>4. /\ pollfds[k].revents = "lost" => peer'[c] = "reset"
          /\ pollfds[k].revents = "in" => c2s'[c] # <<>> \/ peer'[c] # "open"
      BY <2>1, <2>2, <2>3 DEF PeersMove
    <2> QED BY <2>4 DEF c
  <1>5. OpenIsServed'
    <2> SUFFICES ASSUME lifo, Running, NEW c \in Conns, peer'[c] = "open"
                 PROVE  Alive(c)'
      BY <1>1 DEF OpenIsServed, Running
    <2>1. peer[c] \in {"unused", "open", "fin", "reset"}
      BY DEF ChatInv, ServerInv, TypeOK, SocketsTypeOK
    <2>2. CASE peer[c] = "unused"
      <3>1. \E i \in DOMAIN backlog' : backlog'[i] = c
        BY <2>2, BacklogGrows DEF ChatInv
      <3> QED BY <3>1 DEF Alive
    <2>3. CASE peer[c] = "open"
      <3>1. Alive(c)
        BY <2>3 DEF ChatInv, OpenIsServed
      <3>2. \A i \in DOMAIN backlog : i \in DOMAIN backlog' /\ backlog'[i] = backlog[i]
        BY BacklogGrows DEF ChatInv
      <3> QED BY <1>1, <2>3, <3>1, <3>2 DEF Alive, Fds, Capacity
    <2> QED BY <2>1, <2>2, <2>3 DEF PeersMove
  <1> QED BY <1>2, <1>3, <1>4, <1>5 DEF ChatInv

-----------------------------------------------------------------------------
(* The steps of the server.                                                *)

\* The server reads packets or closes; clients are left alone.
Reads ==
    /\ peer' = peer
    /\ \A c \in Conns : \/ c2s'[c] \in {c2s[c], <<>>}
                        \/ c2s[c] # <<>> /\ c2s'[c] = Tail(c2s[c])

ServerMove == Reads /\ PlainClients' /\ StillTrue' /\ OpenIsServed'

LEMMA ReadsTalk ==
    ASSUME ChatInv, Reads, c2s' \in [Conns -> Seq(Packets)]
    PROVE  ClientsTalk' /\ GoodbyeMeansGone'
  <1> HIDE DEF ClientPackets, Packets
  <1>1. ASSUME NEW c \in Conns
        PROVE  /\ c2s'[c] \in Seq(ClientPackets)
               /\ NoFarewell(c2s[c]) => NoFarewell(c2s'[c])
    <2>1. c2s[c] \in Seq(ClientPackets)
      BY DEF ChatInv, ClientsTalk
    <2>2. PICK s, t : s = c2s[c] /\ t = c2s'[c]
      OBVIOUS
    <2>3. t = s \/ t = <<>> \/ (s # <<>> /\ t = Tail(s))
      BY <2>2 DEF Reads
    <2>4. s \in Seq(ClientPackets)
      BY <2>1, <2>2
    <2>5. CASE t = s
      BY <2>2, <2>4, <2>5
    <2>6. CASE t = <<>>
      BY <2>2, <2>6, FarewellShort
    <2>7. CASE s # <<>> /\ t = Tail(s)
      <3>1. /\ t \in Seq(ClientPackets) /\ Len(t) = Len(s) - 1
            /\ \A i \in 1 .. Len(t) : t[i] = s[i + 1]
        BY <2>4, <2>7, HeadTailProperties
      <3>2. Len(s) \in Nat /\ \A i \in 1 .. Len(t) : i + 1 \in 1 .. Len(s)
        BY <2>4, <3>1, LenProperties
      <3>3. NoFarewell(s) => NoFarewell(t)
        BY <3>1, <3>2 DEF NoFarewell
      <3> QED BY <2>2, <3>1, <3>3
    <2> QED BY <2>3, <2>5, <2>6, <2>7
  <1>2. ClientsTalk'
    BY <1>1 DEF ClientsTalk, ClientPackets
  <1>3. GoodbyeMeansGone'
    <2>1. ASSUME NEW c \in Conns, peer'[c] = "open" PROVE NoFarewell(c2s'[c])
      BY <1>1, <2>1 DEF Reads, ChatInv, GoodbyeMeansGone
    <2> QED BY <2>1 DEF GoodbyeMeansGone, NoFarewell, Disconnect
  <1> QED BY <1>2, <1>3

\* While pollfds mirrors clients the scan is at the client it finds.
LEMMA ScanIsAt ==
    ASSUME ChatInv, lifo, phase = "scan", scan < pollfd_count
    PROVE  /\ scan \in 1 .. Len(clients)
           /\ Here = clients[scan].fd
           /\ \A k \in ClientIds(Here) : k = scan
  <1>1. clients \in Seq(ClientRecord) /\ scan \in Nat /\ scan >= 1
    BY DEF ChatInv, ServerInv, TypeOK, ServerTypeOK, ScanBounds
  <1>2. DOMAIN clients = 1 .. Len(clients) /\ Len(clients) \in Nat
    BY <1>1, LenProperties
  <1>3. /\ pollfd_count = Len(clients) + 1
        /\ \A k \in DOMAIN clients : pollfds[k].fd = clients[k].fd
    BY DEF ChatInv, ServerInv, MirroredWhileLifo, Running, client_count
  <1>4. scan \in 1 .. Len(clients)
    BY <1>1, <1>2, <1>3
  <1>5. Here = clients[scan].fd
    BY <1>2, <1>3, <1>4 DEF Here
  <1>6. \A k \in ClientIds(Here) : k = scan
    BY <1>2, <1>4, <1>5 DEF ClientIds, client_count, ChatInv, ServerInv, ClientsDistinct
  <1> QED BY <1>4, <1>5, <1>6

\* Clients other than the visited one have other connections.
LEMMA OthersElsewhere ==
    ASSUME ChatInv, phase = "scan", NEW j \in 1 .. Len(clients), NEW k \in 1 .. Len(clients),
           j # k
    PROVE  /\ clients[j].fd # clients[k].fd
           /\ fdtab[clients[j].fd] # fdtab[clients[k].fd]
  <1>1. DOMAIN clients = 1 .. Len(clients) /\ clients[j] \in ClientRecord /\ clients[k] \in ClientRecord
    BY LenProperties, ElementOfSeq DEF ChatInv, ServerInv, TypeOK, ServerTypeOK
  <1>2. clients[j].fd # clients[k].fd
    BY <1>1 DEF ChatInv, ServerInv, ClientsDistinct
  <1>3. clients[j].fd \in {fd \in Fds : fdtab[fd] # NoConn} /\ clients[k].fd \in Fds
    BY <1>1 DEF ChatInv, ServerInv, DescriptorsMatchClients, Running, ClientRecord
  <1>4. fdtab[clients[j].fd] # fdtab[clients[k].fd]
    BY <1>2, <1>3 DEF ChatInv, ServerInv, DescriptorsMatchClients, Running
  <1> QED BY <1>2, <1>4

\* The handlers that read a packet and go on with the same descriptors.
LEMMA ReadMove ==
    ASSUME ChatInv, NEW k, NEW p, VisitPacket(k, p), Consume,
           UNCHANGED <<pollfds, pollfd_count, fdtab, lifo>>,
           Len(clients') = Len(clients),
           \A j \in 1 .. Len(clients) :
                /\ clients'[j].fd = clients[j].fd
                /\ clients'[j].version = 1 /\ clients'[j].state # 1
    PROVE  ServerMove
  <1>1. /\ phase = "scan" /\ scan' = scan + 1 /\ scan < pollfd_count
        /\ UNCHANGED <<phase, peer, backlog>>
        /\ c2s[fdtab[Here]] # <<>>
        /\ fdtab[Here] \in Conns
    BY VisitPacketFacts DEF VisitPacket, Visit, ChatInv
  <1>2. \A c \in Conns : c2s'[c] = IF c = fdtab[Here] THEN Tail(c2s[c]) ELSE c2s[c]
    BY <1>1 DEF Consume, ChatInv, ServerInv, TypeOK, SocketsTypeOK
  <1>3. Reads
    BY <1>1, <1>2 DEF Reads
  <1>4. PlainClients'
    BY DEF PlainClients
  <1>5. OpenIsServed'
    BY <1>1 DEF ChatInv, OpenIsServed, Running, Alive, Fds, Capacity
  <1>6. StillTrue'
    <2> SUFFICES ASSUME lifo, NEW j \in 1 .. Len(clients), j >= scan + 1
                 PROVE  /\ pollfds[j].revents = "lost" => peer[fdtab[clients[j].fd]] = "reset"
                        /\ pollfds[j].revents = "in" =>
                            \/ c2s'[fdtab[clients[j].fd]] # <<>>
                            \/ peer[fdtab[clients[j].fd]] # "open"
      BY <1>1 DEF StillTrue
    <2>1. scan \in 1 .. Len(clients) /\ Here = clients[scan].fd
      BY <1>1, ScanIsAt
    <2>2. j >= scan /\ j # scan
      BY <2>1
    <2>3. fdtab[clients[j].fd] # fdtab[Here]
      BY <1>1, <2>1, <2>2, OthersElsewhere
    <2>4. fdtab[clients[j].fd] \in Conns
      <3>1. j \in DOMAIN clients /\ clients[j] \in ClientRecord
        BY LenProperties, ElementOfSeq DEF ChatInv, ServerInv, TypeOK, ServerTypeOK
      <3>2. clients[j].fd \in {fd \in Fds : fdtab[fd] # NoConn}
        BY <1>1, <3>1 DEF ChatInv, ServerInv, DescriptorsMatchClients, Running
      <3> QED BY <3>2 DEF ChatInv, ServerInv, TypeOK, ServerTypeOK
    <2>5. c2s'[fdtab[clients[j].fd]] = c2s[fdtab[clients[j].fd]]
      BY <1>2, <2>3, <2>4
    <2> QED BY <1>1, <2>2, <2>5 DEF ChatInv, StillTrue
  <1> QED BY <1>3, <1>4, <1>5, <1>6 DEF ServerMove

\* disconnect_client for the visited client, which is not open any more.
LEMMA DropMove ==
    ASSUME ChatInv, phase = "scan", scan < pollfd_count, NEW k \in ClientIds(Here),
           NEW notify, NEW left, DisconnectClient(k, notify, left),
           UNCHANGED <<phase, peer, backlog>>, scan' = scan + 1,
           lifo => peer[fdtab[Here]] # "open"
    PROVE  ServerMove
  <1>1. /\ k \in 1 .. client_count /\ Here = clients[k].fd /\ Here \in Fds
        /\ fdtab[Here] \in Conns
    BY VisitedClient DEF ChatInv
  <1>2. /\ clients' = RemoveClient(k)
        /\ c2s' = [c2s EXCEPT ![fdtab[Here]] = <<>>]
        /\ fdtab' = [fdtab EXCEPT ![Here] = NoConn]
        /\ lifo' = (lifo /\ k = client_count)
    BY <1>1 DEF DisconnectClient
  <1>3. /\ Len(clients') = client_count - 1
        /\ \A j \in 1 .. client_count - 1 :
            clients'[j] = IF j < k THEN clients[j] ELSE clients[j + 1]
        /\ client_count \in Nat
    BY <1>1, <1>2, RemoveClientFacts, LenProperties
    DEF ChatInv, ServerInv, TypeOK, ServerTypeOK, client_count
  <1>4. Reads
    BY <1>1, <1>2 DEF Reads, ChatInv, ServerInv, TypeOK, SocketsTypeOK
  <1>5. PlainClients'
    <2> SUFFICES ASSUME NEW j \in 1 .. client_count - 1
                 PROVE  clients'[j].version = 1 /\ clients'[j].state # 1
      BY <1>3 DEF PlainClients
    <2>1. clients'[j] = IF j < k THEN clients[j] ELSE clients[j + 1]
      BY <1>3
    <2>2. j \in 1 .. client_count /\ j + 1 \in 1 .. client_count
      BY <1>3
    <2> QED BY <2>1, <2>2 DEF ChatInv, PlainClients, client_count
  <1>6. StillTrue'
    <2> SUFFICES ASSUME lifo, k = client_count, NEW j \in 1 .. client_count - 1, j >= scan + 1
                 PROVE  FALSE
      BY <1>2, <1>3 DEF StillTrue
    <2>1. k = scan
      BY ScanIsAt
    <2> QED BY <1>3, <2>1
  <1>7. OpenIsServed'
    <2> SUFFICES ASSUME lifo, NEW c \in Conns, peer[c] = "open"
                 PROVE  Alive(c)'
      BY <1>2 DEF OpenIsServed
    <2>1. Alive(c) /\ c # fdtab[Here]
      BY DEF ChatInv, OpenIsServed, Running
    <2>2. c # NoConn
      BY ConnsAssumption
    <2>3. \A fd \in Fds : fdtab'[fd] = IF fd = Here THEN NoConn ELSE fdtab[fd]
      BY <1>2 DEF ChatInv, ServerInv, TypeOK, ServerTypeOK
    <2> QED BY <2>1, <2>2, <2>3 DEF Alive, Fds, Capacity
  <1> QED BY <1>4, <1>5, <1>6, <1>7 DEF ServerMove

LEMMA UpdateMove ==
    ASSUME ChatInv, NEW k, NEW p, VisitPacket(k, p), NEW client, NEW packets,
           Update(k, client, packets),
           client.fd = clients[k].fd, client.version = 1, client.state # 1,
           client \in ClientRecord
    PROVE  ServerMove
  <1>1. /\ clients' = [clients EXCEPT ![k] = client]
        /\ Consume
        /\ UNCHANGED <<pollfds, pollfd_count, fdtab, lifo>>
    BY DEF Update
  <1>2. clients \in Seq(ClientRecord) /\ k \in 1 .. Len(clients)
    BY VisitPacketFacts DEF ChatInv, ServerInv, TypeOK, ServerTypeOK, client_count
  <1>3. Len(clients') = Len(clients) /\ DOMAIN clients = 1 .. Len(clients)
    BY <1>1, <1>2, ExceptSeq, LenProperties
  <1>4. ASSUME NEW j \in 1 .. Len(clients)
        PROVE  /\ clients'[j].fd = clients[j].fd
               /\ clients'[j].version = 1 /\ clients'[j].state # 1
    <2>1. clients'[j] = IF j = k THEN client ELSE clients[j]
      BY <1>1, <1>3, <1>4
    <2>2. clients[j].version = 1 /\ clients[j].state # 1
      BY DEF ChatInv, PlainClients
    <2> QED BY <2>1, <2>2
  <1> QED BY <1>1, <1>3, <1>4, ReadMove

\* What HELLO, SET_NICKNAME and set_nickname leave of a client.
LEMMA RenamedIsPlain ==
    ASSUME NEW client \in ClientRecord, NEW n \in Names
    PROVE  /\ Renamed(client, n) \in ClientRecord
           /\ Renamed(client, n).fd = client.fd
           /\ Renamed(client, n).version = client.version
           /\ Renamed(client, n).state = client.state
  BY DEF Renamed, ClientRecord

LEMMA SelectedIsPlain ==
    ASSUME NEW client \in ClientRecord, NEW selected,
           selected = [client EXCEPT !.version = 1, !.state = 2]
    PROVE  /\ selected \in ClientRecord /\ selected.fd = client.fd
           /\ selected.version = 1 /\ selected.state = 2
  <1> DEFINE versioned == [client EXCEPT !.version = 1]
  <1>1. versioned \in ClientRecord /\ versioned.fd = client.fd /\ versioned.version = 1
    BY VersionsAssumption DEF ClientRecord
  <1>2. selected = [versioned EXCEPT !.state = 2]
    OBVIOUS
  <1> HIDE DEF versioned
  <1> QED BY <1>1, <1>2 DEF ClientRecord

LEMMA HandlePacketMove == ChatInv /\ HandlePacket => ServerMove
  <1> SUFFICES ASSUME ChatInv, NEW k \in 1 .. client_count, NEW p,
                      \/ VisitHelloMaster(k, p)
                      \/ VisitHello(k, p)
                      \/ VisitHelloUnsupported(k, p)
                      \/ VisitSetProto(k, p)
                      \/ VisitSetNickname(k, p)
                      \/ VisitSendMessage(k, p)
                      \/ VisitDisconnect(k, p)
                      \/ VisitIgnored(k, p)
               PROVE  ServerMove
    BY DEF HandlePacket
  <1>1. VisitPacket(k, p)
    BY HandlersVisit
  <1>2. /\ clients[k] \in ClientRecord
        /\ fdtab[Here] \in Conns
        /\ phase = "scan" /\ scan' = scan + 1 /\ scan < pollfd_count
        /\ UNCHANGED <<phase, peer, backlog>>
        /\ k \in ClientIds(Here)
        /\ p \in Packets
        /\ c2s[fdtab[Here]] # <<>> /\ p = Head(c2s[fdtab[Here]])
    BY <1>1, VisitPacketFacts DEF ChatInv, VisitPacket, Visit
  <1>3. /\ clients[k].version = 1 /\ clients[k].state # 1
    BY DEF ChatInv, PlainClients, client_count
  <1>4. p \in ClientPackets
    <2>1. c2s[fdtab[Here]] \in Seq(ClientPackets)
      BY <1>2 DEF ChatInv, ClientsTalk
    <2> HIDE DEF ClientPackets
    <2> QED BY <1>2, <2>1, HeadTailProperties
  <1>5. /\ p.op \in {"HELLO", "DISCONNECT", "SEND_MESSAGE", "SET_NICKNAME"}
        /\ p.op = "HELLO" => ~p.master /\ p.protocols = {1}
        /\ p.op = "DISCONNECT" => p = Disconnect
    BY <1>4, ClientPacketFacts
  <1>6. CASE VisitHelloMaster(k, p)
    BY <1>5, <1>6 DEF VisitHelloMaster
  <1>7. CASE VisitHello(k, p)
    <2>1. PICK sel, selected :
            /\ sel \in Protocols
            /\ selected = [clients[k] EXCEPT !.version = sel, !.state = 2]
            /\ Update(k, Renamed(selected, Anon),
                      <<SetProto(sel)>> \o RenameReply(selected, Anon))
      BY <1>7, HandlersVisit, Zenon
    <2>2. sel = 1
      BY <2>1 DEF Protocols
    <2>3. /\ selected \in ClientRecord /\ selected.fd = clients[k].fd
          /\ selected.version = 1 /\ selected.state = 2
      BY <1>2, <2>1, <2>2, SelectedIsPlain
    <2>4. Anon \in Names
      BY DEF Names
    <2>5. /\ Renamed(selected, Anon) \in ClientRecord
          /\ Renamed(selected, Anon).fd = clients[k].fd
          /\ Renamed(selected, Anon).version = 1
          /\ Renamed(selected, Anon).state # 1
      BY <2>3, <2>4, RenamedIsPlain
    <2>6. PICK packets : Update(k, Renamed(selected, Anon), packets)
      BY <2>1
    <2> QED BY <1>1, <2>5, <2>6, UpdateMove
  <1>8. CASE VisitHelloUnsupported(k, p)
    BY <1>5, <1>8 DEF VisitHelloUnsupported, Protocols
  <1>9. CASE VisitSetProto(k, p)
    BY <1>5, <1>9 DEF VisitSetProto
  <1>10. CASE VisitSetNickname(k, p)
    <2>1. /\ Update(k, Renamed(clients[k], p.nickname), RenameReply(clients[k], p.nickname))
          /\ p.nickname \in Names
      BY <1>2, <1>10, PacketFields DEF VisitSetNickname
    <2>2. /\ Renamed(clients[k], p.nickname) \in ClientRecord
          /\ Renamed(clients[k], p.nickname).fd = clients[k].fd
          /\ Renamed(clients[k], p.nickname).version = 1
          /\ Renamed(clients[k], p.nickname).state # 1
      BY <1>2, <1>3, <2>1, RenamedIsPlain
    <2>3. PICK client, packets :
            client = Renamed(clients[k], p.nickname) /\ Update(k, client, packets)
      BY <2>1
    <2> QED BY <1>1, <2>2, <2>3, UpdateMove
  <1>11. CASE VisitSendMessage(k, p)
    <2>1. Consume /\ UNCHANGED <<clients, pollfds, pollfd_count, fdtab, lifo>>
      BY <1>11 DEF VisitSendMessage
    <2>2. \A j \in 1 .. Len(clients) : clients[j].version = 1 /\ clients[j].state # 1
      BY DEF ChatInv, PlainClients
    <2> QED BY <1>1, <2>1, <2>2, ReadMove
  <1>12. CASE VisitDisconnect(k, p)
    <2>1. DisconnectClient(k, FALSE, TRUE) /\ p = Disconnect
      BY <1>5, <1>12 DEF VisitDisconnect
    <2>2. peer[fdtab[Here]] # "open"
      <3>1. c2s[fdtab[Here]] \in Seq(ClientPackets)
        BY <1>2 DEF ChatInv, ClientsTalk
      <3> HIDE DEF ClientPackets
      <3>2. Len(c2s[fdtab[Here]]) \in Nat \ {0}
        BY <1>2, <3>1, EmptySeq, LenProperties
      <3>3. c2s[fdtab[Here]][1] = Disconnect /\ 1 \in 1 .. Len(c2s[fdtab[Here]])
        BY <1>2, <2>1, <3>2
      <3>4. ~NoFarewell(c2s[fdtab[Here]])
        BY <3>3 DEF NoFarewell
      <3> QED BY <1>2, <3>4 DEF ChatInv, GoodbyeMeansGone
    <2> QED BY <1>2, <2>1, <2>2, DropMove
  <1>13. CASE VisitIgnored(k, p)
    <2>1. Update(k, clients[k], <<>>)
      BY <1>13 DEF VisitIgnored
    <2>2. PICK client : client = clients[k]
      OBVIOUS
    <2> QED BY <1>1, <1>2, <1>3, <2>1, <2>2, UpdateMove
  <1> QED BY <1>6, <1>7, <1>8, <1>9, <1>10, <1>11, <1>12, <1>13

\* A client whose connection was lost, or at which nothing was to be read.
LEMMA VisitMove == ChatInv /\ (VisitLost \/ VisitMalformed) => ServerMove
  <1> SUFFICES ASSUME ChatInv, VisitLost \/ VisitMalformed PROVE ServerMove
    OBVIOUS
  <1>1. /\ phase = "scan" /\ scan' = scan + 1 /\ scan < pollfd_count
        /\ UNCHANGED <<phase, peer, backlog>>
    BY DEF VisitLost, VisitMalformed, Visit
  <1>2. CASE VisitLost
    <2>1. pollfds[scan].revents = "lost" /\ DisconnectSocket(Here, TRUE, FALSE)
      BY <1>2 DEF VisitLost, Visit
    <2>2. CASE ClientIds(Here) # {}
      <3>1. PICK k \in ClientIds(Here) : DisconnectClient(k, TRUE, FALSE)
        BY <2>1, <2>2 DEF DisconnectSocket
      <3>2. ASSUME lifo PROVE peer[fdtab[Here]] # "open"
        <4>1. scan \in 1 .. Len(clients) /\ Here = clients[scan].fd /\ scan >= scan
          BY <1>1, <3>2, ScanIsAt DEF ChatInv, ServerInv, TypeOK, ServerTypeOK
        <4> QED BY <1>1, <2>1, <3>2, <4>1 DEF ChatInv, StillTrue
      <3> QED BY <1>1, <3>1, <3>2, DropMove
    <2>3. CASE ClientIds(Here) = {}
      <3>1. lifo' = FALSE /\ UNCHANGED <<clients, c2s, fdtab>>
        <4>1. Running /\ Here \in Fds
          BY <1>2, LostDescriptor DEF ChatInv
        <4> QED BY <2>1, <2>3, <4>1, ClosedAgain DEF ChatInv
      <3>2. PlainClients' /\ Reads
        BY <1>1, <3>1 DEF ChatInv, PlainClients, Reads
      <3>3. StillTrue' /\ OpenIsServed'
        BY <3>1 DEF StillTrue, OpenIsServed
      <3> QED BY <3>2, <3>3 DEF ServerMove
    <2> QED BY <2>2, <2>3
  <1>3. CASE VisitMalformed
    <2>1. PICK k \in ClientIds(Here) :
            /\ clients[k].version # 1 \/ c2s[fdtab[Here]] = <<>>
            /\ DisconnectClient(k, TRUE, FALSE)
      BY <1>3 DEF VisitMalformed
    <2>2. pollfds[scan].revents = "in"
      BY <1>3 DEF VisitMalformed, Visit
    <2>3. c2s[fdtab[Here]] = <<>>
      BY <2>1 DEF ClientIds, client_count, ChatInv, PlainClients
    <2>4. ASSUME lifo PROVE peer[fdtab[Here]] # "open"
      <3>1. scan \in 1 .. Len(clients) /\ Here = clients[scan].fd /\ scan >= scan
        BY <1>1, <2>4, ScanIsAt DEF ChatInv, ServerInv, TypeOK, ServerTypeOK
      <3> QED BY <1>1, <2>2, <2>3, <2>4, <3>1 DEF ChatInv, StillTrue
    <2> QED BY <1>1, <2>1, <2>4, DropMove
  <1> QED BY <1>2, <1>3

\* The steps after which the server does not run, or nothing has changed but
\* its place in the scan.
LEMMA OtherMove ==
    ASSUME ChatInv,
           VisitQuiet \/ VisitNoClient \/ NothingToAccept \/ ShutdownClient \/ ShutdownOver \/ Sigint
    PROVE  ServerMove
  <1>1. CASE VisitQuiet
    <2>1. /\ phase = "scan" /\ scan' = scan + 1 /\ scan \in Nat
          /\ UNCHANGED <<phase, pollfds, clients, fdtab, lifo, c2s, peer, backlog>>
      BY <1>1 DEF VisitQuiet, Visit, ChatInv, ServerInv, TypeOK, ServerTypeOK
    <2>2. Reads /\ PlainClients' /\ OpenIsServed'
      BY <2>1 DEF ChatInv, Reads, PlainClients, OpenIsServed, Running, Alive, Fds, Capacity
    <2>3. StillTrue'
      <3>1. \A k \in 1 .. Len(clients) : k >= scan + 1 => k >= scan
        BY <2>1
      <3> QED BY <2>1, <3>1 DEF ChatInv, StillTrue
    <2> QED BY <2>2, <2>3 DEF ServerMove
  <1>2. CASE NothingToAccept
    <2>1. /\ phase' = "poll" /\ phase = "scan"
          /\ UNCHANGED <<sockets, clients, fdtab, lifo>>
      BY <1>2 DEF NothingToAccept, ScanOver
    <2> QED BY <2>1 DEF ServerMove, ChatInv, Reads, PlainClients, OpenIsServed, StillTrue, Running,
                        Alive, Fds, Capacity, sockets
  <1>3. CASE VisitNoClient \/ Sigint \/ ShutdownOver
    <2>1. /\ phase' \notin {"poll", "scan"}
          /\ UNCHANGED <<clients, c2s, peer>>
      BY <1>3 DEF VisitNoClient, Sigint, ShutdownOver, Visit, sockets
    <2> QED BY <2>1 DEF ServerMove, ChatInv, Reads, PlainClients, OpenIsServed, StillTrue, Running
  <1>4. CASE ShutdownClient
    <2>1. /\ phase' = "shutdown" /\ peer' = peer
          /\ DisconnectSocket(clients[scan].fd, TRUE, FALSE)
      BY <1>4 DEF ShutdownClient
    <2>2. OpenIsServed' /\ StillTrue'
      BY <2>1 DEF OpenIsServed, StillTrue, Running
    <2>4. CASE \E k \in 1 .. client_count : DisconnectClient(k, TRUE, FALSE)
      <3>1. PICK k \in 1 .. client_count : DisconnectClient(k, TRUE, FALSE)
        BY <2>4
      <3>2. /\ clients' = RemoveClient(k)
            /\ c2s' = [c2s EXCEPT ![fdtab[clients[k].fd]] = <<>>]
        BY <3>1 DEF DisconnectClient
      <3>3. Reads
        BY <2>1, <3>2 DEF Reads, ChatInv, ServerInv, TypeOK, SocketsTypeOK
      <3>4. /\ Len(clients') = client_count - 1
            /\ \A j \in 1 .. client_count - 1 :
                clients'[j] = IF j < k THEN clients[j] ELSE clients[j + 1]
            /\ client_count \in Nat
        BY <3>1, <3>2, RemoveClientFacts, LenProperties
        DEF ChatInv, ServerInv, TypeOK, ServerTypeOK, client_count
      <3>5. ASSUME NEW j \in 1 .. client_count - 1
            PROVE  clients'[j].version = 1 /\ clients'[j].state # 1
        <4>1. j \in 1 .. client_count /\ j + 1 \in 1 .. client_count
          BY <3>4
        <4> QED BY <3>4, <4>1 DEF ChatInv, PlainClients, client_count
      <3> QED BY <2>2, <3>3, <3>4, <3>5 DEF ServerMove, PlainClients
    <2>5. scan \in ClientIds(clients[scan].fd)
      BY <1>4, TurnHasClient DEF ChatInv
    <2> QED BY <2>1, <2>4, <2>5 DEF DisconnectSocket, ClientIds
  <1> QED BY <1>1, <1>2, <1>3, <1>4

LEMMA PollMove == ChatInv /\ Poll => ServerMove
  <1> SUFFICES ASSUME ChatInv, Poll PROVE ServerMove
    OBVIOUS
  <1>1. /\ phase = "poll" /\ phase' = "scan" /\ scan' = 1
        /\ pollfds' = [k \in Slots |->
                        IF k < pollfd_count
                        THEN [pollfds[k] EXCEPT !.revents = Ready(pollfds[k].fd)]
                        ELSE pollfds[k]]
        /\ UNCHANGED <<sockets, pollfd_count, clients, fdtab, lifo>>
    BY DEF Poll
  <1>2. Reads /\ PlainClients' /\ OpenIsServed'
    BY <1>1 DEF ChatInv, Reads, PlainClients, OpenIsServed, Running, Alive, Fds, Capacity, sockets
  <1>3. StillTrue'
    <2> SUFFICES ASSUME lifo, NEW k \in 1 .. Len(clients)
                 PROVE  /\ pollfds'[k].revents = "lost" => peer[fdtab[clients[k].fd]] = "reset"
                        /\ pollfds'[k].revents = "in" =>
                            \/ c2s[fdtab[clients[k].fd]] # <<>>
                            \/ peer[fdtab[clients[k].fd]] # "open"
      BY <1>1 DEF StillTrue, sockets
    <2>1. /\ client_count \in 0 .. Capacity /\ Len(clients) = client_count
          /\ k \in DOMAIN clients /\ clients[k] \in ClientRecord
      BY ClientsFit, LenProperties, ElementOfSeq
      DEF ChatInv, ServerInv, TypeOK, ServerTypeOK, client_count
    <2>2. pollfd_count = client_count + 1 /\ pollfds[k].fd = clients[k].fd
      BY <1>1, <2>1 DEF ChatInv, ServerInv, MirroredWhileLifo, Running
    <2>3. k \in Slots /\ k < pollfd_count
      BY <2>1, <2>2, FdsFacts DEF Slots
    <2>4. pollfds'[k].revents = Ready(clients[k].fd)
      <3>1. pollfds[k] \in Pollfd /\ pollfds'[k] = [pollfds[k] EXCEPT !.revents = Ready(pollfds[k].fd)]
        BY <1>1, <2>3 DEF ChatInv, ServerInv, TypeOK, ServerTypeOK
      <3> QED BY <2>2, <3>1 DEF Pollfd
    <2>5. clients[k].fd # Listener /\ fdtab[clients[k].fd] # NoConn
      <3>1. clients[k].fd \in {fd \in Fds : fdtab[fd] # NoConn}
        BY <1>1, <2>1 DEF ChatInv, ServerInv, DescriptorsMatchClients, Running
      <3> QED BY <3>1, FdsFacts
    <2> QED BY <2>4, <2>5 DEF Ready
  <1> QED BY <1>2, <1>3 DEF ServerMove

LEMMA AcceptMove == ChatInv /\ Accept => ServerMove
  <1> SUFFICES ASSUME ChatInv, Accept PROVE ServerMove
    OBVIOUS
  <1>1. PICK fd, client :
            /\ fd \in Fds
            /\ fdtab[fd] = NoConn
            /\ client = [fd |-> fd, state |-> 0, version |-> 1, nickname |-> Anon]
            /\ fdtab' = [fdtab EXCEPT ![fd] = Head(backlog)]
            /\ clients' = Append(clients, client)
    BY DEF Accept, NewFd
  <1>2. /\ phase' = "poll" /\ phase = "scan" /\ backlog # <<>> /\ backlog' = Tail(backlog)
        /\ UNCHANGED <<peer, c2s, lifo>>
    BY DEF Accept, ScanOver, ChatInv, ServerInv, AcceptReady
  <1>3. Reads /\ StillTrue'
    BY <1>2 DEF Reads, StillTrue
  <1>4. PlainClients'
    <2>1. clients \in Seq(ClientRecord) /\ client \in ClientRecord
      BY <1>1, VersionsAssumption DEF ChatInv, ServerInv, TypeOK, ServerTypeOK, ClientRecord, Names
    <2>2. /\ Len(clients') = Len(clients) + 1 /\ clients'[Len(clients) + 1] = client
          /\ \A j \in 1 .. Len(clients) : clients'[j] = clients[j]
          /\ Len(clients) \in Nat
      BY <1>1, <2>1, AppendProperties, LenProperties
    <2>3. client.version = 1 /\ client.state # 1
      BY <1>1
    <2>4. ASSUME NEW j \in 1 .. Len(clients) + 1
          PROVE  clients'[j].version = 1 /\ clients'[j].state # 1
      <3>1. j \in 1 .. Len(clients) \/ j = Len(clients) + 1
        BY <2>2
      <3> QED BY <2>2, <2>3, <3>1 DEF ChatInv, PlainClients
    <2> QED BY <2>2, <2>4 DEF PlainClients
  <1>5. OpenIsServed'
    <2> SUFFICES ASSUME lifo, NEW c \in Conns, peer[c] = "open"
                 PROVE  Alive(c)'
      BY <1>2 DEF OpenIsServed
    <2>1. Alive(c)
      BY <1>2 DEF ChatInv, OpenIsServed, Running
    <2>2. /\ Len(backlog) \in Nat \ {0} /\ DOMAIN backlog = 1 .. Len(backlog)
          /\ DOMAIN backlog' = 1 .. Len(backlog) - 1
          /\ \A i \in 1 .. Len(backlog) - 1 : backlog'[i] = backlog[i + 1]
          /\ Head(backlog) = backlog[1]
      <3>1. backlog \in Seq(Conns)
        BY DEF ChatInv, ServerInv, TypeOK, SocketsTypeOK
      <3>2. backlog' \in Seq(Conns) /\ Len(backlog') = Len(backlog) - 1
            /\ \A i \in 1 .. Len(backlog') : backlog'[i] = backlog[i + 1]
        BY <1>2, <3>1, HeadTailProperties
      <3> QED BY <1>2, <3>1, <3>2, LenProperties, EmptySeq
    <2>3. \A f \in Fds : fdtab'[f] = IF f = fd THEN Head(backlog) ELSE fdtab[f]
      BY <1>1 DEF ChatInv, ServerInv, TypeOK, ServerTypeOK
    <2>4. c # NoConn
      BY ConnsAssumption
    <2>5. CASE \E f \in Fds : fdtab[f] = c
      <3>1. \E f \in Fds : fdtab'[f] = c
        BY <1>1, <2>3, <2>4, <2>5
      <3> QED BY <3>1 DEF Alive, Fds, Capacity
    <2>6. CASE \E i \in DOMAIN backlog : backlog[i] = c
      <3>1. PICK i \in DOMAIN backlog : backlog[i] = c
        BY <2>6
      <3>2. CASE i = 1
        <4>1. fdtab'[fd] = c
          BY <1>1, <2>2, <2>3, <3>1, <3>2
        <4> QED BY <1>1, <4>1 DEF Alive, Fds, Capacity
      <3>3. CASE i # 1
        <4>1. i - 1 \in DOMAIN backlog' /\ backlog'[i - 1] = c
          <5>1. i - 1 \in 1 .. Len(backlog) - 1 /\ (i - 1) + 1 = i
            BY <2>2, <3>1, <3>3
          <5> QED BY <2>2, <3>1, <5>1
        <4> QED BY <4>1 DEF Alive
      <3> QED BY <3>2, <3>3
    <2> QED BY <2>1, <2>5, <2>6 DEF Alive
  <1> QED BY <1>3, <1>4, <1>5 DEF ServerMove

\* A step of the server keeps the invariant of the two.
LEMMA ServesChatInv ==
    ASSUME ChatInv, ServerStep \/ Sigint, UNCHANGED clientVars
    PROVE  ChatInv'
  <1>1. ServerInv'
    BY NextInv DEF ChatInv, Next
  <1>2. FarewellInv'
    BY FarewellNext DEF ChatInv, Next
  <1>3. ServerMove
    <2>1. CASE VisitQuiet \/ VisitNoClient \/ NothingToAccept \/ ShutdownClient
               \/ ShutdownOver \/ Sigint
      BY <2>1, OtherMove
    <2>2. CASE Poll \/ Accept \/ HandlePacket \/ VisitLost \/ VisitMalformed
      BY <2>2, PollMove, AcceptMove, HandlePacketMove, VisitMove
    <2> QED BY <2>1, <2>2 DEF ServerStep
  <1>4. ClientsTalk' /\ GoodbyeMeansGone'
    <2>1. c2s' \in [Conns -> Seq(Packets)]
      BY <1>1 DEF ServerInv, TypeOK, SocketsTypeOK, Packets
    <2> QED BY <1>3, <2>1, ReadsTalk DEF ServerMove
  <1>5. UsersTyped'
    BY DEF ChatInv, UsersTyped, clientVars
  <1> QED BY <1>1, <1>2, <1>3, <1>4, <1>5 DEF ChatInv, ServerMove

LEMMA ChatInitInv == ChatInit => ChatInv
  <1> SUFFICES ASSUME ChatInit PROVE ChatInv
    OBVIOUS
  <1>1. Init /\ ServerInv
    BY InitInv DEF ChatInit, Init
  <1>2. FarewellInv
    BY <1>1, FarewellInit
  <1>3. /\ c2s = [c \in Conns |-> <<>>] /\ clients = <<>> /\ phase = "poll"
        /\ peer = [c \in Conns |-> "unused"]
    BY DEF ChatInit, SocketsInit, ServerInit
  <1>4. UsersTyped
    BY DEF ChatInit, ClientInit, UsersTyped
  <1>5. ClientsTalk
    <2> HIDE DEF ClientPackets
    <2> QED BY <1>3 DEF ClientsTalk
  <1>6. GoodbyeMeansGone /\ PlainClients /\ StillTrue /\ OpenIsServed
    BY <1>3 DEF GoodbyeMeansGone, PlainClients, StillTrue, OpenIsServed
  <1> QED BY <1>1, <1>2, <1>4, <1>5, <1>6 DEF ChatInv

LEMMA ChatNextInv == ChatInv /\ [ChatNext]_chatVars => ChatInv'
  <1> SUFFICES ASSUME ChatInv, [ChatNext]_chatVars PROVE ChatInv'
    OBVIOUS
  <1>1. CASE (ServerStep \/ Sigint) /\ UNCHANGED clientVars
    BY <1>1, ServesChatInv
  <1>2. CASE \E u \in Users : ClientStep(u)
    BY <1>2, ClientMoves, MovesChatInv
  <1>3. CASE \E c \in Conns : ResetArrives(c)
    BY <1>3, ResetMoves, MovesChatInv
  <1>4. CASE UNCHANGED chatVars
    <2>1. /\ UNCHANGED <<serverVars, peer, backlog, c2s, s2c, await_nick, sent, connection>>
          /\ sent \in 0 .. MaxSent
      BY <1>4 DEF chatVars, sockets, clientVars, ChatInv, ServerInv, TypeOK, SocketsTypeOK
    <2>2. UsersMove
      BY <2>1, StillMoves DEF ChatInv, UsersTyped
    <2> QED BY <2>2, MovesChatInv
  <1> QED BY <1>1, <1>2, <1>3, <1>4 DEF ChatNext, Serving

LEMMA ChatInvariance == ChatSpec => []ChatInv
  BY ChatInitInv, ChatNextInv, PTL DEF ChatSpec

\* A reference client that has not left hears no DISCONNECT while the server
\* runs and has removed only newest clients: the handshake, nicknames, messages
\* and others' departures, in any order, never look to the server like a
\* malformed packet, a foreign protocol or a lost connection.
THEOREM NeverKickedCorrect == ChatSpec => []NeverKickedWhileLifo
  <1>1. ChatInv => NeverKickedWhileLifo
    <2> SUFFICES ASSUME ChatInv, lifo, Running, NEW c \in Conns, peer[c] = "open",
                        NEW i \in DOMAIN s2c[c]
                 PROVE  s2c[c][i] # Disconnect
      BY DEF NeverKickedWhileLifo
    <2>1. NoFarewell(s2c[c])
      BY DEF ChatInv, OpenIsServed, FarewellInv
    <2>2. DOMAIN s2c[c] = 1 .. Len(s2c[c])
      <3>1. s2c[c] \in Seq(Packets)
        BY DEF ChatInv, ServerInv, TypeOK, SocketsTypeOK
      <3> HIDE DEF Packets
      <3> QED BY <3>1, LenProperties
    <2> QED BY <2>1, <2>2 DEF NoFarewell
  <1> QED BY <1>1, ChatInvariance, PTL

-----------------------------------------------------------------------------
(* What was proved of the server among any clients holds of it among       *)
(* reference clients, whose steps are not steps of ServerWithPeers: one    *)
(* click can connect, write three packets and close.                       *)

LEMMA MovesTalkInv ==
    ASSUME ServerInv, TalkInv, PeersMove
    PROVE  TalkInv'
  <1>1. UNCHANGED <<phase, fdtab, clients, s2c>>
    BY DEF PeersMove, serverVars
  <1>2. ASSUME NEW c \in Conns, Fresh(c)' PROVE Fresh(c)
    <2>1. \A i \in DOMAIN backlog' :
            (\E j \in DOMAIN backlog : backlog[j] = backlog'[i]) \/ peer[backlog'[i]] = "unused"
      BY BacklogGrows
    <2>2. peer'[c] = "unused" => peer[c] = "unused"
      BY DEF PeersMove
    <2> QED BY <1>2, <2>1, <2>2 DEF Fresh
  <1> QED BY <1>1, <1>2, SilentStep DEF Running

LEMMA ChatTalkNext == ChatInv /\ TalkInv /\ [ChatNext]_chatVars => TalkInv'
  <1> SUFFICES ASSUME ChatInv, TalkInv, [ChatNext]_chatVars PROVE TalkInv'
    OBVIOUS
  <1>1. ServerInv
    BY DEF ChatInv
  <1>2. CASE ServerStep \/ Sigint
    BY <1>1, <1>2, TalkNext DEF Next
  <1>3. CASE (\E u \in Users : ClientStep(u)) \/ (\E c \in Conns : ResetArrives(c))
    <2>1. PeersMove
      BY <1>3, ClientMoves, ResetMoves DEF UsersMove
    <2> QED BY <1>1, <2>1, MovesTalkInv
  <1>4. CASE UNCHANGED chatVars
    BY <1>1, <1>4, TalkNext DEF chatVars, vars
  <1> QED BY <1>2, <1>3, <1>4 DEF ChatNext, Serving

\* Arrays and descriptors as reference clients find them, and what each of
\* them hears from its first packet to its last.
THEOREM ChatServerCorrect ==
    ChatSpec => [](/\ TypeOK
                   /\ ListenerPolled
                   /\ DescriptorsMatchClients
                   /\ MirroredWhileLifo
                   /\ DisconnectIsLast
                   /\ NoMessageBeforeReady
                   /\ NicknameConfirmed)
  <1>1. ChatInv => /\ ServerInv
                   /\ TypeOK /\ ListenerPolled
                   /\ DescriptorsMatchClients /\ MirroredWhileLifo /\ DisconnectIsLast
    BY DEF ChatInv, ServerInv, FarewellInv, FarewellLast, DisconnectIsLast
  <1>2. ChatInit => TalkInv
    BY TalkInit DEF ChatInit, Init
  <1> QED BY <1>1, <1>2, ChatInvariance, ChatTalkNext, ReadyFollows, NicknameFollows, PTL
          DEF ChatSpec

\* Reference clients and the server are one room as well: a step of a client
\* tells nobody anything, only the server does, and then everybody who is in.
THEOREM ChatIsARoom == ChatSpec => ImplementsChatRoom
  <1>1. ChatInit => Room!Init
    BY RoomInit DEF ChatInit, Init
  <1>2. ChatInv /\ ChatInv' /\ [ChatNext]_chatVars
            => [Room!Next]_<<Roster(clients, fdtab), [c \in Conns |-> Heard(s2c[c])]>>
    <2> SUFFICES ASSUME ChatInv, ChatInv', [ChatNext]_chatVars PROVE OneRoom
      BY DEF OneRoom, Silent, Members, Transcript
    <2>1. RoomInv /\ RoomInv'
      BY DEF ChatInv, FarewellInv, RoomInv
    <2>2. CASE ServerStep \/ Sigint
      BY <2>1, <2>2, RoomNext DEF Next
    <2>3. CASE UNCHANGED <<serverVars, s2c>>
      BY <2>3 DEF OneRoom, Silent, Members, Transcript, serverVars
    <2>4. CASE \E u \in Users : ClientStep(u)
      BY <2>3, <2>4, ClientMoves DEF UsersMove, PeersMove
    <2>5. CASE \E c \in Conns : ResetArrives(c)
      BY <2>3, <2>5, ResetMoves DEF UsersMove, PeersMove
    <2>6. CASE UNCHANGED chatVars
      BY <2>3, <2>6 DEF chatVars, sockets
    <2> QED BY <2>2, <2>4, <2>5, <2>6 DEF ChatNext, Serving
  <1> QED BY <1>1, <1>2, ChatInvariance, PTL DEF ChatSpec, ImplementsChatRoom, Room!Spec
=============================================================================
