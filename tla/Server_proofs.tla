--------------------------- MODULE Server_proofs ----------------------------
(***************************************************************************)
(* Proofs about the server facing arbitrary clients, for any number of     *)
(* connections and any FirstFd.                                            *)
(***************************************************************************)
EXTENDS ServerWithPeers, SequenceTheorems, FiniteSetTheorems, TLAPS

-----------------------------------------------------------------------------
(* The inductive invariant.                                                *)

\* A connection waits for accept at most once, and before it has a descriptor.
BacklogFresh ==
    /\ \A i, j \in DOMAIN backlog : backlog[i] = backlog[j] => i = j
    /\ \A i \in DOMAIN backlog : peer[backlog[i]] # "unused"
    /\ \A i \in DOMAIN backlog : \A fd \in Fds : fdtab[fd] # backlog[i]
    /\ \A fd \in Fds : fdtab[fd] # NoConn => peer[fdtab[fd]] # "unused"

\* No two clients have one descriptor, even after the end.
ClientsDistinct ==
    \A j, k \in DOMAIN clients : clients[j].fd = clients[k].fd => j = k

\* The scan never looks at the listener's entry or past the array.
ScanBounds ==
    /\ scan >= 1
    /\ pollfd_count <= client_count + 1

\* poll reported a connection to accept: it is still there.
AcceptReady ==
    (phase = "scan" /\ pollfds[0].revents = "in") => backlog # <<>>

\* As long as only the newest client was removed descriptors are handed out
\* in the order of the array.
FdsInOrder ==
    lifo => \A k \in DOMAIN clients : clients[k].fd = FirstFd + k - 1

\* poll reports no error for the listener, so no handler closes it.
ListenerNeverLost ==
    \A k \in Slots : pollfds[k].revents = "lost" => pollfds[k].fd # Listener

ServerInv ==
    /\ TypeOK
    /\ BacklogFresh
    /\ ClientsDistinct
    /\ ScanBounds
    /\ AcceptReady
    /\ ListenerNeverLost
    /\ FdsInOrder
    /\ ListenerPolled
    /\ DescriptorsMatchClients
    /\ MirroredWhileLifo

-----------------------------------------------------------------------------
(* Facts about descriptors and arrays.                                     *)

LEMMA FdsFacts ==
    /\ Capacity \in Nat
    /\ Fds \subseteq Nat \ {0}
    /\ Listener \in Nat /\ Listener \notin Fds
    /\ IsFiniteSet(Fds) /\ Cardinality(Fds) = Capacity
  <1>1. Capacity \in Nat
    BY FiniteAssumption, FS_CardinalityType DEF Capacity
  <1>2. IsFiniteSet(Fds) /\ Cardinality(Fds) = Capacity
    <2>1. FirstFd \in Int /\ FirstFd + Capacity - 1 \in Int
      BY <1>1, FirstFdAssumption
    <2>2. /\ IsFiniteSet(Fds)
          /\ Cardinality(Fds) = IF FirstFd > FirstFd + Capacity - 1 THEN 0
                                ELSE (FirstFd + Capacity - 1) - FirstFd + 1
      BY <2>1, FS_Interval DEF Fds
    <2> QED BY <1>1, <2>2, FirstFdAssumption
  <1> QED BY <1>1, <1>2, FirstFdAssumption DEF Fds, Listener

\* There are never more clients than descriptors.
LEMMA ClientsFit ==
    ServerTypeOK /\ ClientsDistinct => client_count \in 0 .. Capacity
  <1> SUFFICES ASSUME ServerTypeOK, ClientsDistinct PROVE client_count \in 0 .. Capacity
    OBVIOUS
  <1>1. /\ client_count \in Nat
        /\ DOMAIN clients = 1 .. client_count
        /\ \A k \in 1 .. client_count : clients[k].fd \in Fds
    <2>1. clients \in Seq(ClientRecord)
      BY DEF ServerTypeOK
    <2>2. client_count \in Nat /\ DOMAIN clients = 1 .. client_count
      BY <2>1, LenProperties DEF client_count
    <2>3. \A k \in 1 .. client_count : clients[k] \in ClientRecord
      BY <2>1, ElementOfSeq DEF client_count
    <2> QED BY <2>2, <2>3 DEF ClientRecord
  <1> DEFINE f == [k \in 1 .. client_count |-> clients[k].fd]
  <1>2. f \in Injection(1 .. client_count, Fds)
    BY <1>1 DEF ClientsDistinct, Injection, IsInjective
  <1>3. Cardinality(1 .. client_count) <= Cardinality(Fds)
    BY <1>2, FS_Injection, FdsFacts
  <1>4. Cardinality(1 .. client_count) = IF 1 > client_count THEN 0 ELSE client_count - 1 + 1
    BY <1>1, FS_Interval
  <1> QED BY <1>1, <1>3, <1>4, FdsFacts

\* Taking out entry k of clients keeps the others in order.
LEMMA RemoveClientFacts ==
    ASSUME ServerTypeOK, NEW k \in 1 .. client_count
    PROVE  /\ RemoveClient(k) \in Seq(ClientRecord)
           /\ Len(RemoveClient(k)) = client_count - 1
           /\ DOMAIN RemoveClient(k) = 1 .. client_count - 1
           /\ \A j \in 1 .. client_count - 1 :
                RemoveClient(k)[j] = IF j < k THEN clients[j] ELSE clients[j + 1]
  <1>1. /\ client_count \in Nat
        /\ \A j \in 1 .. client_count : clients[j] \in ClientRecord
    BY LenProperties, ElementOfSeq DEF ServerTypeOK, client_count
  <1>2. \A j \in 1 .. client_count - 1 :
            RemoveClient(k)[j] = IF j < k THEN clients[j] ELSE clients[j + 1]
    BY <1>1 DEF RemoveClient
  <1>3. RemoveClient(k) \in [1 .. client_count - 1 -> ClientRecord]
    BY <1>1 DEF RemoveClient
  <1>4. client_count - 1 \in Nat
    BY <1>1
  <1>5. RemoveClient(k) \in Seq(ClientRecord)
    BY <1>3, <1>4, SeqDef
  <1>6. DOMAIN RemoveClient(k) = 1 .. client_count - 1
    BY DEF RemoveClient
  <1>7. Len(RemoveClient(k)) = client_count - 1
    BY <1>4, <1>5, <1>6, LenProperties
  <1> QED BY <1>2, <1>5, <1>6, <1>7

\* A removal from pollfds stays in the array and spares the listener's entry.
LEMMA RemovePollfdFacts ==
    ASSUME ServerTypeOK, pollfd_count <= Capacity + 1, NEW fd \in Fds
    PROVE  /\ RemovePollfd(fd) \in [Slots -> Pollfd]
           /\ pollfd_count >= 2 => RemovePollfd(fd)[0] = pollfds[0]
           /\ \A k \in 1 .. pollfd_count - 2 : k < fd => RemovePollfd(fd)[k] = pollfds[k]
           /\ \A k \in Slots : RemovePollfd(fd)[k] \in {FreeSlot} \cup {pollfds[j] : j \in Slots}
  <1>1. FreeSlot \in Pollfd
    BY DEF FreeSlot, Pollfd, Revents
  <1>2. fd \in Nat \ {0} /\ Capacity \in Nat /\ pollfd_count \in Int
    BY FdsFacts DEF ServerTypeOK
  <1>3. \A k \in Slots : k \in Nat /\ (k < pollfd_count - 1 => k + 1 \in Slots)
    BY <1>2 DEF Slots
  <1>4. RemovePollfd(fd) \in [Slots -> Pollfd]
    BY <1>1, <1>3 DEF RemovePollfd, ServerTypeOK
  <1>5. pollfd_count >= 2 => RemovePollfd(fd)[0] = pollfds[0]
    BY <1>2 DEF RemovePollfd, Slots
  <1>6. \A k \in 1 .. pollfd_count - 2 : k < fd => RemovePollfd(fd)[k] = pollfds[k]
    BY <1>2 DEF RemovePollfd, Slots
  <1>7. \A k \in Slots : RemovePollfd(fd)[k] \in {FreeSlot} \cup {pollfds[j] : j \in Slots}
    BY <1>3 DEF RemovePollfd
  <1> QED BY <1>4, <1>5, <1>6, <1>7

\* Whatever entry a removal takes, no listener becomes lost.
LEMMA RemovePollfdNeverLost ==
    ASSUME ServerTypeOK, pollfd_count <= Capacity + 1, ListenerNeverLost, NEW fd \in Fds,
           pollfds' = RemovePollfd(fd)
    PROVE  ListenerNeverLost'
  <1>1. \A k \in Slots : RemovePollfd(fd)[k] \in {FreeSlot} \cup {pollfds[j] : j \in Slots}
    BY RemovePollfdFacts
  <1>2. FreeSlot.revents # "lost"
    BY DEF FreeSlot
  <1> QED BY <1>1, <1>2 DEF ListenerNeverLost, Slots, Capacity, Listener

-----------------------------------------------------------------------------
(* Facts about packets.                                                    *)

\* What the handlers take from a packet.
LEMMA PacketFields ==
    ASSUME NEW p \in Packets
    PROVE  /\ p.op = "SET_PROTO" => p.protocol \in Versions
           /\ p.op = "SET_NICKNAME" => p.nickname \in Names
           /\ p.op = "SEND_MESSAGE" => p.message \in Msgs
  BY DEF Packets

\* What the server writes.
LEMMA PacketTypes ==
    /\ Disconnect \in Packets
    /\ Hello(FALSE, Protocols) \in Packets
    /\ \A v \in Versions : SetProto(v) \in Packets
    /\ \A n \in Names : NicknameUpdated(n) \in Packets
    /\ \A n \in Names : RecvMessage(LeftNotice(n), System) \in Packets
    /\ \A m \in Msgs, n \in Names : RecvMessage(m, n) \in Packets
  <1>1. Disconnect \in Packets
    BY DEF Disconnect, Packets
  <1>2. Hello(FALSE, Protocols) \in Packets
    BY VersionsAssumption DEF Hello, Packets, Protocols
  <1>3. \A v \in Versions : SetProto(v) \in Packets
    BY DEF SetProto, Packets
  <1>4. \A n \in Names : NicknameUpdated(n) \in Packets
    BY DEF NicknameUpdated, Packets
  <1>5. \A n \in Names : RecvMessage(LeftNotice(n), System) \in Packets
    BY DEF RecvMessage, LeftNotice, Packets, Texts, Notices
  <1>6. \A m \in Msgs, n \in Names : RecvMessage(m, n) \in Packets
    BY DEF RecvMessage, Packets, Texts
  <1> QED BY <1>1, <1>2, <1>3, <1>4, <1>5, <1>6

LEMMA ShortSeqs ==
    /\ <<>> \in Seq(Packets)
    /\ \A p \in Packets : <<p>> \in Seq(Packets)
    /\ \A s, t \in Seq(Packets) : s \o t \in Seq(Packets)
  BY ConcatProperties, EmptySeq

\* Broadcast and Written write packets when they are given packets.
LEMMA WriteTypes ==
    /\ \A c, cls : \A p \in Packets : Broadcast(c, cls, p) \in Seq(Packets)
    /\ \A client : \A s \in Seq(Packets) : Written(client, s) \in Seq(Packets)
  BY ShortSeqs DEF Broadcast, Written

-----------------------------------------------------------------------------
(* The ways a handler ends.                                                *)

\* The handlers that go on with the same clients and descriptors.
LEMMA SameClientsInv ==
    ASSUME ServerInv, phase = "scan",
           UNCHANGED <<phase, pollfds, pollfd_count, fdtab, lifo, peer, backlog, sent, at_exit>>,
           scan' = scan + 1,
           clients' \in Seq(ClientRecord),
           Len(clients') = Len(clients),
           \A j \in 1 .. Len(clients) : clients'[j].fd = clients[j].fd,
           c2s' \in [Conns -> Seq(Packets)],
           s2c' \in [Conns -> Seq(Packets)]
    PROVE  ServerInv'
  <1>1. /\ client_count \in Nat /\ client_count' = client_count
        /\ DOMAIN clients = 1 .. client_count
        /\ DOMAIN clients' = 1 .. client_count
        /\ {clients'[k].fd : k \in DOMAIN clients'} = {clients[k].fd : k \in DOMAIN clients}
    <2>1. clients \in Seq(ClientRecord)
      BY DEF ServerInv, TypeOK, ServerTypeOK
    <2>2. /\ DOMAIN clients = 1 .. client_count
          /\ DOMAIN clients' = 1 .. client_count
          /\ client_count \in Nat /\ client_count' = client_count
      BY <2>1, LenProperties DEF client_count
    <2> QED BY <2>2 DEF client_count
  <1>2. TypeOK'
    BY DEF ServerInv, TypeOK, SocketsTypeOK, ServerTypeOK, Slots, Fds, Capacity
  <1>3. BacklogFresh'
    BY DEF ServerInv, BacklogFresh
  <1>4. ClientsDistinct'
    BY <1>1 DEF ServerInv, ClientsDistinct, client_count
  <1>5. ScanBounds' /\ AcceptReady' /\ ListenerPolled' /\ ListenerNeverLost'
    BY <1>1 DEF ServerInv, ScanBounds, AcceptReady, ListenerPolled, ListenerNeverLost,
                Running, TypeOK, ServerTypeOK
  <1>6. FdsInOrder' /\ MirroredWhileLifo'
    BY <1>1 DEF ServerInv, FdsInOrder, MirroredWhileLifo, Running, client_count
  <1>7. DescriptorsMatchClients'
    BY <1>1, <1>4 DEF ServerInv, DescriptorsMatchClients, ClientsDistinct, Running
  <1> QED BY <1>2, <1>3, <1>4, <1>5, <1>6, <1>7 DEF ServerInv

\* disconnect_client, from a handler or from the shutdown.
LEMMA DisconnectClientInv ==
    ASSUME ServerInv, NEW k \in 1 .. client_count, NEW notify, NEW left,
           DisconnectClient(k, notify, left),
           UNCHANGED <<phase, peer, backlog, sent, at_exit>>,
           phase \in {"scan", "shutdown"},
           phase = "scan" => pollfd_count >= 2,
           scan' = scan + 1
    PROVE  ServerInv'
  <1> DEFINE fd == clients[k].fd
  <1> USE DEF ServerInv
  <1>1. /\ client_count \in 1 .. Capacity
        /\ DOMAIN clients = 1 .. client_count
        /\ clients \in Seq(ClientRecord)
        /\ \A j \in 1 .. client_count : clients[j] \in ClientRecord
    <2>1. clients \in Seq(ClientRecord)
      BY DEF TypeOK, ServerTypeOK
    <2>2. client_count \in 0 .. Capacity
      BY ClientsFit DEF TypeOK
    <2>3. /\ DOMAIN clients = 1 .. client_count
          /\ \A j \in 1 .. client_count : clients[j] \in ClientRecord
      BY <2>1, LenProperties, ElementOfSeq DEF client_count
    <2> QED BY <2>1, <2>2, <2>3, FdsFacts
  <1>2. fd \in Fds /\ fd \in Nat \ {0} /\ clients[k].nickname \in Names
    BY <1>1, FdsFacts DEF ClientRecord
  <1>3. /\ clients' \in Seq(ClientRecord)
        /\ client_count' = client_count - 1
        /\ DOMAIN clients' = 1 .. client_count - 1
        /\ \A j \in 1 .. client_count - 1 :
            clients'[j] = IF j < k THEN clients[j] ELSE clients[j + 1]
    BY RemoveClientFacts DEF DisconnectClient, TypeOK, client_count
  <1>4. /\ pollfds' \in [Slots -> Pollfd]
        /\ pollfd_count >= 2 => pollfds'[0] = pollfds[0]
        /\ \A j \in 1 .. pollfd_count - 2 : j < fd => pollfds'[j] = pollfds[j]
    <2>1. pollfd_count <= Capacity + 1
      BY <1>1, FdsFacts DEF ScanBounds, TypeOK, ServerTypeOK
    <2> QED BY <1>2, <2>1, RemovePollfdFacts DEF DisconnectClient, TypeOK
  <1>5. s2c' \in [Conns -> Seq(Packets)]
    <2> DEFINE notice == RecvMessage(LeftNotice(clients[k].nickname), System)
               Told(c) == IF notify THEN Broadcast(c, RemoveClient(k), notice) ELSE <<>>
               Out(c)  == Told(c) \o (IF c = fdtab[fd] /\ ~left
                                      THEN Written(clients[k], <<Disconnect>>) ELSE <<>>)
    <2>1. notice \in Packets /\ <<Disconnect>> \in Seq(Packets)
      BY <1>2, PacketTypes, ShortSeqs
    <2>2. \A c \in Conns : Told(c) \in Seq(Packets)
      BY <2>1, WriteTypes, ShortSeqs
    <2>3. \A c \in Conns : Out(c) \in Seq(Packets)
      <3> HIDE DEF Told
      <3> QED BY <2>1, <2>2, WriteTypes, ShortSeqs
    <2>4. s2c' = [c \in Conns |-> s2c[c] \o Out(c)]
      BY DEF DisconnectClient
    <2> HIDE DEF Out
    <2> QED BY <2>3, <2>4, ShortSeqs DEF TypeOK, SocketsTypeOK
  <1>6. c2s' \in [Conns -> Seq(Packets)]
    BY ShortSeqs DEF DisconnectClient, TypeOK, SocketsTypeOK
  <1>7. /\ fdtab' \in [Fds -> Conns \cup {NoConn}]
        /\ \A f \in Fds : fdtab'[f] = IF f = fd THEN NoConn ELSE fdtab[f]
    BY <1>2 DEF DisconnectClient, TypeOK, ServerTypeOK
  <1>8. /\ pollfd_count' = pollfd_count - 1
        /\ lifo' = (lifo /\ k = client_count)
        /\ pollfd_count \in Int /\ scan \in Nat
    BY DEF DisconnectClient, TypeOK, ServerTypeOK
  <1>9. TypeOK'
    BY <1>3, <1>4, <1>5, <1>6, <1>7, <1>8
    DEF TypeOK, SocketsTypeOK, ServerTypeOK, Slots, Fds, Capacity
  <1>10. BacklogFresh'
    <2>1. \A i \in DOMAIN backlog : backlog[i] \in Conns
      BY LenProperties, ElementOfSeq DEF TypeOK, SocketsTypeOK
    <2>2. UNCHANGED <<backlog, peer>>
      OBVIOUS
    <2>3. \A i \in DOMAIN backlog : \A f \in Fds : fdtab'[f] # backlog[i]
      BY <1>7, <2>1, ConnsAssumption DEF BacklogFresh
    <2>4. \A f \in Fds : fdtab'[f] # NoConn => peer[fdtab'[f]] # "unused"
      BY <1>7 DEF BacklogFresh
    <2> QED BY <2>2, <2>3, <2>4 DEF BacklogFresh, Fds, Capacity
  <1>11. ClientsDistinct'
    <2> SUFFICES ASSUME NEW i \in DOMAIN clients', NEW j \in DOMAIN clients',
                        clients'[i].fd = clients'[j].fd
                 PROVE  i = j
      BY DEF ClientsDistinct
    <2> DEFINE At(x) == IF x < k THEN x ELSE x + 1
    <2>1. \A x \in DOMAIN clients' : At(x) \in DOMAIN clients /\ clients'[x] = clients[At(x)]
      BY <1>1, <1>3
    <2>2. At(i) = At(j)
      <3> HIDE DEF At
      <3> QED BY <2>1 DEF ClientsDistinct
    <2> QED BY <1>3, <2>2
  <1>12. ScanBounds' /\ AcceptReady' /\ ListenerPolled'
    BY <1>1, <1>3, <1>4, <1>8 DEF ScanBounds, AcceptReady, ListenerPolled, Running
  <1>16. ListenerNeverLost'
    <2>1. pollfd_count <= Capacity + 1
      BY <1>1, <1>8, FdsFacts DEF ScanBounds
    <2>2. pollfds' = RemovePollfd(fd)
      BY DEF DisconnectClient
    <2> QED BY <1>2, <2>1, <2>2, RemovePollfdNeverLost DEF TypeOK
  <1>13. FdsInOrder'
    <2> SUFFICES ASSUME lifo', NEW j \in DOMAIN clients'
                 PROVE  clients'[j].fd = FirstFd + j - 1
      BY DEF FdsInOrder
    <2>1. lifo /\ k = client_count
      BY <1>8
    <2>2. j \in DOMAIN clients /\ clients'[j] = clients[j]
      BY <1>1, <1>3, <2>1
    <2> QED BY <2>1, <2>2 DEF FdsInOrder
  <1>14. DescriptorsMatchClients'
    <2> SUFFICES ASSUME Running PROVE DescriptorsMatchClients'
      BY DEF DescriptorsMatchClients, Running
    <2>1. {clients'[j].fd : j \in DOMAIN clients'} = {clients[j].fd : j \in DOMAIN clients} \ {fd}
      <3>1. ASSUME NEW j \in DOMAIN clients'
            PROVE  clients'[j].fd \in {clients[i].fd : i \in DOMAIN clients} \ {fd}
        <4> PICK i \in DOMAIN clients : clients'[j] = clients[i] /\ i # k
          BY <1>1, <1>3
        <4> QED BY <1>1 DEF ClientsDistinct
      <3>2. ASSUME NEW i \in DOMAIN clients, clients[i].fd # fd
            PROVE  \E j \in DOMAIN clients' : clients'[j].fd = clients[i].fd
        <4>1. CASE i < k
          BY <1>1, <1>3, <4>1
        <4>2. CASE i > k
          <5>1. i - 1 \in DOMAIN clients' /\ clients'[i - 1] = clients[i]
            BY <1>1, <1>3, <4>2
          <5> QED BY <5>1
        <4> QED BY <1>1, <3>2, <4>1, <4>2
      <3> QED BY <3>1, <3>2
    <2>2. {f \in Fds : fdtab'[f] # NoConn} = {f \in Fds : fdtab[f] # NoConn} \ {fd}
      BY <1>7
    <2> QED BY <1>7, <1>11, <2>1, <2>2 DEF DescriptorsMatchClients, ClientsDistinct, Running
  <1>15. MirroredWhileLifo'
    <2> SUFFICES ASSUME lifo' PROVE MirroredWhileLifo'
      BY DEF MirroredWhileLifo
    <2>1. lifo /\ k = client_count
      BY <1>8
    <2>2. fd = FirstFd + client_count - 1 /\ fd >= client_count
      BY <1>1, <2>1, FirstFdAssumption DEF FdsInOrder
    <2>3. CASE Running
      <3>1. pollfd_count = client_count + 1
        BY <2>1, <2>3 DEF MirroredWhileLifo
      <3>2. \A j \in 1 .. client_count - 1 : pollfds'[j] = pollfds[j] /\ clients'[j] = clients[j]
        BY <1>1, <1>2, <1>3, <1>4, <2>1, <2>2, <3>1
      <3> QED BY <1>1, <1>3, <1>8, <2>1, <2>3, <3>1, <3>2 DEF MirroredWhileLifo, Running
    <2>4. CASE ~Running
      BY <2>4 DEF MirroredWhileLifo, Running
    <2> QED BY <2>3, <2>4
  <1> QED
    BY <1>9, <1>10, <1>11, <1>12, <1>13, <1>14, <1>15, <1>16

\* accept: the new client is the last of clients and of pollfds.
LEMMA AcceptInv == ServerInv /\ Accept => ServerInv'
  <1> SUFFICES ASSUME ServerInv, Accept PROVE ServerInv'
    OBVIOUS
  <1> USE DEF ServerInv
  <1> DEFINE c == Head(backlog)
  <1> PICK fd \in NewFd :
        LET client == [fd |-> fd, state |-> 0, version |-> 1, nickname |-> Anon] IN
        /\ backlog' = Tail(backlog)
        /\ fdtab' = [fdtab EXCEPT ![fd] = c]
        /\ clients' = Append(clients, client)
        /\ WriteTo(c, Written(client, <<Hello(FALSE, Protocols)>>))
        /\ pollfds' = [pollfds EXCEPT ![pollfd_count] = [fd |-> fd, revents |-> "none"]]
    BY DEF Accept
  <1> DEFINE client == [fd |-> fd, state |-> 0, version |-> 1, nickname |-> Anon]
  <1>1. /\ fd \in Fds /\ fdtab[fd] = NoConn
        /\ \A g \in Fds : fdtab[g] = NoConn => fd <= g
    BY DEF NewFd
  <1>2. client \in ClientRecord
    BY <1>1, VersionsAssumption DEF ClientRecord, Names
  <1>3. /\ clients \in Seq(ClientRecord)
        /\ DOMAIN clients = 1 .. client_count
        /\ client_count \in Nat /\ client_count <= Capacity
    <2>1. clients \in Seq(ClientRecord)
      BY DEF TypeOK, ServerTypeOK
    <2>2. DOMAIN clients = 1 .. client_count
      BY <2>1, LenProperties DEF client_count
    <2>3. client_count \in 0 .. Capacity
      BY ClientsFit DEF TypeOK
    <2> QED BY <2>1, <2>2, <2>3, FdsFacts
  <1>4. /\ clients' \in Seq(ClientRecord)
        /\ client_count' = client_count + 1
        /\ DOMAIN clients' = 1 .. client_count + 1
        /\ clients'[client_count + 1] = client
        /\ \A j \in 1 .. client_count : clients'[j] = clients[j]
    <2>1. /\ clients' \in Seq(ClientRecord)
          /\ client_count' = client_count + 1
          /\ clients'[client_count + 1] = client
          /\ \A j \in 1 .. client_count : clients'[j] = clients[j]
      <3> HIDE DEF client
      <3> QED BY <1>2, <1>3, AppendProperties DEF client_count, client
    <2>2. DOMAIN clients' = 1 .. client_count'
      BY <2>1, LenProperties DEF client_count
    <2> QED BY <2>1, <2>2
  <1>5. phase = "scan" /\ phase' = "poll" /\ pollfds[0].revents = "in" /\ Running /\ Running'
    BY DEF Accept, ScanOver, Running
  <1>6. /\ c \in Conns
        /\ backlog \in Seq(Conns) /\ backlog' \in Seq(Conns)
        /\ Len(backlog) \in Nat \ {0}
        /\ DOMAIN backlog = 1 .. Len(backlog)
        /\ DOMAIN backlog' = 1 .. Len(backlog) - 1
        /\ c = backlog[1]
        /\ \A i \in DOMAIN backlog' : backlog'[i] = backlog[i + 1]
    <2>1. backlog # <<>> /\ backlog \in Seq(Conns)
      BY <1>5 DEF AcceptReady, TypeOK, SocketsTypeOK
    <2>2. /\ backlog' \in Seq(Conns) /\ c \in Conns
          /\ Len(backlog') = Len(backlog) - 1
          /\ \A i \in 1 .. Len(backlog') : backlog'[i] = backlog[i + 1]
      BY <2>1, HeadTailProperties
    <2>3. /\ DOMAIN backlog = 1 .. Len(backlog)
          /\ DOMAIN backlog' = 1 .. Len(backlog')
          /\ Len(backlog) \in Nat \ {0}
      BY <2>1, <2>2, LenProperties, EmptySeq
    <2>4. c = backlog[1]
      BY <2>1
    <2> QED BY <2>1, <2>2, <2>3, <2>4
  <1>7. /\ fdtab' \in [Fds -> Conns \cup {NoConn}]
        /\ \A f \in Fds : fdtab'[f] = IF f = fd THEN c ELSE fdtab[f]
    BY <1>1, <1>6 DEF TypeOK, ServerTypeOK
  <1>8. /\ pollfds' \in [Slots -> Pollfd]
        /\ pollfd_count' = pollfd_count + 1
        /\ pollfd_count \in Int
        /\ \A k \in Slots : pollfds'[k] = IF k = pollfd_count
                                          THEN [fd |-> fd, revents |-> "none"] ELSE pollfds[k]
    BY <1>1 DEF Accept, TypeOK, ServerTypeOK, Pollfd, Revents
  <1>9. UNCHANGED <<peer, c2s, sent, scan, lifo, at_exit>>
    BY DEF Accept
  <1>10. s2c' \in [Conns -> Seq(Packets)]
    BY PacketTypes, ShortSeqs, WriteTypes DEF WriteTo, TypeOK, SocketsTypeOK
  <1>11. TypeOK'
    <2>1. SocketsTypeOK'
      BY <1>6, <1>9, <1>10 DEF TypeOK, SocketsTypeOK
    <2>2. ServerTypeOK'
      <3>1. pollfd_count' \in Int /\ phase' \in {"poll", "scan", "shutdown", "stopped", "crashed"}
        BY <1>5, <1>8
      <3>2. scan' \in Nat /\ lifo' \in BOOLEAN /\ at_exit' \in Seq(Served)
        BY <1>9 DEF TypeOK, ServerTypeOK
      <3>3. pollfds' \in [Slots' -> Pollfd]
        BY <1>8 DEF Slots, Capacity
      <3>4. fdtab' \in [Fds' -> Conns \cup {NoConn}]
        BY <1>7 DEF Fds, Capacity
      <3> QED BY <1>4, <3>1, <3>2, <3>3, <3>4 DEF ServerTypeOK
    <2> QED BY <2>1, <2>2 DEF TypeOK
  <1>12. BacklogFresh'
    <2>1. \A i, j \in DOMAIN backlog' : backlog'[i] = backlog'[j] => i = j
      BY <1>6 DEF BacklogFresh
    <2>2. \A i \in DOMAIN backlog' : peer[backlog'[i]] # "unused"
      BY <1>6 DEF BacklogFresh
    <2>3. \A i \in DOMAIN backlog' : \A f \in Fds : fdtab'[f] # backlog'[i]
      <3> TAKE i \in DOMAIN backlog'
      <3>1. i + 1 \in DOMAIN backlog /\ 1 \in DOMAIN backlog /\ i + 1 # 1
        BY <1>6
      <3>2. backlog'[i] # c /\ \A f \in Fds : fdtab[f] # backlog'[i]
        BY <1>6, <3>1 DEF BacklogFresh
      <3> QED BY <1>7, <3>2
    <2>4. \A f \in Fds : fdtab'[f] # NoConn => peer[fdtab'[f]] # "unused"
      BY <1>6, <1>7 DEF BacklogFresh
    <2> QED BY <1>9, <2>1, <2>2, <2>3, <2>4 DEF BacklogFresh, Fds, Capacity
  <1>13. \A k \in DOMAIN clients : clients[k].fd # fd
    BY <1>1, <1>5 DEF DescriptorsMatchClients
  <1>14. ClientsDistinct'
    BY <1>3, <1>4, <1>13 DEF ClientsDistinct
  <1>15. ScanBounds' /\ AcceptReady'
    BY <1>3, <1>4, <1>5, <1>8, <1>9 DEF ScanBounds, AcceptReady
  <1>16. ListenerPolled'
    BY <1>3, <1>5, <1>8, FdsFacts DEF ListenerPolled, Slots
  <1>21. ListenerNeverLost'
    BY <1>8 DEF ListenerNeverLost, Slots, Capacity
  <1>17. DescriptorsMatchClients'
    <2>1. {f \in Fds : fdtab'[f] # NoConn} = {f \in Fds : fdtab[f] # NoConn} \cup {fd}
      BY <1>1, <1>6, <1>7, ConnsAssumption
    <2>2. {clients'[k].fd : k \in DOMAIN clients'} = {clients[k].fd : k \in DOMAIN clients} \cup {fd}
      BY <1>3, <1>4
    <2>3. \A f, g \in Fds : fdtab'[f] = fdtab'[g] /\ fdtab'[f] # NoConn => f = g
      <3>1. \A f \in Fds : fdtab[f] # c
        <4>1. 1 \in DOMAIN backlog /\ c = backlog[1]
          BY <1>6
        <4> HIDE DEF c
        <4> QED BY <4>1 DEF BacklogFresh
      <3> QED BY <1>5, <1>7, <3>1 DEF DescriptorsMatchClients
    <2> QED BY <1>5, <1>14, <2>1, <2>2, <2>3
            DEF DescriptorsMatchClients, ClientsDistinct, Fds, Capacity
  <1>18. lifo => fd = FirstFd + client_count
    <2> SUFFICES ASSUME lifo PROVE fd = FirstFd + client_count
      OBVIOUS
    <2>1. fd \in FirstFd .. FirstFd + Capacity - 1
      BY <1>1 DEF Fds
    <2>2. fd >= FirstFd + client_count
      <3> SUFFICES ASSUME fd < FirstFd + client_count PROVE FALSE
        BY <1>3, <2>1, FirstFdAssumption, FdsFacts
      <3>1. fd - FirstFd + 1 \in DOMAIN clients
        BY <1>3, <2>1, FirstFdAssumption, FdsFacts
      <3>2. clients[fd - FirstFd + 1].fd = fd
        BY <3>1, <2>1, FirstFdAssumption, FdsFacts DEF FdsInOrder
      <3> QED BY <1>13, <3>1, <3>2
    <2>3. FirstFd + client_count \in Fds
      BY <1>3, <2>1, <2>2, FirstFdAssumption, FdsFacts DEF Fds
    <2>4. fdtab[FirstFd + client_count] = NoConn
      <3> SUFFICES ASSUME fdtab[FirstFd + client_count] # NoConn PROVE FALSE
        OBVIOUS
      <3>1. PICK k \in DOMAIN clients : clients[k].fd = FirstFd + client_count
        BY <1>5, <2>3 DEF DescriptorsMatchClients
      <3>2. clients[k].fd = FirstFd + k - 1
        BY DEF FdsInOrder
      <3> QED BY <1>3, <3>1, <3>2, FirstFdAssumption
    <2>5. fd <= FirstFd + client_count
      BY <1>1, <2>3, <2>4
    <2> QED BY <1>3, <2>1, <2>2, <2>5, FirstFdAssumption, FdsFacts
  <1>19. FdsInOrder'
    <2> SUFFICES ASSUME lifo, NEW j \in DOMAIN clients'
                 PROVE  clients'[j].fd = FirstFd + j - 1
      BY <1>9 DEF FdsInOrder
    <2>1. CASE j \in DOMAIN clients
      BY <1>3, <1>4, <2>1 DEF FdsInOrder
    <2>2. CASE j = client_count + 1
      BY <1>3, <1>4, <1>18, <2>2, FirstFdAssumption
    <2> QED BY <1>3, <1>4, <2>1, <2>2
  <1>20. MirroredWhileLifo'
    <2> SUFFICES ASSUME lifo
                 PROVE  /\ pollfd_count' = client_count' + 1
                        /\ \A k \in DOMAIN clients' : pollfds'[k].fd = clients'[k].fd
      BY <1>5, <1>9 DEF MirroredWhileLifo
    <2>1. pollfd_count = client_count + 1
      BY <1>5 DEF MirroredWhileLifo
    <2>2. \A k \in DOMAIN clients : k \in Slots /\ k # pollfd_count
      BY <1>3, <2>1, FdsFacts DEF Slots
    <2>3. \A k \in DOMAIN clients : pollfds'[k].fd = clients'[k].fd
      BY <1>3, <1>4, <1>5, <1>8, <2>2 DEF MirroredWhileLifo
    <2>4. pollfd_count \in Slots
      <3>1. fd \in FirstFd .. FirstFd + Capacity - 1 /\ fd = FirstFd + client_count
        BY <1>1, <1>18 DEF Fds
      <3> QED BY <1>3, <2>1, <3>1, FirstFdAssumption, FdsFacts DEF Slots
    <2>5. pollfds'[client_count + 1].fd = clients'[client_count + 1].fd
      BY <1>4, <1>8, <2>1, <2>4
    <2> QED BY <1>3, <1>4, <1>8, <2>1, <2>3, <2>5
  <1> QED BY <1>11, <1>12, <1>14, <1>15, <1>16, <1>17, <1>19, <1>20, <1>21

-----------------------------------------------------------------------------
(* The handlers of one visit.                                              *)

\* The client found for a descriptor is there, and so is its connection.
LEMMA VisitedClient ==
    ASSUME ServerInv, phase = "scan", NEW k \in ClientIds(Here)
    PROVE  /\ k \in 1 .. client_count
           /\ clients[k] \in ClientRecord
           /\ Here = clients[k].fd
           /\ Here \in Fds
           /\ fdtab[Here] \in Conns
  <1>1. k \in 1 .. client_count /\ clients[k].fd = Here
    BY DEF ClientIds
  <1>2. DOMAIN clients = 1 .. client_count /\ clients[k] \in ClientRecord
    BY <1>1, LenProperties, ElementOfSeq DEF ServerInv, TypeOK, ServerTypeOK, client_count
  <1>3. Here \in {fd \in Fds : fdtab[fd] # NoConn}
    BY <1>1, <1>2 DEF ServerInv, DescriptorsMatchClients, Running
  <1> QED BY <1>1, <1>2, <1>3 DEF ServerInv, TypeOK, ServerTypeOK

\* What a handler knows of the packet it was called for.
LEMMA VisitPacketFacts ==
    ASSUME ServerInv, NEW k, NEW p, VisitPacket(k, p)
    PROVE  /\ k \in 1 .. client_count
           /\ clients[k] \in ClientRecord
           /\ fdtab[Here] \in Conns
           /\ p \in Packets
           /\ Tail(c2s[fdtab[Here]]) \in Seq(Packets)
           /\ phase = "scan" /\ scan' = scan + 1
           /\ UNCHANGED <<phase, peer, backlog, sent, at_exit>>
           /\ pollfd_count >= 2
  <1>1. phase = "scan" /\ scan' = scan + 1 /\ scan < pollfd_count
    BY DEF VisitPacket, Visit
  <1>2. UNCHANGED <<phase, peer, backlog, sent, at_exit>>
    BY DEF VisitPacket, Visit
  <1>3. /\ k \in 1 .. client_count
        /\ clients[k] \in ClientRecord
        /\ fdtab[Here] \in Conns
    BY <1>1, VisitedClient DEF VisitPacket
  <1>4. c2s[fdtab[Here]] \in Seq(Packets) /\ c2s[fdtab[Here]] # <<>>
    BY <1>3 DEF VisitPacket, ServerInv, TypeOK, SocketsTypeOK
  <1>5. p \in Packets /\ Tail(c2s[fdtab[Here]]) \in Seq(Packets)
    BY <1>4, HeadTailProperties DEF VisitPacket
  <1>6. pollfd_count >= 2
    BY <1>1 DEF ServerInv, ScanBounds, TypeOK, ServerTypeOK
  <1> QED BY <1>1, <1>2, <1>3, <1>5, <1>6

\* The handlers that change one client and answer it.
LEMMA UpdateInv ==
    ASSUME ServerInv, NEW k, NEW p, VisitPacket(k, p),
           NEW client, NEW packets, Update(k, client, packets),
           client \in ClientRecord, client.fd = clients[k].fd,
           packets \in Seq(Packets)
    PROVE  ServerInv'
  <1>1. /\ k \in 1 .. client_count
        /\ fdtab[Here] \in Conns
        /\ Tail(c2s[fdtab[Here]]) \in Seq(Packets)
        /\ phase = "scan" /\ scan' = scan + 1
        /\ UNCHANGED <<phase, peer, backlog, sent, at_exit>>
    BY VisitPacketFacts
  <1>2. UNCHANGED <<pollfds, pollfd_count, fdtab, lifo>>
    BY DEF Update
  <1>3. /\ clients' \in Seq(ClientRecord)
        /\ Len(clients') = Len(clients)
        /\ \A j \in 1 .. Len(clients) : clients'[j].fd = clients[j].fd
    <2>1. clients \in Seq(ClientRecord) /\ clients' = [clients EXCEPT ![k] = client]
      BY DEF ServerInv, TypeOK, ServerTypeOK, Update
    <2> QED BY <1>1, <2>1, ExceptSeq DEF client_count
  <1>4. c2s' \in [Conns -> Seq(Packets)]
    BY <1>1 DEF Update, Consume, ServerInv, TypeOK, SocketsTypeOK
  <1>5. s2c' \in [Conns -> Seq(Packets)]
    BY ShortSeqs DEF Update, WriteTo, ServerInv, TypeOK, SocketsTypeOK
  <1> QED BY <1>1, <1>2, <1>3, <1>4, <1>5, SameClientsInv

\* While the server runs, a descriptor without a client has been closed: to
\* close it again changes nothing.
LEMMA ClosedAgain ==
    ASSUME ServerInv, Running, NEW fd \in Fds, ClientIds(fd) = {}, NEW notify, NEW left,
           DisconnectSocket(fd, notify, left)
    PROVE  /\ pollfds' = RemovePollfd(fd)
           /\ pollfd_count' = pollfd_count - 1
           /\ lifo' = FALSE
           /\ UNCHANGED <<clients, s2c, c2s, fdtab>>
  <1>1. DOMAIN clients = 1 .. client_count
    BY LenProperties DEF ServerInv, TypeOK, ServerTypeOK, client_count
  <1>2. fdtab[fd] = NoConn
    BY <1>1 DEF ServerInv, DescriptorsMatchClients, ClientIds
  <1>3. /\ pollfds' = RemovePollfd(fd)
        /\ pollfd_count' = pollfd_count - 1
        /\ lifo' = FALSE
        /\ fdtab' = [fdtab EXCEPT ![fd] = NoConn]
        /\ c2s' = [c \in Conns |-> IF c = fdtab[fd] THEN <<>> ELSE c2s[c]]
        /\ UNCHANGED <<clients, s2c>>
    BY DEF DisconnectSocket
  <1>4. fdtab' = fdtab
    BY <1>2, <1>3 DEF ServerInv, TypeOK, ServerTypeOK
  <1>5. c2s' = c2s
    BY <1>2, <1>3, ConnsAssumption DEF ServerInv, TypeOK, SocketsTypeOK
  <1> QED BY <1>3, <1>4, <1>5

\* disconnect_socket, with or without a client.
LEMMA DisconnectSocketInv ==
    ASSUME ServerInv, NEW fd \in Fds, NEW notify, NEW left,
           DisconnectSocket(fd, notify, left),
           Running \/ ClientIds(fd) # {},
           UNCHANGED <<phase, peer, backlog, sent, at_exit>>,
           phase \in {"scan", "shutdown"},
           phase = "scan" => pollfd_count >= 2,
           scan' = scan + 1
    PROVE  ServerInv'
  <1>1. CASE ClientIds(fd) # {}
    <2>1. PICK k \in ClientIds(fd) : DisconnectClient(k, notify, left)
      BY <1>1 DEF DisconnectSocket
    <2>2. k \in 1 .. client_count
      BY DEF ClientIds
    <2> QED BY <2>1, <2>2, DisconnectClientInv
  <1>2. CASE ClientIds(fd) = {}
    <2> USE DEF ServerInv
    <2>1. /\ pollfds' = RemovePollfd(fd)
          /\ pollfd_count' = pollfd_count - 1
          /\ lifo' = FALSE
          /\ UNCHANGED <<clients, s2c, c2s, fdtab>>
          /\ client_count' = client_count
      BY <1>2, ClosedAgain DEF client_count
    <2>2. /\ client_count \in 0 .. Capacity /\ pollfd_count \in Int /\ scan \in Nat
          /\ pollfd_count <= Capacity + 1
      BY ClientsFit, FdsFacts DEF TypeOK, ServerTypeOK, ScanBounds
    <2>3. /\ pollfds' \in [Slots -> Pollfd]
          /\ pollfd_count >= 2 => pollfds'[0] = pollfds[0]
      BY <2>1, <2>2, RemovePollfdFacts DEF TypeOK
    <2>4. TypeOK'
      <3>1. SocketsTypeOK'
        BY <2>1 DEF TypeOK, SocketsTypeOK
      <3>2. /\ phase' \in {"poll", "scan", "shutdown", "stopped", "crashed"}
            /\ scan' \in Nat /\ pollfd_count' \in Int /\ at_exit' \in Seq(Served)
        BY <2>1, <2>2 DEF TypeOK, ServerTypeOK
      <3>3. pollfds' \in [Slots' -> Pollfd]
        BY <2>3 DEF Slots, Capacity
      <3>4. clients' \in Seq(ClientRecord) /\ fdtab' \in [Fds' -> Conns \cup {NoConn}]
        BY <2>1 DEF TypeOK, ServerTypeOK, Fds, Capacity
      <3>5. lifo' \in BOOLEAN
        BY <2>1, Zenon
      <3> QED BY <3>1, <3>2, <3>3, <3>4, <3>5 DEF TypeOK, ServerTypeOK
    <2>5. BacklogFresh' /\ ClientsDistinct' /\ DescriptorsMatchClients'
      BY <2>1 DEF BacklogFresh, ClientsDistinct, DescriptorsMatchClients, Running, Fds, Capacity
    <2>6. ScanBounds' /\ AcceptReady' /\ ListenerPolled'
      BY <2>1, <2>2, <2>3 DEF ScanBounds, AcceptReady, ListenerPolled, Running
    <2>7. ListenerNeverLost'
      BY <2>1, <2>2, RemovePollfdNeverLost DEF TypeOK
    <2>8. FdsInOrder' /\ MirroredWhileLifo'
      BY <2>1 DEF FdsInOrder, MirroredWhileLifo
    <2> QED BY <2>4, <2>5, <2>6, <2>7, <2>8
  <1> QED BY <1>1, <1>2

\* Protocol selection and set_nickname keep the client's descriptor.
LEMMA SelectedClient ==
    ASSUME NEW client \in ClientRecord, NEW v \in Versions, NEW n \in Names
    PROVE  LET selected == [client EXCEPT !.version = v, !.state = 2] IN
           /\ Renamed(client, n) \in ClientRecord /\ Renamed(client, n).fd = client.fd
           /\ Renamed(selected, n) \in ClientRecord /\ Renamed(selected, n).fd = client.fd
  <1> DEFINE selected == [client EXCEPT !.version = v, !.state = 2]
  <1>1. \A c \in ClientRecord : Renamed(c, n) \in ClientRecord /\ Renamed(c, n).fd = c.fd
    BY DEF Renamed, ClientRecord
  <1>2. selected \in ClientRecord /\ selected.fd = client.fd
    <2> DEFINE versioned == [client EXCEPT !.version = v]
    <2>1. versioned \in ClientRecord /\ versioned.fd = client.fd
      BY DEF ClientRecord
    <2>2. selected = [versioned EXCEPT !.state = 2]
      OBVIOUS
    <2> HIDE DEF versioned, selected
    <2> QED BY <2>1, <2>2 DEF ClientRecord
  <1> HIDE DEF selected
  <1>3. Renamed(selected, n) \in ClientRecord /\ Renamed(selected, n).fd = client.fd
    BY <1>1, <1>2
  <1> QED BY <1>1, <1>3 DEF selected

LEMMA HandlePacketInv == ServerInv /\ HandlePacket => ServerInv'
  <1> SUFFICES ASSUME ServerInv, NEW k \in 1 .. client_count, NEW p,
                      \/ VisitHelloMaster(k, p)
                      \/ VisitHello(k, p)
                      \/ VisitHelloUnsupported(k, p)
                      \/ VisitSetProto(k, p)
                      \/ VisitSetNickname(k, p)
                      \/ VisitSendMessage(k, p)
                      \/ VisitDisconnect(k, p)
                      \/ VisitIgnored(k, p)
               PROVE  ServerInv'
    BY DEF HandlePacket
  <1> DEFINE client == clients[k]
  <1>1. VisitPacket(k, p)
    BY DEF VisitHelloMaster, VisitHello, VisitHelloUnsupported, VisitSetProto,
           VisitSetNickname, VisitSendMessage, VisitDisconnect, VisitIgnored
  <1>2. /\ client \in ClientRecord
        /\ fdtab[Here] \in Conns
        /\ p \in Packets
        /\ Tail(c2s[fdtab[Here]]) \in Seq(Packets)
        /\ phase = "scan" /\ scan' = scan + 1
        /\ UNCHANGED <<phase, peer, backlog, sent, at_exit>>
        /\ pollfd_count >= 2
    BY <1>1, VisitPacketFacts
  <1>3. CASE VisitHelloMaster(k, p)
    <2>1. [client EXCEPT !.state = 1] \in ClientRecord
      BY <1>2 DEF ClientRecord
    <2> QED BY <1>1, <1>3, <2>1, UpdateInv, ShortSeqs DEF VisitHelloMaster, ClientRecord
  <1>4. CASE VisitHello(k, p)
    <2>1. PICK sel \in p.protocols \cap Protocols :
            LET selected == [clients[k] EXCEPT !.version = sel, !.state = 2] IN
            Update(k, Renamed(selected, Anon), <<SetProto(sel)>> \o RenameReply(selected, Anon))
      BY <1>4 DEF VisitHello
    <2> DEFINE selected == [client EXCEPT !.version = sel, !.state = 2]
    <2>2. sel \in Versions
      BY VersionsAssumption DEF Protocols
    <2>3. Renamed(selected, Anon) \in ClientRecord /\ Renamed(selected, Anon).fd = client.fd
      BY <1>2, <2>2, SelectedClient DEF Names
    <2>4. <<SetProto(sel)>> \o RenameReply(selected, Anon) \in Seq(Packets)
      BY <2>2, PacketTypes, ShortSeqs, WriteTypes DEF RenameReply, Names
    <2> QED BY <1>1, <2>1, <2>3, <2>4, UpdateInv
  <1>5. CASE VisitHelloUnsupported(k, p)
    BY <1>2, <1>5, DisconnectClientInv DEF VisitHelloUnsupported
  <1>6. CASE VisitSetProto(k, p)
    <2> DEFINE selected == [client EXCEPT !.version = p.protocol, !.state = 2]
    <2>1. p.protocol \in Versions
      BY <1>2, <1>6, PacketFields DEF VisitSetProto
    <2>2. Renamed(selected, Anon) \in ClientRecord /\ Renamed(selected, Anon).fd = client.fd
      BY <1>2, <2>1, SelectedClient DEF Names
    <2>3. RenameReply(selected, Anon) \in Seq(Packets)
      BY PacketTypes, ShortSeqs, WriteTypes DEF RenameReply, Names
    <2>4. Update(k, Renamed(selected, Anon), RenameReply(selected, Anon))
      BY <1>6 DEF VisitSetProto
    <2> QED BY <1>1, <2>2, <2>3, <2>4, UpdateInv
  <1>7. CASE VisitSetNickname(k, p)
    <2>1. p.nickname \in Names
      BY <1>2, <1>7, PacketFields DEF VisitSetNickname
    <2>2. Renamed(client, p.nickname) \in ClientRecord /\ Renamed(client, p.nickname).fd = client.fd
      BY <1>2, <2>1, SelectedClient, VersionsAssumption
    <2>3. RenameReply(client, p.nickname) \in Seq(Packets)
      BY <2>1, PacketTypes, ShortSeqs, WriteTypes DEF RenameReply
    <2> QED BY <1>1, <1>7, <2>2, <2>3, UpdateInv DEF VisitSetNickname
  <1>8. CASE VisitSendMessage(k, p)
    <2>1. RecvMessage(p.message, client.nickname) \in Packets
      BY <1>2, <1>8, PacketFields, PacketTypes DEF VisitSendMessage, ClientRecord
    <2>2. \A c : Broadcast(c, clients, RecvMessage(p.message, client.nickname)) \in Seq(Packets)
      BY <2>1, WriteTypes
    <2>3. s2c' \in [Conns -> Seq(Packets)]
      BY <1>8, <2>2, ShortSeqs DEF VisitSendMessage, ServerInv, TypeOK, SocketsTypeOK
    <2>4. c2s' \in [Conns -> Seq(Packets)]
      BY <1>2, <1>8 DEF VisitSendMessage, Consume, ServerInv, TypeOK, SocketsTypeOK
    <2>5. UNCHANGED <<clients, pollfds, pollfd_count, fdtab, lifo>>
      BY <1>8 DEF VisitSendMessage
    <2>6. clients \in Seq(ClientRecord)
      BY DEF ServerInv, TypeOK, ServerTypeOK
    <2> QED BY <1>2, <2>3, <2>4, <2>5, <2>6, SameClientsInv
  <1>9. CASE VisitDisconnect(k, p)
    BY <1>2, <1>9, DisconnectClientInv DEF VisitDisconnect
  <1>10. CASE VisitIgnored(k, p)
    BY <1>1, <1>2, <1>10, UpdateInv, ShortSeqs DEF VisitIgnored
  <1> QED BY <1>3, <1>4, <1>5, <1>6, <1>7, <1>8, <1>9, <1>10

\* The handlers that read no packet.
LEMMA VisitInv ==
    ServerInv /\ (VisitQuiet \/ VisitLost \/ VisitNoClient \/ VisitMalformed) => ServerInv'
  <1> SUFFICES ASSUME ServerInv, VisitQuiet \/ VisitLost \/ VisitNoClient \/ VisitMalformed
               PROVE  ServerInv'
    OBVIOUS
  <1>1. /\ phase = "scan" /\ scan < pollfd_count /\ scan' = scan + 1
        /\ UNCHANGED <<peer, backlog, sent, at_exit>>
    BY DEF VisitQuiet, VisitLost, VisitNoClient, VisitMalformed, Visit
  <1>2. /\ scan \in Nat \ {0} /\ pollfd_count \in Int /\ pollfd_count >= 2
        /\ scan \in Slots
        /\ Running
    <2>1. client_count \in 0 .. Capacity
      BY ClientsFit DEF ServerInv, TypeOK
    <2> QED BY <1>1, <2>1, FdsFacts
            DEF ServerInv, ScanBounds, TypeOK, ServerTypeOK, Slots, Running
  <1>3. CASE VisitQuiet
    <2>1. /\ UNCHANGED <<phase, pollfds, pollfd_count, clients, fdtab, lifo, c2s, s2c>>
      BY <1>3 DEF VisitQuiet
    <2>2. /\ clients \in Seq(ClientRecord)
          /\ c2s \in [Conns -> Seq(Packets)] /\ s2c \in [Conns -> Seq(Packets)]
      BY DEF ServerInv, TypeOK, SocketsTypeOK, ServerTypeOK
    <2> QED BY <1>1, <2>1, <2>2, SameClientsInv
  <1>4. CASE VisitLost
    <2>1. Here \in Fds
      <3>1. Here \in Fds \cup {Listener}
        BY <1>2 DEF Here, ServerInv, TypeOK, ServerTypeOK, Pollfd
      <3>2. Here # Listener
        BY <1>2, <1>4 DEF VisitLost, Visit, Here, ServerInv, ListenerNeverLost
      <3> QED BY <3>1, <3>2
    <2> QED BY <1>1, <1>2, <1>4, <2>1, DisconnectSocketInv DEF VisitLost
  <1>5. CASE VisitNoClient
    <2> USE DEF ServerInv
    <2>1. /\ phase' = "crashed"
          /\ fdtab' = [fd \in Fds |-> NoConn]
          /\ UNCHANGED <<pollfds, pollfd_count, clients, lifo, c2s, s2c>>
          /\ ClientIds(Here) = {}
      BY <1>5 DEF VisitNoClient
    <2>2. ~lifo
      <3> SUFFICES ASSUME lifo PROVE FALSE
        OBVIOUS
      <3>1. /\ pollfd_count = client_count + 1
            /\ \A k \in DOMAIN clients : pollfds[k].fd = clients[k].fd
        BY <1>2 DEF MirroredWhileLifo
      <3>2. client_count \in Nat /\ DOMAIN clients = 1 .. client_count
        BY LenProperties DEF TypeOK, ServerTypeOK, client_count
      <3>3. scan \in 1 .. client_count /\ clients[scan].fd = Here
        BY <1>1, <1>2, <3>1, <3>2 DEF Here
      <3> QED BY <2>1, <3>3 DEF ClientIds
    <2>3. TypeOK'
      BY <1>1, <1>2, <2>1 DEF TypeOK, SocketsTypeOK, ServerTypeOK, Slots, Fds, Capacity
    <2>4. BacklogFresh'
      <3>1. \A i \in DOMAIN backlog : backlog[i] \in Conns
        BY LenProperties, ElementOfSeq DEF TypeOK, SocketsTypeOK
      <3>2. UNCHANGED <<peer, backlog>> /\ \A fd \in Fds : fdtab'[fd] = NoConn
        BY <1>1, <2>1
      <3> QED BY <3>1, <3>2, ConnsAssumption DEF BacklogFresh, Fds, Capacity
    <2>5. ClientsDistinct' /\ ScanBounds' /\ ListenerNeverLost'
      BY <1>1, <1>2, <2>1 DEF ClientsDistinct, ScanBounds, ListenerNeverLost, client_count
    <2>6. /\ AcceptReady' /\ ListenerPolled' /\ DescriptorsMatchClients'
          /\ FdsInOrder' /\ MirroredWhileLifo'
      BY <2>1, <2>2 DEF AcceptReady, ListenerPolled, DescriptorsMatchClients,
                        FdsInOrder, MirroredWhileLifo, Running
    <2> QED BY <2>3, <2>4, <2>5, <2>6
  <1>6. CASE VisitMalformed
    <2>1. PICK k \in ClientIds(Here) : DisconnectClient(k, TRUE, FALSE)
      BY <1>6 DEF VisitMalformed
    <2>2. k \in 1 .. client_count /\ UNCHANGED phase
      BY <1>6 DEF ClientIds, VisitMalformed
    <2> QED BY <1>1, <1>2, <2>1, <2>2, DisconnectClientInv
  <1> QED BY <1>3, <1>4, <1>5, <1>6

-----------------------------------------------------------------------------
(* The other steps of the server, and those of its peers.                  *)

LEMMA PollInv == ServerInv /\ (Poll \/ NothingToAccept) => ServerInv'
  <1> SUFFICES ASSUME ServerInv, Poll \/ NothingToAccept PROVE ServerInv'
    OBVIOUS
  <1> USE DEF ServerInv
  <1>1. /\ UNCHANGED <<sockets, pollfd_count, clients, fdtab, lifo, at_exit>>
        /\ Running /\ Running' /\ phase' \in {"poll", "scan"}
    BY DEF Poll, NothingToAccept, ScanOver, Running
  <1>2. /\ scan' \in Nat \ {0}
        /\ pollfds' \in [Slots -> Pollfd]
        /\ \A k \in Slots : /\ pollfds'[k].fd = pollfds[k].fd
                            /\ pollfds'[k].revents = "lost" => pollfds'[k].fd # Listener
        /\ AcceptReady'
    <2>1. CASE Poll
      <3>1. \A fd : Ready(fd) \in Revents
        BY DEF Ready, Revents
      <3>2. pollfds' = [k \in Slots |->
                IF k < pollfd_count
                THEN [pollfds[k] EXCEPT !.revents = Ready(pollfds[k].fd)]
                ELSE pollfds[k]]
        BY <2>1 DEF Poll
      <3>3. \A k \in Slots : /\ pollfds[k] \in Pollfd
                            /\ pollfds'[k].fd = pollfds[k].fd
                            /\ pollfds'[k].revents = IF k < pollfd_count
                                                     THEN Ready(pollfds[k].fd)
                                                     ELSE pollfds[k].revents
        BY <3>2 DEF TypeOK, ServerTypeOK, Pollfd
      <3>4. pollfds' \in [Slots -> Pollfd]
        BY <3>1, <3>2 DEF TypeOK, ServerTypeOK, Pollfd
      <3>5. Ready(Listener) # "lost" /\ (Ready(Listener) = "in" => backlog # <<>>)
        BY DEF Ready
      <3>6. 0 \in Slots /\ pollfd_count >= 1 /\ pollfds[0].fd = Listener
        BY <1>1, FdsFacts DEF ListenerPolled, Slots
      <3>7. AcceptReady'
        BY <1>1, <3>3, <3>5, <3>6 DEF AcceptReady, sockets, TypeOK, ServerTypeOK
      <3> QED BY <2>1, <3>3, <3>4, <3>5, <3>7 DEF Poll, ListenerNeverLost
    <2>2. CASE NothingToAccept
      <3>1. scan \in Nat \ {0}
        BY DEF TypeOK, ServerTypeOK, ScanBounds
      <3> QED BY <2>2, <3>1 DEF NothingToAccept, AcceptReady, ListenerNeverLost, TypeOK, ServerTypeOK
    <2> QED BY <2>1, <2>2
  <1>3. TypeOK'
    BY <1>1, <1>2 DEF TypeOK, SocketsTypeOK, ServerTypeOK, sockets, Slots, Fds, Capacity
  <1>4. BacklogFresh' /\ ClientsDistinct' /\ FdsInOrder' /\ DescriptorsMatchClients'
    BY <1>1 DEF BacklogFresh, ClientsDistinct, FdsInOrder, DescriptorsMatchClients, sockets,
                Fds, Capacity
  <1>5. ScanBounds' /\ ListenerNeverLost'
    BY <1>1, <1>2 DEF ScanBounds, ListenerNeverLost, client_count, Slots, Capacity, Listener
  <1>6. ListenerPolled'
    <2>1. 0 \in Slots
      BY FdsFacts DEF Slots
    <2> QED BY <1>1, <1>2, <2>1 DEF ListenerPolled, Listener
  <1>7. MirroredWhileLifo'
    <2>1. client_count \in 0 .. Capacity /\ DOMAIN clients = 1 .. client_count
      BY ClientsFit, LenProperties DEF TypeOK, ServerTypeOK, client_count
    <2>2. \A k \in DOMAIN clients : k \in Slots
      BY <2>1, FdsFacts DEF Slots
    <2>3. phase' # "crashed"
      BY <1>1
    <2> QED BY <1>1, <1>2, <2>2, <2>3 DEF MirroredWhileLifo, client_count
  <1> QED BY <1>2, <1>3, <1>4, <1>5, <1>6, <1>7

\* At SIGINT every client has an open connection, each its own.
LEMMA SigintServed ==
    ASSUME ServerInv, Sigint
    PROVE  /\ at_exit' \in Seq(Served) /\ Len(at_exit') = client_count
           /\ \A k \in 1 .. client_count :
                /\ at_exit'[k].client = clients[k]
                /\ at_exit'[k].conn = fdtab[clients[k].fd]
                /\ at_exit'[k].before = s2c[fdtab[clients[k].fd]]
                /\ fdtab[clients[k].fd] \in Conns
           /\ \A j, k \in 1 .. client_count :
                fdtab[clients[j].fd] = fdtab[clients[k].fd] => j = k
  <1> USE DEF ServerInv
  <1>1. client_count \in Nat /\ DOMAIN clients = 1 .. client_count /\ Running
    BY LenProperties DEF TypeOK, ServerTypeOK, client_count, Sigint
  <1>2. \A k \in 1 .. client_count :
            /\ clients[k] \in ClientRecord /\ clients[k].fd \in Fds
            /\ fdtab[clients[k].fd] \in Conns
    <2> SUFFICES ASSUME NEW k \in 1 .. client_count
                 PROVE  /\ clients[k] \in ClientRecord /\ clients[k].fd \in Fds
                        /\ fdtab[clients[k].fd] \in Conns
      OBVIOUS
    <2>1. clients[k] \in ClientRecord
      BY ElementOfSeq DEF TypeOK, ServerTypeOK, client_count
    <2>2. clients[k].fd \in {fd \in Fds : fdtab[fd] # NoConn}
      BY <1>1 DEF DescriptorsMatchClients
    <2> QED BY <2>1, <2>2 DEF TypeOK, ServerTypeOK
  <1> DEFINE served(k) == [client |-> clients[k], conn |-> fdtab[clients[k].fd],
                           before |-> s2c[fdtab[clients[k].fd]]]
  <1>3. at_exit' = [k \in 1 .. client_count |-> served(k)]
    BY DEF Sigint
  <1>4. \A k \in 1 .. client_count : served(k) \in Served
    BY <1>2 DEF Served, TypeOK, SocketsTypeOK
  <1>5. at_exit' \in Seq(Served)
    BY <1>1, <1>3, <1>4, SeqDef
  <1>6. Len(at_exit') = client_count
    BY <1>1, <1>3, <1>5, LenProperties
  <1>7. ASSUME NEW j \in 1 .. client_count, NEW k \in 1 .. client_count,
               fdtab[clients[j].fd] = fdtab[clients[k].fd]
        PROVE  j = k
    <2>1. fdtab[clients[j].fd] # NoConn
      BY <1>2, ConnsAssumption
    <2>2. clients[j].fd = clients[k].fd
      BY <1>1, <1>2, <1>7, <2>1 DEF DescriptorsMatchClients
    <2> QED BY <1>1, <2>2 DEF ClientsDistinct
  <1> QED BY <1>2, <1>3, <1>5, <1>6, <1>7

LEMMA SigintInv == ServerInv /\ Sigint => ServerInv'
  <1> SUFFICES ASSUME ServerInv, Sigint PROVE ServerInv'
    OBVIOUS
  <1> USE DEF ServerInv
  <1>1. /\ phase' = "shutdown" /\ scan' = 1
        /\ UNCHANGED <<sockets, pollfds, pollfd_count, clients, fdtab, lifo>>
    BY DEF Sigint
  <1>2. at_exit' \in Seq(Served)
    BY SigintServed
  <1>3. TypeOK'
    BY <1>1, <1>2 DEF TypeOK, SocketsTypeOK, ServerTypeOK, sockets, Slots, Fds, Capacity
  <1>4. BacklogFresh' /\ ClientsDistinct' /\ FdsInOrder' /\ ScanBounds' /\ ListenerNeverLost'
    BY <1>1 DEF BacklogFresh, ClientsDistinct, FdsInOrder, ScanBounds, ListenerNeverLost,
                sockets, client_count, Fds, Slots, Capacity, Listener
  <1>5. AcceptReady' /\ ListenerPolled' /\ DescriptorsMatchClients' /\ MirroredWhileLifo'
    BY <1>1 DEF AcceptReady, ListenerPolled, DescriptorsMatchClients, MirroredWhileLifo, Running
  <1> QED BY <1>3, <1>4, <1>5

LEMMA ShutdownInv == ServerInv /\ (ShutdownClient \/ ShutdownOver) => ServerInv'
  <1> SUFFICES ASSUME ServerInv, ShutdownClient \/ ShutdownOver PROVE ServerInv'
    OBVIOUS
  <1>1. CASE ShutdownClient
    <2>1. /\ clients \in Seq(ClientRecord) /\ scan \in 1 .. Len(clients)
      BY <1>1 DEF ShutdownClient, client_count, ServerInv, TypeOK, ServerTypeOK, ScanBounds
    <2>2. clients[scan].fd \in Fds
      <3>1. clients[scan] \in ClientRecord
        BY <2>1, ElementOfSeq
      <3> QED BY <3>1 DEF ClientRecord
    <2>3. /\ DisconnectSocket(clients[scan].fd, TRUE, FALSE)
          /\ phase = "shutdown" /\ scan' = scan + 1
          /\ UNCHANGED <<phase, peer, backlog, sent, at_exit>>
          /\ scan \in ClientIds(clients[scan].fd)
      BY <1>1, <2>1 DEF ShutdownClient, ClientIds, client_count
    <2> QED BY <2>2, <2>3, DisconnectSocketInv
  <1>2. CASE ShutdownOver
    <2> USE DEF ServerInv
    <2>1. /\ phase' = "stopped" /\ fdtab' = [fd \in Fds |-> NoConn]
          /\ UNCHANGED <<sockets, scan, pollfds, pollfd_count, clients, lifo, at_exit>>
      BY <1>2 DEF ShutdownOver
    <2>2. TypeOK'
      BY <2>1 DEF TypeOK, SocketsTypeOK, ServerTypeOK, sockets, Slots, Fds, Capacity
    <2>3. BacklogFresh'
      <3>1. \A i \in DOMAIN backlog : backlog[i] \in Conns
        BY LenProperties, ElementOfSeq DEF TypeOK, SocketsTypeOK
      <3>2. UNCHANGED <<peer, backlog>> /\ \A fd \in Fds : fdtab'[fd] = NoConn
        BY <2>1 DEF sockets
      <3> QED BY <3>1, <3>2, ConnsAssumption DEF BacklogFresh, Fds, Capacity
    <2>4. ClientsDistinct' /\ FdsInOrder' /\ ScanBounds' /\ ListenerNeverLost'
      BY <2>1 DEF ClientsDistinct, FdsInOrder, ScanBounds, ListenerNeverLost,
                  client_count, Slots, Capacity, Listener
    <2>5. AcceptReady' /\ ListenerPolled' /\ DescriptorsMatchClients' /\ MirroredWhileLifo'
      BY <2>1 DEF AcceptReady, ListenerPolled, DescriptorsMatchClients, MirroredWhileLifo, Running
    <2> QED BY <2>2, <2>3, <2>4, <2>5
  <1> QED BY <1>1, <1>2

LEMMA PeerInv == ServerInv /\ PeerStep => ServerInv'
  <1> SUFFICES ASSUME ServerInv, UNCHANGED serverVars, NEW c \in Conns,
                      \/ Connect(c)
                      \/ \E p \in Sendable : PeerSend(c, p)
                      \/ PeerClose(c)
                      \/ PeerReset(c)
               PROVE  ServerInv'
    BY DEF PeerStep
  <1> USE DEF ServerInv
  <1>1. UNCHANGED <<phase, scan, pollfds, pollfd_count, clients, fdtab, lifo, at_exit>>
    BY DEF serverVars
  <1>2. \A i \in DOMAIN backlog : backlog[i] \in Conns
    BY LenProperties, ElementOfSeq DEF TypeOK, SocketsTypeOK
  <1>3. \A fd \in Fds : fdtab[fd] \in Conns \cup {NoConn}
    BY DEF TypeOK, ServerTypeOK
  <1>4. CASE Connect(c)
    <2>1. /\ peer[c] = "unused" /\ peer' = [peer EXCEPT ![c] = "open"]
          /\ backlog' = Append(backlog, c)
          /\ UNCHANGED <<c2s, s2c, sent>>
      BY <1>4 DEF Connect
    <2>2. /\ backlog' \in Seq(Conns) /\ backlog' # <<>>
          /\ DOMAIN backlog = 1 .. Len(backlog) /\ Len(backlog) \in Nat
          /\ DOMAIN backlog' = 1 .. Len(backlog) + 1
          /\ backlog'[Len(backlog) + 1] = c
          /\ \A i \in 1 .. Len(backlog) : backlog'[i] = backlog[i]
      <3>1. backlog \in Seq(Conns)
        BY DEF TypeOK, SocketsTypeOK
      <3>2. DOMAIN backlog = 1 .. Len(backlog) /\ Len(backlog) \in Nat
        BY <3>1, LenProperties
      <3>3. /\ backlog' \in Seq(Conns) /\ backlog' # <<>>
            /\ Len(backlog') = Len(backlog) + 1
            /\ backlog'[Len(backlog) + 1] = c
            /\ \A i \in 1 .. Len(backlog) : backlog'[i] = backlog[i]
        BY <2>1, <3>1, AppendProperties
      <3>4. DOMAIN backlog' = 1 .. Len(backlog')
        BY <3>3, LenProperties
      <3> QED BY <3>2, <3>3, <3>4
    <2>3. SocketsTypeOK'
      BY <2>1, <2>2 DEF TypeOK, SocketsTypeOK
    <2>4. /\ \A i \in DOMAIN backlog : backlog[i] # c
          /\ \A fd \in Fds : fdtab[fd] # c
      BY <2>1, ConnsAssumption DEF BacklogFresh
    <2>5. \A d \in Conns : peer[d] # "unused" => peer'[d] # "unused"
      BY <2>1 DEF TypeOK, SocketsTypeOK
    <2>6. peer'[c] # "unused"
      BY <2>1 DEF TypeOK, SocketsTypeOK
    <2>7. BacklogFresh'
      <3>1. \A i, j \in DOMAIN backlog' : backlog'[i] = backlog'[j] => i = j
        BY <2>2, <2>4 DEF BacklogFresh
      <3>2. \A i \in DOMAIN backlog' : peer'[backlog'[i]] # "unused"
        BY <1>2, <2>2, <2>5, <2>6 DEF BacklogFresh
      <3>3. \A i \in DOMAIN backlog' : \A fd \in Fds : fdtab[fd] # backlog'[i]
        BY <2>2, <2>4 DEF BacklogFresh
      <3>4. \A fd \in Fds : fdtab[fd] # NoConn => peer'[fdtab[fd]] # "unused"
        BY <1>3, <2>5 DEF BacklogFresh
      <3> QED BY <1>1, <3>1, <3>2, <3>3, <3>4 DEF BacklogFresh, Fds, Capacity
    <2>8. AcceptReady'
      BY <2>2 DEF AcceptReady
    <2> QED BY <1>1, <2>3, <2>7, <2>8
      DEF TypeOK, ServerTypeOK, ClientsDistinct, ScanBounds, ListenerNeverLost, FdsInOrder,
          ListenerPolled, DescriptorsMatchClients, MirroredWhileLifo, Running, client_count,
          Slots, Fds, Capacity, Listener
  <1>5. CASE (\E p \in Sendable : PeerSend(c, p)) \/ PeerClose(c) \/ PeerReset(c)
    <2>1. backlog' = backlog
      BY <1>5 DEF PeerSend, PeerClose, PeerReset
    <2>2. SocketsTypeOK'
      <3>1. CASE \E p \in Sendable : PeerSend(c, p)
        BY <3>1, SendableAssumption, MaxSentAssumption, AppendProperties
        DEF PeerSend, TypeOK, SocketsTypeOK
      <3>2. CASE PeerClose(c) \/ PeerReset(c)
        BY <3>2 DEF PeerClose, PeerReset, TypeOK, SocketsTypeOK
      <3> QED BY <1>5, <3>1, <3>2
    <2>3. \A d \in Conns : peer[d] # "unused" => peer'[d] # "unused"
      BY <1>5 DEF PeerSend, PeerClose, PeerReset, TypeOK, SocketsTypeOK
    <2>4. BacklogFresh'
      BY <1>1, <1>2, <1>3, <2>1, <2>3 DEF BacklogFresh, Fds, Capacity
    <2>5. AcceptReady'
      BY <1>1, <2>1 DEF AcceptReady
    <2> QED BY <1>1, <2>2, <2>4, <2>5
      DEF TypeOK, ServerTypeOK, ClientsDistinct, ScanBounds, ListenerNeverLost, FdsInOrder,
          ListenerPolled, DescriptorsMatchClients, MirroredWhileLifo, Running, client_count,
          Slots, Fds, Capacity, Listener
  <1> QED BY <1>4, <1>5

-----------------------------------------------------------------------------
(* The invariant, and what follows from it.                                *)

LEMMA InitInv == Init => ServerInv
  <1> SUFFICES ASSUME Init PROVE ServerInv
    OBVIOUS
  <1> USE DEF Init, SocketsInit, ServerInit
  <1>1. TypeOK
    <2>1. FreeSlot \in Pollfd
      BY DEF FreeSlot, Pollfd, Revents
    <2> QED BY <2>1, MaxSentAssumption DEF TypeOK, SocketsTypeOK, ServerTypeOK
  <1>2. client_count = 0 /\ DOMAIN clients = {} /\ DOMAIN backlog = {}
    BY DEF client_count
  <1>3. BacklogFresh
    BY <1>2 DEF BacklogFresh
  <1>4. \A k \in Slots : pollfds[k] = FreeSlot
    OBVIOUS
  <1>5. ListenerNeverLost
    BY <1>4 DEF ListenerNeverLost, FreeSlot
  <1>6. ListenerPolled
    BY <1>4, FdsFacts DEF ListenerPolled, FreeSlot, Slots
  <1>7. ClientsDistinct /\ ScanBounds /\ AcceptReady /\ FdsInOrder
    BY <1>2 DEF ClientsDistinct, ScanBounds, AcceptReady, FdsInOrder
  <1>8. DescriptorsMatchClients /\ MirroredWhileLifo
    BY <1>2 DEF DescriptorsMatchClients, MirroredWhileLifo
  <1> QED BY <1>1, <1>3, <1>5, <1>6, <1>7, <1>8 DEF ServerInv

LEMMA NextInv == ServerInv /\ [Next]_vars => ServerInv'
  <1> SUFFICES ASSUME ServerInv, [Next]_vars PROVE ServerInv'
    OBVIOUS
  <1>1. CASE ServerStep
    BY <1>1, AcceptInv, HandlePacketInv, VisitInv, PollInv, ShutdownInv DEF ServerStep
  <1>2. CASE Sigint
    BY <1>2, SigintInv
  <1>3. CASE PeerStep
    BY <1>3, PeerInv
  <1>4. CASE UNCHANGED vars
    BY <1>4 DEF vars, sockets, serverVars, ServerInv, TypeOK, SocketsTypeOK, ServerTypeOK,
        BacklogFresh, ClientsDistinct, ScanBounds, AcceptReady, ListenerNeverLost, FdsInOrder,
        ListenerPolled, DescriptorsMatchClients, MirroredWhileLifo, Running, client_count,
        Slots, Fds, Capacity, Listener
  <1> QED BY <1>1, <1>2, <1>3, <1>4 DEF Next

LEMMA Invariance == Spec => []ServerInv
  BY InitInv, NextInv, PTL DEF Spec

\* Every variable of the server and its connections keeps its type; no handler
\* writes past pollfds or stores something that is no packet.
THEOREM TypeCorrect == Spec => []TypeOK
  <1>1. ServerInv => TypeOK
    BY DEF ServerInv
  <1> QED BY <1>1, Invariance, PTL

\* disconnect_client and disconnect_socket never take the listener's entry:
\* as long as it runs the server goes on accepting.
THEOREM ListenerCorrect == Spec => []ListenerPolled
  <1>1. ServerInv => ListenerPolled
    BY DEF ServerInv
  <1> QED BY <1>1, Invariance, PTL

\* accept and disconnect_client keep the clients array and the kernel's
\* descriptor table in agreement: no leak, no descriptor with two owners.
THEOREM DescriptorsCorrect == Spec => []DescriptorsMatchClients
  <1>1. ServerInv => DescriptorsMatchClients
    BY DEF ServerInv
  <1> QED BY <1>1, Invariance, PTL

\* While only the newest client is ever removed the loop in disconnect_client
\* takes the right entry of pollfds, and find_client always finds its client.
THEOREM MirrorCorrect == Spec => []MirroredWhileLifo
  <1>1. ServerInv => MirroredWhileLifo
    BY DEF ServerInv
  <1> QED BY <1>1, Invariance, PTL

-----------------------------------------------------------------------------
(* The shutdown.                                                           *)

\* The turns the loop has taken.
Turns == scan - 1

\* The loop has disconnected the client that stood at place k.
Gone(k, turns) == k % 2 = 1 /\ k <= 2 * turns

\* The place at SIGINT of the client that is now at place k.
Place(k) == IF k < scan THEN 2 * k ELSE k + Turns

ReadyAt(k) == at_exit[k].client.version = 1 /\ at_exit[k].client.state = 2

FarewellSoFar(k, turns) ==
    (IF ReadyAt(k) THEN Departures(IF Gone(k, turns) THEN k \div 2 ELSE turns) ELSE <<>>)
    \o (IF Gone(k, turns) THEN Written(at_exit[k].client, <<Disconnect>>) ELSE <<>>)

\* Each turn removes one client and steps over one.  Those that are left stand
\* at the even places passed and at all places not reached yet.
ShutdownSoFar ==
    /\ client_count = Len(at_exit) - Turns
    /\ 2 * Turns <= Len(at_exit) + 1
    /\ \A j, k \in 1 .. Len(at_exit) : at_exit[j].conn = at_exit[k].conn => j = k
    /\ \A k \in 1 .. client_count :
        /\ clients[k] = at_exit[Place(k)].client
        /\ fdtab[clients[k].fd] = at_exit[Place(k)].conn
    /\ \A k \in 1 .. Len(at_exit) :
        s2c[at_exit[k].conn] = at_exit[k].before \o FarewellSoFar(k, Turns)

ShutdownProgress ==
    /\ phase = "shutdown" => ShutdownSoFar
    /\ ShutdownTellsEveryOther

LEMMA ServedFacts ==
    ASSUME ServerInv
    PROVE  /\ Len(at_exit) \in Nat /\ DOMAIN at_exit = 1 .. Len(at_exit)
           /\ \A k \in 1 .. Len(at_exit) :
                /\ at_exit[k].client \in ClientRecord
                /\ at_exit[k].conn \in Conns
                /\ at_exit[k].before \in Seq(Packets)
           /\ scan \in Nat /\ scan >= 1 /\ Turns \in Nat /\ scan = Turns + 1
           /\ client_count \in Nat /\ DOMAIN clients = 1 .. client_count
  <1>1. at_exit \in Seq(Served) /\ clients \in Seq(ClientRecord) /\ scan \in Nat /\ scan >= 1
    BY DEF ServerInv, TypeOK, ServerTypeOK, ScanBounds
  <1>2. /\ Len(at_exit) \in Nat /\ DOMAIN at_exit = 1 .. Len(at_exit)
        /\ client_count \in Nat /\ DOMAIN clients = 1 .. client_count
    BY <1>1, LenProperties DEF client_count
  <1>3. \A k \in 1 .. Len(at_exit) : at_exit[k] \in Served
    BY <1>1, ElementOfSeq
  <1> QED BY <1>1, <1>2, <1>3 DEF Served, Turns

\* One departure more is one notice more.
LEMMA DeparturesNext ==
    ASSUME ServerInv, NEW n \in Nat, 2 * n <= Len(at_exit) + 1
    PROVE  /\ Departures(n) \in Seq(Packets)
           /\ 2 * n + 1 <= Len(at_exit) =>
                Departures(n + 1) = Departures(n)
                    \o <<RecvMessage(LeftNotice(at_exit[2 * n + 1].client.nickname), System)>>
  <1> DEFINE notice(i) == RecvMessage(LeftNotice(at_exit[2 * i - 1].client.nickname), System)
  <1>1. ASSUME NEW m \in Nat, 2 * m <= Len(at_exit) + 1
        PROVE  Departures(m) \in Seq(Packets) /\ Len(Departures(m)) = m
    <2>1. \A i \in 1 .. m : 2 * i - 1 \in 1 .. Len(at_exit)
      BY <1>1, ServedFacts
    <2>2. \A i \in 1 .. m : notice(i) \in Packets
      BY <2>1, ServedFacts, PacketTypes DEF ClientRecord
    <2>3. Departures(m) = [i \in 1 .. m |-> notice(i)]
      BY DEF Departures
    <2>4. Departures(m) \in Seq(Packets)
      BY <2>2, <2>3, SeqDef
    <2> QED BY <2>3, <2>4, LenProperties
  <1>2. ASSUME 2 * n + 1 <= Len(at_exit)
        PROVE  Departures(n + 1) = Departures(n) \o <<notice(n + 1)>>
    <2>1. /\ Departures(n + 1) \in Seq(Packets) /\ Len(Departures(n + 1)) = n + 1
          /\ Departures(n) \in Seq(Packets) /\ Len(Departures(n)) = n
      BY <1>1, <1>2, ServedFacts
    <2>2. notice(n + 1) = Departures(n + 1)[n + 1]
      BY DEF Departures
    <2>3. Departures(n) = [i \in 1 .. n |-> Departures(n + 1)[i]]
      BY DEF Departures
    <2>4. \A i \in 1 .. n + 1 :
            Departures(n + 1)[i] = IF i <= n THEN Departures(n)[i] ELSE <<notice(n + 1)>>[i - n]
      BY <2>2, <2>3
    <2>5. /\ Departures(n) \o <<notice(n + 1)>> \in Seq(Packets)
          /\ Len(Departures(n) \o <<notice(n + 1)>>) = n + 1
          /\ \A i \in 1 .. n + 1 :
                (Departures(n) \o <<notice(n + 1)>>)[i]
                    = IF i <= n THEN Departures(n)[i] ELSE <<notice(n + 1)>>[i - n]
      <3>1. notice(n + 1) \in Packets
        BY <2>1, <2>2, ElementOfSeq
      <3> HIDE DEF notice
      <3>2. <<notice(n + 1)>> \in Seq(Packets) /\ Len(<<notice(n + 1)>>) = 1
        BY <3>1
      <3> QED BY <2>1, <3>2, ConcatProperties
    <2> DEFINE longer == Departures(n) \o <<notice(n + 1)>>
    <2>6. Len(longer) = Len(Departures(n + 1)) /\ Len(longer) = n + 1
      BY <2>1, <2>5
    <2>7. \A i \in 1 .. Len(longer) : longer[i] = Departures(n + 1)[i]
      BY <2>4, <2>5, <2>6
    <2>8. longer \in Seq(Packets) /\ Departures(n + 1) \in Seq(Packets)
      BY <2>1, <2>5
    <2> HIDE DEF longer
    <2>9. longer = Departures(n + 1)
      BY <2>6, <2>7, <2>8, SeqEqual
    <2> QED BY <2>9 DEF longer
  <1>3. notice(n + 1) = RecvMessage(LeftNotice(at_exit[2 * n + 1].client.nickname), System)
    OBVIOUS
  <1> QED BY <1>1, <1>2, <1>3

\* Who is left after a turn, and who of them is told of it.
LEMMA PlacesLeft ==
    ASSUME NEW n \in Nat, NEW t \in Nat, 2 * t <= n + 1, NEW k \in 1 .. n
    PROVE  ~Gone(k, t) <=> \E j \in 1 .. n - t : k = IF j < t + 1 THEN 2 * j ELSE j + t
  <1>1. ASSUME ~Gone(k, t), k <= 2 * t
        PROVE  \E j \in 1 .. n - t : k = IF j < t + 1 THEN 2 * j ELSE j + t
    <2>1. k % 2 = 0
      BY <1>1 DEF Gone
    <2>2. k = 2 * (k \div 2) /\ k \div 2 \in Nat
      BY <2>1
    <2>3. k \div 2 \in 1 .. n - t /\ k \div 2 < t + 1
      BY <1>1, <2>2
    <2> QED BY <2>2, <2>3
  <1>2. ASSUME k > 2 * t
        PROVE  \E j \in 1 .. n - t : k = IF j < t + 1 THEN 2 * j ELSE j + t
    <2>1. k - t \in 1 .. n - t /\ ~(k - t < t + 1) /\ k = (k - t) + t
      BY <1>2
    <2> QED BY <2>1
  <1>3. ASSUME NEW j \in 1 .. n - t, k = IF j < t + 1 THEN 2 * j ELSE j + t
        PROVE  ~Gone(k, t)
    <2>1. CASE j < t + 1
      <3>1. k = 2 * j /\ k % 2 = 0
        BY <1>3, <2>1
      <3> QED BY <3>1 DEF Gone
    <2>2. CASE ~(j < t + 1)
      BY <1>3, <2>2 DEF Gone
    <2> QED BY <2>1, <2>2
  <1> QED BY <1>1, <1>2, <1>3

LEMMA Assoc ==
    ASSUME NEW s \in Seq(Packets), NEW t \in Seq(Packets), NEW u \in Seq(Packets)
    PROVE  s \o (t \o u) = (s \o t) \o u
  <1> HIDE DEF Packets
  <1>1. (s \o t) \o u = s \o (t \o u)
    BY ConcatAssociative
  <1> QED BY <1>1

Regrouped(s, t, u, v) == (s \o t) \o (u \o v) = s \o ((t \o u) \o v)

LEMMA Regroup == \A s, t, u, v \in Seq(Packets) : Regrouped(s, t, u, v)
  <1> TAKE s, t, u, v \in Seq(Packets)
  <1> HIDE DEF Packets
  <1> DEFINE uv == u \o v
  <1>1. uv \in Seq(Packets)
    BY ConcatProperties
  <1> HIDE DEF uv
  <1>2. s \o (t \o uv) = (s \o t) \o uv
    BY <1>1, Assoc
  <1>3. t \o (u \o v) = (t \o u) \o v
    BY Assoc
  <1>4. (s \o t) \o (u \o v) = s \o ((t \o u) \o v)
    BY <1>2, <1>3 DEF uv
  <1> QED BY <1>4 DEF Regrouped

LEMMA EmptyTail ==
    ASSUME NEW S, NEW s \in Seq(S)
    PROVE  s \o (<<>> \o <<>>) = s
  <1>1. <<>> \o <<>> = <<>>
    BY ConcatEmptySeq, ShortSeqs
  <1> QED BY <1>1, ConcatEmptySeq

LEMMA ShutdownClientStep ==
    ASSUME ServerInv, phase = "shutdown", ShutdownSoFar, ShutdownClient
    PROVE  ShutdownSoFar'
  <1> DEFINE n == Len(at_exit)
             t == Turns
             gone == at_exit[2 * t + 1]
             notice == RecvMessage(LeftNotice(gone.client.nickname), System)
             rest == RemoveClient(scan)
  <1>1. /\ n \in Nat /\ t \in Nat /\ scan = t + 1 /\ client_count \in Nat
        /\ client_count = n - t /\ scan \in 1 .. client_count
        /\ DOMAIN clients = 1 .. client_count
        /\ 2 * t + 1 \in 1 .. n
    BY ServedFacts DEF ShutdownSoFar, ShutdownClient
  <1>2. /\ DisconnectClient(scan, TRUE, FALSE)
        /\ scan' = scan + 1 /\ at_exit' = at_exit
    <2>1. scan \in ClientIds(clients[scan].fd)
      BY <1>1 DEF ClientIds
    <2>2. PICK k \in ClientIds(clients[scan].fd) : DisconnectClient(k, TRUE, FALSE)
      BY <2>1 DEF ShutdownClient, DisconnectSocket
    <2>3. k = scan
      BY <1>1 DEF ClientIds, ServerInv, ClientsDistinct
    <2> QED BY <2>2, <2>3 DEF ShutdownClient
  <1>3. /\ clients' = rest
        /\ fdtab' = [fdtab EXCEPT ![clients[scan].fd] = NoConn]
        /\ s2c' = [c \in Conns |-> s2c[c] \o
                    (Broadcast(c, rest, RecvMessage(LeftNotice(clients[scan].nickname), System))
                     \o (IF c = fdtab[clients[scan].fd]
                         THEN Written(clients[scan], <<Disconnect>>) ELSE <<>>))]
    BY <1>2 DEF DisconnectClient
  <1>4. clients[scan] = gone.client /\ fdtab[clients[scan].fd] = gone.conn
    <2>1. Place(scan) = 2 * t + 1
      BY <1>1 DEF Place
    <2> QED BY <1>1, <2>1 DEF ShutdownSoFar
  <1>5. /\ client_count' = client_count - 1
        /\ DOMAIN rest = 1 .. client_count - 1
        /\ \A j \in 1 .. client_count - 1 :
            rest[j] = IF j < scan THEN clients[j] ELSE clients[j + 1]
    BY <1>1, <1>3, RemoveClientFacts DEF ServerInv, TypeOK, client_count
  <1>6. Turns' = t + 1 /\ client_count' = n - (t + 1) /\ 2 * (t + 1) <= n + 1
    BY <1>1, <1>2, <1>5 DEF Turns
  <1>7. ASSUME NEW j \in 1 .. client_count - 1
        PROVE  /\ rest[j] = at_exit[IF j < t + 2 THEN 2 * j ELSE j + (t + 1)].client
               /\ fdtab[rest[j].fd] = at_exit[IF j < t + 2 THEN 2 * j ELSE j + (t + 1)].conn
               /\ fdtab'[rest[j].fd] = fdtab[rest[j].fd]
    <2> DEFINE i == IF j < scan THEN j ELSE j + 1
    <2>1. i \in 1 .. client_count /\ i # scan /\ rest[j] = clients[i]
      BY <1>1, <1>5
    <2>2. Place(i) = IF j < t + 2 THEN 2 * j ELSE j + (t + 1)
      BY <1>1 DEF Place
    <2>3. clients[i].fd # clients[scan].fd
      BY <1>1, <2>1 DEF ServerInv, ClientsDistinct
    <2>4. clients[i].fd \in Fds
      <3>1. clients[i] \in ClientRecord
        BY <2>1, ElementOfSeq DEF ServerInv, TypeOK, ServerTypeOK, client_count
      <3> QED BY <3>1 DEF ClientRecord
    <2>5. fdtab'[clients[i].fd] = fdtab[clients[i].fd]
      BY <1>3, <2>3, <2>4 DEF ServerInv, TypeOK, ServerTypeOK
    <2>6. clients[i] = at_exit[Place(i)].client /\ fdtab[clients[i].fd] = at_exit[Place(i)].conn
      BY <2>1 DEF ShutdownSoFar
    <2> QED BY <2>1, <2>2, <2>5, <2>6
  <1>8. \A j \in 1 .. client_count' :
            /\ clients'[j] = at_exit'[Place(j)'].client
            /\ fdtab'[clients'[j].fd] = at_exit'[Place(j)'].conn
    <2> SUFFICES ASSUME NEW j \in 1 .. client_count'
                 PROVE  /\ clients'[j] = at_exit[Place(j)'].client
                        /\ fdtab'[clients'[j].fd] = at_exit[Place(j)'].conn
      BY <1>2
    <2>1. Place(j)' = IF j < t + 2 THEN 2 * j ELSE j + (t + 1)
      BY <1>1, <1>2, <1>6 DEF Place
    <2> QED BY <1>3, <1>5, <1>7, <2>1
  <1>9. ASSUME NEW k \in 1 .. n
        PROVE  Broadcast(at_exit[k].conn, rest, notice)
                    = IF ReadyAt(k) /\ ~Gone(k, t + 1) THEN <<notice>> ELSE <<>>
    <2> DEFINE place(j) == IF j < t + 2 THEN 2 * j ELSE j + (t + 1)
    <2>1. \A j \in DOMAIN rest : place(j) \in 1 .. n
      <3>1. client_count - 1 = n - (t + 1) /\ 2 * (t + 1) <= n + 1 /\ t \in Nat /\ n \in Nat
        BY <1>1, <1>6
      <3> HIDE DEF n, t
      <3>2. \A j \in 1 .. n - (t + 1) : place(j) \in 1 .. n
        BY <3>1
      <3> QED BY <1>5, <3>1, <3>2
    <2>2. ~Gone(k, t + 1) <=> \E j \in DOMAIN rest : k = place(j)
      <3>1. t + 1 \in Nat /\ 2 * (t + 1) <= n + 1 /\ client_count - 1 = n - (t + 1)
        BY <1>1, <1>6
      <3>2. ~Gone(k, t + 1) <=> \E j \in 1 .. n - (t + 1) :
                k = IF j < (t + 1) + 1 THEN 2 * j ELSE j + (t + 1)
        BY <1>1, <3>1, PlacesLeft
      <3>3. (t + 1) + 1 = t + 2
        BY <1>1
      <3> QED BY <1>5, <3>1, <3>2, <3>3
    <2>3. \A j \in DOMAIN rest : fdtab[rest[j].fd] = at_exit[k].conn <=> k = place(j)
      BY <1>5, <1>7, <2>1 DEF ShutdownSoFar
    <2>4. \A j \in DOMAIN rest : k = place(j) =>
            (rest[j].state = 2 /\ rest[j].version = 1 <=> ReadyAt(k))
      BY <1>5, <1>7 DEF ReadyAt
    <2>5. (\E j \in DOMAIN rest : rest[j].state = 2 /\ rest[j].version = 1
                                  /\ fdtab[rest[j].fd] = at_exit[k].conn)
            <=> ReadyAt(k) /\ ~Gone(k, t + 1)
      <3> HIDE DEF place, rest
      <3> QED BY <2>2, <2>3, <2>4
    <2> QED BY <2>5 DEF Broadcast
  <1>10. ASSUME NEW k \in 1 .. n
         PROVE  s2c'[at_exit[k].conn] = at_exit[k].before \o FarewellSoFar(k, t + 1)
    <2> DEFINE c == at_exit[k].conn
               told == IF ReadyAt(k) /\ ~Gone(k, t + 1) THEN <<notice>> ELSE <<>>
               bye == IF k = 2 * t + 1 THEN Written(gone.client, <<Disconnect>>) ELSE <<>>
               before == at_exit[k].before
               so_far == FarewellSoFar(k, t)
    <2>1. s2c'[c] = (before \o so_far) \o (told \o bye)
      <3>1. c \in Conns /\ s2c[c] = before \o so_far
        BY ServedFacts DEF ShutdownSoFar
      <3>2. c = fdtab[clients[scan].fd] <=> k = 2 * t + 1
        <4>1. \A i \in 1 .. Len(at_exit) : at_exit[i].conn = at_exit[k].conn <=> i = k
          BY DEF ShutdownSoFar
        <4> QED BY <1>1, <1>4, <4>1
      <3>3. Broadcast(c, rest, RecvMessage(LeftNotice(clients[scan].nickname), System)) = told
        BY <1>4, <1>9
      <3>4. s2c'[c] = s2c[c] \o
                    (Broadcast(c, rest, RecvMessage(LeftNotice(clients[scan].nickname), System))
                     \o (IF c = fdtab[clients[scan].fd]
                         THEN Written(clients[scan], <<Disconnect>>) ELSE <<>>))
        <4>1. \A d \in Conns : s2c'[d] = s2c[d] \o
                    (Broadcast(d, rest, RecvMessage(LeftNotice(clients[scan].nickname), System))
                     \o (IF d = fdtab[clients[scan].fd]
                         THEN Written(clients[scan], <<Disconnect>>) ELSE <<>>))
          BY <1>3
        <4> QED BY <3>1, <4>1
      <3>5. (IF c = fdtab[clients[scan].fd]
             THEN Written(clients[scan], <<Disconnect>>) ELSE <<>>) = bye
        BY <1>4, <3>2
      <3> QED BY <3>1, <3>3, <3>4, <3>5
    <2>2. /\ notice \in Packets /\ before \in Seq(Packets)
          /\ told \in Seq(Packets) /\ bye \in Seq(Packets)
      <3>1. gone.client \in ClientRecord /\ before \in Seq(Packets)
        BY <1>1, ServedFacts
      <3>2. notice \in Packets /\ Disconnect \in Packets
        BY <3>1, PacketTypes DEF ClientRecord
      <3> HIDE DEF gone, notice
      <3> QED BY <3>1, <3>2, WriteTypes, ShortSeqs
    <2>3. /\ Departures(t) \in Seq(Packets)
          /\ Departures(t + 1) = Departures(t) \o <<notice>>
      <3>1. /\ t \in Nat /\ 2 * t <= Len(at_exit) + 1 /\ 2 * t + 1 <= Len(at_exit)
        BY <1>1
      <3> QED BY <3>1, DeparturesNext
    <2>4. CASE Gone(k, t)
      <3>1. Gone(k, t + 1) /\ k # 2 * t + 1
        BY <1>1, <2>4 DEF Gone
      <3>2. so_far = FarewellSoFar(k, t + 1) /\ told = <<>> /\ bye = <<>>
        BY <2>4, <3>1 DEF FarewellSoFar
      <3>3. so_far \in Seq(Packets)
        <4>1. k \div 2 \in Nat /\ 2 * (k \div 2) <= n + 1
          BY <1>1
        <4>2. Departures(k \div 2) \in Seq(Packets)
          BY <4>1, DeparturesNext
        <4>3. Written(at_exit[k].client, <<Disconnect>>) \in Seq(Packets)
          BY PacketTypes, WriteTypes, ShortSeqs
        <4> QED BY <2>4, <4>2, <4>3, ShortSeqs, ConcatProperties DEF FarewellSoFar
      <3>4. (before \o so_far) \in Seq(Packets)
        BY <2>2, <3>3, ConcatProperties
      <3>5. (before \o so_far) \o (<<>> \o <<>>) = before \o so_far
        BY <3>4, EmptyTail
      <3> QED BY <2>1, <3>2, <3>5
    <2>5. CASE ~Gone(k, t)
      <3> DEFINE heard == IF ReadyAt(k) THEN Departures(t) ELSE <<>>
      <3>1. heard \in Seq(Packets)
        BY <2>3
      <3>2. so_far = heard
        <4>1. so_far = heard \o <<>>
          BY <2>5 DEF FarewellSoFar
        <4> QED BY <3>1, <4>1, ConcatEmptySeq
      <3>3. FarewellSoFar(k, t + 1) = (heard \o told) \o bye
        <4>1. CASE Gone(k, t + 1)
          <5>1. k = 2 * t + 1 /\ k \div 2 = t
            BY <1>1, <2>5, <4>1 DEF Gone
          <5>2. FarewellSoFar(k, t + 1) = heard \o bye
            BY <4>1, <5>1 DEF FarewellSoFar
          <5> QED BY <3>1, <4>1, <5>2, ConcatEmptySeq
        <4>2. CASE ~Gone(k, t + 1)
          <5>1. k # 2 * t + 1
            BY <1>1, <4>2 DEF Gone
          <5>2. FarewellSoFar(k, t + 1)
                    = (IF ReadyAt(k) THEN Departures(t + 1) ELSE <<>>) \o <<>>
            BY <4>2 DEF FarewellSoFar
          <5>3. (IF ReadyAt(k) THEN Departures(t + 1) ELSE <<>>) = heard \o told
            <6>1. <<>> \o <<>> = <<>>
              BY ConcatEmptySeq, ShortSeqs
            <6> QED BY <2>3, <4>2, <6>1
          <5> QED BY <5>1, <5>2, <5>3
        <4> QED BY <4>1, <4>2
      <3>4. (before \o heard) \o (told \o bye) = before \o ((heard \o told) \o bye)
        <4>1. /\ before \in Seq(Packets) /\ heard \in Seq(Packets)
              /\ told \in Seq(Packets) /\ bye \in Seq(Packets)
          BY <2>2, <3>1
        <4> HIDE DEF before, heard, told, bye, so_far, gone, rest, notice, c, n, t
        <4>2. Regrouped(before, heard, told, bye)
          BY <4>1, Regroup, Zenon
        <4> QED BY <4>2 DEF Regrouped
      <3> QED BY <2>1, <3>2, <3>3, <3>4
    <2> QED BY <2>4, <2>5
  <1>11. \A k \in 1 .. n : FarewellSoFar(k, t + 1) = FarewellSoFar(k, Turns)'
    BY <1>2, <1>6 DEF FarewellSoFar, ReadyAt, Departures, Written
  <1>12. \A k \in 1 .. Len(at_exit') :
            s2c'[at_exit'[k].conn] = at_exit'[k].before \o FarewellSoFar(k, Turns)'
    BY <1>2, <1>10, <1>11
  <1> QED BY <1>2, <1>6, <1>8, <1>12 DEF ShutdownSoFar

LEMMA SigintStarts == ServerInv /\ Sigint => ShutdownSoFar'
  <1> SUFFICES ASSUME ServerInv, Sigint PROVE ShutdownSoFar'
    OBVIOUS
  <1>1. scan' = 1 /\ Turns' = 0 /\ UNCHANGED <<clients, fdtab, s2c, client_count>>
    BY DEF Sigint, sockets, Turns, client_count
  <1>2. client_count \in Nat
    BY ServedFacts
  <1>3. \A k \in 1 .. client_count : Place(k)' = k
    BY <1>1, <1>2 DEF Place
  <1>4. ASSUME NEW k \in 1 .. client_count
        PROVE  s2c'[at_exit'[k].conn] = at_exit'[k].before \o FarewellSoFar(k, Turns)'
    <2>1. ~Gone(k, 0)
      BY <1>2 DEF Gone
    <2>2. Departures(0)' = <<>>
      BY DEF Departures
    <2>3. FarewellSoFar(k, Turns)' = <<>> \o <<>>
      <3>1. ~Gone(k, Turns)'
        BY <1>1, <2>1 DEF Gone
      <3> QED BY <1>1, <2>2, <3>1 DEF FarewellSoFar
    <2>4. <<>> \o <<>> = <<>>
      BY ConcatEmptySeq, ShortSeqs
    <2>5. at_exit'[k].before \in Seq(Packets) /\ s2c'[at_exit'[k].conn] = at_exit'[k].before
      <3>1. /\ at_exit'[k].conn = fdtab[clients[k].fd]
            /\ at_exit'[k].before = s2c[fdtab[clients[k].fd]]
            /\ fdtab[clients[k].fd] \in Conns
        BY SigintServed
      <3>2. s2c[fdtab[clients[k].fd]] \in Seq(Packets)
        BY <3>1 DEF ServerInv, TypeOK, SocketsTypeOK
      <3> QED BY <1>1, <3>1, <3>2
    <2>6. at_exit'[k].before \o (<<>> \o <<>>) = at_exit'[k].before
      BY <2>5, EmptyTail
    <2> QED BY <2>3, <2>5, <2>6
  <1> QED BY <1>1, <1>2, <1>3, <1>4, SigintServed DEF ShutdownSoFar

LEMMA HalfUp ==
    ASSUME NEW n \in Nat, NEW t \in Nat, n <= 2 * t, 2 * t <= n + 1
    PROVE  t = (n + 1) \div 2
  OBVIOUS

LEMMA ShutdownEnds ==
    ASSUME ServerInv, ShutdownSoFar, ShutdownOver
    PROVE  ShutdownTellsEveryOther'
  <1>1. UNCHANGED <<s2c, at_exit>> /\ scan > client_count
    BY DEF ShutdownOver, sockets
  <1>2. /\ Len(at_exit) \in Nat /\ Turns \in Nat
        /\ Turns = (Len(at_exit) + 1) \div 2
        /\ DOMAIN at_exit = 1 .. Len(at_exit)
    <2>1. /\ Len(at_exit) \in Nat /\ Turns \in Nat /\ scan = Turns + 1
          /\ client_count \in Nat /\ DOMAIN at_exit = 1 .. Len(at_exit)
      BY ServedFacts
    <2>2. client_count = Len(at_exit) - Turns /\ 2 * Turns <= Len(at_exit) + 1
      BY DEF ShutdownSoFar
    <2>3. Len(at_exit) <= 2 * Turns
      BY <1>1, <2>1, <2>2
    <2> QED BY <2>1, <2>2, <2>3, HalfUp
  <1>3. ASSUME NEW k \in 1 .. Len(at_exit)
        PROVE  Farewell(k) = FarewellSoFar(k, Turns)
    <2>1. Gone(k, Turns) <=> k % 2 = 1
      BY <1>2 DEF Gone
    <2> QED BY <1>2, <2>1 DEF Farewell, FarewellSoFar, ReadyAt
  <1>4. \A k \in DOMAIN at_exit : s2c[at_exit[k].conn] = at_exit[k].before \o Farewell(k)
    <2> SUFFICES ASSUME NEW k \in 1 .. Len(at_exit)
                 PROVE  s2c[at_exit[k].conn] = at_exit[k].before \o Farewell(k)
      BY <1>2
    <2>1. s2c[at_exit[k].conn] = at_exit[k].before \o FarewellSoFar(k, Turns)
      BY DEF ShutdownSoFar
    <2> QED BY <1>3, <2>1
  <1>5. \A k \in DOMAIN at_exit : Farewell(k)' = Farewell(k)
    BY <1>1 DEF Farewell, Departures, Written
  <1> QED BY <1>1, <1>4, <1>5 DEF ShutdownTellsEveryOther

LEMMA ShutdownProgressNext ==
    ServerInv /\ ShutdownProgress /\ [Next]_vars => ShutdownProgress'
  <1> SUFFICES ASSUME ServerInv, ShutdownProgress, [Next]_vars PROVE ShutdownProgress'
    OBVIOUS
  <1>1. CASE Sigint
    BY <1>1, SigintStarts DEF Sigint, ShutdownProgress, ShutdownTellsEveryOther
  <1>2. CASE ShutdownClient
    <2>1. phase = "shutdown" /\ phase' = "shutdown"
      BY <1>2 DEF ShutdownClient
    <2> QED BY <1>2, <2>1, ShutdownClientStep DEF ShutdownProgress, ShutdownTellsEveryOther
  <1>3. CASE ShutdownOver
    <2>1. phase = "shutdown" /\ phase' = "stopped"
      BY <1>3 DEF ShutdownOver
    <2> QED BY <1>3, <2>1, ShutdownEnds DEF ShutdownProgress
  <1>4. CASE \/ Poll \/ VisitQuiet \/ VisitLost \/ VisitNoClient \/ VisitMalformed
             \/ HandlePacket \/ NothingToAccept \/ Accept
    <2>1. phase' \in {"poll", "scan", "crashed"}
      <3>1. CASE HandlePacket
        BY <3>1 DEF HandlePacket, VisitHelloMaster, VisitHello, VisitHelloUnsupported,
            VisitSetProto, VisitSetNickname, VisitSendMessage, VisitDisconnect, VisitIgnored,
            VisitPacket, Visit
      <3> QED BY <1>4, <3>1 DEF Poll, VisitQuiet, VisitLost, VisitNoClient, VisitMalformed,
            NothingToAccept, Accept, Visit
    <2> QED BY <2>1 DEF ShutdownProgress, ShutdownTellsEveryOther
  <1>5. CASE PeerStep \/ UNCHANGED vars
    <2>1. UNCHANGED <<phase, scan, clients, fdtab, at_exit, s2c>>
      BY <1>5 DEF PeerStep, vars, serverVars, sockets, Connect, PeerSend, PeerClose, PeerReset
    <2>2. /\ client_count' = client_count /\ Turns' = Turns
          /\ \A k : Place(k)' = Place(k)
          /\ \A k : Farewell(k)' = Farewell(k)
          /\ \A k : FarewellSoFar(k, Turns)' = FarewellSoFar(k, Turns)
      BY <2>1 DEF client_count, Turns, Place, FarewellSoFar, Farewell, ReadyAt, Departures, Written,
            Gone
    <2>3. ShutdownSoFar => ShutdownSoFar'
      BY <2>1, <2>2 DEF ShutdownSoFar
    <2>4. ShutdownTellsEveryOther => ShutdownTellsEveryOther'
      BY <2>1, <2>2 DEF ShutdownTellsEveryOther
    <2> QED BY <2>1, <2>3, <2>4 DEF ShutdownProgress
  <1> QED BY <1>1, <1>2, <1>3, <1>4, <1>5 DEF Next, ServerStep

\* Whatever happened before SIGINT and however many clients there are: the
\* shutdown loop tells exactly the clients at odd places that they are
\* disconnected, and exactly these departures are announced, in order.
THEOREM ShutdownCorrect == Spec => []ShutdownTellsEveryOther
  <1>1. Init => ShutdownProgress
    BY DEF Init, ServerInit, ShutdownProgress, ShutdownTellsEveryOther
  <1>2. ShutdownProgress => ShutdownTellsEveryOther
    BY DEF ShutdownProgress
  <1> QED BY <1>1, <1>2, Invariance, ShutdownProgressNext, PTL DEF Spec

-----------------------------------------------------------------------------
(* The last packet of a connection.                                        *)

NoFarewell(s) == \A i \in 1 .. Len(s) : s[i] # Disconnect
FarewellLast(s) == \A i \in 1 .. Len(s) - 1 : s[i] # Disconnect

\* The server has not closed c, or not even seen it.
Alive(c) ==
    \/ peer[c] = "unused"
    \/ \E i \in DOMAIN backlog : backlog[i] = c
    \/ \E fd \in Fds : fdtab[fd] = c

\* A descriptor belongs to one connection, during the shutdown too.
OneFdPerConn ==
    \A f, g \in Fds : fdtab[f] = fdtab[g] /\ fdtab[f] # NoConn => f = g

\* No connection that can still be written to has been sent DISCONNECT.
FarewellInv ==
    /\ OneFdPerConn
    /\ \A c \in Conns : Alive(c) => NoFarewell(s2c[c])
    /\ \A c \in Conns : FarewellLast(s2c[c])

LEMMA FarewellConcat ==
    ASSUME NEW s \in Seq(Packets), NEW t \in Seq(Packets), NoFarewell(s)
    PROVE  /\ NoFarewell(t) => NoFarewell(s \o t)
           /\ FarewellLast(t) => FarewellLast(s \o t)
  <1>1. /\ Len(s) \in Nat /\ Len(t) \in Nat
        /\ Len(s \o t) = Len(s) + Len(t)
        /\ \A i \in 1 .. Len(s) + Len(t) :
            (s \o t)[i] = IF i <= Len(s) THEN s[i] ELSE t[i - Len(s)]
    BY ConcatProperties, LenProperties
  <1>2. NoFarewell(t) => NoFarewell(s \o t)
    BY <1>1 DEF NoFarewell
  <1>3. FarewellLast(t) => FarewellLast(s \o t)
    BY <1>1 DEF NoFarewell, FarewellLast
  <1> QED BY <1>2, <1>3

LEMMA FarewellShort ==
    /\ NoFarewell(<<>>)
    /\ \A p \in Packets : p # Disconnect => NoFarewell(<<p>>)
    /\ \A p \in Packets : FarewellLast(<<p>>)
    /\ \A s \in Seq(Packets) : NoFarewell(s) => FarewellLast(s)
    /\ \A client, s : NoFarewell(s) => NoFarewell(Written(client, s))
  <1>1. \A s \in Seq(Packets) : Len(s) \in Nat
    BY LenProperties
  <1> QED BY <1>1 DEF NoFarewell, FarewellLast, Written

LEMMA NotDisconnect ==
    /\ \A m, p : Hello(m, p) # Disconnect
    /\ \A v : SetProto(v) # Disconnect
    /\ \A n : NicknameUpdated(n) # Disconnect
    /\ \A m, n : RecvMessage(m, n) # Disconnect
  <1>1. Disconnect.op = "DISCONNECT"
    BY DEF Disconnect
  <1>2. \A m, p : Hello(m, p).op = "HELLO"
    BY DEF Hello
  <1>3. \A v : SetProto(v).op = "SET_PROTO"
    BY DEF SetProto
  <1>4. \A n : NicknameUpdated(n).op = "NICKNAME_UPDATED"
    BY DEF NicknameUpdated
  <1>5. \A m, n : RecvMessage(m, n).op = "RECV_MESSAGE"
    BY DEF RecvMessage
  <1> QED BY <1>1, <1>2, <1>3, <1>4, <1>5

\* A message to clients reaches open connections only.
LEMMA BroadcastFarewell ==
    ASSUME ServerInv, NEW cls, \A k \in DOMAIN cls : cls[k].fd \in Fds,
           NEW p \in Packets, p # Disconnect, NEW c \in Conns
    PROVE  /\ Broadcast(c, cls, p) \in Seq(Packets)
           /\ NoFarewell(Broadcast(c, cls, p))
           /\ Broadcast(c, cls, p) # <<>> => Alive(c)
  BY WriteTypes, FarewellShort DEF Broadcast, Alive

\* What a step may do with one connection.
LEMMA FarewellStep ==
    ASSUME ServerInv, FarewellInv, OneFdPerConn',
           \A c \in Conns : \E t \in Seq(Packets) :
            /\ s2c'[c] = s2c[c] \o t
            /\ Alive(c)' => Alive(c) /\ NoFarewell(t)
            /\ t = <<>> \/ (Alive(c) /\ FarewellLast(t))
    PROVE  FarewellInv'
  <1> SUFFICES ASSUME NEW c \in Conns
               PROVE  /\ Alive(c)' => NoFarewell(s2c'[c])
                      /\ FarewellLast(s2c'[c])
    BY DEF FarewellInv
  <1> PICK t \in Seq(Packets) :
            /\ s2c'[c] = s2c[c] \o t
            /\ Alive(c)' => Alive(c) /\ NoFarewell(t)
            /\ t = <<>> \/ (Alive(c) /\ FarewellLast(t))
    OBVIOUS
  <1>1. s2c[c] \in Seq(Packets)
    BY DEF ServerInv, TypeOK, SocketsTypeOK
  <1>2. Alive(c)' => NoFarewell(s2c'[c])
    BY <1>1, FarewellConcat DEF FarewellInv
  <1>3. FarewellLast(s2c'[c])
    <2>1. CASE t = <<>>
      BY <1>1, <2>1, ConcatEmptySeq DEF FarewellInv
    <2>2. CASE Alive(c) /\ FarewellLast(t)
      BY <1>1, <2>2, FarewellConcat DEF FarewellInv
    <2> QED BY <2>1, <2>2
  <1> QED BY <1>2, <1>3

\* The steps that write nothing and make no closed connection open.
LEMMA SilentFarewell ==
    ASSUME ServerInv, FarewellInv, UNCHANGED s2c,
           \A fd \in Fds : fdtab'[fd] \in {fdtab[fd], NoConn},
           \A c \in Conns : peer'[c] = "unused" => peer[c] = "unused",
           \A i \in DOMAIN backlog' :
                (\E j \in DOMAIN backlog : backlog[j] = backlog'[i]) \/ peer[backlog'[i]] = "unused"
    PROVE  FarewellInv'
  <1>1. OneFdPerConn'
    BY DEF FarewellInv, OneFdPerConn, Fds, Capacity
  <1>2. ASSUME NEW c \in Conns, Alive(c)' PROVE Alive(c)
    <2>1. c # NoConn
      BY ConnsAssumption
    <2> QED BY <1>2, <2>1 DEF Alive, Fds, Capacity
  <1>3. ASSUME NEW c \in Conns
        PROVE  s2c'[c] = s2c[c] \o <<>>
    <2>1. s2c[c] \in Seq(Packets)
      BY DEF ServerInv, TypeOK, SocketsTypeOK
    <2> QED BY <2>1, ConcatEmptySeq
  <1> QED BY <1>1, <1>2, <1>3, ShortSeqs, FarewellShort, FarewellStep

\* The handlers that answer the client or pass its message on.
LEMMA AnswerFarewell ==
    ASSUME ServerInv, FarewellInv, UNCHANGED <<fdtab, peer, backlog>>,
           \A c \in Conns : \E t \in Seq(Packets) :
            /\ s2c'[c] = s2c[c] \o t
            /\ NoFarewell(t)
            /\ t = <<>> \/ Alive(c)
    PROVE  FarewellInv'
  <1>1. OneFdPerConn'
    BY DEF FarewellInv, OneFdPerConn, Fds, Capacity
  <1>2. \A c \in Conns : Alive(c)' => Alive(c)
    BY DEF Alive, Fds, Capacity
  <1> QED BY <1>1, <1>2, FarewellShort, FarewellStep

LEMMA UpdateFarewell ==
    ASSUME ServerInv, FarewellInv, NEW k, NEW p, VisitPacket(k, p),
           NEW client, NEW packets \in Seq(Packets), Update(k, client, packets),
           NoFarewell(packets)
    PROVE  FarewellInv'
  <1>1. UNCHANGED <<fdtab, peer, backlog>> /\ fdtab[Here] \in Conns /\ phase = "scan"
    BY VisitPacketFacts DEF Update
  <1>2. Alive(fdtab[Here])
    <2>1. Here \in Fds
      BY <1>1, VisitedClient DEF VisitPacket
    <2> QED BY <2>1 DEF Alive
  <1>3. ASSUME NEW c \in Conns
        PROVE  \E t \in Seq(Packets) :
                    s2c'[c] = s2c[c] \o t /\ NoFarewell(t) /\ (t = <<>> \/ Alive(c))
    <2>1. s2c[c] \in Seq(Packets) /\ s2c' = [s2c EXCEPT ![fdtab[Here]] = @ \o packets]
      BY DEF ServerInv, TypeOK, SocketsTypeOK, Update, WriteTo
    <2>2. CASE c = fdtab[Here]
      <3>1. s2c'[c] = s2c[c] \o packets
        BY <2>1, <2>2 DEF ServerInv, TypeOK, SocketsTypeOK
      <3> QED BY <1>2, <2>2, <3>1
    <2>3. CASE c # fdtab[Here]
      <3>1. s2c'[c] = s2c[c] \o <<>>
        BY <2>1, <2>3, ConcatEmptySeq DEF ServerInv, TypeOK, SocketsTypeOK
      <3> QED BY <3>1, ShortSeqs, FarewellShort
    <2> QED BY <2>2, <2>3
  <1> QED BY <1>1, <1>3, AnswerFarewell

\* disconnect_client: DISCONNECT is written last, and then the connection ends.
LEMMA DisconnectClientFarewell ==
    ASSUME ServerInv, FarewellInv, NEW k \in 1 .. client_count, NEW notify, NEW left,
           DisconnectClient(k, notify, left), UNCHANGED <<peer, backlog>>
    PROVE  FarewellInv'
  <1> DEFINE fd     == clients[k].fd
             notice == RecvMessage(LeftNotice(clients[k].nickname), System)
             Told(c) == IF notify THEN Broadcast(c, RemoveClient(k), notice) ELSE <<>>
             Bye(c) == IF c = fdtab[fd] /\ ~left THEN Written(clients[k], <<Disconnect>>) ELSE <<>>
  <1>1. clients[k] \in ClientRecord
    BY ElementOfSeq DEF ServerInv, TypeOK, ServerTypeOK, client_count
  <1>2. fd \in Fds /\ clients[k].nickname \in Names
    BY <1>1 DEF ClientRecord
  <1>3. notice \in Packets /\ notice # Disconnect
    BY <1>2, PacketTypes, NotDisconnect
  <1>4. \A j \in DOMAIN RemoveClient(k) : RemoveClient(k)[j].fd \in Fds
    <2>1. /\ RemoveClient(k) \in Seq(ClientRecord)
          /\ DOMAIN RemoveClient(k) = 1 .. Len(RemoveClient(k))
      BY RemoveClientFacts, LenProperties DEF ServerInv, TypeOK
    <2>2. \A j \in DOMAIN RemoveClient(k) : RemoveClient(k)[j] \in ClientRecord
      BY <2>1, ElementOfSeq
    <2> QED BY <2>2 DEF ClientRecord
  <1>5. \A f \in Fds : fdtab'[f] = IF f = fd THEN NoConn ELSE fdtab[f]
    BY <1>2 DEF DisconnectClient, ServerInv, TypeOK, ServerTypeOK
  <1>6. OneFdPerConn'
    BY <1>5 DEF FarewellInv, OneFdPerConn, Fds, Capacity
  <1>7. ASSUME NEW c \in Conns PROVE Alive(c)' => Alive(c) /\ c # fdtab[fd]
    <2> SUFFICES ASSUME Alive(c)' PROVE Alive(c) /\ c # fdtab[fd]
      OBVIOUS
    <2>1. c # NoConn
      BY ConnsAssumption
    <2>2. Alive(c)
      BY <1>5, <2>1 DEF Alive, Fds, Capacity
    <2>3. CASE c = fdtab[fd]
      <3>1. peer[c] # "unused" /\ \A i \in DOMAIN backlog : backlog[i] # c
        BY <1>2, <2>1, <2>3 DEF ServerInv, BacklogFresh
      <3>2. \A f \in Fds : fdtab'[f] # c
        BY <1>2, <1>5, <2>1, <2>3 DEF FarewellInv, OneFdPerConn
      <3> QED BY <3>1, <3>2 DEF Alive, Fds, Capacity
    <2> QED BY <2>2, <2>3
  <1>8. ASSUME NEW c \in Conns
        PROVE  \E t \in Seq(Packets) :
                /\ s2c'[c] = s2c[c] \o t
                /\ Alive(c)' => Alive(c) /\ NoFarewell(t)
                /\ t = <<>> \/ (Alive(c) /\ FarewellLast(t))
    <2>1. s2c'[c] = s2c[c] \o (Told(c) \o Bye(c))
      BY DEF DisconnectClient
    <2>2. /\ Told(c) \in Seq(Packets) /\ NoFarewell(Told(c))
          /\ Told(c) # <<>> => Alive(c)
      <3> HIDE DEF notice
      <3> QED BY <1>3, <1>4, BroadcastFarewell, ShortSeqs, FarewellShort
    <2>3. /\ Bye(c) \in Seq(Packets) /\ FarewellLast(Bye(c))
          /\ Bye(c) # <<>> => c = fdtab[fd]
      BY PacketTypes, ShortSeqs, FarewellShort DEF Written
    <2> HIDE DEF Told, Bye
    <2>4. Told(c) \o Bye(c) \in Seq(Packets) /\ FarewellLast(Told(c) \o Bye(c))
      BY <2>2, <2>3, ShortSeqs, FarewellConcat
    <2>5. CASE c = fdtab[fd]
      <3>1. Alive(c)
        BY <1>2, <2>5 DEF Alive
      <3> QED BY <1>7, <2>1, <2>4, <2>5, <3>1
    <2>6. CASE c # fdtab[fd]
      <3>1. Told(c) \o Bye(c) = Told(c)
        BY <2>2, <2>3, <2>6, ConcatEmptySeq
      <3> QED BY <1>7, <2>1, <2>2, <2>4, <3>1
    <2> QED BY <2>5, <2>6
  <1> QED BY <1>6, <1>8, FarewellStep

LEMMA DisconnectSocketFarewell ==
    ASSUME ServerInv, FarewellInv, NEW fd, NEW notify, NEW left,
           DisconnectSocket(fd, notify, left), UNCHANGED <<peer, backlog>>
    PROVE  FarewellInv'
  <1>1. CASE ClientIds(fd) # {}
    <2>1. PICK k \in ClientIds(fd) : DisconnectClient(k, notify, left)
      BY <1>1 DEF DisconnectSocket
    <2>2. k \in 1 .. client_count
      BY DEF ClientIds
    <2> QED BY <2>1, <2>2, DisconnectClientFarewell
  <1>2. CASE ClientIds(fd) = {}
    <2>1. UNCHANGED s2c /\ \A f \in Fds : fdtab'[f] \in {fdtab[f], NoConn}
      BY <1>2 DEF DisconnectSocket, ServerInv, TypeOK, ServerTypeOK
    <2> QED BY <2>1, SilentFarewell
  <1> QED BY <1>1, <1>2

LEMMA AcceptFarewell == ServerInv /\ FarewellInv /\ Accept => FarewellInv'
  <1> SUFFICES ASSUME ServerInv, FarewellInv, Accept PROVE FarewellInv'
    OBVIOUS
  <1> DEFINE a == Head(backlog)
             hello == <<Hello(FALSE, Protocols)>>
  <1>1. /\ backlog \in Seq(Conns) /\ backlog # <<>>
        /\ a \in Conns
        /\ 1 \in DOMAIN backlog /\ a = backlog[1]
        /\ \A i \in DOMAIN backlog' : \E j \in DOMAIN backlog : backlog[j] = backlog'[i]
    <2>1. backlog \in Seq(Conns) /\ backlog # <<>> /\ backlog' = Tail(backlog)
      BY DEF Accept, ScanOver, ServerInv, TypeOK, SocketsTypeOK, AcceptReady
    <2>2. /\ a \in Conns /\ backlog' \in Seq(Conns)
          /\ Len(backlog') = Len(backlog) - 1
          /\ \A i \in 1 .. Len(backlog') : backlog'[i] = backlog[i + 1]
      BY <2>1, HeadTailProperties
    <2>3. /\ DOMAIN backlog = 1 .. Len(backlog) /\ DOMAIN backlog' = 1 .. Len(backlog')
          /\ Len(backlog) \in Nat \ {0}
      BY <2>1, <2>2, LenProperties, EmptySeq
    <2>4. \A i \in DOMAIN backlog' : i + 1 \in DOMAIN backlog
      BY <2>2, <2>3
    <2>5. a = backlog[1]
      BY <2>1
    <2> QED BY <2>1, <2>2, <2>3, <2>4, <2>5
  <1>2. PICK fd \in Fds :
            /\ fdtab' = [fdtab EXCEPT ![fd] = a]
            /\ \E client : s2c' = [s2c EXCEPT ![a] = @ \o Written(client, hello)]
    BY DEF Accept, NewFd, WriteTo
  <1>3. PICK client : s2c' = [s2c EXCEPT ![a] = @ \o Written(client, hello)]
    BY <1>2
  <1> DEFINE out == Written(client, hello)
  <1>4. out \in Seq(Packets) /\ NoFarewell(out)
    BY PacketTypes, ShortSeqs, WriteTypes, FarewellShort, NotDisconnect
  <1>5. \A f \in Fds : fdtab'[f] = IF f = fd THEN a ELSE fdtab[f]
    BY <1>2 DEF ServerInv, TypeOK, ServerTypeOK
  <1>6. Alive(a) /\ peer' = peer
    <2>1. peer' = peer
      BY DEF Accept
    <2> HIDE DEF a
    <2> QED BY <1>1, <2>1 DEF Alive
  <1>7. OneFdPerConn'
    <2>1. \A f \in Fds : fdtab[f] # a
      <3> HIDE DEF a
      <3> QED BY <1>1 DEF ServerInv, BacklogFresh
    <2> QED BY <1>5, <2>1 DEF FarewellInv, OneFdPerConn, Fds, Capacity
  <1>8. ASSUME NEW c \in Conns, Alive(c)' PROVE Alive(c)
    <2> HIDE DEF a
    <2> QED BY <1>1, <1>5, <1>6, <1>8 DEF Alive, Fds, Capacity
  <1>9. ASSUME NEW c \in Conns
        PROVE  \E t \in Seq(Packets) :
                /\ s2c'[c] = s2c[c] \o t
                /\ Alive(c)' => Alive(c) /\ NoFarewell(t)
                /\ t = <<>> \/ (Alive(c) /\ FarewellLast(t))
    <2>1. s2c[c] \in Seq(Packets) /\ s2c \in [Conns -> Seq(Packets)]
      BY DEF ServerInv, TypeOK, SocketsTypeOK
    <2>2. CASE c = a
      <3>1. s2c'[c] = s2c[c] \o out
        BY <1>1, <1>3, <2>1, <2>2
      <3> HIDE DEF a, out
      <3> QED BY <1>4, <1>6, <1>8, <2>2, <3>1, FarewellShort
    <2>3. CASE c # a
      <3>1. s2c'[c] = s2c[c] \o <<>>
        BY <1>3, <2>1, <2>3, ConcatEmptySeq
      <3> QED BY <1>8, <3>1, ShortSeqs, FarewellShort
    <2> QED BY <2>2, <2>3
  <1> QED BY <1>7, <1>9, FarewellStep

LEMMA HandlePacketFarewell == ServerInv /\ FarewellInv /\ HandlePacket => FarewellInv'
  <1> SUFFICES ASSUME ServerInv, FarewellInv, NEW k \in 1 .. client_count, NEW p,
                      \/ VisitHelloMaster(k, p)
                      \/ VisitHello(k, p)
                      \/ VisitHelloUnsupported(k, p)
                      \/ VisitSetProto(k, p)
                      \/ VisitSetNickname(k, p)
                      \/ VisitSendMessage(k, p)
                      \/ VisitDisconnect(k, p)
                      \/ VisitIgnored(k, p)
               PROVE  FarewellInv'
    BY DEF HandlePacket
  <1>1. VisitPacket(k, p)
    BY DEF VisitHelloMaster, VisitHello, VisitHelloUnsupported, VisitSetProto,
           VisitSetNickname, VisitSendMessage, VisitDisconnect, VisitIgnored
  <1>2. /\ clients[k] \in ClientRecord
        /\ p \in Packets
        /\ UNCHANGED <<peer, backlog>>
    BY <1>1, VisitPacketFacts
  <1>3. \A client : \A n \in Names : /\ RenameReply(client, n) \in Seq(Packets)
                                   /\ NoFarewell(RenameReply(client, n))
    <2>1. \A n \in Names : /\ NicknameUpdated(n) \in Packets
                           /\ NicknameUpdated(n) # Disconnect
      BY PacketTypes, NotDisconnect
    <2> QED BY <2>1, ShortSeqs, FarewellShort, WriteTypes DEF RenameReply
  <1>4. CASE VisitHelloMaster(k, p)
    BY <1>1, <1>4, UpdateFarewell, ShortSeqs, FarewellShort DEF VisitHelloMaster
  <1>5. CASE VisitHello(k, p)
    <2>1. PICK sel, client :
            /\ sel \in Protocols
            /\ Update(k, Renamed(client, Anon), <<SetProto(sel)>> \o RenameReply(client, Anon))
      BY <1>5 DEF VisitHello
    <2>2. SetProto(sel) \in Packets /\ SetProto(sel) # Disconnect
      BY <2>1, PacketTypes, NotDisconnect, VersionsAssumption DEF Protocols
    <2>3. /\ <<SetProto(sel)>> \o RenameReply(client, Anon) \in Seq(Packets)
          /\ NoFarewell(<<SetProto(sel)>> \o RenameReply(client, Anon))
      BY <1>3, <2>2, ShortSeqs, FarewellShort, FarewellConcat DEF Names
    <2> QED BY <1>1, <2>1, <2>3, UpdateFarewell
  <1>6. CASE VisitHelloUnsupported(k, p)
    BY <1>2, <1>6, DisconnectClientFarewell DEF VisitHelloUnsupported
  <1>7. CASE VisitSetProto(k, p)
    <2>1. PICK client : Update(k, Renamed(client, Anon), RenameReply(client, Anon))
      BY <1>7 DEF VisitSetProto
    <2> QED BY <1>1, <1>3, <2>1, UpdateFarewell DEF Names
  <1>8. CASE VisitSetNickname(k, p)
    <2>1. p.nickname \in Names
      BY <1>2, <1>8, PacketFields DEF VisitSetNickname
    <2> QED BY <1>1, <1>3, <1>8, <2>1, UpdateFarewell DEF VisitSetNickname
  <1>9. CASE VisitSendMessage(k, p)
    <2> DEFINE message == RecvMessage(p.message, clients[k].nickname)
    <2>1. message \in Packets /\ message # Disconnect
      BY <1>2, <1>9, PacketFields, PacketTypes, NotDisconnect DEF VisitSendMessage, ClientRecord
    <2>2. \A j \in DOMAIN clients : clients[j].fd \in Fds
      <3>1. clients \in Seq(ClientRecord) /\ DOMAIN clients = 1 .. Len(clients)
        BY LenProperties DEF ServerInv, TypeOK, ServerTypeOK
      <3>2. \A j \in DOMAIN clients : clients[j] \in ClientRecord
        BY <3>1, ElementOfSeq
      <3> QED BY <3>2 DEF ClientRecord
    <2>3. /\ s2c' = [c \in Conns |-> s2c[c] \o Broadcast(c, clients, message)]
          /\ UNCHANGED fdtab
      BY <1>9 DEF VisitSendMessage
    <2> HIDE DEF message
    <2>4. ASSUME NEW c \in Conns
          PROVE  \E t \in Seq(Packets) :
                    s2c'[c] = s2c[c] \o t /\ NoFarewell(t) /\ (t = <<>> \/ Alive(c))
      BY <2>1, <2>2, <2>3, BroadcastFarewell
    <2> QED BY <1>2, <2>3, <2>4, AnswerFarewell
  <1>10. CASE VisitDisconnect(k, p)
    BY <1>2, <1>10, DisconnectClientFarewell DEF VisitDisconnect
  <1>11. CASE VisitIgnored(k, p)
    BY <1>1, <1>11, UpdateFarewell, ShortSeqs, FarewellShort DEF VisitIgnored
  <1> QED BY <1>4, <1>5, <1>6, <1>7, <1>8, <1>9, <1>10, <1>11

LEMMA FarewellNext == ServerInv /\ FarewellInv /\ [Next]_vars => FarewellInv'
  <1> SUFFICES ASSUME ServerInv, FarewellInv, [Next]_vars PROVE FarewellInv'
    OBVIOUS
  <1>1. CASE \/ Poll \/ VisitQuiet \/ VisitNoClient \/ NothingToAccept
             \/ Sigint \/ ShutdownOver \/ UNCHANGED vars
    <2>1. UNCHANGED <<peer, backlog, s2c>>
      BY <1>1 DEF Poll, VisitQuiet, VisitNoClient, NothingToAccept, Sigint, ShutdownOver,
                  Visit, vars, sockets
    <2>2. \A fd \in Fds : fdtab'[fd] \in {fdtab[fd], NoConn}
      BY <1>1 DEF Poll, VisitQuiet, VisitNoClient, NothingToAccept, Sigint, ShutdownOver,
                  vars, serverVars
    <2> QED BY <2>1, <2>2, SilentFarewell
  <1>2. CASE PeerStep
    <2>1. UNCHANGED <<fdtab, s2c>>
      BY <1>2 DEF PeerStep, serverVars, Connect, PeerSend, PeerClose, PeerReset
    <2>2. \A c \in Conns : peer'[c] = "unused" => peer[c] = "unused"
      BY <1>2 DEF PeerStep, Connect, PeerSend, PeerClose, PeerReset,
                  ServerInv, TypeOK, SocketsTypeOK
    <2>3. \A i \in DOMAIN backlog' :
            (\E j \in DOMAIN backlog : backlog[j] = backlog'[i]) \/ peer[backlog'[i]] = "unused"
      <3>1. CASE UNCHANGED backlog
        BY <3>1
      <3>2. ASSUME NEW c \in Conns, Connect(c)
            PROVE  \A i \in DOMAIN backlog' :
                    (\E j \in DOMAIN backlog : backlog[j] = backlog'[i]) \/ backlog'[i] = c
        <4>1. backlog \in Seq(Conns) /\ backlog' = Append(backlog, c)
          BY <3>2 DEF Connect, ServerInv, TypeOK, SocketsTypeOK
        <4>2. /\ backlog' \in Seq(Conns) /\ Len(backlog') = Len(backlog) + 1
              /\ backlog'[Len(backlog) + 1] = c
              /\ \A i \in 1 .. Len(backlog) : backlog'[i] = backlog[i]
          BY <4>1, AppendProperties
        <4>3. /\ DOMAIN backlog = 1 .. Len(backlog) /\ DOMAIN backlog' = 1 .. Len(backlog')
              /\ Len(backlog) \in Nat
          BY <4>1, <4>2, LenProperties
        <4> QED BY <4>2, <4>3
      <3>3. UNCHANGED backlog \/ \E c \in Conns : Connect(c)
        BY <1>2 DEF PeerStep, PeerSend, PeerClose, PeerReset
      <3>4. \A c \in Conns : Connect(c) => peer[c] = "unused"
        BY DEF Connect
      <3> QED BY <3>1, <3>2, <3>3, <3>4
    <2> QED BY <2>1, <2>2, <2>3, SilentFarewell
  <1>3. CASE VisitLost
    BY <1>3, DisconnectSocketFarewell DEF VisitLost, Visit
  <1>4. CASE VisitMalformed
    <2>1. PICK k \in ClientIds(Here) : DisconnectClient(k, TRUE, FALSE)
      BY <1>4 DEF VisitMalformed
    <2>2. k \in 1 .. client_count /\ UNCHANGED <<peer, backlog>>
      BY <1>4 DEF ClientIds, VisitMalformed, Visit
    <2> QED BY <2>1, <2>2, DisconnectClientFarewell
  <1>5. CASE HandlePacket
    BY <1>5, HandlePacketFarewell
  <1>6. CASE Accept
    BY <1>6, AcceptFarewell
  <1>7. CASE ShutdownClient
    BY <1>7, DisconnectSocketFarewell DEF ShutdownClient
  <1> QED BY <1>1, <1>2, <1>3, <1>4, <1>5, <1>6, <1>7 DEF Next, ServerStep

LEMMA FarewellInit == Init => FarewellInv
  <1> SUFFICES ASSUME Init PROVE FarewellInv
    OBVIOUS
  <1>1. \A c \in Conns : NoFarewell(s2c[c]) /\ FarewellLast(s2c[c])
    BY FarewellShort, ShortSeqs DEF Init, SocketsInit
  <1>2. OneFdPerConn
    BY DEF OneFdPerConn, Init, ServerInit
  <1> QED BY <1>1, <1>2 DEF FarewellInv

\* The invariant holds throughout.
LEMMA FarewellInvariance == Spec => []FarewellInv
  BY FarewellInit, Invariance, FarewellNext, PTL DEF Spec

\* disconnect_client sends DISCONNECT and closes at once: no broadcast, no
\* reused descriptor and no turn of the shutdown loop writes after it.
THEOREM FarewellCorrect == Spec => []DisconnectIsLast
  <1>1. FarewellInv => DisconnectIsLast
    BY DEF FarewellInv, FarewellLast, DisconnectIsLast
  <1> QED BY <1>1, FarewellInvariance, PTL
=============================================================================
