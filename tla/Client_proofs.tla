---------------------------- MODULE Client_proofs ----------------------------
(***************************************************************************)
(* Proofs about the client facing any server, for any number of users and  *)
(* connections.                                                            *)
(***************************************************************************)
EXTENDS ClientWithServer, DataInduction, SequenceTheorems, TLAPS

\* What can be said of the packets s a client wrote on a connection.
Silent(s)       == \A i \in 1 .. Len(s) : s[i] # Disconnect
LastWords(s)    == \A i \in 1 .. Len(s) : s[i] = Disconnect => i = Len(s)
Introduces(s, n) == \E i \in 1 .. Len(s) : s[i] = SetNickname(n)

\* And of the first k packets it read of s.
ProtoIn(s, k)   == \E i \in 1 .. k : s[i].op = "SET_PROTO"
UnknownIn(s, k) == \E i \in 1 .. k : s[i].op = "SET_PROTO" /\ s[i].protocol # 1

-----------------------------------------------------------------------------
(* The inductive invariant.                                                *)

UnusedIsFresh == \A c \in Conns : peer[c] = "unused" => c2s[c] = <<>> /\ got[c] = 0

ReadIsWritten == \A c \in Conns : got[c] <= Len(s2c[c])

CurrentIsOpen ==
    \A u \in Users : connection[u] # NoConn => peer[connection[u]] = "open" /\ u \notin exited

\* Nobody uses or has leaked what somebody uses.
OneOwner ==
    \A u, v \in Users :
        /\ u # v /\ connection[u] # NoConn => connection[v] # connection[u]
        /\ connection[u] \notin leaked[v]

LeakedIsUsed == \A u \in Users : \A c \in leaked[u] : peer[c] # "unused"

Farewells ==
    \A c \in Conns : LastWords(c2s[c]) /\ (peer[c] = "open" => Silent(c2s[c]))

\* Only a SET_PROTO read on this connection makes the version another than 1.
VersionWasRead ==
    \A u \in Users : connection[u] # NoConn /\ version[u] # 1 =>
        UnknownIn(s2c[connection[u]], got[connection[u]])

OpenIsOwned ==
    \A c \in Conns : peer[c] = "open" =>
        (\E u \in Users : connection[u] = c) \/ UnknownIn(s2c[c], got[c])

NamedWithProtocol ==
    \A u \in Users : connection[u] # NoConn =>
        (connection_state[u] = 1 <=>
            await_nick[u] # NoNick /\ ProtoIn(s2c[connection[u]], got[connection[u]]))

NamedOnWire ==
    \A u \in Users : connection[u] # NoConn /\ connection_state[u] = 1 /\ version[u] = 1 =>
        Introduces(c2s[connection[u]], await_nick[u])

Ownership == CurrentIsOpen /\ OneOwner /\ LeakedIsUsed /\ OpenIsOwned
Wire      == UnusedIsFresh /\ ReadIsWritten /\ Farewells
Handshake == VersionWasRead /\ NamedWithProtocol /\ NamedOnWire

ClientInv == TypeOK /\ Ownership /\ Wire /\ Handshake

-----------------------------------------------------------------------------
(* Packets.                                                                *)

\* The packets the client writes are packets.
LEMMA PacketTypes ==
    /\ Disconnect \in Packets /\ Hello(FALSE, {1}) \in Packets
    /\ \A n \in Nicks : SetNickname(n) \in Packets
    /\ \A m \in Msgs : SendMessage(m) \in Packets
  <1>1. Disconnect \in [op : {"DISCONNECT"}]
    BY DEF Disconnect
  <1>2. Hello(FALSE, {1}) \in [op : {"HELLO"}, master : BOOLEAN, protocols : SUBSET Versions]
    BY VersionsAssumption DEF Hello
  <1>3. \A n \in Nicks : SetNickname(n) \in [op : {"SET_NICKNAME", "NICKNAME_UPDATED"}, nickname : Names]
    BY DEF SetNickname, Names
  <1>4. \A m \in Msgs : SendMessage(m) \in [op : {"SEND_MESSAGE"}, message : Msgs]
    BY DEF SendMessage
  <1> QED BY <1>1, <1>2, <1>3, <1>4 DEF Packets

\* None of the other packets the client writes is a DISCONNECT.
LEMMA NotFarewell ==
    /\ Hello(FALSE, {1}) # Disconnect
    /\ \A n : SetNickname(n) # Disconnect
    /\ \A m : SendMessage(m) # Disconnect
  <1>1. Disconnect.op = "DISCONNECT"
    BY DEF Disconnect
  <1>2. Hello(FALSE, {1}).op = "HELLO"
    BY DEF Hello
  <1>3. \A n : SetNickname(n).op = "SET_NICKNAME"
    BY DEF SetNickname
  <1>4. \A m : SendMessage(m).op = "SEND_MESSAGE"
    BY DEF SendMessage
  <1> QED BY <1>1, <1>2, <1>3, <1>4

\* One more packet p at the end of what was written.
LEMMA Written ==
    ASSUME NEW s \in Seq(Packets), NEW p \in Packets
    PROVE  /\ Append(s, p) \in Seq(Packets)
           /\ p # Disconnect /\ Silent(s) => Silent(Append(s, p))
           /\ Silent(s) => LastWords(Append(s, p))
           /\ \A n : Introduces(s, n) => Introduces(Append(s, p), n)
           /\ \A n : p = SetNickname(n) => Introduces(Append(s, p), n)
  <1>1. /\ Append(s, p) \in Seq(Packets) /\ Len(s) \in Nat
        /\ Len(Append(s, p)) = Len(s) + 1
        /\ Append(s, p)[Len(s) + 1] = p
        /\ \A i \in 1 .. Len(s) : Append(s, p)[i] = s[i]
    BY AppendProperties, LenProperties
  <1>2. \A i \in 1 .. Len(s) + 1 : i \in 1 .. Len(s) \/ i = Len(s) + 1
    BY <1>1
  <1>3. 1 .. Len(s) \subseteq 1 .. Len(s) + 1 /\ Len(s) + 1 \in 1 .. Len(s) + 1
    BY <1>1
  <1> QED BY <1>1, <1>2, <1>3 DEF Silent, LastWords, Introduces

\* What user u sends is one packet or nothing.
LEMMA SentFacts ==
    ASSUME NEW s \in Seq(Packets), NEW p \in Packets, NEW u \in Users
    PROVE  s \o Sent(u, p) = IF version[u] = 1 THEN Append(s, p) ELSE s
  <1>1. s \o <<>> = s
    BY ConcatEmptySeq
  <1>2. s \o <<p>> = Append(s, p)
    BY AppendIsConcat
  <1> QED BY <1>1, <1>2 DEF Sent

\* What was read stays read when the server writes more.
LEMMA ReadStays ==
    ASSUME NEW s \in Seq(Packets), NEW p \in Packets, NEW k \in Nat, k <= Len(s)
    PROVE  /\ k <= Len(Append(s, p))
           /\ ProtoIn(Append(s, p), k) <=> ProtoIn(s, k)
           /\ UnknownIn(Append(s, p), k) <=> UnknownIn(s, k)
  <1>1. /\ Len(s) \in Nat /\ Len(Append(s, p)) = Len(s) + 1
        /\ \A i \in 1 .. Len(s) : Append(s, p)[i] = s[i]
    BY AppendProperties, LenProperties
  <1>2. \A i \in 1 .. k : Append(s, p)[i] = s[i]
    BY <1>1
  <1> QED BY <1>1, <1>2 DEF ProtoIn, UnknownIn

\* One more packet read.
LEMMA ReadOne ==
    ASSUME NEW s, NEW k \in Nat
    PROVE  /\ ProtoIn(s, k + 1) <=> ProtoIn(s, k) \/ s[k + 1].op = "SET_PROTO"
           /\ UnknownIn(s, k) => UnknownIn(s, k + 1)
           /\ s[k + 1].op = "SET_PROTO" /\ s[k + 1].protocol # 1 => UnknownIn(s, k + 1)
  <1>1. 1 .. k + 1 = (1 .. k) \cup {k + 1}
    OBVIOUS
  <1> QED BY <1>1 DEF ProtoIn, UnknownIn

\* Where nothing was read no protocol is set, and a stream that holds
\* nothing or the HELLO alone is silent.
LEMMA NothingYet ==
    /\ \A s : ~ProtoIn(s, 0) /\ ~UnknownIn(s, 0)
    /\ Silent(<<>>) /\ LastWords(<<>>)
    /\ Silent(<<Hello(FALSE, {1})>>) /\ LastWords(<<Hello(FALSE, {1})>>)
  <1>1. 1 .. 0 = {}
    OBVIOUS
  <1>2. \A s : ~ProtoIn(s, 0) /\ ~UnknownIn(s, 0)
    BY <1>1 DEF ProtoIn, UnknownIn
  <1>3. Silent(<<>>) /\ LastWords(<<>>)
    BY <1>1 DEF Silent, LastWords
  <1> DEFINE h == Hello(FALSE, {1})
  <1>4. h # Disconnect
    BY NotFarewell
  <1> HIDE DEF h
  <1>5. Len(<<h>>) = 1 /\ <<h>>[1] = h
    OBVIOUS
  <1>6. Silent(<<h>>) /\ LastWords(<<h>>)
    BY <1>4, <1>5 DEF Silent, LastWords
  <1> QED BY <1>2, <1>3, <1>6 DEF h

\* The packet client_run_tasks handles.
LEMMA TaskPacket ==
    ASSUME TypeOK, NEW u \in Users, NEW p, Task(u, p)
    PROVE  /\ connection[u] \in Conns /\ u \notin exited
           /\ got[connection[u]] \in Nat /\ got[connection[u]] < Len(s2c[connection[u]])
           /\ version[u] = 1
           /\ p \in Packets /\ p = s2c[connection[u]][got[connection[u]] + 1]
           /\ p.op = "SET_PROTO" => p.protocol \in Versions
  <1> DEFINE c == connection[u]
  <1>1. c \in Conns /\ u \notin exited
    BY DEF TypeOK, ClientTypeOK, Task, Pending, Connected
  <1>2. got[c] \in Nat /\ s2c[c] \in Seq(Packets)
    BY <1>1 DEF TypeOK, ClientTypeOK, SocketsTypeOK
  <1>3. got[c] < Len(s2c[c]) /\ version[u] = 1 /\ p = s2c[c][got[c] + 1]
    BY DEF Task, Pending
  <1>4. p \in Packets
    BY <1>2, <1>3
  <1>5. p.op = "SET_PROTO" => p.protocol \in Versions
    BY <1>4 DEF Packets
  <1> QED BY <1>1, <1>2, <1>3, <1>4, <1>5

\* Reading one more packet keeps the count of each connection a number.
LEMMA ReadType ==
    ASSUME TypeOK, NEW u \in Users, NEW p, Task(u, p), Read(u)
    PROVE  got' \in [Conns -> Nat]
  <1>1. connection[u] \in Conns /\ got[connection[u]] + 1 \in Nat
    BY TaskPacket
  <1>2. got \in [Conns -> Nat] /\ got' = [got EXCEPT ![connection[u]] = @ + 1]
    BY DEF TypeOK, ClientTypeOK, Read
  <1> QED BY <1>1, <1>2

-----------------------------------------------------------------------------
(* Types.                                                                  *)

\* What a connection carries after u has ended its current one.
LEMMA ClosedFacts ==
    ASSUME TypeOK, NEW u \in Users, Connected(u)
    PROVE  /\ connection[u] \in Conns
           /\ Closed(u, c2s) \in [Conns -> Seq(Packets)]
           /\ \A c \in Conns : c # connection[u] => Closed(u, c2s)[c] = c2s[c]
           /\ Closed(u, c2s)[connection[u]] =
                IF version[u] = 1 THEN Append(c2s[connection[u]], Disconnect)
                ELSE c2s[connection[u]]
  <1>1. connection[u] \in Conns /\ c2s \in [Conns -> Seq(Packets)]
    BY DEF TypeOK, ClientTypeOK, SocketsTypeOK, Connected
  <1>2. c2s[connection[u]] \o Sent(u, Disconnect) =
          IF version[u] = 1 THEN Append(c2s[connection[u]], Disconnect) ELSE c2s[connection[u]]
    BY <1>1, PacketTypes, SentFacts
  <1>3. Append(c2s[connection[u]], Disconnect) \in Seq(Packets)
    BY <1>1, PacketTypes, Written
  <1> QED BY <1>1, <1>2, <1>3 DEF Closed

\* Every step keeps the type invariant.
LEMMA TypeInv == TypeOK /\ [Next]_vars => TypeOK'
  <1> SUFFICES ASSUME TypeOK, [Next]_vars
               PROVE  SocketsTypeOK' /\ ClientTypeOK'
    BY DEF TypeOK
  <1> USE DEF TypeOK, SocketsTypeOK, ClientTypeOK
  <1>1. ASSUME NEW u \in Users, NEW c \in Conns, NEW nick \in Configured,
               ServerButtonClicked(u, c, nick)
        PROVE  SocketsTypeOK' /\ ClientTypeOK'
    <2>1. (IF Connected(u) THEN Closed(u, c2s) ELSE c2s) \in [Conns -> Seq(Packets)]
      BY ClosedFacts
    <2>2. \A p \in Packets : <<p>> \in Seq(Packets)
      OBVIOUS
    <2>3. c2s' \in [Conns -> Seq(Packets)]
      BY <1>1, <2>1, <2>2, PacketTypes DEF ServerButtonClicked
    <2>4. peer' \in [Conns -> {"unused", "open", "fin", "reset"}]
      BY <1>1 DEF ServerButtonClicked
    <2>5. backlog' \in Seq(Conns)
      BY <1>1 DEF ServerButtonClicked
    <2>6. sent' \in 0 .. MaxSent
      BY <1>1, MaxSentAssumption DEF ServerButtonClicked, Act
    <2>7. nick \in Nicks \cup {NoNick} /\ 1 \in Versions
      BY ConfiguredAssumption, VersionsAssumption
    <2>8. ClientTypeOK'
      BY <1>1, <2>7 DEF ServerButtonClicked
    <2> QED BY <1>1, <2>3, <2>4, <2>5, <2>6, <2>8 DEF ServerButtonClicked
  <1>2. ASSUME NEW u \in Users, ServerButtonFails(u)
        PROVE  SocketsTypeOK' /\ ClientTypeOK'
    <2>1. c2s' \in [Conns -> Seq(Packets)] /\ peer' \in [Conns -> {"unused", "open", "fin", "reset"}]
      BY <1>2, ClosedFacts DEF ServerButtonFails, Leave
    <2>2. sent' \in 0 .. MaxSent
      BY <1>2, MaxSentAssumption DEF ServerButtonFails, Act
    <2> QED BY <1>2, <2>1, <2>2 DEF ServerButtonFails, Leave
  <1>3. ASSUME NEW u \in Users, NEW p \in Packets, Connected(u), Act,
               c2s' = [c2s EXCEPT ![connection[u]] = @ \o Sent(u, p)],
               UNCHANGED <<peer, backlog, s2c, clientVars>>
        PROVE  SocketsTypeOK' /\ ClientTypeOK'
    <2>1. connection[u] \in Conns
      BY <1>3 DEF Connected
    <2>2. c2s[connection[u]] \o Sent(u, p) \in Seq(Packets)
      <3>1. c2s[connection[u]] \in Seq(Packets)
        BY <2>1
      <3>2. Append(c2s[connection[u]], p) \in Seq(Packets)
        BY <3>1, Written
      <3> QED BY <3>1, <3>2, SentFacts
    <2>3. c2s' \in [Conns -> Seq(Packets)]
      BY <1>3, <2>2
    <2>4. sent' \in 0 .. MaxSent
      BY <1>3, MaxSentAssumption DEF Act
    <2> QED BY <1>3, <2>3, <2>4 DEF clientVars
  <1>4. ASSUME NEW u \in Users, Exit(u)
        PROVE  SocketsTypeOK' /\ ClientTypeOK'
    <2>1. c2s' \in [Conns -> Seq(Packets)]
      BY <1>4, ClosedFacts DEF Exit
    <2>2. sent' \in 0 .. MaxSent
      BY <1>4, MaxSentAssumption DEF Exit, Act
    <2>3. peer' \in [Conns -> {"unused", "open", "fin", "reset"}]
      BY <1>4 DEF Exit
    <2> QED BY <1>4, <2>1, <2>2, <2>3 DEF Exit
  <1>5. ASSUME NEW u \in Users, TaskUnreadable(u)
        PROVE  SocketsTypeOK' /\ ClientTypeOK'
    BY <1>5 DEF TaskUnreadable, Pending, Connected, sockets
  <1>6. ASSUME NEW u \in Users, NEW p, TaskConsume(u, p)
        PROVE  SocketsTypeOK' /\ ClientTypeOK'
    BY <1>6, ReadType DEF TaskConsume, sockets
  <1>7. ASSUME NEW u \in Users, NEW p, TaskSetProto(u, p)
        PROVE  SocketsTypeOK' /\ ClientTypeOK'
    <2>1. Task(u, p) /\ p.op = "SET_PROTO"
      BY <1>7 DEF TaskSetProto
    <2>2. connection[u] \in Conns /\ p.protocol \in Versions
      BY <2>1, TaskPacket
    <2>3. await_nick[u] # NoNick => SetNickname(await_nick[u]) \in Packets
      BY PacketTypes
    <2>4. await_nick[u] # NoNick =>
            Append(c2s[connection[u]], SetNickname(await_nick[u])) \in Seq(Packets)
      BY <2>2, <2>3, Written
    <2>5. c2s' \in [Conns -> Seq(Packets)]
      BY <1>7, <2>4 DEF TaskSetProto
    <2>6. 1 \in 0 .. 1 /\ connection_state \in [Users -> 0 .. 1]
      OBVIOUS
    <2>7. connection_state' \in [Users -> 0 .. 1]
      <3>1. \/ connection_state' = [connection_state EXCEPT ![u] = 1]
            \/ connection_state' = connection_state
        BY <1>7 DEF TaskSetProto
      <3> QED BY <2>6, <3>1
    <2>8. version' \in [Users -> Versions]
      BY <1>7, <2>2 DEF TaskSetProto
    <2>9. got' \in [Conns -> Nat]
      BY <1>7, <2>1, ReadType DEF TaskSetProto
    <2> QED BY <1>7, <2>5, <2>7, <2>8, <2>9 DEF TaskSetProto
  <1>8. ASSUME NEW u \in Users, NEW p, TaskShow(u, p)
        PROVE  SocketsTypeOK' /\ ClientTypeOK'
    <2>1. connection[u] \in Conns /\ p \in Packets
      BY <1>8, TaskPacket DEF TaskShow
    <2>2. <<connection[u], p>> \in Conns \X Packets
      BY <2>1
    <2>3. shown' \in [Users -> Seq(Conns \X Packets)]
      BY <1>8, <2>2, AppendProperties DEF TaskShow
    <2> QED BY <1>8, <2>3, ReadType DEF TaskShow, sockets
  <1>9. ASSUME NEW u \in Users, NEW p, TaskDisconnect(u, p)
        PROVE  SocketsTypeOK' /\ ClientTypeOK'
    <2>1. Connected(u)
      BY <1>9 DEF TaskDisconnect, Task, Pending
    <2>2. c2s' \in [Conns -> Seq(Packets)] /\ peer' \in [Conns -> {"unused", "open", "fin", "reset"}]
      BY <1>9, <2>1, ClosedFacts DEF TaskDisconnect, Leave
    <2>3. got' \in [Conns -> Nat]
      BY <1>9, ReadType DEF TaskDisconnect
    <2>4. connection' \in [Users -> Conns \cup {NoConn}]
      BY <1>9 DEF TaskDisconnect, Leave
    <2>5. connection_state' \in [Users -> 0 .. 1]
      <3>1. 0 \in 0 .. 1 /\ connection_state' = [connection_state EXCEPT ![u] = 0]
        BY <1>9 DEF TaskDisconnect, Leave
      <3> QED BY <3>1
    <2> QED BY <1>9, <2>2, <2>3, <2>4, <2>5 DEF TaskDisconnect
  <1>10. ASSUME NEW c \in Conns, NEW p \in Writable, ServerWrites(c, p)
         PROVE  SocketsTypeOK' /\ ClientTypeOK'
    <2>1. p \in Packets
      BY WritableAssumption
    <2>2. s2c' \in [Conns -> Seq(Packets)]
      BY <1>10, <2>1, Written DEF ServerWrites
    <2> QED BY <1>10, <2>2 DEF ServerWrites, clientVars
  <1>11. CASE UNCHANGED vars
    BY <1>11 DEF vars, sockets, clientVars
  <1>12. ASSUME NEW u \in Users, UserAction(u)
         PROVE  SocketsTypeOK' /\ ClientTypeOK'
    BY <1>2, <1>3, <1>4, <1>12, PacketTypes DEF UserAction, MessageSubmit, NicknameSubmit
  <1>13. ASSUME NEW u \in Users, RunTask(u)
         PROVE  SocketsTypeOK' /\ ClientTypeOK'
    BY <1>5, <1>6, <1>7, <1>8, <1>9, <1>13 DEF RunTask
  <1> QED BY <1>1, <1>10, <1>11, <1>12, <1>13 DEF Next, Click

-----------------------------------------------------------------------------
(* The steps.                                                              *)

\* The current connection of a user.
LEMMA Current ==
    ASSUME ClientInv, NEW u \in Users, connection[u] # NoConn
    PROVE  /\ connection[u] \in Conns /\ u \notin exited
           /\ peer[connection[u]] = "open"
           /\ c2s[connection[u]] \in Seq(Packets) /\ s2c[connection[u]] \in Seq(Packets)
           /\ Silent(c2s[connection[u]])
  BY DEF ClientInv, TypeOK, ClientTypeOK, SocketsTypeOK, Ownership, CurrentIsOpen,
         Wire, Farewells

\* message_submit and set_nickname_dialog_ok_clicked
LEMMA SendInv ==
    ASSUME ClientInv, NEW u \in Users, NEW p \in Packets, p # Disconnect, Connected(u),
           c2s' = [c2s EXCEPT ![connection[u]] = @ \o Sent(u, p)],
           UNCHANGED <<peer, backlog, s2c, clientVars>>
    PROVE  Ownership' /\ Wire' /\ Handshake'
  <1> DEFINE c == connection[u]
  <1>1. c \in Conns /\ c2s[c] \in Seq(Packets) /\ peer[c] = "open" /\ Silent(c2s[c])
    BY Current DEF Connected
  <1>2. c2s \in [Conns -> Seq(Packets)]
    BY DEF ClientInv, TypeOK, SocketsTypeOK
  <1>3. /\ c2s'[c] = IF version[u] = 1 THEN Append(c2s[c], p) ELSE c2s[c]
        /\ \A d \in Conns : d # c => c2s'[d] = c2s[d]
    BY <1>1, <1>2, SentFacts
  <1>4. /\ Silent(c2s'[c])
        /\ \A n : Introduces(c2s[c], n) => Introduces(c2s'[c], n)
    BY <1>1, <1>3, Written
  <1>5. LastWords(c2s'[c])
    BY <1>4 DEF Silent, LastWords
  <1> USE DEF clientVars
  <1>6. Ownership'
    BY DEF ClientInv, Ownership, CurrentIsOpen, OneOwner, LeakedIsUsed, OpenIsOwned
  <1>7. Wire'
    <2>1. UnusedIsFresh'
      BY <1>1, <1>3 DEF ClientInv, Wire, UnusedIsFresh
    <2>2. Farewells'
      BY <1>3, <1>4, <1>5 DEF ClientInv, Wire, Farewells
    <2> QED BY <2>1, <2>2 DEF ClientInv, Wire, ReadIsWritten
  <1>8. Handshake'
    <2>1. NamedOnWire'
      <3> SUFFICES ASSUME NEW v \in Users, connection[v] # NoConn,
                          connection_state[v] = 1, version[v] = 1
                   PROVE  Introduces(c2s'[connection[v]], await_nick[v])
        BY DEF NamedOnWire
      <3>1. Introduces(c2s[connection[v]], await_nick[v]) /\ connection[v] \in Conns
        BY Current DEF ClientInv, Handshake, NamedOnWire
      <3> QED BY <1>3, <1>4, <3>1
    <2> QED BY <2>1 DEF ClientInv, Handshake, VersionWasRead, NamedWithProtocol
  <1> QED BY <1>6, <1>7, <1>8

\* A packet other than SET_PROTO is read and nothing is sent.
LEMMA ReadInv ==
    ASSUME ClientInv, NEW u \in Users, NEW p, Task(u, p), p.op # "SET_PROTO", Read(u),
           UNCHANGED <<sockets, connection, connection_state, await_nick, version,
                       leaked, exited>>
    PROVE  Ownership' /\ Wire' /\ Handshake'
  <1> DEFINE c == connection[u]
  <1>1. /\ c \in Conns /\ got[c] \in Nat /\ got[c] < Len(s2c[c])
        /\ s2c[c][got[c] + 1].op # "SET_PROTO"
    BY TaskPacket DEF ClientInv
  <1>2. Len(s2c[c]) \in Nat /\ peer[c] = "open"
    BY <1>1, Current, ConnsAssumption, LenProperties
  <1>3. got'[c] = got[c] + 1 /\ \A d \in Conns : d # c => got'[d] = got[d]
    BY <1>1 DEF Read, ClientInv, TypeOK, ClientTypeOK
  <1>4. \A d \in Conns : /\ ProtoIn(s2c[d], got'[d]) <=> ProtoIn(s2c[d], got[d])
                         /\ UnknownIn(s2c[d], got[d]) => UnknownIn(s2c[d], got'[d])
    BY <1>1, <1>3, ReadOne
  <1> USE DEF sockets
  <1>5. Ownership'
    BY <1>4 DEF ClientInv, Ownership, CurrentIsOpen, OneOwner, LeakedIsUsed, OpenIsOwned
  <1>6. Wire'
    <2>1. UnusedIsFresh'
      BY <1>2, <1>3 DEF ClientInv, Wire, UnusedIsFresh
    <2>2. ReadIsWritten'
      <3>1. got[c] + 1 <= Len(s2c[c])
        BY <1>1, <1>2
      <3> QED BY <1>3, <3>1 DEF ClientInv, Wire, ReadIsWritten
    <2> QED BY <2>1, <2>2 DEF ClientInv, Wire, Farewells
  <1>7. Handshake'
    <2>1. \A v \in Users : connection[v] # NoConn => connection[v] \in Conns
      BY Current
    <2> QED BY <1>4, <2>1 DEF ClientInv, Handshake, VersionWasRead, NamedWithProtocol, NamedOnWire
  <1> QED BY <1>5, <1>6, <1>7

\* SET_PROTO: the version is kept and the nickname is announced.
LEMMA SetProtoInv ==
    ASSUME ClientInv, NEW u \in Users, NEW p, TaskSetProto(u, p)
    PROVE  Ownership' /\ Wire' /\ Handshake'
  <1> DEFINE c == connection[u]
  <1>1. Task(u, p) /\ p.op = "SET_PROTO"
    BY DEF TaskSetProto
  <1>2. /\ c \in Conns /\ got[c] \in Nat /\ got[c] < Len(s2c[c])
        /\ p = s2c[c][got[c] + 1] /\ version[u] = 1
    BY <1>1, TaskPacket DEF ClientInv
  <1>3. /\ c # NoConn /\ Len(s2c[c]) \in Nat /\ peer[c] = "open"
        /\ c2s[c] \in Seq(Packets) /\ Silent(c2s[c])
    BY <1>2, Current, ConnsAssumption, LenProperties
  <1>4. got'[c] = got[c] + 1 /\ \A d \in Conns : d # c => got'[d] = got[d]
    BY <1>2 DEF TaskSetProto, Read, ClientInv, TypeOK, ClientTypeOK
  <1>5. \A d \in Conns : d # c => /\ ProtoIn(s2c[d], got'[d]) <=> ProtoIn(s2c[d], got[d])
                                 /\ UnknownIn(s2c[d], got'[d]) <=> UnknownIn(s2c[d], got[d])
    BY <1>4
  <1>6. /\ ProtoIn(s2c[c], got'[c])
        /\ UnknownIn(s2c[c], got[c]) => UnknownIn(s2c[c], got'[c])
        /\ p.protocol # 1 => UnknownIn(s2c[c], got'[c])
    BY <1>1, <1>2, <1>4, ReadOne
  <1> DEFINE names == connection_state[u] = 0 /\ await_nick[u] # NoNick
             nick  == SetNickname(await_nick[u])
  <1>7. /\ c2s'[c] = IF names /\ p.protocol = 1 THEN Append(c2s[c], nick) ELSE c2s[c]
        /\ \A d \in Conns : d # c => c2s'[d] = c2s[d]
    BY <1>2 DEF TaskSetProto, ClientInv, TypeOK, SocketsTypeOK
  <1>8. names => nick \in Packets /\ nick # Disconnect
    BY PacketTypes, NotFarewell DEF ClientInv, TypeOK, ClientTypeOK
  <1>9. /\ Silent(c2s'[c])
        /\ \A n : Introduces(c2s[c], n) => Introduces(c2s'[c], n)
        /\ names /\ p.protocol = 1 => Introduces(c2s'[c], await_nick[u])
    <2>1. names => /\ Silent(Append(c2s[c], nick))
                   /\ \A n : Introduces(c2s[c], n) => Introduces(Append(c2s[c], nick), n)
                   /\ Introduces(Append(c2s[c], nick), await_nick[u])
      BY <1>3, <1>8, Written
    <2> QED BY <1>3, <1>7, <2>1
  <1>10. LastWords(c2s'[c])
    BY <1>9 DEF Silent, LastWords
  <1>11. UNCHANGED <<peer, s2c, connection, await_nick, leaked, exited>>
    BY DEF TaskSetProto
  <1>12. /\ version'[u] = p.protocol
         /\ connection_state'[u] = IF names THEN 1 ELSE connection_state[u]
         /\ \A v \in Users : v # u => /\ version'[v] = version[v]
                                     /\ connection_state'[v] = connection_state[v]
    BY DEF TaskSetProto, ClientInv, TypeOK, ClientTypeOK
  <1>13. connection_state[u] \in {0, 1}
    BY DEF ClientInv, TypeOK, ClientTypeOK
  <1>14. \A v \in Users : v # u /\ connection[v] # NoConn => connection[v] \in Conns /\ connection[v] # c
    BY <1>3, Current DEF ClientInv, Ownership, OneOwner
  <1>15. Ownership'
    <2>1. OpenIsOwned'
      BY <1>5, <1>6, <1>11 DEF ClientInv, Ownership, OpenIsOwned
    <2> QED BY <1>11, <2>1 DEF ClientInv, Ownership, CurrentIsOpen, OneOwner, LeakedIsUsed
  <1>16. Wire'
    <2>1. UnusedIsFresh'
      BY <1>3, <1>4, <1>7, <1>11 DEF ClientInv, Wire, UnusedIsFresh
    <2>2. got[c] + 1 <= Len(s2c[c])
      BY <1>2, <1>3
    <2>3. ReadIsWritten'
      BY <1>4, <1>11, <2>2 DEF ClientInv, Wire, ReadIsWritten
    <2>4. Farewells'
      BY <1>7, <1>9, <1>10, <1>11 DEF ClientInv, Wire, Farewells
    <2> QED BY <2>1, <2>3, <2>4 DEF Wire
  <1> HIDE DEF c, nick
  <1>17. Handshake'
    <2>1. VersionWasRead'
      BY <1>5, <1>6, <1>11, <1>12, <1>14 DEF c, ClientInv, Handshake, VersionWasRead
    <2>2. NamedWithProtocol'
      <3> SUFFICES ASSUME NEW v \in Users, connection[v] # NoConn
                   PROVE  connection_state'[v] = 1 <=>
                            await_nick[v] # NoNick /\ ProtoIn(s2c[connection[v]], got'[connection[v]])
        BY <1>11 DEF NamedWithProtocol
      <3>1. CASE v = u
        BY <1>6, <1>12, <1>13, <3>1 DEF c, ClientInv, Handshake, NamedWithProtocol
      <3>2. CASE v # u
        <4>1. got'[connection[v]] = got[connection[v]]
          BY <1>4, <1>14, <3>2
        <4>2. connection_state[v] = 1 <=>
                await_nick[v] # NoNick /\ ProtoIn(s2c[connection[v]], got[connection[v]])
          BY DEF ClientInv, Handshake, NamedWithProtocol
        <4> QED BY <1>12, <3>2, <4>1, <4>2
      <3> QED BY <3>1, <3>2
    <2>3. NamedOnWire'
      <3> SUFFICES ASSUME NEW v \in Users, connection[v] # NoConn,
                          connection_state'[v] = 1, version'[v] = 1
                   PROVE  Introduces(c2s'[connection[v]], await_nick[v])
        BY <1>11 DEF NamedOnWire
      <3>1. CASE v = u
        BY <1>2, <1>9, <1>12, <3>1 DEF c, ClientInv, Handshake, NamedOnWire
      <3>2. CASE v # u
        BY <1>7, <1>12, <1>14, <3>2 DEF c, ClientInv, Handshake, NamedOnWire
      <3> QED BY <3>1, <3>2
    <2> QED BY <2>1, <2>2, <2>3 DEF Handshake
  <1> QED BY <1>15, <1>16, <1>17

\* The users other than u, whose current connection u has ended, go on.
LEMMA OthersGoOn ==
    ASSUME ClientInv, NEW u \in Users, NEW v \in Users, v # u, connection[v] # NoConn
    PROVE  connection[v] \in Conns /\ connection[v] # connection[u] /\ connection[v] \notin leaked[u]
  BY Current DEF ClientInv, Ownership, OneOwner

\* client_disconnect, from server_button_clicked when connect fails and from
\* client_run_tasks.
LEMMA LeaveInv ==
    ASSUME ClientInv, NEW u \in Users, Connected(u), Leave(u),
           UNCHANGED <<s2c, await_nick, version, leaked, exited>>,
           \A d \in Conns : d # connection[u] => got'[d] = got[d],
           got'[connection[u]] <= Len(s2c[connection[u]])
    PROVE  Ownership' /\ Wire' /\ Handshake'
  <1> DEFINE c == connection[u]
  <1>1. c \in Conns /\ c # NoConn /\ peer[c] = "open" /\ c2s[c] \in Seq(Packets) /\ Silent(c2s[c])
    BY Current DEF Connected
  <1>2. /\ LastWords(c2s'[c])
        /\ \A d \in Conns : d # c => c2s'[d] = c2s[d]
    <2>1. /\ c2s'[c] = IF version[u] = 1 THEN Append(c2s[c], Disconnect) ELSE c2s[c]
          /\ \A d \in Conns : d # c => c2s'[d] = c2s[d]
      BY ClosedFacts DEF Leave, ClientInv
    <2>2. LastWords(Append(c2s[c], Disconnect))
      BY <1>1, PacketTypes, Written
    <2>3. LastWords(c2s[c])
      BY <1>1 DEF ClientInv, Wire, Farewells
    <2> QED BY <2>1, <2>2, <2>3
  <1>3. peer'[c] = "fin" /\ \A d \in Conns : d # c => peer'[d] = peer[d]
    BY <1>1 DEF Leave, ClientInv, TypeOK, SocketsTypeOK
  <1>4. connection'[u] = NoConn /\ \A v \in Users : v # u => connection'[v] = connection[v]
    BY DEF Leave, ClientInv, TypeOK, ClientTypeOK
  <1>5. \A v \in Users : v # u => connection_state'[v] = connection_state[v]
    BY DEF Leave, ClientInv, TypeOK, ClientTypeOK
  <1>6. \A v \in Users : v # u /\ connection[v] # NoConn => connection[v] \in Conns /\ connection[v] # c
    BY OthersGoOn
  <1> HIDE DEF c
  <1>7. Ownership'
    <2>1. CurrentIsOpen'
      BY <1>3, <1>4, <1>6 DEF ClientInv, Ownership, CurrentIsOpen
    <2>2. OneOwner'
      <3>1. \A v \in Users : leaked[v] \subseteq Conns
        BY DEF ClientInv, TypeOK, ClientTypeOK
      <3> QED BY <1>4, <3>1, ConnsAssumption DEF ClientInv, Ownership, OneOwner
    <2>3. LeakedIsUsed'
      <3>1. \A v \in Users : leaked[v] \subseteq Conns
        BY DEF ClientInv, TypeOK, ClientTypeOK
      <3> QED BY <1>3, <3>1 DEF ClientInv, Ownership, LeakedIsUsed
    <2>4. OpenIsOwned'
      <3> SUFFICES ASSUME NEW d \in Conns, peer'[d] = "open", ~UnknownIn(s2c[d], got'[d])
                   PROVE  \E v \in Users : connection'[v] = d
        BY DEF OpenIsOwned
      <3>1. d # c
        BY <1>3
      <3>2. PICK v \in Users : connection[v] = d
        BY <1>3, <3>1 DEF c, ClientInv, Ownership, OpenIsOwned
      <3> QED BY <1>4, <3>1, <3>2 DEF c
    <2> QED BY <2>1, <2>2, <2>3, <2>4 DEF Ownership
  <1>8. Wire'
    <2>1. UnusedIsFresh'
      BY <1>2, <1>3 DEF c, ClientInv, Wire, UnusedIsFresh
    <2>2. ReadIsWritten'
      BY DEF ClientInv, Wire, ReadIsWritten
    <2>3. Farewells'
      BY <1>2, <1>3 DEF ClientInv, Wire, Farewells
    <2> QED BY <2>1, <2>2, <2>3 DEF Wire
  <1>9. Handshake'
    BY <1>2, <1>4, <1>5, <1>6 DEF c, ClientInv, Handshake, VersionWasRead, NamedWithProtocol, NamedOnWire
  <1> QED BY <1>7, <1>8, <1>9

\* main leaves: the connection and every leaked socket close.
LEMMA ExitInv ==
    ASSUME ClientInv, NEW u \in Users, Exit(u)
    PROVE  Ownership' /\ Wire' /\ Handshake'
  <1> DEFINE c == connection[u]
             ends(d) == d = c \/ d \in leaked[u]
  <1>1. /\ \A v \in Users : leaked[v] \subseteq Conns
        /\ connection \in [Users -> Conns \cup {NoConn}]
        /\ c \in Conns <=> c # NoConn
    BY ConnsAssumption DEF ClientInv, TypeOK, ClientTypeOK
  <1>2. /\ \A d \in Conns : LastWords(c2s'[d])
        /\ \A d \in Conns : ~ends(d) => c2s'[d] = c2s[d]
        /\ \A d \in Conns : peer[d] = "unused" => c2s'[d] = c2s[d]
    <2>1. CASE c = NoConn
      <3>1. c2s' = c2s
        BY <2>1 DEF Exit, Connected
      <3> QED BY <3>1 DEF ClientInv, Wire, Farewells
    <2>2. CASE c # NoConn
      <3>1. Connected(u) /\ c \in Conns /\ peer[c] = "open" /\ c2s[c] \in Seq(Packets) /\ Silent(c2s[c])
        BY <2>2, Current DEF Connected
      <3>2. /\ c2s'[c] = IF version[u] = 1 THEN Append(c2s[c], Disconnect) ELSE c2s[c]
            /\ \A d \in Conns : d # c => c2s'[d] = c2s[d]
        BY <3>1, ClosedFacts DEF Exit, ClientInv
      <3>3. LastWords(Append(c2s[c], Disconnect))
        BY <3>1, PacketTypes, Written
      <3>4. \A d \in Conns : LastWords(c2s[d])
        BY DEF ClientInv, Wire, Farewells
      <3>5. \A d \in Conns : LastWords(c2s'[d])
        BY <3>2, <3>3, <3>4
      <3> QED BY <3>1, <3>2, <3>5
    <2> QED BY <2>1, <2>2
  <1>3. \A d \in Conns : peer'[d] = IF ends(d) /\ peer[d] = "open" THEN "fin" ELSE peer[d]
    BY DEF Exit
  <1>4. connection'[u] = NoConn /\ \A v \in Users : v # u => connection'[v] = connection[v]
    BY <1>1 DEF Exit
  <1>5. /\ \A v \in Users : v # u => connection_state'[v] = connection_state[v]
        /\ leaked'[u] = {} /\ \A v \in Users : v # u => leaked'[v] = leaked[v]
        /\ exited' = exited \cup {u}
        /\ UNCHANGED <<s2c, await_nick, version, got>>
    BY DEF Exit, ClientInv, TypeOK, ClientTypeOK
  <1>6. \A v \in Users : v # u /\ connection[v] # NoConn => connection[v] \in Conns /\ ~ends(connection[v])
    BY OthersGoOn
  <1> HIDE DEF c, ends
  <1>7. Ownership'
    <2>1. CurrentIsOpen'
      BY <1>3, <1>4, <1>5, <1>6 DEF ClientInv, Ownership, CurrentIsOpen
    <2>2. OneOwner'
      <3> SUFFICES ASSUME NEW v \in Users, NEW w \in Users
                   PROVE  /\ v # w /\ connection'[v] # NoConn => connection'[w] # connection'[v]
                          /\ connection'[v] \notin leaked'[w]
        BY DEF OneOwner
      <3>1. /\ v # w /\ connection[v] # NoConn => connection[w] # connection[v]
            /\ connection[v] \notin leaked[w]
        BY DEF ClientInv, Ownership, OneOwner
      <3> QED BY <1>1, <1>4, <1>5, <3>1, ConnsAssumption
    <2>3. LeakedIsUsed'
      BY <1>1, <1>3, <1>5 DEF ClientInv, Ownership, LeakedIsUsed
    <2>4. OpenIsOwned'
      <3> SUFFICES ASSUME NEW d \in Conns, peer'[d] = "open", ~UnknownIn(s2c[d], got[d])
                   PROVE  \E v \in Users : connection'[v] = d
        BY <1>5 DEF OpenIsOwned
      <3>1. d # c /\ peer[d] = "open"
        BY <1>3 DEF ends
      <3>2. PICK v \in Users : connection[v] = d
        BY <3>1 DEF ClientInv, Ownership, OpenIsOwned
      <3> QED BY <1>4, <3>1, <3>2 DEF c
    <2> QED BY <2>1, <2>2, <2>3, <2>4 DEF Ownership
  <1>8. Wire'
    <2>1. UnusedIsFresh'
      BY <1>2, <1>3, <1>5 DEF ClientInv, Wire, UnusedIsFresh
    <2>2. Farewells'
      BY <1>2, <1>3 DEF ClientInv, Wire, Farewells
    <2> QED BY <1>5, <2>1, <2>2 DEF ClientInv, Wire, ReadIsWritten
  <1>9. Handshake'
    BY <1>2, <1>4, <1>5, <1>6 DEF ClientInv, Handshake, VersionWasRead, NamedWithProtocol, NamedOnWire
  <1> QED BY <1>7, <1>8, <1>9

\* client_run_tasks gives up a connection without a protocol to read it by.
LEMMA UnreadableInv ==
    ASSUME ClientInv, NEW u \in Users, TaskUnreadable(u)
    PROVE  Ownership' /\ Wire' /\ Handshake'
  <1> DEFINE c == connection[u]
  <1>1. Connected(u) /\ version[u] # 1
    BY DEF TaskUnreadable, Pending
  <1>2. c \in Conns /\ c # NoConn /\ peer[c] = "open"
    BY <1>1, Current DEF Connected
  <1>3. UnknownIn(s2c[c], got[c])
    BY <1>1, <1>2 DEF ClientInv, Handshake, VersionWasRead
  <1>4. connection'[u] = NoConn /\ \A v \in Users : v # u => connection'[v] = connection[v]
    BY DEF TaskUnreadable, ClientInv, TypeOK, ClientTypeOK
  <1>5. leaked'[u] = leaked[u] \cup {c} /\ \A v \in Users : v # u => leaked'[v] = leaked[v]
    BY DEF TaskUnreadable, ClientInv, TypeOK, ClientTypeOK
  <1>6. UNCHANGED <<peer, c2s, s2c, connection_state, await_nick, version, got, exited>>
    BY DEF TaskUnreadable, sockets
  <1>7. \A v \in Users : leaked[v] \subseteq Conns
    BY DEF ClientInv, TypeOK, ClientTypeOK
  <1> HIDE DEF c
  <1>8. Ownership'
    <2>1. CurrentIsOpen'
      BY <1>4, <1>6 DEF ClientInv, Ownership, CurrentIsOpen
    <2>2. OneOwner'
      <3> SUFFICES ASSUME NEW v \in Users, NEW w \in Users
                   PROVE  /\ v # w /\ connection'[v] # NoConn => connection'[w] # connection'[v]
                          /\ connection'[v] \notin leaked'[w]
        BY DEF OneOwner
      <3>1. /\ v # w /\ connection[v] # NoConn => connection[w] # connection[v]
            /\ v # u /\ connection[v] # NoConn => connection[v] # c
            /\ connection[v] \notin leaked[w]
        BY DEF c, ClientInv, Ownership, OneOwner
      <3> QED BY <1>2, <1>4, <1>5, <1>7, <3>1, ConnsAssumption
    <2>3. LeakedIsUsed'
      BY <1>2, <1>5, <1>6 DEF ClientInv, Ownership, LeakedIsUsed
    <2>4. OpenIsOwned'
      <3> SUFFICES ASSUME NEW d \in Conns, peer[d] = "open", ~UnknownIn(s2c[d], got[d])
                   PROVE  \E v \in Users : connection'[v] = d
        BY <1>6 DEF OpenIsOwned
      <3>1. PICK v \in Users : connection[v] = d
        BY DEF ClientInv, Ownership, OpenIsOwned
      <3> QED BY <1>3, <1>4, <3>1 DEF c
    <2> QED BY <2>1, <2>2, <2>3, <2>4 DEF Ownership
  <1>9. Wire'
    BY <1>6 DEF ClientInv, Wire, UnusedIsFresh, ReadIsWritten, Farewells
  <1>10. Handshake'
    BY <1>4, <1>6 DEF ClientInv, Handshake, VersionWasRead, NamedWithProtocol, NamedOnWire
  <1> QED BY <1>8, <1>9, <1>10

\* What the server writes changes nothing of what was read.
LEMMA ServerWritesInv ==
    ASSUME ClientInv, NEW c \in Conns, NEW p \in Writable, ServerWrites(c, p)
    PROVE  Ownership' /\ Wire' /\ Handshake'
  <1>1. /\ p \in Packets /\ s2c[c] \in Seq(Packets)
        /\ \A d \in Conns : got[d] \in Nat /\ got[d] <= Len(s2c[d])
    BY WritableAssumption
       DEF ClientInv, TypeOK, SocketsTypeOK, ClientTypeOK, Wire, ReadIsWritten
  <1>2. s2c'[c] = Append(s2c[c], p) /\ \A d \in Conns : d # c => s2c'[d] = s2c[d]
    BY DEF ServerWrites, ClientInv, TypeOK, SocketsTypeOK
  <1>3. \A d \in Conns : /\ got[d] <= Len(s2c'[d])
                         /\ ProtoIn(s2c[d], got[d]) <=> ProtoIn(s2c'[d], got[d])
                         /\ UnknownIn(s2c[d], got[d]) => UnknownIn(s2c'[d], got[d])
    <2>1. /\ got[c] <= Len(s2c'[c])
          /\ ProtoIn(s2c[c], got[c]) <=> ProtoIn(s2c'[c], got[c])
          /\ UnknownIn(s2c[c], got[c]) => UnknownIn(s2c'[c], got[c])
      BY <1>1, <1>2, ReadStays
    <2> QED BY <1>1, <1>2, <2>1
  <1>4. UNCHANGED <<peer, c2s, clientVars>>
    BY DEF ServerWrites
  <1> USE DEF clientVars
  <1>5. Ownership'
    BY <1>3, <1>4 DEF ClientInv, Ownership, CurrentIsOpen, OneOwner, LeakedIsUsed, OpenIsOwned
  <1>6. Wire'
    BY <1>3, <1>4 DEF ClientInv, Wire, UnusedIsFresh, ReadIsWritten, Farewells
  <1>7. Handshake'
    <2>1. \A v \in Users : connection[v] # NoConn => connection[v] \in Conns
      BY Current
    <2>2. VersionWasRead'
      BY <1>3, <1>4, <2>1 DEF ClientInv, Handshake, VersionWasRead
    <2>3. NamedWithProtocol'
      BY <1>3, <1>4, <2>1 DEF ClientInv, Handshake, NamedWithProtocol
    <2>4. NamedOnWire'
      BY <1>4 DEF ClientInv, Handshake, NamedOnWire
    <2> QED BY <2>2, <2>3, <2>4 DEF Handshake
  <1> QED BY <1>5, <1>6, <1>7

\* server_button_clicked when connect succeeds.
LEMMA ClickInv ==
    ASSUME ClientInv, NEW u \in Users, NEW c \in Conns, NEW nick \in Configured,
           ServerButtonClicked(u, c, nick)
    PROVE  Ownership' /\ Wire' /\ Handshake'
  <1> DEFINE old == connection[u]
  <1>1. /\ u \notin exited /\ peer[c] = "unused" /\ got[c] = 0
        /\ \A v \in Users : connection[v] # c /\ c \notin leaked[v]
    <2>1. u \notin exited /\ peer[c] = "unused"
      BY DEF ServerButtonClicked
    <2>2. \A v \in Users : connection[v] # c
      BY <2>1, Current, ConnsAssumption
    <2> QED BY <2>1, <2>2 DEF ClientInv, Wire, UnusedIsFresh, Ownership, LeakedIsUsed
  <1>2. \A d \in Conns : peer'[d] = IF d = c THEN "open"
                                   ELSE IF d = old /\ peer[d] = "open" THEN "fin"
                                   ELSE peer[d]
    BY DEF ServerButtonClicked
  <1>3. /\ c2s'[c] = <<Hello(FALSE, {1})>>
        /\ \A d \in Conns : d # c /\ d # old => c2s'[d] = c2s[d]
        /\ old # NoConn => LastWords(c2s'[old])
    <2>1. CASE old = NoConn
      BY <2>1 DEF ServerButtonClicked, Connected, ClientInv, TypeOK, SocketsTypeOK
    <2>2. CASE old # NoConn
      <3>1. Connected(u) /\ old \in Conns /\ c2s[old] \in Seq(Packets) /\ Silent(c2s[old])
        BY <1>1, <2>2, Current DEF Connected
      <3>2. /\ Closed(u, c2s) \in [Conns -> Seq(Packets)]
            /\ Closed(u, c2s)[old] = IF version[u] = 1 THEN Append(c2s[old], Disconnect) ELSE c2s[old]
            /\ \A d \in Conns : d # old => Closed(u, c2s)[d] = c2s[d]
        BY <3>1, ClosedFacts DEF ClientInv
      <3>3. LastWords(Append(c2s[old], Disconnect)) /\ LastWords(c2s[old])
        BY <3>1, PacketTypes, Written DEF ClientInv, Wire, Farewells
      <3>4. c2s' = [Closed(u, c2s) EXCEPT ![c] = <<Hello(FALSE, {1})>>]
        BY <3>1 DEF ServerButtonClicked
      <3>5. old # c
        BY <1>1
      <3> QED BY <3>1, <3>2, <3>3, <3>4, <3>5
    <2> QED BY <2>1, <2>2
  <1>4. /\ connection'[u] = c /\ connection_state'[u] = 0 /\ version'[u] = 1
        /\ \A v \in Users : v # u => /\ connection'[v] = connection[v]
                                    /\ connection_state'[v] = connection_state[v]
                                    /\ await_nick'[v] = await_nick[v]
                                    /\ version'[v] = version[v]
        /\ UNCHANGED <<s2c, got, leaked, exited>>
    BY DEF ServerButtonClicked, ClientInv, TypeOK, ClientTypeOK
  <1>5. \A v \in Users : v # u /\ connection[v] # NoConn =>
            connection[v] \in Conns /\ connection[v] # old /\ connection[v] # c
    BY <1>1, OthersGoOn
  <1>6. \A v \in Users : leaked[v] \subseteq Conns
    BY DEF ClientInv, TypeOK, ClientTypeOK
  <1> HIDE DEF old
  <1>7. Ownership'
    <2>1. CurrentIsOpen'
      BY <1>1, <1>2, <1>4, <1>5 DEF ClientInv, Ownership, CurrentIsOpen
    <2>2. OneOwner'
      <3> SUFFICES ASSUME NEW v \in Users, NEW w \in Users
                   PROVE  /\ v # w /\ connection'[v] # NoConn => connection'[w] # connection'[v]
                          /\ connection'[v] \notin leaked'[w]
        BY DEF OneOwner
      <3>1. /\ v # w /\ connection[v] # NoConn => connection[w] # connection[v]
            /\ connection[v] \notin leaked[w]
        BY DEF ClientInv, Ownership, OneOwner
      <3> QED BY <1>1, <1>4, <3>1
    <2>3. LeakedIsUsed'
      BY <1>2, <1>4, <1>6 DEF ClientInv, Ownership, LeakedIsUsed
    <2>4. OpenIsOwned'
      <3> SUFFICES ASSUME NEW d \in Conns, peer'[d] = "open", ~UnknownIn(s2c[d], got[d])
                   PROVE  \E v \in Users : connection'[v] = d
        BY <1>4 DEF OpenIsOwned
      <3>1. CASE d = c
        BY <1>4, <3>1
      <3>2. CASE d # c
        <4>1. d # old /\ peer[d] = "open"
          BY <1>2, <3>2
        <4>2. PICK v \in Users : connection[v] = d
          BY <4>1 DEF ClientInv, Ownership, OpenIsOwned
        <4> QED BY <1>4, <4>1, <4>2 DEF old
      <3> QED BY <3>1, <3>2
    <2> QED BY <2>1, <2>2, <2>3, <2>4 DEF Ownership
  <1>8. Wire'
    <2>1. old \in Conns => peer[old] = "open"
      BY Current, ConnsAssumption DEF old
    <2>2. UnusedIsFresh'
      BY <1>2, <1>3, <1>4, <2>1 DEF ClientInv, Wire, UnusedIsFresh
    <2>3. Farewells'
      <3> SUFFICES ASSUME NEW d \in Conns
                   PROVE  LastWords(c2s'[d]) /\ (peer'[d] = "open" => Silent(c2s'[d]))
        BY DEF Farewells
      <3>1. CASE d = c
        BY <1>3, <3>1, NothingYet
      <3>2. CASE d # c /\ d = old
        BY <1>2, <1>3, <2>1, <3>2, ConnsAssumption
      <3>3. CASE d # c /\ d # old
        BY <1>2, <1>3, <3>3 DEF ClientInv, Wire, Farewells
      <3> QED BY <3>1, <3>2, <3>3
    <2> QED BY <1>4, <2>2, <2>3 DEF ClientInv, Wire, ReadIsWritten
  <1>9. Handshake'
    <2>1. ~ProtoIn(s2c'[c], got'[c])
      BY <1>1, <1>4, NothingYet
    <2>2. VersionWasRead'
      BY <1>4 DEF ClientInv, Handshake, VersionWasRead
    <2>3. NamedWithProtocol'
      <3> SUFFICES ASSUME NEW v \in Users, connection'[v] # NoConn
                   PROVE  connection_state'[v] = 1 <=>
                            await_nick'[v] # NoNick /\ ProtoIn(s2c'[connection'[v]], got'[connection'[v]])
        BY DEF NamedWithProtocol
      <3>1. CASE v = u
        BY <1>4, <2>1, <3>1
      <3>2. CASE v # u
        BY <1>4, <3>2 DEF ClientInv, Handshake, NamedWithProtocol
      <3> QED BY <3>1, <3>2
    <2>4. NamedOnWire'
      BY <1>3, <1>4, <1>5 DEF ClientInv, Handshake, NamedOnWire
    <2> QED BY <2>2, <2>3, <2>4 DEF Handshake
  <1> QED BY <1>7, <1>8, <1>9

-----------------------------------------------------------------------------
(* The invariant.                                                          *)

\* The first state.
LEMMA InitInv == Init => ClientInv
  <1> SUFFICES ASSUME Init PROVE ClientInv
    OBVIOUS
  <1> USE DEF Init, SocketsInit, ClientInit
  <1>1. TypeOK
    BY VersionsAssumption, MaxSentAssumption DEF TypeOK, SocketsTypeOK, ClientTypeOK
  <1>2. Ownership
    BY DEF Ownership, CurrentIsOpen, OneOwner, LeakedIsUsed, OpenIsOwned
  <1>3. Wire
    BY NothingYet DEF Wire, UnusedIsFresh, ReadIsWritten, Farewells
  <1>4. Handshake
    BY DEF Handshake, VersionWasRead, NamedWithProtocol, NamedOnWire
  <1> QED BY <1>1, <1>2, <1>3, <1>4 DEF ClientInv

\* Every step keeps the invariant.
LEMMA NextInv == ClientInv /\ [Next]_vars => ClientInv'
  <1> SUFFICES ASSUME ClientInv, [Next]_vars
               PROVE  Ownership' /\ Wire' /\ Handshake'
    BY TypeInv DEF ClientInv
  <1>1. ASSUME NEW u \in Users, Click(u)
        PROVE  Ownership' /\ Wire' /\ Handshake'
    BY <1>1, ClickInv DEF Click
  <1>2. ASSUME NEW u \in Users, ServerButtonFails(u)
        PROVE  Ownership' /\ Wire' /\ Handshake'
    <2>1. Connected(u) /\ Leave(u) /\ UNCHANGED <<s2c, await_nick, version, got, leaked, exited>>
      BY <1>2 DEF ServerButtonFails
    <2>2. connection[u] \in Conns
      BY <2>1, Current DEF Connected
    <2>3. got'[connection[u]] <= Len(s2c[connection[u]])
      BY <2>1, <2>2 DEF ClientInv, Wire, ReadIsWritten
    <2> QED BY <2>1, <2>3, LeaveInv
  <1>3. ASSUME NEW u \in Users, NEW m \in Msgs, MessageSubmit(u, m)
        PROVE  Ownership' /\ Wire' /\ Handshake'
    <2>1. SendMessage(m) \in Packets /\ SendMessage(m) # Disconnect
      BY PacketTypes, NotFarewell
    <2> QED BY <1>3, <2>1, SendInv DEF MessageSubmit
  <1>4. ASSUME NEW u \in Users, NEW n \in Nicks, NicknameSubmit(u, n)
        PROVE  Ownership' /\ Wire' /\ Handshake'
    <2>1. SetNickname(n) \in Packets /\ SetNickname(n) # Disconnect
      BY PacketTypes, NotFarewell
    <2> QED BY <1>4, <2>1, SendInv DEF NicknameSubmit
  <1>5. ASSUME NEW u \in Users, NEW p, TaskConsume(u, p) \/ TaskShow(u, p)
        PROVE  Ownership' /\ Wire' /\ Handshake'
    BY <1>5, ReadInv DEF TaskConsume, TaskShow
  <1>6. ASSUME NEW u \in Users, NEW p, TaskDisconnect(u, p)
        PROVE  Ownership' /\ Wire' /\ Handshake'
    <2> DEFINE c == connection[u]
    <2>1. Task(u, p) /\ Read(u) /\ Leave(u) /\ UNCHANGED <<s2c, await_nick, version, leaked, exited>>
      BY <1>6 DEF TaskDisconnect
    <2>2. /\ c \in Conns /\ got[c] \in Nat /\ got[c] < Len(s2c[c]) /\ Connected(u)
      BY <2>1, TaskPacket DEF ClientInv, Task, Pending
    <2>3. Len(s2c[c]) \in Nat
      BY <2>2, Current, ConnsAssumption, LenProperties
    <2>4. /\ \A d \in Conns : d # c => got'[d] = got[d]
          /\ got'[c] = got[c] + 1
      BY <2>1, <2>2 DEF Read, ClientInv, TypeOK, ClientTypeOK
    <2>5. got'[c] <= Len(s2c[c])
      BY <2>2, <2>3, <2>4
    <2> QED BY <2>1, <2>2, <2>4, <2>5, LeaveInv
  <1>7. ASSUME NEW u \in Users, UserAction(u)
        PROVE  Ownership' /\ Wire' /\ Handshake'
    BY <1>2, <1>3, <1>4, <1>7, ExitInv DEF UserAction
  <1>8. ASSUME NEW u \in Users, RunTask(u)
        PROVE  Ownership' /\ Wire' /\ Handshake'
    BY <1>5, <1>6, <1>8, SetProtoInv, UnreadableInv DEF RunTask
  <1>9. ASSUME NEW c \in Conns, NEW p \in Writable, ServerWrites(c, p)
        PROVE  Ownership' /\ Wire' /\ Handshake'
    BY <1>9, ServerWritesInv
  <1>10. CASE UNCHANGED vars
    <2> USE <1>10 DEF vars, sockets, clientVars, ClientInv
    <2>1. Ownership'
      BY DEF Ownership, CurrentIsOpen, OneOwner, LeakedIsUsed, OpenIsOwned
    <2>2. Wire'
      BY DEF Wire, UnusedIsFresh, ReadIsWritten, Farewells
    <2>3. Handshake'
      BY DEF Handshake, VersionWasRead, NamedWithProtocol, NamedOnWire
    <2> QED BY <2>1, <2>2, <2>3
  <1> QED BY <1>1, <1>7, <1>8, <1>9, <1>10 DEF Next

\* The invariant holds of every behaviour.
LEMMA Invariance == Spec => []ClientInv
  BY InitInv, NextInv, PTL DEF Spec

-----------------------------------------------------------------------------
(* What follows.                                                           *)

\* However the user's clicks and the packets of any server interleave, every
\* variable of the client keeps its type.
THEOREM TypeCorrect == Spec => []TypeOK
  <1>1. ClientInv => TypeOK
    BY DEF ClientInv
  <1> QED BY <1>1, Invariance, PTL

\* client.cc:319 is the only place that drops a connection without closing it,
\* and only after the server has named a version the client does not speak.
THEOREM LeaksCorrect == Spec => []LeaksOnlyUnknownVersion
  <1>1. ClientInv => LeaksOnlyUnknownVersion
    <2> SUFFICES ASSUME ClientInv, NEW c \in Conns, peer[c] = "open"
                 PROVE  \/ \E u \in Users : connection[u] = c
                        \/ \E i \in 1 .. got[c] : s2c[c][i].op = "SET_PROTO" /\ s2c[c][i].protocol # 1
      BY DEF LeaksOnlyUnknownVersion
    <2> QED BY DEF ClientInv, Ownership, OpenIsOwned, UnknownIn
  <1> QED BY <1>1, Invariance, PTL

\* client_disconnect writes the last packet of a connection, from whichever of
\* its callers it runs, and the connection is closed by then.
THEOREM FarewellCorrect == Spec => []DisconnectIsLast
  <1>1. ClientInv => DisconnectIsLast
    <2> SUFFICES ASSUME ClientInv, NEW c \in Conns, NEW i \in DOMAIN c2s[c], c2s[c][i] = Disconnect
                 PROVE  i = Len(c2s[c]) /\ peer[c] # "open"
      BY DEF DisconnectIsLast
    <2>1. c2s[c] \in Seq(Packets)
      BY DEF ClientInv, TypeOK, SocketsTypeOK
    <2>2. i \in 1 .. Len(c2s[c])
      BY <2>1, LenProperties
    <2> QED BY <2>2 DEF ClientInv, Wire, Farewells, LastWords, Silent
  <1> QED BY <1>1, Invariance, PTL

\* The packets a client answers, as values.
LEMMA Answered ==
    ASSUME NEW p \in Packets
    PROVE  /\ p.op = "SET_PROTO" => \A v : p = SetProto(v) <=> p.protocol = v
           /\ p.op # "SET_PROTO" => \A v : p # SetProto(v)
           /\ p = Disconnect <=> p.op = "DISCONNECT"
  <1>1. /\ p.op = "SET_PROTO" => p = [op |-> "SET_PROTO", protocol |-> p.protocol]
        /\ p.op = "DISCONNECT" => p = [op |-> "DISCONNECT"]
    BY DEF Packets
  <1>2. \A v : SetProto(v).op = "SET_PROTO" /\ SetProto(v).protocol = v
    BY DEF SetProto
  <1>3. p.op = "SET_PROTO" => p = SetProto(p.protocol)
    BY <1>1 DEF SetProto
  <1>4. p = Disconnect <=> p.op = "DISCONNECT"
    BY <1>1 DEF Disconnect
  <1> QED BY <1>2, <1>3, <1>4

\* client_run_tasks writes the answer to the packet it reads, and nothing else.
LEMMA TaskAnswers ==
    ASSUME ClientInv, NEW u \in Users, connection[u] # NoConn, RunTask(u)
    PROVE  LET c == connection[u]
           IN  c2s'[c] = IF got'[c] = got[c] THEN c2s[c] ELSE c2s[c] \o Answer(u, c)
  <1> DEFINE c == connection[u]
  <1>1. c \in Conns /\ c2s[c] \in Seq(Packets)
    BY Current
  <1>2. /\ c2s \in [Conns -> Seq(Packets)] /\ got \in [Conns -> Nat]
        /\ connection_state[u] \in 0 .. 1
    BY DEF ClientInv, TypeOK, SocketsTypeOK, ClientTypeOK
  <1>3. ASSUME NEW p, Task(u, p), Read(u)
        PROVE  /\ p \in Packets /\ p = s2c[c][got[c] + 1] /\ version[u] = 1
               /\ got'[c] # got[c]
    <2>1. p \in Packets /\ p = s2c[c][got[c] + 1] /\ version[u] = 1
      BY <1>3, TaskPacket DEF ClientInv
    <2>2. got'[c] = got[c] + 1 /\ got[c] \in Nat
      BY <1>1, <1>2, <1>3 DEF Read
    <2> QED BY <2>1, <2>2
  <1>4. CASE TaskUnreadable(u)
    BY <1>4 DEF TaskUnreadable, sockets
  <1>5. ASSUME NEW p, TaskConsume(u, p) \/ TaskShow(u, p)
        PROVE  got'[c] # got[c] /\ c2s'[c] = c2s[c] \o Answer(u, c)
    <2>1. Task(u, p) /\ Read(u) /\ c2s' = c2s /\ p.op \notin {"SET_PROTO", "DISCONNECT"}
      BY <1>5 DEF TaskConsume, TaskShow, sockets
    <2>2. ~FirstSelects(c, 1) /\ s2c[c][got[c] + 1] # Disconnect
      BY <1>3, <2>1, Answered DEF FirstSelects
    <2>3. Answer(u, c) = <<>>
      BY <2>2 DEF Answer
    <2> QED BY <1>1, <1>3, <2>1, <2>3, ConcatEmptySeq
  <1>6. ASSUME NEW p, TaskSetProto(u, p)
        PROVE  got'[c] # got[c] /\ c2s'[c] = c2s[c] \o Answer(u, c)
    <2>1. Task(u, p) /\ Read(u) /\ p.op = "SET_PROTO"
      BY <1>6 DEF TaskSetProto
    <2>2. /\ p = s2c[c][got[c] + 1]
          /\ p = SetProto(1) <=> p.protocol = 1
          /\ p # Disconnect
      BY <1>3, <2>1, Answered
    <2>3. connection_state[u] = 0 /\ await_nick[u] # NoNick <=>
            await_nick[u] # NoNick /\ \A i \in 1 .. got[c] : s2c[c][i].op # "SET_PROTO"
      BY <1>2 DEF ClientInv, Handshake, NamedWithProtocol, ProtoIn
    <2>4. CASE connection_state[u] = 0 /\ await_nick[u] # NoNick /\ p.protocol = 1
      <3>1. c2s'[c] = Append(c2s[c], SetNickname(await_nick[u]))
        BY <1>1, <1>2, <1>6, <2>4 DEF TaskSetProto
      <3>2. Answer(u, c) = <<SetNickname(await_nick[u])>>
        BY <2>2, <2>3, <2>4 DEF Answer, FirstSelects
      <3>3. SetNickname(await_nick[u]) \in Packets
        BY <2>4, PacketTypes DEF ClientInv, TypeOK, ClientTypeOK
      <3> QED BY <1>1, <1>3, <2>1, <3>1, <3>2, <3>3, AppendIsConcat
    <2>5. CASE ~(connection_state[u] = 0 /\ await_nick[u] # NoNick /\ p.protocol = 1)
      <3>1. c2s' = c2s
        BY <1>6, <2>5 DEF TaskSetProto
      <3>2. Answer(u, c) = <<>>
        BY <2>2, <2>3, <2>5 DEF Answer, FirstSelects
      <3> QED BY <1>1, <1>3, <2>1, <3>1, <3>2, ConcatEmptySeq
    <2> QED BY <2>4, <2>5
  <1>7. ASSUME NEW p, TaskDisconnect(u, p)
        PROVE  got'[c] # got[c] /\ c2s'[c] = c2s[c] \o Answer(u, c)
    <2>1. Task(u, p) /\ Read(u) /\ p.op = "DISCONNECT" /\ Leave(u)
      BY <1>7 DEF TaskDisconnect
    <2>2. s2c[c][got[c] + 1] = Disconnect /\ ~FirstSelects(c, 1)
      BY <1>3, <2>1, Answered DEF FirstSelects
    <2>3. Answer(u, c) = <<Disconnect>>
      BY <2>2 DEF Answer
    <2>4. c2s'[c] = c2s[c] \o Sent(u, Disconnect)
      BY <1>1, <1>2, <2>1 DEF Leave, Closed
    <2>5. Sent(u, Disconnect) = <<Disconnect>>
      BY <1>3, <2>1 DEF Sent
    <2> QED BY <1>3, <2>1, <2>3, <2>4, <2>5
  <1> QED BY <1>4, <1>5, <1>6, <1>7 DEF RunTask

\* The task of one user leaves the current connection of another alone.
LEMMA TaskOfAnother ==
    ASSUME ClientInv, NEW u \in Users, NEW v \in Users, v # u,
           connection[u] # NoConn, RunTask(v)
    PROVE  c2s'[connection[u]] = c2s[connection[u]] /\ got'[connection[u]] = got[connection[u]]
  <1> DEFINE c == connection[u]
  <1>1. c \in Conns /\ connection[v] # c
    BY Current DEF ClientInv, Ownership, OneOwner
  <1>2. c2s \in [Conns -> Seq(Packets)] /\ got \in [Conns -> Nat]
    BY DEF ClientInv, TypeOK, SocketsTypeOK, ClientTypeOK
  <1>3. CASE TaskUnreadable(v)
    BY <1>3 DEF TaskUnreadable, sockets
  <1>4. ASSUME NEW p, TaskConsume(v, p) \/ TaskShow(v, p)
        PROVE  c2s'[c] = c2s[c] /\ got'[c] = got[c]
    BY <1>1, <1>2, <1>4 DEF TaskConsume, TaskShow, Read, sockets
  <1>5. ASSUME NEW p, TaskSetProto(v, p)
        PROVE  c2s'[c] = c2s[c] /\ got'[c] = got[c]
    BY <1>1, <1>2, <1>5 DEF TaskSetProto, Read
  <1>6. ASSUME NEW p, TaskDisconnect(v, p)
        PROVE  c2s'[c] = c2s[c] /\ got'[c] = got[c]
    BY <1>1, <1>2, <1>6 DEF TaskDisconnect, Read, Leave, Closed
  <1> QED BY <1>3, <1>4, <1>5, <1>6 DEF RunTask

\* The configured nickname goes out in answer to the first SET_PROTO of each
\* connection, once, whatever server answers and however the user switches.
THEOREM NicknameOnFirstCorrect == Spec => NicknameOnFirstProto
  <1> DEFINE Says(u) == connection[u] # NoConn /\ sent' = sent =>
                           LET c == connection[u]
                           IN  c2s'[c] = IF got'[c] = got[c] THEN c2s[c]
                                         ELSE c2s[c] \o Answer(u, c)
  <1>1. ASSUME ClientInv, [Next]_vars
        PROVE  \A u \in Users : Says(u)
    <2> SUFFICES ASSUME NEW u \in Users, connection[u] # NoConn, sent' = sent
                 PROVE  LET c == connection[u]
                        IN  c2s'[c] = IF got'[c] = got[c] THEN c2s[c]
                                      ELSE c2s[c] \o Answer(u, c)
      OBVIOUS
    <2>1. sent \in Nat
      BY <1>1, MaxSentAssumption DEF ClientInv, TypeOK, SocketsTypeOK
    <2>2. ~Act
      BY <2>1 DEF Act
    <2>3. ASSUME NEW v \in Users
          PROVE  ~Click(v) /\ ~UserAction(v)
      BY <2>2 DEF Click, UserAction, ServerButtonClicked, ServerButtonFails, MessageSubmit,
                  NicknameSubmit, Exit
    <2>4. ASSUME NEW v \in Users, RunTask(v), v # u
          PROVE  c2s'[connection[u]] = c2s[connection[u]] /\ got'[connection[u]] = got[connection[u]]
      BY <1>1, <2>4, TaskOfAnother
    <2>5. CASE RunTask(u)
      BY <1>1, <2>5, TaskAnswers
    <2>6. ASSUME NEW d \in Conns, NEW p \in Writable, ServerWrites(d, p)
          PROVE  c2s' = c2s /\ got' = got
      BY <2>6 DEF ServerWrites, clientVars
    <2>7. CASE UNCHANGED vars
      BY <2>7 DEF vars, sockets, clientVars
    <2> QED BY <1>1, <2>3, <2>4, <2>5, <2>6, <2>7 DEF Next
  <1> QED BY <1>1, Invariance, PTL DEF Spec, NicknameOnFirstProto

\* In version 1 the SET_NICKNAME packet is then among what the client wrote.
THEOREM NicknameSentCorrect == Spec => []ConfiguredNicknameSent
  <1>1. ClientInv => ConfiguredNicknameSent
    <2> SUFFICES ASSUME ClientInv, NEW u \in Users, connection[u] # NoConn,
                        connection_state[u] = 1, version[u] = 1
                 PROVE  \E i \in DOMAIN c2s[connection[u]] :
                            c2s[connection[u]][i] = SetNickname(await_nick[u])
      BY DEF ConfiguredNicknameSent
    <2>1. DOMAIN c2s[connection[u]] = 1 .. Len(c2s[connection[u]])
      BY Current, LenProperties
    <2>2. Introduces(c2s[connection[u]], await_nick[u])
      BY DEF ClientInv, Handshake, NamedOnWire
    <2> QED BY <2>1, <2>2 DEF Introduces
  <1> QED BY <1>1, Invariance, PTL

-----------------------------------------------------------------------------
(* What is shown.                                                          *)

\* A line: the connection and the packet.
Line  == Conns \X Packets
Talks == Seq(Line)

\* One line more.
LEMMA OneLine ==
    ASSUME NEW s \in Talks, NEW x \in Line, NEW S
    PROVE  Among(Append(s, x), S) = IF x \in S THEN Append(Among(s, S), x) ELSE Among(s, S)
  <1> HIDE DEF Line
  <1>1. s \in Seq(Line)
    BY DEF Talks
  <1> QED BY <1>1, AmongAppend

\* What was read on c, as lines.
Reading(c) == [i \in 1 .. got[c] |-> <<c, s2c[c][i]>>]

\* ReadLines picks the lines from Reading, a sequence of got[c] packets.
LEMMA ReadingIs ==
    ASSUME ClientInv, NEW c \in Conns
    PROVE  /\ Reading(c) \in Talks /\ Len(Reading(c)) = got[c] /\ got[c] \in Nat
           /\ ReadLines(c) = Among(Reading(c), {c} \X Lines)
           /\ got[c] = 0 => ReadLines(c) = <<>>
  <1>1. got[c] \in Nat /\ got[c] <= Len(s2c[c]) /\ s2c[c] \in Seq(Packets)
    BY DEF ClientInv, TypeOK, ClientTypeOK, SocketsTypeOK, Wire, ReadIsWritten
  <1>2. \A i \in 1 .. got[c] : <<c, s2c[c][i]>> \in Line
    <2>1. TAKE i \in 1 .. got[c]
    <2>2. i \in 1 .. Len(s2c[c])
      BY <1>1, LenProperties
    <2>3. s2c[c][i] \in Packets
      BY <1>1, <2>2, ElementOfSeq
    <2> QED BY <2>3 DEF Line
  <1>3. Reading(c) \in Talks /\ Len(Reading(c)) = got[c]
    <2> DEFINE r == [i \in 1 .. got[c] |-> <<c, s2c[c][i]>>]
    <2>1. \A i \in 1 .. got[c] : r[i] \in Line
      BY <1>2
    <2> HIDE DEF r
    <2>2. [i \in 1 .. got[c] |-> r[i]] \in Seq(Line) /\ Len([i \in 1 .. got[c] |-> r[i]]) = got[c]
      BY <1>1, <2>1, IsASeq
    <2>3. [i \in 1 .. got[c] |-> r[i]] = r
      BY DEF r
    <2> QED BY <2>2, <2>3 DEF Reading, Talks, r
  <1>4. ReadLines(c) = Among(Reading(c), {c} \X Lines)
    BY DEF ReadLines, Reading
  <1>5. ASSUME got[c] = 0
        PROVE  ReadLines(c) = <<>>
    <2>1. Reading(c) = <<>>
      BY <1>3, <1>5, EmptySeq DEF Talks
    <2>2. <<>> \in Talks /\ Len(<<>>) = 0
      BY EmptySeq DEF Talks
    <2>3. Among(<<>>, {c} \X Lines) = <<>>
      BY <2>2, AmongSteps
    <2> QED BY <1>4, <2>1, <2>3
  <1> QED BY <1>1, <1>3, <1>4, <1>5

\* A connection that has shown something is used, and by nobody else.
ShownOnce ==
    \A u \in Users, c \in Conns : Seen(u, c) # <<>> =>
        peer[c] # "unused" /\ \A v \in Users : v # u => connection[v] # c

ShownInv == ShownOnce /\ ShownIsRead

\* A step that shows nothing, reads no line, and gives nobody a connection that
\* was used before.
LEMMA NothingShown ==
    ASSUME ClientInv, ShownInv, UNCHANGED shown,
           \A c \in Conns : ReadLines(c)' = ReadLines(c),
           \A c \in Conns : peer[c] # "unused" => peer'[c] # "unused",
           \A u \in Users, c \in Conns : connection'[u] = c =>
               \/ connection[u] = c
               \/ peer[c] = "unused" /\ got[c] = 0
    PROVE  ShownInv'
  <1>1. \A u \in Users, c \in Conns : Seen(u, c)' = Seen(u, c)
    BY DEF Seen
  <1>2. \A u \in Users, c \in Conns : Seen(u, c) # <<>> =>
            peer[c] # "unused" /\ \A v \in Users : v # u => connection[v] # c
    BY DEF ShownInv, ShownOnce
  <1>3. ShownOnce'
    BY <1>1, <1>2 DEF ShownOnce
  <1>4. ASSUME NEW u \in Users, NEW c \in Conns, Seen(u, c) # <<>> \/ connection'[u] = c
        PROVE  Seen(u, c) = ReadLines(c)
    <2>1. CASE Seen(u, c) # <<>> \/ connection[u] = c
      BY <2>1 DEF ShownInv, ShownIsRead
    <2>2. CASE Seen(u, c) = <<>> /\ got[c] = 0
      BY <2>2, ReadingIs
    <2> QED BY <1>2, <1>4, <2>1, <2>2
  <1>5. ShownIsRead'
    BY <1>1, <1>4 DEF ShownIsRead
  <1> QED BY <1>3, <1>5 DEF ShownInv

\* What is read next.
LEMMA ReadingOn ==
    ASSUME ClientInv, NEW u \in Users, NEW p, Task(u, p), Read(u), UNCHANGED s2c,
           NEW c \in Conns, c = connection[u]
    PROVE  /\ p \in Packets
           /\ \A d \in Conns : d # c => ReadLines(d)' = ReadLines(d)
           /\ ReadLines(c)' = IF p \in Lines THEN Append(ReadLines(c), <<c, p>>)
                              ELSE ReadLines(c)
  <1> DEFINE n == got[c]
  <1>1. /\ c \in Conns /\ n \in Nat /\ p \in Packets /\ p = s2c[c][n + 1]
    BY TaskPacket DEF ClientInv
  <1>2. got'[c] = n + 1 /\ \A d \in Conns : d # c => got'[d] = got[d]
    BY <1>1 DEF Read, ClientInv, TypeOK, ClientTypeOK
  <1>3. \A d \in Conns : d # c => ReadLines(d)' = ReadLines(d)
    BY <1>2 DEF ReadLines
  <1> DEFINE r == Reading(c)
             t == [i \in 1 .. n + 1 |-> <<c, s2c[c][i]>>]
  <1>4. r \in Talks /\ Len(r) = n /\ ReadLines(c) = Among(r, {c} \X Lines)
    BY <1>1, ReadingIs
  <1>5. <<c, p>> \in Line
    BY <1>1 DEF Line
  <1>6. t = Append(r, <<c, p>>)
    <2>1. /\ Append(r, <<c, p>>) \in Seq(Line) /\ Len(Append(r, <<c, p>>)) = n + 1
          /\ Append(r, <<c, p>>)[n + 1] = <<c, p>>
          /\ \A i \in 1 .. n : Append(r, <<c, p>>)[i] = r[i]
      BY <1>4, <1>5, AppendProperties DEF Talks
    <2>2. \A i \in 1 .. n : r[i] = <<c, s2c[c][i]>>
      BY DEF Reading
    <2>3. \A i \in 1 .. n + 1 : i \in 1 .. n \/ i = n + 1
      BY <1>1
    <2>4. \A i \in 1 .. n + 1 : Append(r, <<c, p>>)[i] = t[i]
      BY <1>1, <2>1, <2>2, <2>3
    <2>5. Append(r, <<c, p>>) \in [1 .. n + 1 -> Line]
      BY <2>1, LenProperties
    <2> HIDE DEF r
    <2> QED BY <2>4, <2>5
  <1>7. ReadLines(c)' = Among(t, {c} \X Lines)
    BY <1>2 DEF ReadLines
  <1>8. <<c, p>> \in {c} \X Lines <=> p \in Lines
    OBVIOUS
  <1> HIDE DEF r, t, n
  <1>9. Among(t, {c} \X Lines) = IF p \in Lines THEN Append(Among(r, {c} \X Lines), <<c, p>>)
                                 ELSE Among(r, {c} \X Lines)
    BY <1>4, <1>5, <1>6, <1>8, OneLine
  <1> QED BY <1>1, <1>3, <1>4, <1>7, <1>9

\* The first state shows nothing.
LEMMA InitShown == Init => ShownInv
  <1> SUFFICES ASSUME Init
               PROVE  ShownInv
    OBVIOUS
  <1>1. \A u \in Users, c \in Conns : Seen(u, c) = <<>>
    <2>1. <<>> \in Talks /\ Len(<<>>) = 0
      BY EmptySeq DEF Talks
    <2>2. \A S : Among(<<>>, S) = <<>>
      BY <2>1, AmongSteps
    <2> QED BY <2>2 DEF Init, ClientInit, Seen
  <1>2. \A u \in Users, c \in Conns : connection[u] # c
    <2>1. \A u \in Users : connection[u] = NoConn
      BY DEF Init, ClientInit
    <2> QED BY <2>1, ConnsAssumption
  <1> QED BY <1>1, <1>2 DEF ShownInv, ShownOnce, ShownIsRead

\* TaskShow adds a line to what is seen of this connection, and of no other.
LEMMA ShowStep ==
    ASSUME ClientInv, ShownInv, NEW u \in Users, NEW p, TaskShow(u, p)
    PROVE  ShownInv'
  <1>0. PICK c \in Conns : c = connection[u]
    BY TaskPacket DEF TaskShow, ClientInv
  <1> DEFINE x == <<c, p>>
  <1>1. /\ Task(u, p) /\ Read(u) /\ p.op \in {"NICKNAME_UPDATED", "RECV_MESSAGE"}
        /\ shown' = [shown EXCEPT ![u] = Append(shown[u], x)]
        /\ UNCHANGED <<sockets, connection>>
    BY <1>0 DEF TaskShow
  <1>2. /\ c \in Conns /\ p \in Packets /\ x \in Line
        /\ \A d \in Conns : d # c => ReadLines(d)' = ReadLines(d)
        /\ ReadLines(c)' = IF p \in Lines THEN Append(ReadLines(c), x) ELSE ReadLines(c)
    BY <1>0, <1>1, ReadingOn DEF sockets, Line
  <1>3. ReadLines(c)' = Append(ReadLines(c), x)
    BY <1>1, <1>2 DEF Lines
  <1>4. /\ \A v \in Users : shown[v] \in Talks
        /\ shown'[u] = Append(shown[u], x)
        /\ \A v \in Users : v # u => shown'[v] = shown[v]
    BY <1>1 DEF ClientInv, TypeOK, ClientTypeOK, Talks, Line
  <1>5. peer[c] = "open" /\ connection[u] = c
    BY <1>0, <1>2, Current, ConnsAssumption
  <1>6. \A d \in Conns : x \in {d} \X Packets <=> d = c
    BY <1>2
  <1> HIDE DEF x
  <1>7. \A S : Among(Append(shown[u], x), S) =
                  IF x \in S THEN Append(Among(shown[u], S), x) ELSE Among(shown[u], S)
    BY <1>2, <1>4, OneLine
  <1>8. /\ Among(shown'[u], {c} \X Packets) = Append(Among(shown[u], {c} \X Packets), x)
        /\ \A d \in Conns : d # c =>
              Among(shown'[u], {d} \X Packets) = Among(shown[u], {d} \X Packets)
    BY <1>2, <1>4, <1>6, <1>7
  <1>9. /\ Seen(u, c)' = Append(Seen(u, c), x)
        /\ \A d \in Conns : d # c => Seen(u, d)' = Seen(u, d)
        /\ \A v \in Users, d \in Conns : v # u => Seen(v, d)' = Seen(v, d)
    BY <1>4, <1>8 DEF Seen
  <1>10. ShownOnce'
    <2> SUFFICES ASSUME NEW v \in Users, NEW d \in Conns, Seen(v, d)' # <<>>
                 PROVE  peer[d] # "unused" /\ \A w \in Users : w # v => connection[w] # d
      BY <1>1 DEF ShownOnce, sockets
    <2>1. CASE v = u /\ d = c
      <3>1. \A w \in Users : w # u => connection[w] # c
        BY <1>2, <1>5, OthersGoOn, ConnsAssumption
      <3> QED BY <1>5, <2>1, <3>1
    <2>2. CASE ~(v = u /\ d = c)
      BY <1>9, <2>2 DEF ShownInv, ShownOnce
    <2> QED BY <2>1, <2>2
  <1>11. ShownIsRead'
    <2> SUFFICES ASSUME NEW v \in Users, NEW d \in Conns, Seen(v, d)' # <<>> \/ connection[v] = d
                 PROVE  Seen(v, d)' = ReadLines(d)'
      BY <1>1 DEF ShownIsRead
    <2>1. CASE v = u /\ d = c
      <3>1. Seen(u, c) = ReadLines(c)
        BY <1>2, <1>5 DEF ShownInv, ShownIsRead
      <3> QED BY <1>3, <1>9, <2>1, <3>1
    <2>2. CASE v # u /\ d = c
      <3>1. Seen(v, c) # <<>> \/ connection[v] = c
        BY <1>9, <2>2
      <3>2. connection[v] # c
        BY <1>2, <1>5, <2>2, OthersGoOn, ConnsAssumption
      <3> QED BY <1>2, <1>5, <2>2, <3>1, <3>2 DEF ShownInv, ShownOnce
    <2>3. CASE d # c
      BY <1>2, <1>9, <2>3 DEF ShownInv, ShownIsRead
    <2> QED BY <2>1, <2>2, <2>3
  <1> QED BY <1>10, <1>11 DEF ShownInv

\* Every step keeps what is seen equal to what was read.
LEMMA NextShown == ClientInv /\ ShownInv /\ [Next]_vars => ShownInv'
  <1> SUFFICES ASSUME ClientInv, ShownInv, [Next]_vars
               PROVE  ShownInv'
    OBVIOUS
  <1>1. \A u \in Users : connection[u] # NoConn => connection[u] \in Conns /\ peer[connection[u]] = "open"
    BY Current
  <1>2. ASSUME UNCHANGED <<s2c, got>>
        PROVE  \A c \in Conns : ReadLines(c)' = ReadLines(c)
    BY <1>2 DEF ReadLines
  <1>3. ASSUME NEW u \in Users, Leave(u), Connected(u)
        PROVE  /\ \A c \in Conns : peer[c] # "unused" => peer'[c] # "unused"
               /\ \A v \in Users, c \in Conns : connection'[v] = c => connection[v] = c
    <2>1. connection[u] \in Conns
      BY <1>1, <1>3 DEF Connected
    <2>2. /\ peer \in [Conns -> {"unused", "open", "fin", "reset"}]
          /\ connection \in [Users -> Conns \cup {NoConn}]
      BY DEF ClientInv, TypeOK, SocketsTypeOK, ClientTypeOK
    <2> QED BY <1>3, <2>1, <2>2, ConnsAssumption DEF Leave
  <1>4. ASSUME NEW u \in Users, NEW c \in Conns, NEW nick \in Configured,
               ServerButtonClicked(u, c, nick)
        PROVE  ShownInv'
    <2>1. /\ UNCHANGED <<s2c, got, shown>> /\ peer[c] = "unused"
          /\ \A d \in Conns : peer'[d] = IF d = c THEN "open"
                                        ELSE IF d = connection[u] /\ peer[d] = "open" THEN "fin"
                                        ELSE peer[d]
          /\ connection' = [connection EXCEPT ![u] = c]
      BY <1>4 DEF ServerButtonClicked
    <2>2. got[c] = 0
      BY <2>1 DEF ClientInv, Wire, UnusedIsFresh
    <2>3. \A d \in Conns : peer[d] # "unused" => peer'[d] # "unused"
      BY <2>1
    <2>4. \A v \in Users, d \in Conns : connection'[v] = d => connection[v] = d \/ d = c
      BY <2>1 DEF ClientInv, TypeOK, ClientTypeOK
    <2> QED BY <1>2, <2>1, <2>2, <2>3, <2>4, NothingShown
  <1>5. ASSUME NEW u \in Users, ServerButtonFails(u)
        PROVE  ShownInv'
    <2>1. Leave(u) /\ Connected(u) /\ UNCHANGED <<s2c, got, shown>>
      BY <1>5 DEF ServerButtonFails
    <2> QED BY <1>2, <1>3, <2>1, NothingShown
  <1>6. ASSUME NEW u \in Users, (\E m \in Msgs : MessageSubmit(u, m)) \/ (\E n \in Nicks : NicknameSubmit(u, n))
        PROVE  ShownInv'
    <2>1. UNCHANGED <<peer, connection, s2c, got, shown>>
      BY <1>6 DEF MessageSubmit, NicknameSubmit, clientVars
    <2> QED BY <1>2, <2>1, NothingShown
  <1>7. ASSUME NEW u \in Users, Exit(u)
        PROVE  ShownInv'
    <2>1. /\ UNCHANGED <<s2c, got, shown>>
          /\ \A c \in Conns : peer'[c] = IF (c = connection[u] \/ c \in leaked[u]) /\ peer[c] = "open"
                                         THEN "fin" ELSE peer[c]
          /\ connection' = [connection EXCEPT ![u] = NoConn]
      BY <1>7 DEF Exit
    <2>2. \A c \in Conns : peer[c] # "unused" => peer'[c] # "unused"
      BY <2>1
    <2>3. \A v \in Users, c \in Conns : connection'[v] = c => connection[v] = c
      BY <2>1, ConnsAssumption DEF ClientInv, TypeOK, ClientTypeOK
    <2> QED BY <1>2, <2>1, <2>2, <2>3, NothingShown
  <1>8. ASSUME NEW u \in Users, TaskUnreadable(u)
        PROVE  ShownInv'
    <2>1. /\ UNCHANGED <<s2c, got, shown, peer>>
          /\ connection' = [connection EXCEPT ![u] = NoConn]
      BY <1>8 DEF TaskUnreadable, sockets
    <2>2. \A v \in Users, c \in Conns : connection'[v] = c => connection[v] = c
      BY <2>1, ConnsAssumption DEF ClientInv, TypeOK, ClientTypeOK
    <2> QED BY <1>2, <2>1, <2>2, NothingShown
  <1>9. ASSUME NEW u \in Users, NEW p, TaskConsume(u, p) \/ TaskSetProto(u, p) \/ TaskDisconnect(u, p)
        PROVE  ShownInv'
    <2>1. /\ Task(u, p) /\ Read(u) /\ UNCHANGED <<s2c, shown>>
          /\ p.op \in {"HELLO", "SEND_MESSAGE", "SET_NICKNAME", "SET_PROTO", "DISCONNECT"}
      BY <1>9 DEF TaskConsume, TaskSetProto, TaskDisconnect, sockets
    <2>2. p \notin Lines
      BY <2>1 DEF Lines
    <2>3. \A c \in Conns : ReadLines(c)' = ReadLines(c)
      <3>1. PICK e \in Conns : e = connection[u]
        BY <2>1, TaskPacket DEF ClientInv
      <3>2. /\ \A d \in Conns : d # e => ReadLines(d)' = ReadLines(d)
            /\ ReadLines(e)' = ReadLines(e)
        BY <2>1, <2>2, <3>1, ReadingOn
      <3> QED BY <3>2
    <2>4. /\ \A c \in Conns : peer[c] # "unused" => peer'[c] # "unused"
          /\ \A v \in Users, c \in Conns : connection'[v] = c => connection[v] = c
      <3>1. CASE TaskDisconnect(u, p)
        BY <1>3, <3>1 DEF TaskDisconnect, Task, Pending
      <3>2. CASE TaskConsume(u, p) \/ TaskSetProto(u, p)
        BY <3>2 DEF TaskConsume, TaskSetProto, sockets
      <3> QED BY <1>9, <3>1, <3>2
    <2> QED BY <2>1, <2>3, <2>4, NothingShown
  <1>10. ASSUME NEW c \in Conns, NEW p \in Writable, ServerWrites(c, p)
         PROVE  ShownInv'
    <2>1. /\ UNCHANGED <<peer, connection, got, shown>>
          /\ s2c' = [s2c EXCEPT ![c] = Append(s2c[c], p)]
      BY <1>10 DEF ServerWrites, clientVars
    <2>2. s2c \in [Conns -> Seq(Packets)] /\ p \in Packets /\ got[c] \in Nat /\ got[c] <= Len(s2c[c])
      BY WritableAssumption
         DEF ClientInv, TypeOK, SocketsTypeOK, ClientTypeOK, Wire, ReadIsWritten
    <2>3. \A i \in 1 .. got[c] : s2c'[c][i] = s2c[c][i]
      <3>1. s2c'[c] = Append(s2c[c], p) /\ s2c[c] \in Seq(Packets)
        BY <2>1, <2>2
      <3>2. \A i \in 1 .. got[c] : i \in 1 .. Len(s2c[c])
        BY <2>2, <3>1, LenProperties
      <3> QED BY <2>2, <3>1, <3>2, AppendProperties
    <2>4. \A d \in Conns : ReadLines(d)' = ReadLines(d)
      <3>1. TAKE d \in Conns
      <3>2. [i \in 1 .. got[d] |-> <<d, s2c'[d][i]>>] = [i \in 1 .. got[d] |-> <<d, s2c[d][i]>>]
        <4>1. CASE d = c
          BY <2>3, <4>1
        <4>2. CASE d # c
          BY <2>1, <2>2, <4>2
        <4> QED BY <4>1, <4>2
      <3> QED BY <2>1, <3>2 DEF ReadLines
    <2> QED BY <2>1, <2>4, NothingShown
  <1>11. CASE UNCHANGED vars
    <2>1. UNCHANGED <<peer, connection, s2c, got, shown>>
      BY <1>11 DEF vars, sockets, clientVars
    <2> QED BY <1>2, <2>1, NothingShown
  <1> QED BY <1>4, <1>5, <1>6, <1>7, <1>8, <1>9, <1>10, <1>11, ShowStep
          DEF Next, Click, UserAction, RunTask

\* client_run_tasks shows each user what was read on a connection, all of it and
\* once, however often the user has switched in between.
THEOREM ShownCorrect == Spec => []ShownIsRead
  <1>1. ShownInv => ShownIsRead
    BY DEF ShownInv
  <1> QED BY <1>1, InitShown, NextShown, Invariance, PTL DEF Spec
=============================================================================
