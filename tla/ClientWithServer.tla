-------------------------- MODULE ClientWithServer --------------------------
(***************************************************************************)
(* The client facing any server at all: it writes any packets, in any      *)
(* order, at any time, also after it has dropped the connection.  Nobody   *)
(* reads what the client sends, so c2s is its whole output here.           *)
(***************************************************************************)
EXTENDS Client

CONSTANTS
    Writable,    \* the packets the server writes
    MaxWritten   \* bound: packets the server writes on one connection

ASSUME WritableAssumption   == Writable \subseteq Packets
ASSUME MaxWrittenAssumption == MaxWritten \in Nat

vars == <<sockets, clientVars>>

ServerWrites(c, p) ==
    /\ peer[c] # "unused"
    /\ Len(s2c[c]) < MaxWritten
    /\ s2c' = [s2c EXCEPT ![c] = Append(@, p)]
    /\ UNCHANGED <<peer, backlog, c2s, sent, clientVars>>

Init == SocketsInit /\ ClientInit

Next ==
    \/ \E u \in Users : Click(u) \/ UserAction(u) \/ RunTask(u)
    \/ \E c \in Conns, p \in Writable : ServerWrites(c, p)

Spec == Init /\ [][Next]_vars

-----------------------------------------------------------------------------
(* Properties                                                              *)

TypeOK == SocketsTypeOK /\ ClientTypeOK

\* The packets that become lines.
Lines == {p \in Packets : p.op \in {"NICKNAME_UPDATED", "RECV_MESSAGE"}}

\* The lines a user sees of a connection, and those that were read on it.
Seen(u, c)   == Among(shown[u], {c} \X Packets)
ReadLines(c) == Among([i \in 1 .. got[c] |-> <<c, s2c[c][i]>>], {c} \X Lines)

\* A connection the client has not ended is the current one of its user, or a
\* server selected a version on it that the client does not speak: only then
\* does client_run_tasks drop it without closing it (client.cc:319).
LeaksOnlyUnknownVersion ==
    \A c \in Conns : peer[c] = "open" =>
        \/ \E u \in Users : connection[u] = c
        \/ \E i \in 1 .. got[c] : s2c[c][i].op = "SET_PROTO" /\ s2c[c][i].protocol # 1

\* Nothing the client writes follows its DISCONNECT, whichever of the user, the
\* server, another server's button and the end of the program caused it, and a
\* connection with a DISCONNECT on it is closed.
DisconnectIsLast ==
    \A c \in Conns : \A i \in DOMAIN c2s[c] :
        c2s[c][i] = Disconnect => i = Len(c2s[c]) /\ peer[c] # "open"

\* What a user sees of a connection is what the client read on it, in order,
\* nothing twice and nothing left out, also when the user switches servers
\* while packets of the old one wait.
ShownIsRead ==
    \A u \in Users, c \in Conns :
        Seen(u, c) # <<>> \/ connection[u] = c => Seen(u, c) = ReadLines(c)

\* The next packet the client reads on c is the first of the connection that
\* selects a version, and selects p.
FirstSelects(c, p) ==
    /\ s2c[c][got[c] + 1] = SetProto(p)
    /\ \A i \in 1 .. got[c] : s2c[c][i].op # "SET_PROTO"

\* What user u's client should write when it reads the next packet of c.
Answer(u, c) ==
    IF await_nick[u] # NoNick /\ FirstSelects(c, 1) THEN <<SetNickname(await_nick[u])>>
    ELSE IF s2c[c][got[c] + 1] = Disconnect THEN <<Disconnect>>
    ELSE <<>>

\* client.cc:335-345: of its own accord, when the user does nothing, the client
\* writes SET_NICKNAME with the configured nickname when it reads the first
\* SET_PROTO of a connection, and then only: not on a later SET_PROTO, not when
\* that first one selects a version it cannot write, and not less because an
\* earlier connection was named already.  The only other packet it writes so is
\* the answer to a DISCONNECT.
NicknameOnFirstProto ==
    [][\A u \in Users : connection[u] # NoConn /\ sent' = sent =>
            LET c == connection[u]
            IN  c2s'[c] = IF got'[c] = got[c] THEN c2s[c] ELSE c2s[c] \o Answer(u, c)
      ]_vars

\* In version 1 that nickname is on the wire.
ConfiguredNicknameSent ==
    \A u \in Users :
        connection[u] # NoConn /\ connection_state[u] = 1 /\ version[u] = 1 =>
            \E i \in DOMAIN c2s[connection[u]] :
                c2s[connection[u]][i] = SetNickname(await_nick[u])
=============================================================================
