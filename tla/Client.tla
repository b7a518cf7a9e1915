------------------------------- MODULE Client -------------------------------
(***************************************************************************)
(* The reference client (client.cc): one thread that runs the user's       *)
(* clicks and, between them, client_run_tasks, which handles one packet at *)
(* a time.  Several clients, the elements of Users, share the network; a   *)
(* click on a server takes a connection attempt nobody has used.           *)
(*                                                                         *)
(* The receive queue is empty between two packets (PacketQueue).           *)
(***************************************************************************)
EXTENDS Protocol

CONSTANTS
    Users,
    Configured   \* the nicknames servers have in the configuration, or NoNick

NoNick == "no nickname"

ASSUME ConfiguredAssumption == Configured \subseteq Nicks \cup {NoNick}

VARIABLES
    connection,        \* of each user: the current connection, or NoConn
    connection_state,  \* 1 after the configured nickname was sent
    await_nick,        \* the nickname configured for the server, or NoNick
    version,           \* protocol_version of the current connection
    got,               \* how many packets each connection has read
    shown,             \* the lines each user sees: connection and packet
    leaked,            \* connections forgotten without close
    exited             \* the users who have left the program

clientVars ==
    <<connection, connection_state, await_nick, version, got, shown, leaked, exited>>

ClientTypeOK ==
    /\ connection \in [Users -> Conns \cup {NoConn}]
    /\ connection_state \in [Users -> 0 .. 1]
    /\ await_nick \in [Users -> Nicks \cup {NoNick}]
    /\ version \in [Users -> Versions]
    /\ got \in [Conns -> Nat]
    /\ shown \in [Users -> Seq(Conns \X Packets)]
    /\ leaked \in [Users -> SUBSET Conns]
    /\ exited \subseteq Users

ClientInit ==
    /\ connection = [u \in Users |-> NoConn]
    /\ connection_state = [u \in Users |-> 0]
    /\ await_nick = [u \in Users |-> NoNick]
    /\ version = [u \in Users |-> 1]
    /\ got = [c \in Conns |-> 0]
    /\ shown = [u \in Users |-> <<>>]
    /\ leaked = [u \in Users |-> {}]
    /\ exited = {}

-----------------------------------------------------------------------------
(* Helpers                                                                 *)

Connected(u) == u \notin exited /\ connection[u] # NoConn

\* What user u writes on connection c: nothing unless its version is 1.
Sent(u, packet) == IF version[u] = 1 THEN <<packet>> ELSE <<>>

\* The part of client_disconnect that concerns the socket.
Closed(u, packets) == [packets EXCEPT ![connection[u]] = @ \o Sent(u, Disconnect)]

\* What all users do together is bounded by MaxSent.
Act == sent < MaxSent /\ sent' = sent + 1

-----------------------------------------------------------------------------
(* What the user does                                                      *)

\* Mutant: the handler does not reset connection_state.
ServerButtonClickedKeepsState(u, c, nick) ==
    /\ u \notin exited
    /\ peer[c] = "unused"
    /\ Act
    /\ peer' = [d \in Conns |-> IF d = c THEN "open"
                                ELSE IF d = connection[u] /\ peer[d] = "open" THEN "fin"
                                ELSE peer[d]]
    /\ backlog' = Append(backlog, c)
    /\ c2s' = [(IF Connected(u) THEN Closed(u, c2s) ELSE c2s)
                EXCEPT ![c] = <<Hello(FALSE, {1})>>]
    /\ connection' = [connection EXCEPT ![u] = c]
    /\ await_nick' = [await_nick EXCEPT ![u] = nick]
    /\ version' = [version EXCEPT ![u] = 1]
    /\ UNCHANGED <<s2c, connection_state, got, shown, leaked, exited>>

\* Mutant: the old connection is not closed.
ServerButtonClickedKeepsOld(u, c, nick) ==
    /\ u \notin exited
    /\ peer[c] = "unused"
    /\ Act
    /\ peer' = [d \in Conns |-> IF d = c THEN "open"
                                ELSE peer[d]]
    /\ backlog' = Append(backlog, c)
    /\ c2s' = [(IF Connected(u) THEN Closed(u, c2s) ELSE c2s)
                EXCEPT ![c] = <<Hello(FALSE, {1})>>]
    /\ connection' = [connection EXCEPT ![u] = c]
    /\ connection_state' = [connection_state EXCEPT ![u] = 0]
    /\ await_nick' = [await_nick EXCEPT ![u] = nick]
    /\ version' = [version EXCEPT ![u] = 1]
    /\ UNCHANGED <<s2c, got, shown, leaked, exited>>

\* server_button_clicked, connect succeeds on connection c.  The old
\* connection, if any, is left in the same handler.
ServerButtonClicked(u, c, nick) ==
    /\ u \notin exited
    /\ peer[c] = "unused"
    /\ Act
    /\ peer' = [d \in Conns |-> IF d = c THEN "open"
                                ELSE IF d = connection[u] /\ peer[d] = "open" THEN "fin"
                                ELSE peer[d]]
    /\ backlog' = Append(backlog, c)
    /\ c2s' = [(IF Connected(u) THEN Closed(u, c2s) ELSE c2s)
                EXCEPT ![c] = <<Hello(FALSE, {1})>>]
    /\ connection' = [connection EXCEPT ![u] = c]
    /\ connection_state' = [connection_state EXCEPT ![u] = 0]
    /\ await_nick' = [await_nick EXCEPT ![u] = nick]
    /\ version' = [version EXCEPT ![u] = 1]
    /\ UNCHANGED <<s2c, got, shown, leaked, exited>>

\* Mutant: the pointer to the connection is kept.
LeaveKeepsConnection(u) ==
    /\ c2s' = Closed(u, c2s)
    /\ peer' = [peer EXCEPT ![connection[u]] = IF @ = "open" THEN "fin" ELSE @]
    /\ connection_state' = [connection_state EXCEPT ![u] = 0]
    /\ UNCHANGED connection

\* client_disconnect
Leave(u) ==
    /\ c2s' = Closed(u, c2s)
    /\ peer' = [peer EXCEPT ![connection[u]] = IF @ = "open" THEN "fin" ELSE @]
    /\ connection' = [connection EXCEPT ![u] = NoConn]
    /\ connection_state' = [connection_state EXCEPT ![u] = 0]

\* The same handler when socket or connect fails.
ServerButtonFails(u) ==
    /\ Connected(u)
    /\ Act
    /\ Leave(u)
    /\ UNCHANGED <<backlog, s2c, await_nick, version, got, shown, leaked, exited>>

\* message_submit
MessageSubmit(u, m) ==
    /\ Connected(u)
    /\ Act
    /\ c2s' = [c2s EXCEPT ![connection[u]] = @ \o Sent(u, SendMessage(m))]
    /\ UNCHANGED <<peer, backlog, s2c, clientVars>>

\* set_nickname_dialog_ok_clicked
NicknameSubmit(u, n) ==
    /\ Connected(u)
    /\ Act
    /\ c2s' = [c2s EXCEPT ![connection[u]] = @ \o Sent(u, SetNickname(n))]
    /\ UNCHANGED <<peer, backlog, s2c, clientVars>>

\* exit_button_clicked, and the end of client_main and of the process, which
\* closes what was leaked.
Exit(u) ==
    /\ u \notin exited
    /\ Act
    /\ exited' = exited \cup {u}
    /\ peer' = [c \in Conns |->
                    IF (c = connection[u] \/ c \in leaked[u]) /\ peer[c] = "open"
                    THEN "fin" ELSE peer[c]]
    /\ c2s' = IF Connected(u) THEN Closed(u, c2s) ELSE c2s
    /\ connection' = [connection EXCEPT ![u] = NoConn]
    /\ connection_state' = [connection_state EXCEPT ![u] =
                                IF Connected(u) THEN 0 ELSE @]
    /\ leaked' = [leaked EXCEPT ![u] = {}]
    /\ UNCHANGED <<backlog, s2c, await_nick, version, got, shown>>

-----------------------------------------------------------------------------
(* client_run_tasks: one packet of the current connection.                 *)

Pending(u) == Connected(u) /\ got[connection[u]] < Len(s2c[connection[u]])

Read(u) == got' = [got EXCEPT ![connection[u]] = @ + 1]

\* The next packet is p, and recv_packet can read it.
Task(u, p) ==
    /\ Pending(u)
    /\ version[u] = 1
    /\ p = s2c[connection[u]][got[connection[u]] + 1]

\* recv_packet reads nothing in another version: queue_get(0) returns null and
\* the connection is forgotten.  Neither is the socket closed nor
\* connection_state reset.
TaskUnreadable(u) ==
    /\ Pending(u)
    /\ version[u] # 1
    /\ leaked' = [leaked EXCEPT ![u] = @ \cup {connection[u]}]
    /\ connection' = [connection EXCEPT ![u] = NoConn]
    /\ UNCHANGED <<sockets, connection_state, await_nick, version, got, shown, exited>>

\* HELLO, and packets only a server gets, are consumed and forgotten.
TaskConsume(u, p) ==
    /\ Task(u, p)
    /\ p.op \in {"HELLO", "SEND_MESSAGE", "SET_NICKNAME"}
    /\ Read(u)
    /\ UNCHANGED <<sockets, connection, connection_state, await_nick, version, shown,
                   leaked, exited>>

\* Mutant: connection_state is not set when the nickname goes out.
TaskSetProtoForgets(u, p) ==
    /\ Task(u, p)
    /\ p.op = "SET_PROTO"
    /\ Read(u)
    /\ version' = [version EXCEPT ![u] = p.protocol]
    /\ c2s' = IF connection_state[u] = 0 /\ await_nick[u] # NoNick /\ p.protocol = 1
              THEN [c2s EXCEPT ![connection[u]] = Append(@, SetNickname(await_nick[u]))]
              ELSE c2s
    /\ UNCHANGED <<peer, backlog, s2c, sent, connection, connection_state, await_nick,
                   shown, leaked, exited>>

\* The version is set first: the nickname goes out only in version 1.
TaskSetProto(u, p) ==
    /\ Task(u, p)
    /\ p.op = "SET_PROTO"
    /\ Read(u)
    /\ version' = [version EXCEPT ![u] = p.protocol]
    /\ IF connection_state[u] = 0 /\ await_nick[u] # NoNick
       THEN /\ c2s' = IF p.protocol = 1
                      THEN [c2s EXCEPT ![connection[u]] = Append(@, SetNickname(await_nick[u]))]
                      ELSE c2s
            /\ connection_state' = [connection_state EXCEPT ![u] = 1]
       ELSE UNCHANGED <<c2s, connection_state>>
    /\ UNCHANGED <<peer, backlog, s2c, sent, connection, await_nick, shown, leaked, exited>>

\* Mutant: the packet is not consumed.
TaskShowPeeks(u, p) ==
    /\ Task(u, p)
    /\ p.op \in {"NICKNAME_UPDATED", "RECV_MESSAGE"}
    /\ shown' = [shown EXCEPT ![u] = Append(@, <<connection[u], p>>)]
    /\ UNCHANGED <<sockets, connection, connection_state, await_nick, version, got,
                   leaked, exited>>

\* NICKNAME_UPDATED and RECV_MESSAGE become a line.
TaskShow(u, p) ==
    /\ Task(u, p)
    /\ p.op \in {"NICKNAME_UPDATED", "RECV_MESSAGE"}
    /\ Read(u)
    /\ shown' = [shown EXCEPT ![u] = Append(@, <<connection[u], p>>)]
    /\ UNCHANGED <<sockets, connection, connection_state, await_nick, version, leaked, exited>>

\* The client answers a DISCONNECT with one of its own.
TaskDisconnect(u, p) ==
    /\ Task(u, p)
    /\ p.op = "DISCONNECT"
    /\ Read(u)
    /\ Leave(u)
    /\ UNCHANGED <<backlog, s2c, sent, await_nick, version, shown, leaked, exited>>

RunTask(u) ==
    \/ TaskUnreadable(u)
    \/ Pending(u) /\ LET p == s2c[connection[u]][got[connection[u]] + 1] IN
        \/ TaskConsume(u, p)
        \/ TaskSetProto(u, p)
        \/ TaskShow(u, p)
        \/ TaskDisconnect(u, p)

UserAction(u) ==
    \/ ServerButtonFails(u)
    \/ \E m \in Msgs : MessageSubmit(u, m)
    \/ \E n \in Nicks : NicknameSubmit(u, n)
    \/ Exit(u)

Click(u) == \E c \in Conns, nick \in Configured : ServerButtonClicked(u, c, nick)
=============================================================================
