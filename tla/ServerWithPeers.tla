--------------------------- MODULE ServerWithPeers ---------------------------
(***************************************************************************)
(* The server facing any clients at all: they connect, send any packet in  *)
(* any order, close, and are cut off, whenever they like.                  *)
(***************************************************************************)
EXTENDS Server

vars == <<sockets, serverVars>>

PeerStep ==
    /\ \E c \in Conns :
        \/ Connect(c) /\ Running
        \/ \E p \in Sendable : PeerSend(c, p)
        \/ PeerClose(c)
        \/ PeerReset(c)
    /\ UNCHANGED serverVars

Init == SocketsInit /\ ServerInit
Next == ServerStep \/ Sigint \/ PeerStep

Spec == Init /\ [][Next]_vars

\* The server is never stopped from running; clients and the user are free.
FairSpec == Spec /\ WF_vars(ServerStep)

-----------------------------------------------------------------------------
(* The room: its members are the connections of the clients in state 2.    *)

Inside(cls) == {k \in DOMAIN cls : cls[k].state = 2 /\ cls[k].version = 1}

\* Their nicknames, given the clients and the descriptor table.
Roster(cls, tab) ==
    [c \in {tab[cls[k].fd] : k \in Inside(cls)} \ {NoConn} |->
        cls[CHOOSE k \in Inside(cls) : tab[cls[k].fd] = c].nickname]

Messages == [op : {"RECV_MESSAGE"}, message : Texts, author : Names \cup {System}]

\* The lines in a conversation.
Heard(s) ==
    LET told == Among(s, Messages) IN
    [i \in DOMAIN told |-> [message |-> told[i].message, author |-> told[i].author]]

Room == INSTANCE ChatRoom WITH
    nick       <- Roster(clients, fdtab),
    transcript <- [c \in Conns |-> Heard(s2c[c])]

-----------------------------------------------------------------------------
(* Properties                                                              *)

TypeOK == SocketsTypeOK /\ ServerTypeOK

\* The server implements the room: however handshakes, nicknames, departures,
\* resets and the shutdown interleave with messages, each of its steps tells
\* every ready client the same line, or nobody anything.
ImplementsChatRoom == Room!Spec

Ended == ~Running

\* Every connection is accepted, whatever other clients do, unless the server
\* ends first.
AcceptedEventually ==
    \A c \in Conns :
        (\E i \in DOMAIN backlog : backlog[i] = c) ~> (c \in OpenConns \/ Ended)

\* As long as only the newest client is ever removed every packet, end of
\* stream or reset that waits at a client's connection is handled.
ServedWhileLifo ==
    \A c \in Conns :
        (c \in OpenConns /\ (c2s[c] # <<>> \/ peer[c] \in {"fin", "reset"}))
            ~> \/ c2s[c] = <<>> /\ peer[c] = "open"
               \/ c \notin OpenConns
               \/ Ended
               \/ ~lifo
=============================================================================
