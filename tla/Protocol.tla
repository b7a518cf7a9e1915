------------------------------ MODULE Protocol ------------------------------
(***************************************************************************)
(* The packets of protocol version 1 (networking.h), and the TCP           *)
(* connections that carry them, as the code in src/ uses them.             *)
(*                                                                         *)
(* A packet is a record: its opcode and what the receiver looks at.  The   *)
(* framing is left out: a packet arrives whole or not at all.  Each        *)
(* connection attempt is an element of Conns and is used once.             *)
(***************************************************************************)
EXTENDS Subsequence

CONSTANTS
    Conns,     \* connection attempts
    Nicks,     \* nicknames a user can choose
    Msgs,      \* texts a user can send
    Versions,  \* protocol versions a peer can name
    Sendable,  \* the packets clients send
    MaxSent    \* bound: packets all clients send, or things all users do, together

NoConn == "no connection"

ASSUME VersionsAssumption == Versions \subseteq Nat /\ 1 \in Versions
ASSUME ConnsAssumption == NoConn \notin Conns
ASSUME MaxSentAssumption == MaxSent \in Nat

Anon   == "anon"
System == "=="
Names  == Nicks \cup {Anon}

\* The text announcing that a client has left.
LeftNotice(nick) == [left |-> nick]
Notices == [left : Names]
Texts   == Msgs \cup Notices

Hello(master, protocols) == [op |-> "HELLO", master |-> master, protocols |-> protocols]
SetProto(v)              == [op |-> "SET_PROTO", protocol |-> v]
SendMessage(m)           == [op |-> "SEND_MESSAGE", message |-> m]
RecvMessage(m, author)   == [op |-> "RECV_MESSAGE", message |-> m, author |-> author]
SetNickname(n)           == [op |-> "SET_NICKNAME", nickname |-> n]
NicknameUpdated(n)       == [op |-> "NICKNAME_UPDATED", nickname |-> n]
Disconnect               == [op |-> "DISCONNECT"]

Packets ==
         [op : {"HELLO"}, master : BOOLEAN, protocols : SUBSET Versions]
    \cup [op : {"SET_PROTO"}, protocol : Versions]
    \cup [op : {"SEND_MESSAGE"}, message : Msgs]
    \cup [op : {"RECV_MESSAGE"}, message : Texts, author : Names \cup {System}]
    \cup [op : {"SET_NICKNAME", "NICKNAME_UPDATED"}, nickname : Names]
    \cup [op : {"DISCONNECT"}]

ASSUME SendableAssumption == Sendable \subseteq Packets

-----------------------------------------------------------------------------
(* The kernel's side of the connections.                                   *)

VARIABLES
    peer,     \* the client's end: not yet used, open, closed, or reset
    backlog,  \* connections waiting for accept, oldest first
    c2s,      \* packets at the server's end that the server has not read
    s2c,      \* every packet the server has written, in order
    sent      \* how many packets clients have sent

sockets == <<peer, backlog, c2s, s2c, sent>>

SocketsTypeOK ==
    /\ peer \in [Conns -> {"unused", "open", "fin", "reset"}]
    /\ backlog \in Seq(Conns)
    /\ c2s \in [Conns -> Seq(Packets)]
    /\ s2c \in [Conns -> Seq(Packets)]
    /\ sent \in 0 .. MaxSent

SocketsInit ==
    /\ peer = [c \in Conns |-> "unused"]
    /\ backlog = <<>>
    /\ c2s = [c \in Conns |-> <<>>]
    /\ s2c = [c \in Conns |-> <<>>]
    /\ sent = 0

\* connect(): the listening socket completes the handshake before accept.
Connect(c) ==
    /\ peer[c] = "unused"
    /\ peer' = [peer EXCEPT ![c] = "open"]
    /\ backlog' = Append(backlog, c)
    /\ UNCHANGED <<c2s, s2c, sent>>

\* send() on a connection the server still has.
PeerSend(c, p) ==
    /\ peer[c] = "open"
    /\ sent < MaxSent
    /\ c2s' = [c2s EXCEPT ![c] = Append(@, p)]
    /\ sent' = sent + 1
    /\ UNCHANGED <<peer, backlog, s2c>>

\* close(), or the end of the client's process.
PeerClose(c) ==
    /\ peer[c] = "open"
    /\ peer' = [peer EXCEPT ![c] = "fin"]
    /\ UNCHANGED <<backlog, c2s, s2c, sent>>

\* A reset reaches the server: its host gave the connection up, or the server
\* wrote to a client that has closed, or the client closed with packets unread.
PeerReset(c) ==
    /\ peer[c] \in {"open", "fin"}
    /\ peer' = [peer EXCEPT ![c] = "reset"]
    /\ UNCHANGED <<backlog, c2s, s2c, sent>>
=============================================================================
