----------------------------- MODULE ChatSystem -----------------------------
(***************************************************************************)
(* The program talking to itself: reference clients and the server, over   *)
(* the kernel's connections.  The only resets left are those the two ends  *)
(* cause: a client that closes with packets unread, and a server that      *)
(* writes to a client that has closed.                                     *)
(***************************************************************************)
EXTENDS Server, Client

chatVars == <<sockets, serverVars, clientVars>>

\* Nobody connects to a server that has ended.
ClientStep(u) ==
    /\ (Running /\ Click(u)) \/ UserAction(u) \/ RunTask(u)
    /\ UNCHANGED serverVars

\* Either end's part in a reset shows as a packet the closed client has not read.
ResetArrives(c) ==
    /\ peer[c] = "fin"
    /\ got[c] < Len(s2c[c])
    /\ PeerReset(c)
    /\ UNCHANGED <<serverVars, clientVars>>

ChatInit == SocketsInit /\ ServerInit /\ ClientInit

Serving ==
    \/ ServerStep /\ UNCHANGED clientVars
    \/ \E u \in Users : ClientStep(u)
    \/ \E c \in Conns : ResetArrives(c)

ChatNext == Serving \/ (Sigint /\ UNCHANGED clientVars)

ChatSpec == ChatInit /\ [][ChatNext]_chatVars

\* Both loops run for ever, and nobody interrupts the server; what users do, and
\* when, is up to them.
FairChatSpec ==
    /\ ChatInit /\ [][Serving]_chatVars
    /\ WF_chatVars(ServerStep /\ UNCHANGED clientVars)
    /\ \A u \in Users : WF_chatVars(RunTask(u) /\ UNCHANGED serverVars)

-----------------------------------------------------------------------------
(* Properties                                                              *)

\* The server never disconnects a reference client that has not left, as long
\* as it runs and only the newest client was ever removed: no interleaving of
\* handshake, nickname, messages and other clients' departures looks to it like
\* a malformed packet or an unknown protocol.
NeverKickedWhileLifo ==
    lifo /\ Running =>
        \A c \in Conns : peer[c] = "open" => \A i \in DOMAIN s2c[c] : s2c[c][i] # Disconnect

Stays(u, c)   == connection[u] = c
HasRead(c, p) == \E i \in 1 .. got[c] : s2c[c][i] = p

\* A user who stays has the nickname configured for the server confirmed.
NicknameTakesEffect ==
    \A c \in Conns :
        (\E u \in Users : Stays(u, c) /\ await_nick[u] # NoNick)
            ~> \/ ~ \E u \in Users : Stays(u, c)
               \/ \E u \in Users : Stays(u, c) /\ HasRead(c, NicknameUpdated(await_nick[u]))
               \/ ~lifo

\* A user who stays sees the text it has sent, under some nickname.
MessageEchoed ==
    \A c \in Conns, m \in Msgs :
        (\E u \in Users : Stays(u, c) /\ \E i \in DOMAIN c2s[c] : c2s[c][i] = SendMessage(m))
            ~> \/ ~ \E u \in Users : Stays(u, c)
               \/ \E name \in Names : HasRead(c, RecvMessage(m, name))
               \/ ~lifo

\* A user who has left, however it went, is off the server in the end.
LeaversRemoved ==
    \A c \in Conns : (c \in OpenConns /\ peer[c] # "open")
                        ~> (c \notin OpenConns \/ ~lifo)
=============================================================================
