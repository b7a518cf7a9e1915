------------------------------ MODULE MCServer ------------------------------
(* Server with a few connections.  FirstFd is scaled down with their       *)
(* number: the loop that shifts pollfds acts once more clients are         *)
(* connected than FirstFd, which is 4 in the program.                      *)
EXTENDS ServerWithPeers, TLC

ConnSymmetry == Permutations(Conns)

\* Connections that come and go: all a client does is select and leave.
ComeAndGo == {Hello(FALSE, {1}), Disconnect}

\* Every kind of packet, in and out of place.
Anything ==
         {Hello(TRUE, {1}), Hello(FALSE, {1}), Hello(FALSE, {2})}
    \cup {SetProto(v) : v \in Versions}
    \cup {SendMessage(m) : m \in Msgs}
    \cup {SetNickname(n) : n \in Nicks}
    \cup {NicknameUpdated(n) : n \in Nicks}
    \cup {Disconnect}
=============================================================================
