------------------------------ MODULE MCClient ------------------------------
(* One user, two connections to servers that write anything.               *)
EXTENDS ClientWithServer, TLC

ConnSymmetry == Permutations(Conns)
NickOrNone   == Nicks \cup {NoNick}

AnyPacket ==
         {Hello(FALSE, {1}), Disconnect}
    \cup {SetProto(v) : v \in Versions}
    \cup {RecvMessage(m, Anon) : m \in Msgs}
    \cup {NicknameUpdated(n) : n \in Nicks}
=============================================================================
