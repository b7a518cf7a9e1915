------------------------------- MODULE MCChat -------------------------------
(* Two users and a server. *)
EXTENDS ChatSystem, TLC

Symmetry   == Permutations(Conns) \cup Permutations(Users)
NickOrNone == Nicks \cup {NoNick}
NoPackets  == {}
=============================================================================
