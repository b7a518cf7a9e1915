----------------------------- MODULE MCFraming -----------------------------
(* Three packets, short enough for every way of cutting their bytes; and a *)
(* larger set for the encoding alone.                                      *)
EXTENDS Framing

MCWritable == {[op |-> "DISCONNECT"], [op |-> "SET_NICKNAME", nickname |-> <<97>>]}

MCTexts == {<<>>, <<97>>, <<0, 255>>}

MCRoundTrips ==
         [op : {"HELLO"}, ident : MCTexts, protocols : {<<>>, <<1>>, <<1, 65536>>}, master : BOOLEAN]
    \cup [op : {"SET_PROTO"}, protocol : {0, 1, 255, 256, 16777216}]
    \cup [op : {"SEND_MESSAGE"}, message : MCTexts]
    \cup [op : {"RECV_MESSAGE"}, message : MCTexts, author : MCTexts]
    \cup [op : {"SET_NICKNAME", "NICKNAME_UPDATED"}, nickname : MCTexts]
    \cup MCWritable
=============================================================================
