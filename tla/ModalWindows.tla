----------------------------- MODULE ModalWindows -----------------------------
(***************************************************************************)
(* What the windows of the client promise: they are modal.  Windows open   *)
(* on top of one another and the one on top is the only one that can go,   *)
(* once it was asked to close; a window below that was asked to close      *)
(* waits for everything above it.                                          *)
(***************************************************************************)
EXTENDS SequencesExt

CONSTANT Windows

VARIABLES
    open,    \* the windows on the screen, the newest last
    asked    \* those that were asked to close

Init ==
    /\ \E w \in Windows : open = <<w>>
    /\ asked = {}

Open(w) ==
    /\ open # <<>>
    /\ w \notin ToSet(open)
    /\ open' = Append(open, w)
    /\ UNCHANGED asked

AskToClose(w) ==
    /\ w \in ToSet(open)
    /\ asked' = asked \cup {w}
    /\ UNCHANGED open

Close ==
    /\ open # <<>>
    /\ Last(open) \in asked
    /\ open' = Front(open)
    /\ asked' = asked \ {Last(open)}

Next == Close \/ \E w \in Windows : Open(w) \/ AskToClose(w)

Spec == Init /\ [][Next]_<<open, asked>>
=============================================================================
