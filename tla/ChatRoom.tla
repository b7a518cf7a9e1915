------------------------------ MODULE ChatRoom ------------------------------
(***************************************************************************)
(* What the server promises those who talk through it: one room.  Every    *)
(* line is said to all members at once, under the author's nickname of     *)
(* that moment, so any two members agree on the lines and their order      *)
(* while both are in, and nobody gets a line from before or after.         *)
(***************************************************************************)
EXTENDS Sequences

CONSTANTS
    Conns,   \* those who can be members
    Names,   \* nicknames, Anon among them
    Anon,    \* the nickname of a new member
    Msgs,    \* what members can say
    System   \* the author of the notices

VARIABLES
    nick,        \* the nickname of each member: its domain is the room
    transcript   \* what each has been told: lines of a text and its author

Line(text, author) == [message |-> text, author |-> author]
Gone(name)         == Line([left |-> name], System)

\* The members in room are told the line, the others nothing.
Tell(room, line) ==
    transcript' = [c \in Conns |-> IF c \in room THEN Append(transcript[c], line)
                                   ELSE transcript[c]]

Without(c) == [d \in DOMAIN nick \ {c} |-> nick[d]]

Init ==
    /\ nick = [c \in {} |-> Anon]
    /\ transcript = [c \in Conns |-> <<>>]

\* A new member, or one that starts over.
Enter(c) ==
    /\ nick' = [d \in DOMAIN nick \cup {c} |-> IF d = c THEN Anon ELSE nick[d]]
    /\ UNCHANGED transcript

Rename(c, name) ==
    /\ c \in DOMAIN nick
    /\ nick' = [nick EXCEPT ![c] = name]
    /\ UNCHANGED transcript

\* Everyone is told, the author too.
Say(c, m) ==
    /\ c \in DOMAIN nick
    /\ Tell(DOMAIN nick, Line(m, nick[c]))
    /\ UNCHANGED nick

\* Leaving of one's own accord is not announced.
Leave(c) ==
    /\ c \in DOMAIN nick
    /\ nick' = Without(c)
    /\ UNCHANGED transcript

\* Being cut off is announced to those who stay.
CutOff(c) ==
    /\ c \in DOMAIN nick
    /\ nick' = Without(c)
    /\ Tell(DOMAIN nick \ {c}, Gone(nick[c]))

\* Someone who is not a member, but may have been, is cut off.
VisitorCutOff(name) ==
    /\ Tell(DOMAIN nick, Gone(name))
    /\ UNCHANGED nick

Close ==
    /\ nick' = [c \in {} |-> Anon]
    /\ UNCHANGED transcript

Next ==
    \/ \E c \in Conns :
        \/ Enter(c)
        \/ \E name \in Names : Rename(c, name)
        \/ \E m \in Msgs : Say(c, m)
        \/ Leave(c)
        \/ CutOff(c)
    \/ \E name \in Names : VisitorCutOff(name)
    \/ Close

Spec == Init /\ [][Next]_<<nick, transcript>>
=============================================================================
