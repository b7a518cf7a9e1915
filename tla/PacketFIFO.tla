---------------------------- MODULE PacketFIFO ----------------------------
(***************************************************************************)
(* What the receive queue of one connection promises to the loop that      *)
(* reads it: packets are numbered by arrival, and each is handed over      *)
(* exactly once, in that order.  The promise is limited: once `safe'       *)
(* packets have arrived the queue may break, and a broken queue            *)
(* promises nothing.  PacketQueue implements this specification; `safe'    *)
(* is there the number of packets its memory management survives.          *)
(***************************************************************************)
EXTENDS Integers

VARIABLES
    safe,      \* how many packets the queue is good for
    received,  \* packets that have arrived
    handled,   \* number of the last packet handed over, 0 before the first
    broken     \* the queue has written outside its memory

vars == <<safe, received, handled, broken>>

Init ==
    /\ safe \in Nat
    /\ received = 0
    /\ handled = 0
    /\ broken = FALSE

Put ==
    /\ ~broken
    /\ received' = received + 1
    /\ UNCHANGED <<safe, handled, broken>>

Take ==
    /\ ~broken
    /\ handled < received
    /\ handled' = handled + 1
    /\ UNCHANGED <<safe, received, broken>>

Break ==
    /\ received' >= safe
    /\ broken' = TRUE
    /\ UNCHANGED safe

Broken == broken /\ broken' /\ UNCHANGED safe

Next == Put \/ Take \/ Break \/ Broken

Spec == Init /\ [][Next]_vars
=============================================================================
