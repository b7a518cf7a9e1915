----------------------------- MODULE ScrollPane -----------------------------
(***************************************************************************)
(* scrollpane.cc: a column of items behind a window of a certain height,   *)
(* with a scroll bar.  pos is the offset of the column, 0 at its top and   *)
(* negative below it.  A pane is a record and a handler is an operator     *)
(* from the pane, its items and the pointer to the pane after it.  The     *)
(* pane of the messages starts at the height Top.                          *)
(***************************************************************************)
EXTENDS Integers, SequencesExt

CONSTANT TicksForUpdate   \* scroll_pane_t::ticks_for_update

ASSUME TicksForUpdateAssumption == TicksForUpdate \in Int

Top == 20

\* The button at either end of the bar.
ButtonHeight == 20

NewPane == [pos |-> 0, prev_pos |-> 0, height |-> 0, csize |-> 0, drawn |-> {},
            dragging |-> FALSE, drag_src |-> 0, ticks |-> 0, hovered |-> FALSE]

\* Where the lowest item ends.
ContentSize(items) == Max({0} \cup {items[k].y + items[k].height : k \in DOMAIN items})

\* draw: measures the column and paints the items that are wholly visible.  A
\* column that is shorter than the pane stays at its top, whatever pos says.
Draw(pane, items) ==
    LET csize == ContentSize(items)
        Y(k)  == items[k].y + (IF csize >= pane.height THEN pane.pos ELSE 0)
    IN  [pane EXCEPT !.csize = csize,
                     !.drawn = {k \in DOMAIN items :
                                   Y(k) >= 0 /\ Y(k) + items[k].height <= pane.height}]

-----------------------------------------------------------------------------
(* The pointer                                                             *)

\* The points that window_t sends to the pane: its edges are outside.
Inside(pane, at) == Top < at.y /\ at.y < Top + pane.height

OnUpButton(pane, at) == at.bar /\ Top < at.y /\ at.y < Top + ButtonHeight

OnDownButton(pane, at) ==
    /\ at.bar
    /\ Top + pane.height - ButtonHeight < at.y
    /\ at.y < Top + pane.height

OnTrack(pane, at) ==
    /\ at.bar
    /\ Top + ButtonHeight < at.y
    /\ at.y < Top + pane.height - ButtonHeight

\* The buttons scroll without a bound; the other points only matter to items.
Clicked(pane, items, at) ==
    LET by == IF OnUpButton(pane, at) THEN 10
              ELSE IF OnDownButton(pane, at) THEN -10 ELSE 0
    IN  IF at.bar THEN Draw([pane EXCEPT !.pos = @ + by], items) ELSE pane

MouseDown(pane, at) ==
    IF OnTrack(pane, at)
    THEN [pane EXCEPT !.dragging = TRUE, !.drag_src = at.y - Top - ButtonHeight + pane.pos]
    ELSE pane

\* Where a drag began is not kept when it is over: the next one sets it first.
DragOver(pane) == [pane EXCEPT !.dragging = FALSE, !.drag_src = 0]

MouseUp(pane, items) == Draw(DragOver(pane), items)

MouseOut(pane) == [DragOver(pane) EXCEPT !.hovered = FALSE]

\* Conversion of a quotient to int, towards zero.
Quotient(a, b) ==
    LET Abs(n) == IF n < 0 THEN -n ELSE n
        q      == Abs(a) \div Abs(b)
    IN  IF (a < 0) = (b < 0) THEN q ELSE -q

LeastInt == -2147483647 - 1

\* Where a drag puts the column.  With no track (a pane of height 40) the
\* quotient is infinite or undefined and becomes the least int.
DragPos(pane, at) ==
    LET track == pane.height - 2 * ButtonHeight
    IN  IF track = 0
        THEN LeastInt
        ELSE Quotient((-at.y + pane.drag_src + Top + ButtonHeight) * pane.csize, track)

Bottom(pane) == pane.height - pane.csize

\* Mutant: the lower end is tested without its margin.
DragClampedLate(pane, pos) ==
    IF pos < Bottom(pane) - 10 THEN Bottom(pane) ELSE IF pos > -10 THEN 0 ELSE pos

DragClamped(pane, pos) ==
    IF pos < Bottom(pane) + 10 THEN Bottom(pane) ELSE IF pos > -10 THEN 0 ELSE pos

\* mousein and mousemove: a drag acts at every TicksForUpdate-th event, and
\* only draws, and only respects the ends, if it acts on another place than the
\* last drag did.
MouseMove(pane, items, at) ==
    LET due   == pane.dragging /\ pane.ticks >= TicksForUpdate
        pos   == IF due THEN DragPos(pane, at) ELSE pane.pos
        moved == due /\ pos # pane.prev_pos
        to    == IF moved THEN DragClamped(pane, pos) ELSE pos
        next  == [pane EXCEPT !.hovered = TRUE,
                              !.pos = to,
                              !.prev_pos = IF moved THEN to ELSE @,
                              !.ticks = IF due THEN 1 ELSE IF pane.dragging THEN @ + 1 ELSE @]
    IN  IF moved THEN Draw(next, items) ELSE next

ScrollUp(pane, items) ==
    Draw([pane EXCEPT !.pos = IF @ < -10 THEN @ + 10 ELSE 0], items)

ScrollDown(pane, items) ==
    Draw([pane EXCEPT !.pos = IF @ > Bottom(pane) + 10 THEN @ - 10 ELSE Bottom(pane)], items)
=============================================================================
