----------------------------- MODULE MainWindow -----------------------------
(***************************************************************************)
(* The column of the main window that shows the conversation: the messages *)
(* in their scroll pane, the text box below them, and the menu bar above   *)
(* when it is stretched over both.  client.cc lays the three out at every  *)
(* key, at every message sent and at every new size; messages arrive and   *)
(* the pointer moves at any time between.                                  *)
(***************************************************************************)
EXTENDS LineBreak, ScrollPane

CONSTANTS
    WindowSizes,   \* [width, height] of the main window
    Points,        \* of the pointer: [bar, y], bar for the scroll bar's columns
    Keys,          \* characters a key can enter
    MessageTexts,
    NicknameWidth, \* config->nickname_width
    MaxText,       \* bounds: the text box,
    MaxMessages,   \* the messages,
    MaxPos         \* and how far the buttons scroll

\* A window of X11 has at least one pixel.
ASSUME WindowSizesAssumption ==
    \A s \in WindowSizes : s \in [width : Nat, height : Nat] /\ s.width > 0 /\ s.height > 0
ASSUME PointsAssumption        == Points \subseteq [bar : BOOLEAN, y : Int]
ASSUME KeysAssumption          == Keys \subseteq Char
ASSUME MessageTextsAssumption  == MessageTexts \subseteq Seq(Char)
ASSUME NicknameWidthAssumption == NicknameWidth \in Int

VARIABLES
    main,         \* width and height of the window, at first 0
    text,         \* textbox_t::text; textlen and cursorpos are its length
    box,          \* textbox_t::width and height
    pane,         \* the scroll pane of the messages
    items,        \* its messages: text, and y and height of item and labels
    label_count,  \* client.cc: the lines of all messages
    lastmmod,     \* client.cc: the height of the text box at the last layout
    tall          \* the menu bar covers the window

vars == <<main, text, box, pane, items, label_count, lastmmod, tall>>

ServerListWidth == 200

LabelWidth == main.width - NicknameWidth - 220

Init ==
    /\ main = [width |-> 0, height |-> 0]
    /\ text = <<>>
    /\ box = [width |-> 0, height |-> 0]
    /\ pane = NewPane
    /\ items = <<>>
    /\ label_count = 0
    /\ lastmmod = 0
    /\ tall = FALSE

\* Widgets have an area, so that events reach them.
Shown == main.width # 0

-----------------------------------------------------------------------------
(* client_recalculate_sizes                                                *)

\* Mutant: every message goes below the one before, whose height is forgotten.
RestackedOneLine ==
    [k \in DOMAIN items |->
        [text |-> items[k].text, y |-> LineHeight * (k - 1),
         height |-> CalcHeight(items[k].text, LabelWidth')]]

\* The messages, measured again and stacked from the top.
Restacked ==
    LET height == [k \in DOMAIN items |-> CalcHeight(items[k].text, LabelWidth')]
        npos   == Sums(height)
    IN  [k \in DOMAIN items |->
            [text |-> items[k].text, y |-> npos[k - 1], height |-> height[k]]]

\* Mutant: the height of the box at the last layout stays in pos.
LaidPaneDrifts(mh) ==
    [pane EXCEPT !.pos = @ - mh, !.height = main'.height - Top - mh]

\* The pane gives the text box its height; pos follows, so that the lower end
\* of the messages stays where it is.
LaidPane(mh) ==
    [pane EXCEPT !.pos = @ + lastmmod - mh, !.height = main'.height - Top - mh]

\* Mutant: the text is measured as if it had the whole window.
RecalculateWide ==
    LET mh == CalcHeight(text', main'.width) IN
    /\ box' = [width |-> main'.width - ServerListWidth, height |-> mh]
    /\ lastmmod' = mh
    /\ items' = Restacked
    /\ tall' = FALSE

\* The text box is measured with the width it had, then gets its new one.
Recalculate ==
    LET mh == CalcHeight(text', box.width) IN
    /\ box' = [width |-> main'.width - ServerListWidth, height |-> mh]
    /\ lastmmod' = mh
    /\ items' = Restacked
    /\ tall' = FALSE

\* CONFIGURE: the layout, and everything is painted.
Resize(s) ==
    /\ main' = s
    /\ UNCHANGED <<text, label_count>>
    /\ Recalculate
    /\ pane' = Draw(LaidPane(lastmmod'), items')

-----------------------------------------------------------------------------
(* The text box, which has the focus                                       *)

\* textbox_t::keypress: the text changes, then handle_mb_kp.
Edit(t) ==
    /\ Shown
    /\ text' = t
    /\ UNCHANGED <<main, label_count>>
    /\ Recalculate
    /\ pane' = Draw(LaidPane(lastmmod'), items')

\* Shift and Enter is a newline, a key whose lowest byte is 0 a zero byte.
EnterCharacter(ch) ==
    /\ Len(text) < MaxText
    /\ Edit(Append(text, ch))

Backspace == text # <<>> /\ Edit(Front(text))

\* Enter, message_submit: a layout too, but only the text box is drawn.
Submit ==
    /\ Shown
    /\ text' = <<>>
    /\ UNCHANGED <<main, label_count>>
    /\ Recalculate
    /\ pane' = LaidPane(lastmmod')

-----------------------------------------------------------------------------
(* Messages                                                                *)

\* Mutant: the pane scrolls to the end before the message is counted.
FollowedEarly(count) ==
    IF label_count * LineHeight > pane.height
    THEN [pane EXCEPT !.pos = @ - LineHeight] ELSE pane

\* The pane shows the end of the column, if the column is longer.
Followed(count) ==
    IF count * LineHeight > pane.height
    THEN [pane EXCEPT !.pos = -(count * LineHeight - pane.height)] ELSE pane

\* client_add_message: below label_count lines, however the messages above were
\* laid out since.
AddMessage(t) ==
    LET height == CalcHeight(t, LabelWidth)
        count  == label_count + height \div LineHeight
    IN
    /\ Shown
    /\ Len(items) < MaxMessages
    /\ items' = Append(items, [text |-> t, y |-> label_count * LineHeight, height |-> height])
    /\ label_count' = count
    /\ pane' = Draw(Followed(count), items')
    /\ UNCHANGED <<main, text, box, lastmmod, tall>>

-----------------------------------------------------------------------------
(* window_t: the pointer.  Motion and presses reach every widget under the *)
(* pointer; a release and a click go to the topmost that takes them, which *)
(* is the menu bar while it is tall.                                       *)

OnlyPane == UNCHANGED <<main, text, box, items, label_count, lastmmod, tall>>

\* Bound: the buttons scroll only so far.
Bounded == pane'.pos = pane.pos \/ pane'.pos \in -MaxPos .. MaxPos

LeftMouseDown(at) ==
    /\ Shown
    /\ Inside(pane, at)
    /\ pane' = MouseDown(pane, at)
    /\ OnlyPane

LeftMouseUp(at) ==
    /\ Shown
    /\ ~tall
    /\ Inside(pane, at)
    /\ pane' = Clicked(MouseUp(pane, items), items, at)
    /\ Bounded
    /\ OnlyPane

\* The pane never sees the release.  The bar paints everything and keeps the
\* click if a menu is still open (ClientWindows says when); either may be.
LeftMouseUpTall(at) ==
    /\ Shown
    /\ tall
    /\ Inside(pane, at)
    /\ \/ pane' = Draw(pane, items)
       \/ pane' = Clicked(Draw(pane, items), items, at)
    /\ Bounded
    /\ OnlyPane

\* A click on the bar itself, on a menu or beside them.
ClickBar(opens) ==
    /\ Shown
    /\ pane' = Draw(pane, items)
    /\ tall' = (tall \/ opens)
    /\ UNCHANGED <<main, text, box, items, label_count, lastmmod>>

MotionIn(at) ==
    /\ Shown
    /\ Inside(pane, at)
    /\ pane' = MouseMove(pane, items, at)
    /\ OnlyPane

MotionOut(at) ==
    /\ Shown
    /\ ~Inside(pane, at)
    /\ pane' = IF pane.hovered THEN MouseOut(pane) ELSE pane
    /\ OnlyPane

Wheel(up) ==
    /\ Shown
    /\ pane.height > 0
    /\ pane' = IF up THEN ScrollUp(pane, items) ELSE ScrollDown(pane, items)
    /\ OnlyPane

-----------------------------------------------------------------------------
Next ==
    \/ \E s \in WindowSizes : Resize(s)
    \/ \E ch \in Keys : EnterCharacter(ch)
    \/ Backspace \/ Submit
    \/ \E t \in MessageTexts : AddMessage(t)
    \/ \E b \in BOOLEAN : ClickBar(b) \/ Wheel(b)
    \/ \E at \in Points :
        \/ LeftMouseDown(at) \/ LeftMouseUp(at) \/ LeftMouseUpTall(at)
        \/ MotionIn(at) \/ MotionOut(at)

Spec == Init /\ [][Next]_vars

-----------------------------------------------------------------------------
(* Properties                                                              *)

\* What calc_height measured is enough for what draw paints: for every text up to
\* MaxLine at every width of LineWidths (which no state changes, so it is looked at
\* before the first layout), and for the message of every label at its present
\* width, whichever of the two layouts measured it (client.cc:275 and client.cc:418).
PaintedAsMeasured ==
    /\ ~Shown => DrawAgreesWithHeight
    /\ \A k \in DOMAIN items : DrawnHeight(items[k].text, LabelWidth) <= items[k].height

\* The text box is measured before it gets its new width (client.cc:394 and
\* client.cc:407): a layout leaves it high enough for its lines unless it changes
\* the width, and the first one after that makes up for it.
TextBoxFits ==
    [][box'.width = box.width => DrawnHeight(text', box'.width) <= box'.height]_<<main, text, box>>

TotalHeight == Sums([k \in DOMAIN items |-> items[k].height])[Len(items)]

\* No size has changed the line breaks since label_count was counted.
CountIsCurrent == label_count * LineHeight = TotalHeight

\* While label_count is right the messages stand one below the other without a
\* gap, whichever of the two layouts placed them (client.cc:282 and client.cc:415),
\* and the pane knows the height of the column.
ColumnIsStacked ==
    CountIsCurrent =>
        /\ \A k \in DOMAIN items :
              items[k].y = ContentSize(SubSeq(items, 1, k - 1))
        /\ pane.csize = TotalHeight

\* Typing and sending move the lower edge of the pane: the reader's distance to
\* the end of the messages stays the same.
ReadingPlaceKept ==
    [][UNCHANGED main => pane'.height = pane.height
                         \/ pane'.pos - pane'.height = pane.pos - pane.height]_vars

\* A message that arrives is painted, unless its column is exactly as high as
\* the pane, the line counts are out of date, or it is higher than the pane.
NewestShown ==
    [][Len(items') > Len(items) =>
        \/ Len(items') \in pane'.drawn
        \/ ~CountIsCurrent
        \/ label_count' * LineHeight = pane.height
        \/ Last(items').height > pane.height]_vars

InRange(p) == p.csize >= p.height => Bottom(p) <= p.pos /\ p.pos <= 0

\* The wheel and a drag that draws keep to the ends of the column, as long as
\* the pane knows its height: a message sent lays the column out without
\* drawing it (client.cc:251).
ScrollsWithinColumn ==
    InRange(pane) /\ pane.csize = ContentSize(items) =>
        /\ InRange(ScrollUp(pane, items))
        /\ InRange(ScrollDown(pane, items))
        /\ \A at \in Points :
              LET to == MouseMove(pane, items, at)
              IN  Inside(pane, at) /\ to.prev_pos # pane.prev_pos => InRange(to)
=============================================================================
