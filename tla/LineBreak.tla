------------------------------ MODULE LineBreak ------------------------------
(***************************************************************************)
(* How the text box and the labels break a text into lines.  Two loops     *)
(* must agree: calc_height measures before the layout, draw paints after   *)
(* it, and they count differently.  A text is a sequence of characters; a  *)
(* zero byte ends it for both.                                             *)
(***************************************************************************)
EXTENDS Integers, SequencesExt

CONSTANTS
    CharWidth,   \* the width of each character in the font
    Newline,     \* '\n'
    Nul,         \* a zero byte
    Uint8,       \* the values of a uint8_t, 256
    MaxLine,     \* the property below tries every text up to this length
    LineWidths   \* at each of these widths

Char == DOMAIN CharWidth

ASSUME CharWidthAssumption  == CharWidth \in [Char -> Nat] /\ Newline \in Char /\ Nul \in Char
ASSUME Uint8Assumption      == Uint8 \in Nat \ {0}
ASSUME MaxLineAssumption    == MaxLine \in Nat
ASSUME LineWidthsAssumption == LineWidths \subseteq Int

LineHeight == 20

\* The sums of the first 0, 1, 2 and more numbers of a sequence.
Sums(s) ==
    LET sum[k \in 0 .. Len(s)] == IF k = 0 THEN 0 ELSE sum[k - 1] + s[k]
    IN  sum

\* strlen: what is left of s up to its first zero byte.
CString(s) ==
    LET ends == {k \in 0 .. Len(s) : k = Len(s) \/ s[k + 1] = Nul}
    IN  SubSeq(s, 1, CHOOSE k \in ends : \A j \in ends : k <= j)

-----------------------------------------------------------------------------
(* calc_height                                                             *)

\* A newline counts its own glyph and does not reset w, and the character that
\* fills a line is not carried to the next one.
CalcStep(at, ch, width) ==
    LET w    == at.w + CharWidth[ch]
        full == ch # Newline /\ w > width
    IN  [h |-> at.h + (IF ch = Newline \/ full THEN LineHeight ELSE 0),
         w |-> IF full THEN 0 ELSE w]

\* h and w behind each character.
Measured(s, width) ==
    LET at[k \in 0 .. Len(s)] ==
            IF k = 0 THEN [h |-> LineHeight, w |-> 0] ELSE CalcStep(at[k - 1], s[k], width)
    IN  at

\* Mutant: a line that is full is not counted.
CalcHeightOfLines(text, width) ==
    LineHeight * (1 + Len(SelectSeq(CString(text), LAMBDA ch : ch = Newline)))

CalcHeight(text, width) ==
    LET s == CString(text) IN Measured(s, width)[Len(s)].h

-----------------------------------------------------------------------------
(* draw                                                                    *)

\* The line handed to xcb when d characters are behind: the last c of them.
Line(c, d) == [first |-> d - c + 1, last |-> d]

\* c counts the characters of the line, d those of the text.
DrawStep(at, ch, d, width) ==
    LET cut == Append(at.lines, Line(at.c, d)) IN
    IF ch = Newline THEN [lines |-> cut, c |-> 0, w |-> 0]
    ELSE IF at.w > width THEN [lines |-> cut, c |-> 1, w |-> CharWidth[ch]]
    ELSE [lines |-> at.lines, c |-> at.c + 1, w |-> at.w + CharWidth[ch]]

\* The lines handed over, c and w behind each character.
Drawn(s, width) ==
    LET at[k \in 0 .. Len(s)] ==
            IF k = 0 THEN [lines |-> <<>>, c |-> 0, w |-> 0]
            ELSE DrawStep(at[k - 1], s[k], k - 1, width)
    IN  at

\* The lines of draw, one under the other.
DrawnLines(text, width) ==
    LET s == CString(text)
        n == Len(s)
        at == Drawn(s, width)[n]
    IN  Append(at.lines, Line(at.c, n))

\* The height they need.
DrawnHeight(text, width) == LineHeight * Len(DrawnLines(text, width))

Length(line) == line.last - line.first + 1

\* The characters that xcb_image_text_8 paints of a line: its length is a uint8_t.
ImageText(line) == line.first .. line.first + (Length(line) % Uint8) - 1

-----------------------------------------------------------------------------
(* Properties                                                              *)

\* A line begins where the one before ended, or behind the newline that ended it.
Follows(first, last, s) ==
    \/ first = last + 1
    \/ first = last + 2 /\ s[last + 1] = Newline

\* The lines make up the text.
MakeUp(lines, s) ==
    /\ lines[1].first = 1
    /\ lines[Len(lines)].last = Len(s)
    /\ \A k \in 1 .. Len(lines) - 1 : Follows(lines[k + 1].first, lines[k].last, s)
    /\ \A k \in 1 .. Len(lines) : \A i \in lines[k].first .. lines[k].last : s[i] # Newline

Extent(s) == Sums([i \in 1 .. Len(s) |-> CharWidth[s[i]]])

Limit(width) == IF width < 0 THEN 0 ELSE width

\* Only the last character of a line may be beyond the width.
Fits(line, s, width) ==
    line.first < line.last =>
        Extent(s)[line.last - 1] - Extent(s)[line.first - 1] <= Limit(width)

\* Uint8 - 1 visible characters behind the first i of s are not wider than the width.
LongRunFits(s, i, width) ==
    LET j == i + Uint8 - 1 IN
    /\ j \in 0 .. Len(s)
    /\ \A m \in i + 1 .. j : s[m] # Newline
    /\ Extent(s)[j] - Extent(s)[i] <= Limit(width)

\* Every character of every line is painted.
AllPainted(lines) == \A k \in 1 .. Len(lines) : ImageText(lines[k]) = lines[k].first .. lines[k].last

Agree(text, width) ==
    LET s     == CString(text)
        lines == DrawnLines(text, width)
    IN  /\ DrawnHeight(text, width) <= CalcHeight(text, width)
        /\ MakeUp(lines, s)
        /\ \A k \in 1 .. Len(lines) : Fits(lines[k], s, width)
        /\ AllPainted(lines) \/ \E i \in 0 .. Len(s) : LongRunFits(s, i, width)

Texts == UNION {[1 .. n -> Char] : n \in 0 .. MaxLine}

\* At one width, the lines of draw fit into the height that calc_height asks for,
\* though the two break the text at different characters (label.cc:112 and
\* label.cc:258, textbox.cc:177 and textbox.cc:285); they hold every visible
\* character once and in order, and each ends with the character that fills it.
\* Each is painted whole, unless the text has 255 visible characters in a row
\* that the width has room for: only then can a line reach the 256 characters
\* whose number a uint8_t does not hold.
DrawAgreesWithHeight == \A text \in Texts, width \in LineWidths : Agree(text, width)
=============================================================================
