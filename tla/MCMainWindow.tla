---------------------------- MODULE MCMainWindow ----------------------------
(* Characters wider than a label, so that one or two of them fill a line;  *)
(* a window wide enough for one per line, one for more, and a higher one.  *)
EXTENDS MainWindow

CONSTANT c

MCCharWidth == [ch \in {c, Newline, Nul} |-> IF ch = c THEN 30 ELSE 0]

MCWindowSizes == {[width |-> 225, height |-> 120], [width |-> 270, height |-> 100]}

MCPoints == {[bar |-> TRUE, y |-> y] : y \in {30, 75}}

MCLineWidths == {-10, 0, 5, 35, 60, 65, 100}

MCMessageTexts == {<<c, c>>}
=============================================================================
