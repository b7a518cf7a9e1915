-------------------------- MODULE MainWindow_proofs --------------------------
(***************************************************************************)
(* The line breaks of every text at every width, and the layout of the     *)
(* column of messages for any messages, sizes and movements of the pointer.*)
(***************************************************************************)
EXTENDS MainWindow, DataInduction, SequenceTheorems

-----------------------------------------------------------------------------
(* Sums                                                                    *)

\* The recursion of Sums has a solution.
LEMMA SumsExist ==
    ASSUME NEW N \in Nat, NEW s, \A k \in 1 .. N : s[k] \in Int
    PROVE  \E f : f = [k \in 0 .. N |-> IF k = 0 THEN 0 ELSE f[k - 1] + s[k]]
<1> DEFINE step == [k \in 1 .. N |-> [x \in Int |-> x + s[k]]]
<1>1. \A k \in 1 .. N, x \in Int : step[k][x] = x + s[k]
  OBVIOUS
<1>2. step \in [1 .. N -> [Int -> Int]]
  OBVIOUS
<1> HIDE DEF step
<1>3. PICK f \in [0 .. N -> Int] : f[0] = 0 /\ \A k \in 1 .. N : f[k] = step[k][f[k - 1]]
  BY <1>2, IntRecursion
<1>4. \A k \in 1 .. N : f[k - 1] \in Int
  BY <1>3
<1>5. \A k \in 1 .. N : f[k] = f[k - 1] + s[k]
  BY <1>1, <1>3, <1>4
<1>6. f = [k \in 0 .. N |-> IF k = 0 THEN 0 ELSE f[k - 1] + s[k]]
  BY <1>3, <1>5, Z3
<1> QED
  BY <1>6

\* Sums adds one number at a step.
LEMMA SumsSteps ==
    ASSUME NEW s \in Seq(Int)
    PROVE  /\ DOMAIN Sums(s) = 0 .. Len(s)
           /\ Sums(s)[0] = 0
           /\ \A k \in 1 .. Len(s) : Sums(s)[k] = Sums(s)[k - 1] + s[k]
           /\ \A k \in 0 .. Len(s) : Sums(s)[k] \in Int
<1> DEFINE N == Len(s)
           Is(f) == f = [k \in 0 .. N |-> IF k = 0 THEN 0 ELSE f[k - 1] + s[k]]
           g == Sums(s)
<1>1. N \in Nat
  BY LenProperties
<1>2. \A k \in 1 .. N : s[k] \in Int
  BY ElementOfSeq
<1>3. g = CHOOSE f : Is(f)
  BY DEF Sums
<1> HIDE DEF N, g
<1>4. \E f : Is(f)
  BY <1>1, <1>2, SumsExist
<1>5. Is(g)
  <2> HIDE DEF Is
  <2> QED
    BY <1>3, <1>4
<1>6. DOMAIN g = 0 .. N /\ g[0] = 0 /\ \A k \in 1 .. N : g[k] = g[k - 1] + s[k]
  BY <1>1, <1>5
<1>7. \A k \in 1 .. N : g[k - 1] \in Int => g[k] \in Int
  BY <1>2, <1>6
<1>8. g[0] \in Int
  BY <1>6
<1>9. \A k \in 0 .. N : g[k] \in Int
  BY <1>1, <1>7, <1>8, PassedOn, Zenon
<1> QED
  BY <1>6, <1>9 DEF g, N

\* Sums that begin with the same numbers begin the same.
LEMMA SumsAgree ==
    ASSUME NEW s \in Seq(Int), NEW t \in Seq(Int), NEW n \in Nat, n <= Len(s), n <= Len(t),
           \A k \in 1 .. n : s[k] = t[k]
    PROVE  \A k \in 0 .. n : Sums(s)[k] = Sums(t)[k]
<1> DEFINE T == {k \in 0 .. n : Sums(s)[k] = Sums(t)[k]}
<1>1. Len(s) \in Nat /\ Len(t) \in Nat
  BY LenProperties
<1>2. 0 \in T
  BY SumsSteps
<1>3. ASSUME NEW k \in T, k \in Nat, k < n
      PROVE  k + 1 \in T
  <2>1. k + 1 \in 1 .. n /\ k + 1 \in 1 .. Len(s) /\ k + 1 \in 1 .. Len(t) /\ (k + 1) - 1 = k
    BY <1>1, <1>3
  <2>2. Sums(s)[k + 1] = Sums(s)[k] + s[k + 1] /\ Sums(t)[k + 1] = Sums(t)[k] + t[k + 1]
    BY <2>1, SumsSteps
  <2>3. k + 1 \in 0 .. n
    BY <2>1
  <2> QED
    BY <2>1, <2>2, <2>3
<1>4. \A k \in T : k \in Nat /\ k < n => k + 1 \in T
  BY <1>3
<1>5. 0 .. n \subseteq T
  <2> HIDE DEF T
  <2> QED
    BY <1>2, <1>4, BoundedInduction
<1> QED
  BY <1>5

\* The sums of natural numbers grow.
LEMMA SumsGrow ==
    ASSUME NEW s \in Seq(Int), \A k \in 1 .. Len(s) : s[k] \in Nat
    PROVE  \A j, k \in 0 .. Len(s) : j <= k => Sums(s)[j] <= Sums(s)[k]
<1> SUFFICES ASSUME NEW j \in 0 .. Len(s)
             PROVE  \A k \in 0 .. Len(s) : j <= k => Sums(s)[j] <= Sums(s)[k]
  OBVIOUS
<1> DEFINE N == Len(s)
           g == Sums(s)
           T == {k \in 0 .. N : j <= k => g[j] <= g[k]}
<1>1. N \in Nat
  BY LenProperties
<1>2. /\ \A k \in 0 .. N : g[k] \in Int
      /\ \A k \in 1 .. N : g[k] = g[k - 1] + s[k] /\ s[k] \in Nat
  BY SumsSteps
<1> HIDE DEF N, g
<1>3. 0 \in T
  BY <1>1, <1>2 DEF N
<1>4. ASSUME NEW k \in T, k \in Nat, k < N
      PROVE  k + 1 \in T
  <2>1. k + 1 \in 1 .. N /\ k + 1 \in 0 .. N /\ (k + 1) - 1 = k
    BY <1>1, <1>4
  <2>2. g[k + 1] = g[k] + s[k + 1] /\ s[k + 1] \in Nat /\ g[k] \in Int /\ g[j] \in Int
    BY <1>2, <2>1 DEF N
  <2>3. j <= k => g[j] <= g[k]
    OBVIOUS
  <2>4. j <= k + 1 => g[j] <= g[k + 1]
    <3>1. CASE j <= k
      <4>1. \A a, b \in Int, c \in Nat : a <= b => a <= b + c
        OBVIOUS
      <4>2. g[j] <= g[k]
        BY <2>3, <3>1
      <4> QED
        BY <2>2, <4>1, <4>2
    <3>2. CASE j = k + 1
      BY <2>2, <3>2
    <3> QED
      BY <1>1, <1>4, <3>1, <3>2 DEF N
  <2> QED
    BY <2>1, <2>4
<1>5. \A k \in T : k \in Nat /\ k < N => k + 1 \in T
  BY <1>4
<1>6. 0 .. N \subseteq T
  <2> HIDE DEF T
  <2> QED
    BY <1>1, <1>3, <1>5, BoundedInduction
<1> QED
  BY <1>6 DEF N, g

-----------------------------------------------------------------------------
(* Texts                                                                   *)

\* What is left of a text is a text.
LEMMA CStringIsText == \A s \in Seq(Char) : CString(s) \in Seq(Char)
<1> SUFFICES ASSUME NEW s \in Seq(Char)
             PROVE  CString(s) \in Seq(Char)
  OBVIOUS
<1> DEFINE ends == {k \in 0 .. Len(s) : k = Len(s) \/ s[k + 1] = Nul}
           n    == CHOOSE k \in ends : \A j \in ends : k <= j
<1>1. Len(s) \in Nat
  BY LenProperties
<1>2. ends \subseteq Nat /\ ends # {}
  BY <1>1
<1>3. n \in 0 .. Len(s)
  <2>1. \E k \in ends : \A j \in ends : k <= j
    <3> HIDE DEF ends
    <3> QED
      BY <1>2, LeastNumber
  <2>2. n \in ends
    BY <2>1
  <2> QED
    BY <2>2
<1>4. CString(s) = SubSeq(s, 1, n)
  BY DEF CString
<1> HIDE DEF n
<1>5. \A k \in 1 .. n : s[k] \in Char
  BY <1>1, <1>3, ElementOfSeq
<1>6. SubSeq(s, 1, n) \in Seq(Char)
  BY <1>1, <1>3, <1>5, SubSeqProperties
<1> QED
  BY <1>4, <1>6

\* The states of the two loops.
Measures     == [h : Int, w : Int]
MeasureStart == [h |-> LineHeight, w |-> 0]

Lines     == Seq([first : Int, last : Int])
Draws     == [lines : Lines, c : Int, w : Int]
DrawStart == [lines |-> <<>>, c |-> 0, w |-> 0]

\* Their steps stay among the states.
LEMMA CalcStepCloses ==
    ASSUME NEW at \in Measures, NEW ch \in Char, NEW width \in Int
    PROVE  CalcStep(at, ch, width) \in Measures
<1>1. CharWidth[ch] \in Int
  BY CharWidthAssumption
<1>2. at.h \in Int /\ at.w \in Int
  BY DEF Measures
<1> QED
  BY <1>1, <1>2 DEF CalcStep, Measures, LineHeight

\* draw keeps to lines and integers.
LEMMA DrawStepCloses ==
    ASSUME NEW at \in Draws, NEW ch \in Char, NEW d \in Int, NEW width \in Int
    PROVE  DrawStep(at, ch, d, width) \in Draws
<1> DEFINE cut == Append(at.lines, Line(at.c, d))
<1>1. CharWidth[ch] \in Int
  BY CharWidthAssumption
<1>2. at.lines \in Lines /\ at.c \in Int /\ at.w \in Int
  BY DEF Draws
<1>3. Line(at.c, d) \in [first : Int, last : Int]
  BY <1>2 DEF Line
<1>4. cut \in Lines
  BY <1>2, <1>3, AppendProperties DEF Lines
<1> HIDE DEF cut
<1>5. DrawStep(at, ch, d, width) =
          IF ch = Newline THEN [lines |-> cut, c |-> 0, w |-> 0]
          ELSE IF at.w > width THEN [lines |-> cut, c |-> 1, w |-> CharWidth[ch]]
          ELSE [lines |-> at.lines, c |-> at.c + 1, w |-> at.w + CharWidth[ch]]
  BY DEF DrawStep, cut
<1> QED
  BY <1>1, <1>2, <1>4, <1>5 DEF Draws

\* Recursion, for the state of calc_height,
LEMMA MeasureRecursion ==
    ASSUME NEW N \in Nat, NEW step \in [1 .. N -> [Measures -> Measures]]
    PROVE  \E f \in [0 .. N -> Measures] :
              f[0] = MeasureStart /\ \A k \in 1 .. N : f[k] = step[k][f[k - 1]]
<1>1. MeasureStart \in Measures
  BY DEF MeasureStart, Measures, LineHeight
<1> QED
  BY <1>1, Recursion

\* and for the state of draw.
LEMMA DrawRecursion ==
    ASSUME NEW N \in Nat, NEW step \in [1 .. N -> [Draws -> Draws]]
    PROVE  \E f \in [0 .. N -> Draws] :
              f[0] = DrawStart /\ \A k \in 1 .. N : f[k] = step[k][f[k - 1]]
<1>1. DrawStart \in Draws
  BY EmptySeq DEF DrawStart, Draws, Lines
<1> QED
  BY <1>1, Recursion

\* The recursion of calc_height has a solution,
LEMMA MeasuredExist ==
    ASSUME NEW N \in Nat, NEW s \in [1 .. N -> Char], NEW width \in Int
    PROVE  \E f : f = [k \in 0 .. N |->
                          IF k = 0 THEN MeasureStart ELSE CalcStep(f[k - 1], s[k], width)]
<1> DEFINE step == [k \in 1 .. N |-> [at \in Measures |-> CalcStep(at, s[k], width)]]
<1>1. step \in [1 .. N -> [Measures -> Measures]]
  BY CalcStepCloses
<1>2. \A k \in 1 .. N, at \in Measures : step[k][at] = CalcStep(at, s[k], width)
  OBVIOUS
<1> HIDE DEF step
<1>3. PICK f \in [0 .. N -> Measures] :
              f[0] = MeasureStart /\ \A k \in 1 .. N : f[k] = step[k][f[k - 1]]
  BY <1>1, MeasureRecursion
<1>4. \A k \in 1 .. N : f[k - 1] \in Measures
  BY <1>3
<1>5. \A k \in 1 .. N : f[k] = CalcStep(f[k - 1], s[k], width)
  BY <1>2, <1>3, <1>4
<1>6. f = [k \in 0 .. N |-> IF k = 0 THEN MeasureStart ELSE CalcStep(f[k - 1], s[k], width)]
  BY <1>3, <1>5
<1> QED
  BY <1>6

\* and so has the one of draw.
LEMMA DrawnExist ==
    ASSUME NEW N \in Nat, NEW s \in [1 .. N -> Char], NEW width \in Int
    PROVE  \E f : f = [k \in 0 .. N |->
                          IF k = 0 THEN DrawStart ELSE DrawStep(f[k - 1], s[k], k - 1, width)]
<1> DEFINE step == [k \in 1 .. N |-> [at \in Draws |-> DrawStep(at, s[k], k - 1, width)]]
<1>1. step \in [1 .. N -> [Draws -> Draws]]
  BY DrawStepCloses
<1>2. \A k \in 1 .. N, at \in Draws : step[k][at] = DrawStep(at, s[k], k - 1, width)
  OBVIOUS
<1> HIDE DEF step
<1>3. PICK f \in [0 .. N -> Draws] :
              f[0] = DrawStart /\ \A k \in 1 .. N : f[k] = step[k][f[k - 1]]
  BY <1>1, DrawRecursion
<1>4. \A k \in 1 .. N : f[k - 1] \in Draws
  BY <1>3
<1>5. \A k \in 1 .. N : f[k] = DrawStep(f[k - 1], s[k], k - 1, width)
  BY <1>2, <1>3, <1>4
<1>6. f = [k \in 0 .. N |-> IF k = 0 THEN DrawStart ELSE DrawStep(f[k - 1], s[k], k - 1, width)]
  BY <1>3, <1>5
<1> QED
  BY <1>6

\* calc_height's loop from character to character.
LEMMA MeasuredSteps ==
    ASSUME NEW s \in Seq(Char), NEW width \in Int
    PROVE  LET g == Measured(s, width)
           IN  /\ g[0] = MeasureStart
               /\ \A k \in 1 .. Len(s) : g[k] = CalcStep(g[k - 1], s[k], width)
               /\ \A k \in 0 .. Len(s) : g[k] \in Measures
<1> DEFINE N == Len(s)
           Is(f) == f = [k \in 0 .. N |->
                            IF k = 0 THEN MeasureStart ELSE CalcStep(f[k - 1], s[k], width)]
           g == Measured(s, width)
<1>1. N \in Nat
  BY LenProperties
<1>2. s \in [1 .. N -> Char]
  BY LenProperties, ElementOfSeq
<1>3. g = CHOOSE f : Is(f)
  BY DEF Measured, MeasureStart
<1> HIDE DEF N, g
<1>4. \E f : Is(f)
  BY <1>1, <1>2, MeasuredExist
<1>5. Is(g)
  <2> HIDE DEF Is
  <2> QED
    BY <1>3, <1>4
<1>6. g[0] = MeasureStart /\ \A k \in 1 .. N : g[k] = CalcStep(g[k - 1], s[k], width)
  BY <1>1, <1>5
<1>7. g[0] \in Measures
  BY <1>6 DEF MeasureStart, Measures, LineHeight
<1>8. \A k \in 1 .. N : g[k - 1] \in Measures => g[k] \in Measures
  BY <1>2, <1>6, CalcStepCloses
<1>9. \A k \in 0 .. N : g[k] \in Measures
  BY <1>1, <1>7, <1>8, PassedOn, Zenon
<1> QED
  BY <1>6, <1>9 DEF g, N

\* draw's loop from character to character.
LEMMA DrawnSteps ==
    ASSUME NEW s \in Seq(Char), NEW width \in Int
    PROVE  LET g == Drawn(s, width)
           IN  /\ g[0] = DrawStart
               /\ \A k \in 1 .. Len(s) : g[k] = DrawStep(g[k - 1], s[k], k - 1, width)
               /\ \A k \in 0 .. Len(s) : g[k] \in Draws
<1> DEFINE N == Len(s)
           Is(f) == f = [k \in 0 .. N |->
                            IF k = 0 THEN DrawStart ELSE DrawStep(f[k - 1], s[k], k - 1, width)]
           g == Drawn(s, width)
<1>1. N \in Nat
  BY LenProperties
<1>2. s \in [1 .. N -> Char]
  BY LenProperties, ElementOfSeq
<1>3. g = CHOOSE f : Is(f)
  BY DEF Drawn, DrawStart
<1> HIDE DEF N, g
<1>4. \E f : Is(f)
  BY <1>1, <1>2, DrawnExist
<1>5. Is(g)
  <2> HIDE DEF Is
  <2> QED
    BY <1>3, <1>4
<1>6. g[0] = DrawStart /\ \A k \in 1 .. N : g[k] = DrawStep(g[k - 1], s[k], k - 1, width)
  BY <1>1, <1>5
<1>7. g[0] \in Draws
  BY <1>6, EmptySeq DEF DrawStart, Draws, Lines
<1>8. \A k \in 1 .. N : g[k - 1] \in Draws => g[k] \in Draws
  BY <1>2, <1>6, DrawStepCloses
<1>9. \A k \in 0 .. N : g[k] \in Draws
  BY <1>1, <1>7, <1>8, PassedOn, Zenon
<1> QED
  BY <1>6, <1>9 DEF g, N

-----------------------------------------------------------------------------
(* Both loops side by side                                                 *)

\* h and a are what calc_height has counted, b is draw's width of the line behind
\* n lines.  What is measured is at least what is painted, and either it is a line
\* ahead, or nothing fits a line, or it will find the line full no later.
Ahead(h, a, n, b, width) ==
    \/ h >= LineHeight * (n + 2)
    \/ h >= LineHeight * (n + 1) /\ width < 0
    \/ h >= LineHeight * (n + 1) /\ b <= a /\ b <= width

\* At a newline, at a character that calc_height finds too much, and at another.
LEMMA AheadNumbers ==
    ASSUME NEW h \in Int, NEW a \in Nat, NEW n \in Nat, NEW b \in Nat, NEW c \in Nat,
           NEW width \in Int, Ahead(h, a, n, b, width)
    PROVE  /\ Ahead(h + 20, a + c, n + 1, 0, width)
           /\ a + c > width /\ b > width => Ahead(h + 20, 0, n + 1, c, width)
           /\ a + c > width /\ ~(b > width) => Ahead(h + 20, 0, n, b + c, width)
           /\ ~(a + c > width) /\ b > width => Ahead(h, a + c, n + 1, c, width)
           /\ ~(a + c > width) /\ ~(b > width) => Ahead(h, a + c, n, b + c, width)
<1> QED
  BY DEF Ahead, LineHeight

AheadAt(m, d, width) ==
    m.w \in Nat /\ d.w \in Nat /\ Ahead(m.h, m.w, Len(d.lines), d.w, width)

\* One character keeps calc_height ahead of draw.
LEMMA AheadStep ==
    ASSUME NEW m \in Measures, NEW d \in Draws, NEW ch \in Char, NEW k \in Int, NEW width \in Int,
           AheadAt(m, d, width)
    PROVE  AheadAt(CalcStep(m, ch, width), DrawStep(d, ch, k, width), width)
<1> DEFINE mm  == CalcStep(m, ch, width)
           dd  == DrawStep(d, ch, k, width)
           c   == CharWidth[ch]
           cut == Append(d.lines, Line(d.c, k))
           n   == Len(d.lines)
<1>1. c \in Nat
  BY CharWidthAssumption
<1>2. m.h \in Int /\ m.w \in Nat /\ d.w \in Nat /\ Ahead(m.h, m.w, n, d.w, width)
  BY DEF Measures, AheadAt
<1>3. n \in Nat /\ Len(cut) = n + 1
  <2>1. d.lines \in Lines /\ d.c \in Int
    BY DEF Draws
  <2>2. Line(d.c, k) \in [first : Int, last : Int]
    BY <2>1 DEF Line
  <2> QED
    BY <2>1, <2>2, LenProperties, AppendProperties DEF Lines
<1>4. /\ mm.h = m.h + (IF ch = Newline \/ m.w + c > width THEN 20 ELSE 0)
      /\ mm.w = IF ch # Newline /\ m.w + c > width THEN 0 ELSE m.w + c
  BY DEF CalcStep, LineHeight
<1>5. dd = IF ch = Newline THEN [lines |-> cut, c |-> 0, w |-> 0]
           ELSE IF d.w > width THEN [lines |-> cut, c |-> 1, w |-> c]
           ELSE [lines |-> d.lines, c |-> d.c + 1, w |-> d.w + c]
  BY DEF DrawStep
<1> HIDE DEF cut, c, mm, dd
<1>6. /\ ch = Newline => Len(dd.lines) = n + 1 /\ dd.w = 0
      /\ ch # Newline /\ d.w > width => Len(dd.lines) = n + 1 /\ dd.w = c
      /\ ch # Newline /\ ~(d.w > width) => Len(dd.lines) = n /\ dd.w = d.w + c
  BY <1>3, <1>5
<1> HIDE DEF n
<1>7. /\ Ahead(m.h + 20, m.w + c, n + 1, 0, width)
      /\ m.w + c > width /\ d.w > width => Ahead(m.h + 20, 0, n + 1, c, width)
      /\ m.w + c > width /\ ~(d.w > width) => Ahead(m.h + 20, 0, n, d.w + c, width)
      /\ ~(m.w + c > width) /\ d.w > width => Ahead(m.h, m.w + c, n + 1, c, width)
      /\ ~(m.w + c > width) /\ ~(d.w > width) => Ahead(m.h, m.w + c, n, d.w + c, width)
  BY <1>1, <1>2, <1>3, AheadNumbers
<1>8. mm.w \in Nat /\ dd.w \in Nat
  <2>1. m.w + c \in Nat /\ d.w + c \in Nat /\ 0 \in Nat
    BY <1>1, <1>2
  <2>2. mm.w \in Nat
    BY <1>4, <2>1
  <2>3. dd.w = 0 \/ dd.w = c \/ dd.w = d.w + c
    BY <1>6
  <2>4. dd.w \in Nat
    BY <1>1, <2>1, <2>3
  <2> QED
    BY <2>2, <2>4
<1>9. Ahead(mm.h, mm.w, Len(dd.lines), dd.w, width)
  <2>1. CASE ch = Newline
    BY <1>4, <1>6, <1>7, <2>1
  <2>2. CASE ch # Newline /\ m.w + c > width
    BY <1>4, <1>6, <1>7, <2>2
  <2>3. CASE ch # Newline /\ ~(m.w + c > width)
    <3>1. mm.h = m.h
      BY <1>2, <1>4, <2>3
    <3> QED
      BY <1>4, <1>6, <1>7, <2>3, <3>1
  <2> QED
    BY <2>1, <2>2, <2>3
<1> QED
  BY <1>8, <1>9 DEF AheadAt, mm, dd

\* calc_height asks for every line that draw paints.
LEMMA DrawnFits ==
    ASSUME NEW str \in Seq(Char), NEW width \in Int
    PROVE  DrawnHeight(str, width) <= CalcHeight(str, width)
<1> DEFINE s == CString(str)
           N == Len(s)
           m == Measured(s, width)
           d == Drawn(s, width)
           T == {k \in 0 .. N : AheadAt(m[k], d[k], width)}
<1>1. s \in Seq(Char)
  BY CStringIsText
<1> HIDE DEF s
<1>2. N \in Nat /\ \A k \in 1 .. N : s[k] \in Char
  BY <1>1, LenProperties, ElementOfSeq
<1>3. /\ m[0] = MeasureStart /\ d[0] = DrawStart
      /\ \A k \in 1 .. N : /\ m[k] = CalcStep(m[k - 1], s[k], width)
                           /\ d[k] = DrawStep(d[k - 1], s[k], k - 1, width)
      /\ \A k \in 0 .. N : m[k] \in Measures /\ d[k] \in Draws
  BY <1>1, MeasuredSteps, DrawnSteps
<1> HIDE DEF N, m, d
<1>4. 0 \in T
  <2>1. m[0].h = 20 /\ m[0].w = 0 /\ d[0].w = 0 /\ Len(d[0].lines) = 0
    BY <1>3, EmptySeq DEF MeasureStart, DrawStart, LineHeight
  <2>2. AheadAt(m[0], d[0], width)
    BY <2>1 DEF AheadAt, Ahead, LineHeight
  <2> QED
    BY <1>2, <2>1, <2>2
<1>5. ASSUME NEW k \in T, k \in Nat, k < N
      PROVE  k + 1 \in T
  <2>1. k \in 0 .. N /\ k + 1 \in 1 .. N /\ k + 1 \in 0 .. N /\ (k + 1) - 1 = k
    BY <1>2, <1>5
  <2>2. /\ m[k + 1] = CalcStep(m[k], s[k + 1], width)
        /\ d[k + 1] = DrawStep(d[k], s[k + 1], k, width)
        /\ m[k] \in Measures /\ d[k] \in Draws /\ s[k + 1] \in Char
    BY <1>2, <1>3, <2>1
  <2>3. AheadAt(m[k], d[k], width)
    OBVIOUS
  <2>4. AheadAt(m[k + 1], d[k + 1], width)
    BY <1>5, <2>2, <2>3, AheadStep
  <2> QED
    BY <2>1, <2>4
<1>6. \A k \in T : k \in Nat /\ k < N => k + 1 \in T
  BY <1>5
<1>7. 0 .. N \subseteq T
  <2> HIDE DEF T
  <2> QED
    BY <1>2, <1>4, <1>6, BoundedInduction
<1>8. m[N] \in Measures /\ d[N] \in Draws /\ AheadAt(m[N], d[N], width)
  BY <1>2, <1>3, <1>7
<1>9. m[N].h \in Int /\ d[N].lines \in Lines /\ d[N].c \in Int
  BY <1>8 DEF Measures, Draws
<1>10. CalcHeight(str, width) = m[N].h
  BY DEF CalcHeight, m, N, s
<1>11. DrawnLines(str, width) = Append(d[N].lines, Line(d[N].c, N))
  BY DEF DrawnLines, d, N, s
<1>12. Line(d[N].c, N) \in [first : Int, last : Int]
  BY <1>2, <1>9 DEF Line
<1>13. /\ Len(DrawnLines(str, width)) = Len(d[N].lines) + 1
       /\ Len(d[N].lines) \in Nat
  BY <1>9, <1>11, <1>12, LenProperties, AppendProperties DEF Lines
<1>14. \A n \in Nat, h \in Int, a, b \in Nat : Ahead(h, a, n, b, width) => 20 * (n + 1) <= h
  BY DEF Ahead, LineHeight
<1>15. 20 * (Len(d[N].lines) + 1) <= m[N].h
  BY <1>8, <1>9, <1>13, <1>14 DEF AheadAt
<1> QED
  BY <1>10, <1>13, <1>15 DEF DrawnHeight, LineHeight

-----------------------------------------------------------------------------
(* The lines that draw paints                                              *)

LineSet == [first : Int, last : Int]

\* A line that may be painted.
Good(line, s, width) ==
    /\ line.first \in 1 .. line.last + 1 /\ line.last \in 0 .. Len(s)
    /\ \A i \in line.first .. line.last : s[i] # Newline
    /\ Fits(line, s, width)

\* The lines painted so far, when the next begins with the character first.
Painted(lines, first, s, width) ==
    /\ Len(lines) = 0 => first = 1
    /\ Len(lines) > 0 => lines[1].first = 1 /\ Follows(first, lines[Len(lines)].last, s)
    /\ \A k \in 1 .. Len(lines) - 1 : Follows(lines[k + 1].first, lines[k].last, s)
    /\ \A k \in 1 .. Len(lines) : Good(lines[k], s, width)

\* A whole painting stays whole when the next line joins it.
LEMMA PaintedCut ==
    ASSUME NEW lines \in Seq(LineSet), NEW line \in LineSet, NEW first, NEW s, NEW width,
           Painted(lines, line.first, s, width), Good(line, s, width),
           Follows(first, line.last, s)
    PROVE  Painted(Append(lines, line), first, s, width)
<1> DEFINE n   == Len(lines)
           cut == Append(lines, line)
<1>1. n \in Nat
  BY LenProperties
<1>2. /\ Len(cut) = n + 1
      /\ \A k \in 1 .. n : cut[k] = lines[k]
      /\ cut[n + 1] = line
  BY AppendProperties
<1> HIDE DEF cut
<1>3. cut[1].first = 1
  BY <1>1, <1>2 DEF Painted
<1>4. \A k \in 1 .. n : Follows(cut[k + 1].first, cut[k].last, s)
  <2>1. TAKE k \in 1 .. n
  <2>2. CASE k = n
    BY <1>1, <1>2, <2>2 DEF Painted
  <2>3. CASE k \in 1 .. n - 1
    BY <1>1, <1>2, <2>3 DEF Painted
  <2> QED
    BY <1>1, <2>2, <2>3
<1>5. \A k \in 1 .. n + 1 : Good(cut[k], s, width)
  <2>1. TAKE k \in 1 .. n + 1
  <2>2. CASE k = n + 1
    BY <1>2, <2>2
  <2>3. CASE k \in 1 .. n
    BY <1>2, <2>3 DEF Painted
  <2> QED
    BY <1>1, <2>2, <2>3
<1> HIDE DEF n
<1>6. Painted(cut, first, s, width)
  BY <1>1, <1>2, <1>3, <1>4, <1>5 DEF Painted
<1> QED
  BY <1>6 DEF cut

\* The line being painted when k characters are behind: its characters, and that
\* it is within the limit but for the last of them.
Current(d, k, s, width) ==
    /\ d.c \in 0 .. k
    /\ \A i \in k - d.c + 1 .. k : s[i] # Newline
    /\ d.w = Extent(s)[k] - Extent(s)[k - d.c]
    /\ d.c > 0 => Extent(s)[k - 1] - Extent(s)[k - d.c] <= Limit(width)

PaintedAt(d, k, s, width) ==
    Current(d, k, s, width) /\ Painted(d.lines, k - d.c + 1, s, width)

\* The width of a text grows by a character at a step.
LEMMA ExtentSteps ==
    ASSUME NEW s \in Seq(Char)
    PROVE  /\ Extent(s)[0] = 0
           /\ \A k \in 1 .. Len(s) : Extent(s)[k] = Extent(s)[k - 1] + CharWidth[s[k]]
           /\ \A k \in 0 .. Len(s) : Extent(s)[k] \in Int
<1> DEFINE x == [i \in 1 .. Len(s) |-> CharWidth[s[i]]]
<1>1. Len(s) \in Nat /\ \A i \in 1 .. Len(s) : s[i] \in Char
  BY LenProperties, ElementOfSeq
<1>2. \A i \in 1 .. Len(s) : CharWidth[s[i]] \in Int
  BY <1>1, CharWidthAssumption
<1>3. x \in Seq(Int) /\ Len(x) = Len(s)
  BY <1>1, <1>2, IsASeq
<1>4. \A i \in 1 .. Len(s) : x[i] = CharWidth[s[i]]
  OBVIOUS
<1> HIDE DEF x
<1> QED
  BY <1>3, <1>4, SumsSteps DEF Extent, x

\* The current line may be painted.
LEMMA CurrentIsGood ==
    ASSUME NEW s \in Seq(Char), NEW width \in Int, NEW k \in 0 .. Len(s), NEW d \in Draws,
           Current(d, k, s, width)
    PROVE  Line(d.c, k) \in LineSet /\ Good(Line(d.c, k), s, width)
<1>1. Len(s) \in Nat /\ d.c \in 0 .. k
  BY LenProperties DEF Current
<1>2. Line(d.c, k) = [first |-> k - d.c + 1, last |-> k]
  BY DEF Line
<1>3. Line(d.c, k) \in LineSet
  BY <1>1, <1>2 DEF LineSet
<1>4. \A i \in Line(d.c, k).first .. Line(d.c, k).last : s[i] # Newline
  BY <1>2 DEF Current
<1>5. Fits(Line(d.c, k), s, width)
  <2>1. (k - d.c + 1) - 1 = k - d.c
    BY <1>1
  <2>2. k - d.c + 1 < k => d.c > 0
    BY <1>1
  <2> QED
    BY <1>2, <2>1, <2>2 DEF Fits, Current
<1>6. /\ Line(d.c, k).first \in 1 .. Line(d.c, k).last + 1
      /\ Line(d.c, k).last \in 0 .. Len(s)
  BY <1>1, <1>2
<1> QED
  BY <1>3, <1>4, <1>5, <1>6 DEF Good

\* One character more is on the line that draw has begun, or begins the next.
LEMMA PaintedStep ==
    ASSUME NEW s \in Seq(Char), NEW width \in Int, NEW k \in 0 .. Len(s), k < Len(s),
           NEW d \in Draws, PaintedAt(d, k, s, width)
    PROVE  PaintedAt(DrawStep(d, s[k + 1], k, width), k + 1, s, width)
<1> DEFINE ch  == s[k + 1]
           dd  == DrawStep(d, ch, k, width)
           cut == Append(d.lines, Line(d.c, k))
<1>1. /\ Len(s) \in Nat /\ k + 1 \in 1 .. Len(s)
      /\ ch \in Char /\ (k + 1) - 1 = k
  BY LenProperties, ElementOfSeq
<1>2. Extent(s)[k + 1] = Extent(s)[k] + CharWidth[ch]
  BY <1>1, ExtentSteps
<1>3. Extent(s)[k] \in Int /\ Extent(s)[k + 1] \in Int /\ CharWidth[ch] \in Int
  BY <1>1, ExtentSteps, CharWidthAssumption
<1>4. d.c \in 0 .. k /\ d.lines \in Seq(LineSet) /\ d.w \in Int
  BY DEF PaintedAt, Current, Draws, Lines, LineSet
<1>5. Extent(s)[k - d.c] \in Int
  BY <1>1, <1>4, ExtentSteps
<1>6. Line(d.c, k) \in LineSet /\ Good(Line(d.c, k), s, width)
  BY CurrentIsGood DEF PaintedAt
<1>7. Painted(d.lines, Line(d.c, k).first, s, width) /\ Line(d.c, k).last = k
  BY DEF PaintedAt, Line
<1>8. Limit(width) \in Nat /\ width <= Limit(width)
  BY DEF Limit
<1>9. dd = IF ch = Newline THEN [lines |-> cut, c |-> 0, w |-> 0]
           ELSE IF d.w > width THEN [lines |-> cut, c |-> 1, w |-> CharWidth[ch]]
           ELSE [lines |-> d.lines, c |-> d.c + 1, w |-> d.w + CharWidth[ch]]
  BY DEF DrawStep
<1> HIDE DEF cut, dd
<1>10. CASE ch = Newline
  <2>1. dd.lines = cut /\ dd.c = 0 /\ dd.w = 0
    BY <1>9, <1>10
  <2>2. Follows(k + 2, k, s)
    BY <1>1, <1>10 DEF Follows
  <2>3. Painted(cut, k + 2, s, width)
    BY <1>4, <1>6, <1>7, <2>2, PaintedCut DEF cut
  <2>4. (k + 1) - 0 + 1 = k + 2 /\ (k + 1) - 0 = k + 1 /\ 0 \in 0 .. k + 1
    BY <1>1
  <2>5. Current(dd, k + 1, s, width)
    BY <1>1, <1>3, <2>1, <2>4 DEF Current
  <2> QED
    BY <2>1, <2>3, <2>4, <2>5 DEF PaintedAt, dd
<1>11. CASE ch # Newline /\ d.w > width
  <2>1. dd.lines = cut /\ dd.c = 1 /\ dd.w = CharWidth[ch]
    BY <1>9, <1>11
  <2>2. Follows(k + 1, k, s)
    BY <1>1 DEF Follows
  <2>3. Painted(cut, k + 1, s, width)
    BY <1>4, <1>6, <1>7, <2>2, PaintedCut DEF cut
  <2>4. (k + 1) - 1 + 1 = k + 1 /\ 1 \in 0 .. k + 1 /\ k + 1 .. k + 1 = {k + 1}
    BY <1>1
  <2>5. dd.w = Extent(s)[k + 1] - Extent(s)[k] /\ Extent(s)[k] - Extent(s)[k] <= Limit(width)
    <3>1. \A a, b \in Int : b = (a + b) - a /\ a - a = 0
      OBVIOUS
    <3> QED
      BY <1>2, <1>3, <1>8, <2>1, <3>1
  <2>6. Current(dd, k + 1, s, width)
    BY <1>1, <1>11, <2>1, <2>4, <2>5 DEF Current
  <2> QED
    BY <2>1, <2>3, <2>4, <2>6 DEF PaintedAt, dd
<1>12. CASE ch # Newline /\ ~(d.w > width)
  <2>1. dd.lines = d.lines /\ dd.c = d.c + 1 /\ dd.w = d.w + CharWidth[ch]
    BY <1>9, <1>12
  <2>2. /\ (k + 1) - (d.c + 1) = k - d.c
        /\ (k + 1) - (d.c + 1) + 1 = k - d.c + 1
        /\ d.c + 1 \in 0 .. k + 1
    <3>1. d.c \in Nat /\ d.c <= k /\ k \in Nat
      BY <1>4
    <3>2. \A a, b \in Nat :
              (a + 1) - (b + 1) = a - b /\ (a + 1) - (b + 1) + 1 = a - b + 1
      OBVIOUS
    <3>3. \A a, b \in Nat : b <= a => b + 1 \in 0 .. a + 1
      OBVIOUS
    <3> QED
      BY <3>1, <3>2, <3>3
  <2>3. Painted(d.lines, k - d.c + 1, s, width)
    BY DEF PaintedAt
  <2>4. d.w = Extent(s)[k] - Extent(s)[k - d.c]
    BY DEF PaintedAt, Current
  <2>5. dd.w = Extent(s)[k + 1] - Extent(s)[k - d.c]
    <3>1. \A a, b, c \in Int : (a - b) + c = (a + c) - b
      OBVIOUS
    <3> QED
      BY <1>2, <1>3, <1>5, <2>1, <2>4, <3>1
  <2>6. Extent(s)[k] - Extent(s)[k - d.c] <= Limit(width)
    BY <1>4, <1>8, <1>12, <2>4
  <2>7. \A i \in k - d.c + 1 .. k + 1 : s[i] # Newline
    <3>1. \A i \in k - d.c + 1 .. k : s[i] # Newline
      BY DEF PaintedAt, Current
    <3> QED
      BY <1>1, <1>4, <1>12, <3>1
  <2>8. Current(dd, k + 1, s, width)
    BY <1>1, <2>1, <2>2, <2>5, <2>6, <2>7 DEF Current
  <2> QED
    BY <2>1, <2>2, <2>3, <2>8 DEF PaintedAt, dd
<1> QED
  BY <1>10, <1>11, <1>12

\* A longer text is not narrower.
LEMMA ExtentGrows ==
    ASSUME NEW s \in Seq(Char), NEW a \in 0 .. Len(s), NEW b \in 0 .. Len(s), a <= b
    PROVE  Extent(s)[a] <= Extent(s)[b]
<1> DEFINE N == Len(s)
           x == Extent(s)
           T == {k \in 0 .. N : k < a \/ x[a] <= x[k]}
<1>1. N \in Nat
  BY LenProperties
<1>2. /\ \A k \in 1 .. N : x[k] = x[k - 1] + CharWidth[s[k]]
      /\ \A k \in 0 .. N : x[k] \in Int
  BY ExtentSteps
<1>3. \A k \in 1 .. N : CharWidth[s[k]] \in Nat
  BY ElementOfSeq, CharWidthAssumption
<1> HIDE DEF x, N
<1>4. a \in 0 .. N /\ b \in 0 .. N
  BY DEF N
<1>5. 0 \in T
  BY <1>1, <1>2, <1>4
<1>6. ASSUME NEW k \in T, k \in Nat, k < N
      PROVE  k + 1 \in T
  <2>1. k + 1 \in 1 .. N /\ k + 1 \in 0 .. N /\ k \in 0 .. N /\ (k + 1) - 1 = k
    BY <1>1, <1>6
  <2>2. x[k + 1] = x[k] + CharWidth[s[k + 1]] /\ CharWidth[s[k + 1]] \in Nat
    BY <1>2, <1>3, <2>1
  <2>3. x[k] \in Int /\ x[k + 1] \in Int /\ x[a] \in Int
    BY <1>2, <1>4, <2>1
  <2>4. k < a \/ x[a] <= x[k]
    OBVIOUS
  <2>5. k + 1 < a \/ k + 1 = a \/ a <= k
    BY <1>4, <2>1
  <2>6. k + 1 < a \/ x[a] <= x[k + 1]
    BY <1>4, <2>1, <2>2, <2>3, <2>4, <2>5
  <2> QED
    BY <2>1, <2>6
<1>7. \A k \in T : k \in Nat /\ k < N => k + 1 \in T
  BY <1>6
<1>8. 0 .. N \subseteq T
  <2> HIDE DEF T
  <2> QED
    BY <1>1, <1>5, <1>7, BoundedInduction
<1>9. b \in T
  BY <1>4, <1>8
<1> QED
  BY <1>4, <1>9 DEF x

\* Only a line of Uint8 or more characters is not painted whole, and the width has
\* room for all of them but the last.
LEMMA PaintedWhole ==
    ASSUME NEW s \in Seq(Char), NEW width \in Int, NEW line \in LineSet, Good(line, s, width)
    PROVE  \/ ImageText(line) = line.first .. line.last
           \/ \E i \in 0 .. Len(s) : LongRunFits(s, i, width)
<1> DEFINE a == line.first
           b == line.last
           n == Length(line)
<1>1. /\ a \in 1 .. b + 1 /\ b \in 0 .. Len(s) /\ Len(s) \in Nat
      /\ \A i \in a .. b : s[i] # Newline
      /\ a < b => Extent(s)[b - 1] - Extent(s)[a - 1] <= Limit(width)
  BY LenProperties DEF Good, Fits
<1>2. n = b - a + 1 /\ n \in Nat
  BY <1>1 DEF Length
<1>3. ImageText(line) = a .. a + (n % Uint8) - 1
  BY DEF ImageText
<1> HIDE DEF a, b, n
<1>4. CASE n < Uint8
  <2>1. n % Uint8 = n
    BY <1>2, <1>4, Uint8Assumption
  <2>2. a + n - 1 = b
    BY <1>1, <1>2
  <2> QED
    BY <1>3, <2>1, <2>2 DEF a, b
<1>5. CASE Uint8 <= n
  <2> DEFINE i == a - 1
             j == i + Uint8 - 1
  <2>1. i \in 0 .. Len(s) /\ j \in 0 .. Len(s) /\ i <= j
    BY <1>1, <1>2, <1>5, Uint8Assumption
  <2>2. \A m \in i + 1 .. j : s[m] # Newline
    BY <1>1, <1>2, <1>5, Uint8Assumption
  <2>3. /\ Extent(s)[i] \in Int /\ Extent(s)[j] \in Int
        /\ Limit(width) \in Nat
    BY <2>1, ExtentSteps DEF Limit
  <2>4. CASE a < b
    <3>1. b - 1 \in 0 .. Len(s) /\ j <= b - 1
      BY <1>1, <1>2, <1>5, <2>4, Uint8Assumption
    <3>2. Extent(s)[j] <= Extent(s)[b - 1] /\ Extent(s)[b - 1] \in Int
      BY <2>1, <3>1, ExtentGrows, ExtentSteps
    <3>3. Extent(s)[b - 1] - Extent(s)[i] <= Limit(width)
      BY <1>1, <2>4
    <3> HIDE DEF i, j
    <3>4. Extent(s)[j] - Extent(s)[i] <= Limit(width)
      BY <2>3, <3>2, <3>3
    <3> QED
      BY <2>1, <2>2, <3>4 DEF LongRunFits, j
  <2>5. CASE ~(a < b)
    <3>1. j = i
      BY <1>1, <1>2, <1>5, <2>5, Uint8Assumption
    <3>2. Extent(s)[j] - Extent(s)[i] <= Limit(width)
      BY <2>3, <3>1
    <3> QED
      BY <2>1, <2>2, <3>2 DEF LongRunFits
  <2> QED
    BY <2>4, <2>5
<1> QED
  BY <1>2, <1>4, <1>5, Uint8Assumption

\* The lines of draw are the whole text, each as wide as it may be and painted whole
\* as long as no line is too long.
LEMMA DrawnIsWhole ==
    ASSUME NEW str \in Seq(Char), NEW width \in Int
    PROVE  LET s     == CString(str)
               lines == DrawnLines(str, width)
           IN  /\ MakeUp(lines, s)
               /\ \A k \in 1 .. Len(lines) : Fits(lines[k], s, width)
               /\ AllPainted(lines) \/ \E i \in 0 .. Len(s) : LongRunFits(s, i, width)
<1> DEFINE s == CString(str)
           N == Len(s)
           d == Drawn(s, width)
           T == {k \in 0 .. N : PaintedAt(d[k], k, s, width)}
           lines == DrawnLines(str, width)
<1>1. s \in Seq(Char)
  BY CStringIsText
<1> HIDE DEF s
<1>2. N \in Nat
  BY <1>1, LenProperties
<1>3. /\ d[0] = DrawStart
      /\ \A k \in 1 .. N : d[k] = DrawStep(d[k - 1], s[k], k - 1, width)
      /\ \A k \in 0 .. N : d[k] \in Draws
  BY <1>1, DrawnSteps
<1>4. Extent(s)[0] = 0
  BY <1>1, ExtentSteps
<1>5. lines = Append(d[N].lines, Line(d[N].c, N))
  BY DEF DrawnLines, s
<1> HIDE DEF d, lines
<1>6. 0 \in T
  <2>1. d[0].c = 0 /\ d[0].w = 0 /\ d[0].lines = <<>> /\ Len(d[0].lines) = 0
    BY <1>3, EmptySeq DEF DrawStart
  <2>2. Painted(d[0].lines, 1, s, width)
    BY <2>1 DEF Painted
  <2>3. Current(d[0], 0, s, width)
    BY <1>4, <2>1 DEF Current
  <2>4. 0 - 0 + 1 = 1 /\ 0 \in 0 .. N
    BY <1>2
  <2> QED
    BY <2>1, <2>2, <2>3, <2>4 DEF PaintedAt
<1>7. ASSUME NEW k \in T, k \in Nat, k < N
      PROVE  k + 1 \in T
  <2>1. k \in 0 .. N /\ k + 1 \in 1 .. N /\ k + 1 \in 0 .. N /\ (k + 1) - 1 = k
    BY <1>2, <1>7
  <2>2. d[k + 1] = DrawStep(d[k], s[k + 1], k, width) /\ d[k] \in Draws
    BY <1>3, <2>1
  <2>3. PaintedAt(d[k + 1], k + 1, s, width)
    BY <1>1, <1>7, <2>1, <2>2, PaintedStep
  <2> QED
    BY <2>1, <2>3
<1>8. \A k \in T : k \in Nat /\ k < N => k + 1 \in T
  BY <1>7
<1>9. 0 .. N \subseteq T
  <2> HIDE DEF T, N
  <2> QED
    BY <1>2, <1>6, <1>8, BoundedInduction
<1>10. N \in 0 .. N /\ d[N] \in Draws /\ PaintedAt(d[N], N, s, width)
  BY <1>2, <1>3, <1>9
<1>11. Line(d[N].c, N) \in LineSet /\ Good(Line(d[N].c, N), s, width)
  BY <1>1, <1>10, CurrentIsGood DEF PaintedAt
<1>12. /\ d[N].lines \in Seq(LineSet)
       /\ Painted(d[N].lines, Line(d[N].c, N).first, s, width)
       /\ Line(d[N].c, N).last = N
  BY <1>10 DEF PaintedAt, Draws, Lines, LineSet, Line
<1>13. Follows(N + 1, Line(d[N].c, N).last, s)
  BY <1>2, <1>12 DEF Follows
<1>14. Painted(lines, N + 1, s, width)
  BY <1>5, <1>11, <1>12, <1>13, PaintedCut
<1>15. Len(lines) > 0 /\ lines[Len(lines)].last = N
  BY <1>5, <1>11, <1>12, LenProperties, AppendProperties
<1>16. MakeUp(lines, s)
  BY <1>14, <1>15 DEF Painted, MakeUp, Good
<1>17. \A k \in 1 .. Len(lines) : Fits(lines[k], s, width)
  BY <1>14 DEF Painted, Good
<1>18. AllPainted(lines) \/ \E i \in 0 .. N : LongRunFits(s, i, width)
  <2>1. ASSUME NEW k \in 1 .. Len(lines)
        PROVE  \/ ImageText(lines[k]) = lines[k].first .. lines[k].last
               \/ \E i \in 0 .. N : LongRunFits(s, i, width)
    <3>1. Good(lines[k], s, width)
      BY <1>14 DEF Painted
    <3>2. lines \in Seq(LineSet)
      BY <1>5, <1>11, <1>12, AppendProperties
    <3>3. lines[k] \in LineSet
      BY <3>2, ElementOfSeq
    <3> QED
      BY <1>1, <3>1, <3>3, PaintedWhole
  <2> QED
    BY <2>1 DEF AllPainted
<1> QED
  BY <1>16, <1>17, <1>18 DEF s, lines

\* For every text and every width: the height that calc_height asks for is enough
\* for the lines of draw at that width, these are the whole text, and they are painted
\* whole unless the width has room for 255 characters of it in a row (label.cc:112
\* and label.cc:258, textbox.cc:177 and textbox.cc:285).
THEOREM LineBreaksAgree == \A str \in Seq(Char), width \in Int : Agree(str, width)
<1> QED
  BY DrawnFits, DrawnIsWhole DEF Agree

-----------------------------------------------------------------------------
(* Heights                                                                 *)

\* A text is measured as a number of lines, at least one.
LEMMA CalcHeightIsLines ==
    ASSUME NEW str \in Seq(Char), NEW width \in Int
    PROVE  \E n \in Nat : CalcHeight(str, width) = 20 * (n + 1)
<1> DEFINE s == CString(str)
           N == Len(s)
           g == Measured(s, width)
           T == {k \in 0 .. N : \E n \in Nat : g[k].h = 20 * (n + 1)}
<1>1. s \in Seq(Char)
  BY CStringIsText
<1> HIDE DEF s
<1>2. N \in Nat
  BY <1>1, LenProperties
<1>3. g[0] = MeasureStart /\ \A k \in 1 .. N : g[k] = CalcStep(g[k - 1], s[k], width)
  BY <1>1, MeasuredSteps
<1> HIDE DEF N, g
<1>4. 0 \in T
  <2>1. g[0].h = 20 * (0 + 1)
    BY <1>3 DEF MeasureStart, LineHeight
  <2>2. \E n \in Nat : g[0].h = 20 * (n + 1)
    <3>1. 0 \in Nat
      OBVIOUS
    <3> QED
      BY <2>1, <3>1, Zenon
  <2> QED
    BY <1>2, <2>2
<1>5. ASSUME NEW k \in T, k \in Nat, k < N
      PROVE  k + 1 \in T
  <2>1. k + 1 \in 1 .. N /\ k + 1 \in 0 .. N /\ (k + 1) - 1 = k
    BY <1>2, <1>5
  <2>2. PICK n \in Nat : g[k].h = 20 * (n + 1)
    OBVIOUS
  <2>3. g[k + 1] = CalcStep(g[k], s[k + 1], width)
    BY <1>3, <2>1
  <2>4. g[k + 1].h = g[k].h + 20 \/ g[k + 1].h = g[k].h + 0
    BY <2>3 DEF CalcStep, LineHeight
  <2>5. g[k + 1].h = 20 * ((n + 1) + 1) \/ g[k + 1].h = 20 * (n + 1)
    <3>1. \A a \in Nat : 20 * (a + 1) + 20 = 20 * ((a + 1) + 1) /\ 20 * (a + 1) + 0 = 20 * (a + 1)
      OBVIOUS
    <3> QED
      BY <2>2, <2>4, <3>1
  <2>6. n + 1 \in Nat
    OBVIOUS
  <2>7. \E p \in Nat : g[k + 1].h = 20 * (p + 1)
    BY <2>5, <2>6
  <2> QED
    BY <2>1, <2>7
<1>6. \A k \in T : k \in Nat /\ k < N => k + 1 \in T
  BY <1>5
<1>7. 0 .. N \subseteq T
  <2> HIDE DEF T
  <2> QED
    BY <1>2, <1>4, <1>6, BoundedInduction
<1>8. \E n \in Nat : g[N].h = 20 * (n + 1)
  BY <1>2, <1>7
<1> QED
  BY <1>8 DEF CalcHeight, g, N, s

\* The height is the number of lines, 20 each.
LEMMA CalcHeightIsNat ==
    ASSUME NEW str \in Seq(Char), NEW width \in Int
    PROVE  /\ CalcHeight(str, width) \in Nat
           /\ CalcHeight(str, width) \div 20 \in Nat
           /\ 20 * (CalcHeight(str, width) \div 20) = CalcHeight(str, width)
<1>1. PICK n \in Nat : CalcHeight(str, width) = 20 * (n + 1)
  BY CalcHeightIsLines
<1>2. (20 * (n + 1)) \div 20 = n + 1
  OBVIOUS
<1> QED
  BY <1>1, <1>2

-----------------------------------------------------------------------------
(* The column                                                              *)

Item == [text : Seq(Char), y : Int, height : Int]

Heights(its) == [k \in DOMAIN its |-> its[k].height]

\* One below the other, without a gap.
Stacked(its) == \A k \in 1 .. Len(its) : its[k].y = Sums(Heights(its))[k - 1]

\* A largest number of a set is the one Max takes.
LEMMA MaxIs ==
    ASSUME NEW S, S \subseteq Int, NEW m \in S, \A x \in S : x <= m
    PROVE  Max(S) = m
<1>1. m \in S /\ \A y \in S : m >= y
  OBVIOUS
<1>2. \A x \in S : (\A y \in S : x >= y) => x = m
  <2>1. TAKE x \in S
  <2>2. HAVE \A y \in S : x >= y
  <2>3. x >= m /\ x <= m /\ x \in Int /\ m \in Int
    BY <2>2
  <2> QED
    BY <2>3
<1> QED
  BY <1>1, <1>2 DEF Max

\* The column ends at an item, or at its top.
LEMMA ContentSizeIs ==
    ASSUME NEW its \in Seq(Item)
    PROVE  ContentSize(its) \in Int
<1> DEFINE N == Len(its)
           Upto(k) == {0} \cup {its[j].y + its[j].height : j \in 1 .. k}
           T == {k \in 0 .. N : \E m \in Upto(k) : \A x \in Upto(k) : x <= m}
<1>1. N \in Nat /\ DOMAIN its = 1 .. N
  BY LenProperties
<1>2. \A k \in 1 .. N : its[k].y + its[k].height \in Int
  <2>1. TAKE k \in 1 .. N
  <2>2. its[k] \in Item
    BY ElementOfSeq
  <2> QED
    BY <2>2 DEF Item
<1> HIDE DEF N
<1>3. \A k \in 0 .. N : Upto(k) \subseteq Int
  BY <1>1, <1>2
<1>4. 0 \in T
  <2>1. Upto(0) = {0}
    OBVIOUS
  <2> QED
    BY <1>1, <2>1
<1>5. ASSUME NEW k \in T, k \in Nat, k < N
      PROVE  k + 1 \in T
  <2> DEFINE e == its[k + 1].y + its[k + 1].height
  <2>1. k + 1 \in 0 .. N /\ k + 1 \in 1 .. N /\ k \in 0 .. N
    BY <1>1, <1>5
  <2>2. PICK m \in Upto(k) : \A x \in Upto(k) : x <= m
    OBVIOUS
  <2>3. Upto(k + 1) = Upto(k) \cup {e}
    <3>1. 1 .. k + 1 = (1 .. k) \cup {k + 1}
      BY <1>5
    <3> QED
      BY <3>1
  <2>4. e \in Int /\ m \in Int /\ Upto(k) \subseteq Int
    BY <1>2, <1>3, <2>1
  <2> HIDE DEF Upto, e
  <2>5. CASE e <= m
    BY <2>1, <2>2, <2>3, <2>4, <2>5
  <2>6. CASE m < e
    <3>1. \A x \in Upto(k) : x <= e
      BY <2>2, <2>4, <2>6
    <3> QED
      BY <2>1, <2>3, <2>4, <3>1
  <2> QED
    BY <2>4, <2>5, <2>6
<1>6. \A k \in T : k \in Nat /\ k < N => k + 1 \in T
  BY <1>5
<1>7. 0 .. N \subseteq T
  <2> HIDE DEF T
  <2> QED
    BY <1>1, <1>4, <1>6, BoundedInduction
<1>8. PICK m \in Upto(N) : \A x \in Upto(N) : x <= m
  <2>1. N \in T
    <3> HIDE DEF T
    <3> QED
      BY <1>1, <1>7
  <2> HIDE DEF Upto
  <2> QED
    BY <2>1
<1>9. ContentSize(its) = Max(Upto(N))
  BY <1>1 DEF ContentSize
<1>10. Upto(N) \subseteq Int
  BY <1>1, <1>3
<1> HIDE DEF Upto
<1>11. Max(Upto(N)) = m
  BY <1>8, <1>10, MaxIs
<1> QED
  BY <1>8, <1>9, <1>10, <1>11

\* Heights of a column, and its items.
LEMMA HeightsAre ==
    ASSUME NEW its \in Seq(Item)
    PROVE  /\ Heights(its) \in Seq(Int) /\ Len(Heights(its)) = Len(its) /\ Len(its) \in Nat
           /\ \A k \in 1 .. Len(its) : Heights(its)[k] = its[k].height /\ its[k] \in Item
<1>1. Len(its) \in Nat /\ DOMAIN its = 1 .. Len(its)
  BY LenProperties
<1>2. \A k \in 1 .. Len(its) : its[k] \in Item /\ its[k].height \in Int
  <2>1. TAKE k \in 1 .. Len(its)
  <2>2. its[k] \in Item
    BY ElementOfSeq
  <2> QED
    BY <2>2 DEF Item
<1> DEFINE h == [k \in 1 .. Len(its) |-> its[k].height]
<1>3. h \in Seq(Int) /\ Len(h) = Len(its)
  BY <1>1, <1>2, IsASeq
<1>4. Heights(its) = h
  BY <1>1 DEF Heights
<1>5. \A k \in 1 .. Len(its) : h[k] = its[k].height
  OBVIOUS
<1> HIDE DEF h
<1> QED
  BY <1>1, <1>2, <1>3, <1>4, <1>5

\* The size of a column without gaps is the sum of its heights.
LEMMA StackedSize ==
    ASSUME NEW its \in Seq(Item), Stacked(its), \A k \in 1 .. Len(its) : its[k].height \in Nat
    PROVE  ContentSize(its) = Sums(Heights(its))[Len(its)]
<1> DEFINE N == Len(its)
           h == Heights(its)
           g == Sums(h)
           S == {0} \cup {its[k].y + its[k].height : k \in DOMAIN its}
<1>1. /\ N \in Nat /\ h \in Seq(Int) /\ Len(h) = N
      /\ \A k \in 1 .. N : h[k] = its[k].height /\ h[k] \in Nat
      /\ DOMAIN its = 1 .. N
  BY HeightsAre, LenProperties
<1> HIDE DEF h
<1>2. /\ g[0] = 0
      /\ \A k \in 1 .. N : g[k] = g[k - 1] + h[k]
      /\ \A k \in 0 .. N : g[k] \in Int
  BY <1>1, SumsSteps
<1>3. \A j, k \in 0 .. N : j <= k => g[j] <= g[k]
  BY <1>1, SumsGrow
<1> HIDE DEF g, N
<1>4. \A k \in 1 .. N : its[k].y + its[k].height = g[k]
  BY <1>1, <1>2 DEF Stacked, g, h, N
<1>5. \A x \in S : \E k \in 0 .. N : x = g[k]
  <2>1. TAKE x \in S
  <2>2. CASE x = 0
    BY <1>1, <1>2, <2>2
  <2>3. CASE \E k \in 1 .. N : x = its[k].y + its[k].height
    <3>1. PICK k \in 1 .. N : x = its[k].y + its[k].height
      BY <2>3
    <3>2. k \in 0 .. N
      BY <1>1
    <3> QED
      BY <1>4, <3>1, <3>2
  <2> QED
    BY <1>1, <2>2, <2>3
<1>6. S \subseteq Int
  BY <1>2, <1>5
<1>7. g[N] \in S
  <2>1. CASE N = 0
    BY <1>2, <2>1
  <2>2. CASE N \in 1 .. N
    BY <1>1, <1>4, <2>2
  <2> QED
    BY <1>1, <2>1, <2>2
<1>8. \A x \in S : x <= g[N]
  <2> HIDE DEF S
  <2> QED
    BY <1>1, <1>3, <1>5
<1> HIDE DEF S
<1>9. Max(S) = g[N]
  BY <1>6, <1>7, <1>8, MaxIs
<1> QED
  BY <1>9 DEF ContentSize, S, g, h, N

-----------------------------------------------------------------------------
(* The scroll pane                                                         *)

Pane == [pos : Int, prev_pos : Int, height : Int, csize : Int, drawn : SUBSET Int,
         dragging : BOOLEAN, drag_src : Int, ticks : Int, hovered : BOOLEAN]

Point == [bar : BOOLEAN, y : Int]

\* What a handler leaves alone: the height of the pane; and it knows the size of
\* the column as well as before.
Kept(q, p, its) ==
    q \in Pane /\ q.height = p.height /\ (q.csize = p.csize \/ q.csize = ContentSize(its))

\* What draw changes, and what it leaves alone.
LEMMA DrawPane ==
    ASSUME NEW p \in Pane, NEW its \in Seq(Item)
    PROVE  LET q == Draw(p, its)
           IN  /\ q \in Pane
               /\ q.csize = ContentSize(its)
               /\ q.pos = p.pos /\ q.height = p.height /\ q.prev_pos = p.prev_pos
               /\ q.drawn = {k \in 1 .. Len(its) :
                                LET y == its[k].y + (IF ContentSize(its) >= p.height
                                                     THEN p.pos ELSE 0)
                                IN  y >= 0 /\ y + its[k].height <= p.height}
<1>1. ContentSize(its) \in Int
  BY ContentSizeIs
<1>2. Len(its) \in Nat /\ DOMAIN its = 1 .. Len(its)
  BY LenProperties
<1> DEFINE csize == ContentSize(its)
           Y(k)  == its[k].y + (IF csize >= p.height THEN p.pos ELSE 0)
           drawn == {k \in DOMAIN its : Y(k) >= 0 /\ Y(k) + its[k].height <= p.height}
<1>3. drawn \in SUBSET Int
  BY <1>2
<1>4. Draw(p, its) = [p EXCEPT !.csize = csize, !.drawn = drawn]
  BY DEF Draw
<1>5. drawn = {k \in 1 .. Len(its) :
                  LET y == its[k].y + (IF ContentSize(its) >= p.height THEN p.pos ELSE 0)
                  IN  y >= 0 /\ y + its[k].height <= p.height}
  BY <1>2
<1> HIDE DEF csize, drawn
<1>6. csize \in Int
  BY <1>1 DEF csize
<1>7. /\ [p EXCEPT !.csize = csize, !.drawn = drawn] \in Pane
      /\ [p EXCEPT !.csize = csize, !.drawn = drawn].csize = csize
      /\ [p EXCEPT !.csize = csize, !.drawn = drawn].pos = p.pos
      /\ [p EXCEPT !.csize = csize, !.drawn = drawn].height = p.height
      /\ [p EXCEPT !.csize = csize, !.drawn = drawn].prev_pos = p.prev_pos
      /\ [p EXCEPT !.csize = csize, !.drawn = drawn].drawn = drawn
  BY <1>3, <1>6 DEF Pane
<1> QED
  BY <1>4, <1>5, <1>7 DEF csize

\* Drawing behind a handler keeps what the handler kept,
LEMMA DrawKept ==
    ASSUME NEW p, NEW q, NEW its \in Seq(Item), Kept(q, p, its)
    PROVE  Kept(Draw(q, its), p, its)
<1> QED
  BY DrawPane DEF Kept

\* as do the wheel,
LEMMA ScrollKept ==
    ASSUME NEW p \in Pane, NEW its \in Seq(Item)
    PROVE  Kept(ScrollUp(p, its), p, its) /\ Kept(ScrollDown(p, its), p, its)
<1> DEFINE up   == IF p.pos < -10 THEN p.pos + 10 ELSE 0
           down == IF p.pos > Bottom(p) + 10 THEN p.pos - 10 ELSE Bottom(p)
<1>1. p.pos \in Int /\ p.height \in Int /\ p.csize \in Int
  BY DEF Pane
<1>2. up \in Int /\ down \in Int
  <2>1. Bottom(p) \in Int
    BY <1>1 DEF Bottom
  <2>2. p.pos + 10 \in Int /\ p.pos - 10 \in Int /\ 0 \in Int
    BY <1>1
  <2> QED
    BY <2>1, <2>2
<1>3. \A to \in Int : [p EXCEPT !.pos = to] \in Pane /\ [p EXCEPT !.pos = to].height = p.height
                      /\ [p EXCEPT !.pos = to].csize = p.csize
  BY DEF Pane
<1>4. \A to \in Int : Kept([p EXCEPT !.pos = to], p, its)
  BY <1>3 DEF Kept
<1>5. /\ ScrollUp(p, its) = Draw([p EXCEPT !.pos = up], its)
      /\ ScrollDown(p, its) = Draw([p EXCEPT !.pos = down], its)
  BY DEF ScrollUp, ScrollDown
<1> HIDE DEF up, down
<1> QED
  BY <1>2, <1>4, <1>5, DrawKept

\* the button of the mouse,
LEMMA PressKept ==
    ASSUME NEW p \in Pane, NEW its \in Seq(Item), NEW at \in Point
    PROVE  /\ Kept(MouseDown(p, at), p, its)
           /\ Kept(DragOver(p), p, its)
           /\ Kept(MouseOut(p), p, its)
<1>1. p.pos \in Int /\ p.height \in Int /\ at.y \in Int
  BY DEF Pane, Point
<1>2. at.y - Top - ButtonHeight + p.pos \in Int
  BY <1>1 DEF Top, ButtonHeight
<1> DEFINE src == at.y - Top - ButtonHeight + p.pos
           q == [p EXCEPT !.dragging = TRUE, !.drag_src = src]
<1> HIDE DEF src
<1>3. q \in Pane /\ q.height = p.height /\ q.csize = p.csize
  BY <1>2 DEF Pane, src
<1>4. Kept(MouseDown(p, at), p, its)
  BY <1>3 DEF MouseDown, Kept, src
<1>5. DragOver(p) \in Pane /\ DragOver(p).height = p.height /\ DragOver(p).csize = p.csize
  <2> DEFINE n == 0
             r == [p EXCEPT !.dragging = FALSE, !.drag_src = n]
  <2>1. n \in Int
    OBVIOUS
  <2> HIDE DEF n
  <2>2. r \in Pane /\ r.height = p.height /\ r.csize = p.csize
    BY <2>1 DEF Pane
  <2> QED
    BY <2>2 DEF DragOver, n
<1>6. MouseOut(p) \in Pane /\ MouseOut(p).height = p.height /\ MouseOut(p).csize = p.csize
  BY <1>5 DEF MouseOut, Pane
<1> QED
  BY <1>4, <1>5, <1>6 DEF Kept

\* a click on the bar,
LEMMA ClickKept ==
    ASSUME NEW p, NEW q, NEW its \in Seq(Item), NEW at \in Point, Kept(q, p, its)
    PROVE  Kept(Clicked(q, its, at), p, its)
<1> DEFINE by == IF OnUpButton(q, at) THEN 10 ELSE IF OnDownButton(q, at) THEN -10 ELSE 0
           r == [q EXCEPT !.pos = q.pos + by]
<1>1. by \in Int
  OBVIOUS
<1>2. q \in Pane /\ q.pos \in Int
  BY DEF Kept, Pane
<1>3. Clicked(q, its, at) = IF at.bar THEN Draw(r, its) ELSE q
  BY DEF Clicked
<1> HIDE DEF by
<1>4. r \in Pane /\ r.height = q.height /\ r.csize = q.csize
  BY <1>1, <1>2 DEF Pane
<1>5. Kept(r, p, its)
  BY <1>4 DEF Kept
<1> HIDE DEF r
<1> QED
  BY <1>3, <1>5, DrawKept

\* The pointer's place in the column, also without a track.
LEMMA DragPosIsInt ==
    ASSUME NEW p \in Pane, NEW at \in Point
    PROVE  DragPos(p, at) \in Int
<1>1. p.height \in Int /\ p.csize \in Int /\ p.drag_src \in Int /\ at.y \in Int
  BY DEF Pane, Point
<1>2. LeastInt \in Int
  BY DEF LeastInt
<1>3. ASSUME NEW a \in Int, NEW b \in Int, b # 0
      PROVE  Quotient(a, b) \in Int
  <2> DEFINE x == IF a < 0 THEN -a ELSE a
             y == IF b < 0 THEN -b ELSE b
             q == x \div y
  <2>1. x \in Int /\ y \in Int /\ y > 0
    BY <1>3
  <2> HIDE DEF x, y
  <2>2. q \in Int
    BY <2>1
  <2> HIDE DEF q
  <2>3. (IF (a < 0) = (b < 0) THEN q ELSE -q) \in Int
    BY <2>2
  <2>4. Quotient(a, b) = IF (a < 0) = (b < 0) THEN q ELSE -q
    BY DEF Quotient, q, x, y
  <2> QED
    BY <2>3, <2>4
<1> DEFINE track == p.height - 2 * ButtonHeight
           a     == (-at.y + p.drag_src + Top + ButtonHeight) * p.csize
<1>4. track \in Int /\ a \in Int
  BY <1>1 DEF Top, ButtonHeight
<1>5. DragPos(p, at) = IF track = 0 THEN LeastInt ELSE Quotient(a, track)
  BY DEF DragPos
<1> HIDE DEF track, a
<1> QED
  BY <1>2, <1>3, <1>4, <1>5

\* and a motion, which stays between the ends if the drag acts.
LEMMA MoveKept ==
    ASSUME NEW p \in Pane, NEW its \in Seq(Item), NEW at \in Point
    PROVE  /\ Kept(MouseMove(p, its, at), p, its)
           /\ \/ MouseMove(p, its, at).prev_pos = p.prev_pos
              \/ \E n \in Int :
                    LET q == MouseMove(p, its, at)
                    IN  q.pos = DragClamped(p, n) /\ q.csize = ContentSize(its)
<1> DEFINE due   == p.dragging /\ p.ticks >= TicksForUpdate
           pos   == IF due THEN DragPos(p, at) ELSE p.pos
           moved == due /\ pos # p.prev_pos
           to    == IF moved THEN DragClamped(p, pos) ELSE pos
           prev  == IF moved THEN to ELSE p.prev_pos
           ticks == IF due THEN 1 ELSE IF p.dragging THEN p.ticks + 1 ELSE p.ticks
           next  == [p EXCEPT !.hovered = TRUE, !.pos = to, !.prev_pos = prev, !.ticks = ticks]
<1>1. /\ p.pos \in Int /\ p.prev_pos \in Int /\ p.ticks \in Int
      /\ p.height \in Int /\ p.csize \in Int
  BY DEF Pane
<1>2. pos \in Int
  BY <1>1, DragPosIsInt
<1> HIDE DEF pos
<1>3. to \in Int
  <2>1. Bottom(p) \in Int
    BY <1>1 DEF Bottom
  <2>2. DragClamped(p, pos) = Bottom(p) \/ DragClamped(p, pos) = 0 \/ DragClamped(p, pos) = pos
    BY DEF DragClamped
  <2>3. DragClamped(p, pos) \in Int
    BY <1>2, <2>1, <2>2
  <2> QED
    BY <1>2, <2>3
<1>4. prev \in Int /\ ticks \in Int
  <2>1. p.ticks + 1 \in Int /\ 1 \in Int
    BY <1>1
  <2> QED
    BY <1>1, <1>3, <2>1
<1>5. MouseMove(p, its, at) = IF moved THEN Draw(next, its) ELSE next
  BY DEF MouseMove, pos
<1>6. moved => to = DragClamped(p, pos)
  OBVIOUS
<1>7. ~moved => prev = p.prev_pos
  OBVIOUS
<1> HIDE DEF to, prev, ticks, moved
<1>8. /\ next \in Pane /\ next.height = p.height /\ next.csize = p.csize
      /\ next.pos = to /\ next.prev_pos = prev
  BY <1>3, <1>4 DEF Pane
<1> HIDE DEF next
<1>9. CASE moved
  <2>1. /\ Draw(next, its) \in Pane
        /\ Draw(next, its).csize = ContentSize(its)
        /\ Draw(next, its).pos = next.pos /\ Draw(next, its).height = next.height
    BY <1>8, DrawPane
  <2> QED
    BY <1>2, <1>5, <1>6, <1>8, <1>9, <2>1 DEF Kept
<1>10. CASE ~moved
  BY <1>5, <1>7, <1>8, <1>10 DEF Kept
<1> QED
  BY <1>9, <1>10

-----------------------------------------------------------------------------
(* The inductive invariant                                                 *)

TypeInv ==
    /\ main \in [width : Nat, height : Nat]
    /\ text \in Seq(Char)
    /\ box \in [width : Int, height : Int]
    /\ pane \in Pane
    /\ items \in Seq(Item)
    /\ label_count \in Int
    /\ lastmmod \in Int
    /\ tall \in BOOLEAN

\* Before the first layout there is nothing to see.
HiddenInv == ~Shown => items = <<>> /\ pane.csize = 0

\* The pane and the text box share the height of the window.
HeightInv == Shown => pane.height = main.height - Top - lastmmod

\* Every message has the height it was measured to have at the present width.
MeasuredInv ==
    \A k \in 1 .. Len(items) : items[k].height = CalcHeight(items[k].text, LabelWidth)

\* With the right number of lines there is no gap, and the pane knows the size.
StackedInv == CountIsCurrent => Stacked(items) /\ pane.csize = TotalHeight

LayoutInv == TypeInv /\ HiddenInv /\ HeightInv /\ MeasuredInv /\ StackedInv

\* LayoutInv is true of the window before its first layout.
LEMMA InitLayout == Init => LayoutInv
<1> SUFFICES ASSUME Init
             PROVE  LayoutInv
  OBVIOUS
<1>1. /\ main = [width |-> 0, height |-> 0]
      /\ text = <<>> /\ items = <<>>
      /\ box = [width |-> 0, height |-> 0]
      /\ pane = NewPane
      /\ label_count = 0 /\ lastmmod = 0 /\ tall = FALSE
  BY DEF Init
<1>2. <<>> \in Seq(Char) /\ <<>> \in Seq(Item) /\ Len(<<>>) = 0
  BY EmptySeq
<1>3. pane \in Pane /\ pane.csize = 0
  BY <1>1 DEF Pane, NewPane
<1>4. TypeInv
  <2>1. main \in [width : Nat, height : Nat] /\ box \in [width : Int, height : Int]
    <3>1. \A a \in Nat : [width |-> a, height |-> a] \in [width : Nat, height : Nat]
                       /\ [width |-> a, height |-> a] \in [width : Int, height : Int]
      OBVIOUS
    <3>2. 0 \in Nat
      OBVIOUS
    <3> QED
      BY <1>1, <3>1, <3>2, Zenon
  <2>2. label_count \in Int /\ lastmmod \in Int /\ tall \in BOOLEAN
    <3>1. 0 \in Int /\ FALSE \in BOOLEAN
      OBVIOUS
    <3> QED
      BY <1>1, <3>1, Zenon
  <2>3. text \in Seq(Char) /\ items \in Seq(Item)
    BY <1>1, <1>2
  <2> QED
    BY <1>3, <2>1, <2>2, <2>3 DEF TypeInv
<1>5. HiddenInv /\ HeightInv
  BY <1>1, <1>3 DEF HiddenInv, HeightInv, Shown
<1>6. MeasuredInv
  BY <1>1, <1>2 DEF MeasuredInv
<1>7. StackedInv
  <2>1. Stacked(items)
    BY <1>1, <1>2 DEF Stacked
  <2>2. TotalHeight = Sums(Heights(items))[0]
    BY <1>1, <1>2 DEF TotalHeight, Heights
  <2>3. TotalHeight = 0
    <3>1. Heights(items) \in Seq(Int)
      BY <1>1, <1>2, HeightsAre
    <3> QED
      BY <2>2, <3>1, SumsSteps
  <2> QED
    BY <1>3, <2>1, <2>3 DEF StackedInv
<1> QED
  BY <1>4, <1>5, <1>6, <1>7 DEF LayoutInv

\* Measured heights are not negative.
LEMMA MeasuredHeights ==
    ASSUME NEW its \in Seq(Item), NEW width \in Int,
           \A k \in 1 .. Len(its) : its[k].height = CalcHeight(its[k].text, width)
    PROVE  \A k \in 1 .. Len(its) : its[k].height \in Nat
<1>1. TAKE k \in 1 .. Len(its)
<1>2. its[k].text \in Seq(Char)
  BY HeightsAre DEF Item
<1> QED
  BY <1>2, CalcHeightIsNat

\* A handler that only touches the pane, and leaves its height alone.
LEMMA PaneStep ==
    ASSUME LayoutInv, Kept(pane', pane, items),
           UNCHANGED <<main, text, box, items, label_count, lastmmod>>, tall' \in BOOLEAN
    PROVE  LayoutInv'
<1>1. /\ pane' \in Pane /\ pane'.height = pane.height
      /\ pane'.csize = pane.csize \/ pane'.csize = ContentSize(items)
  BY DEF Kept
<1>2. TypeInv'
  BY <1>1 DEF LayoutInv, TypeInv
<1>3. HiddenInv'
  <2>1. ASSUME items = <<>>
        PROVE  ContentSize(items) = 0
    <3>1. items \in Seq(Item) /\ Len(items) = 0 /\ Stacked(items)
      BY <2>1, EmptySeq DEF Stacked, LayoutInv, TypeInv
    <3>2. \A k \in 1 .. Len(items) : items[k].height \in Nat
      BY <3>1
    <3>3. ContentSize(items) = Sums(Heights(items))[Len(items)]
      BY <3>1, <3>2, StackedSize
    <3>4. Heights(items) \in Seq(Int)
      BY <3>1, HeightsAre
    <3> QED
      BY <3>1, <3>3, <3>4, SumsSteps
  <2> QED
    BY <1>1, <2>1 DEF LayoutInv, HiddenInv, Shown
<1>4. HeightInv'
  BY <1>1 DEF LayoutInv, HeightInv, Shown
<1>5. MeasuredInv'
  BY DEF LayoutInv, MeasuredInv, LabelWidth
<1>6. StackedInv'
  <2>1. TotalHeight' = TotalHeight /\ CountIsCurrent' = CountIsCurrent
    BY DEF TotalHeight, CountIsCurrent
  <2>2. ASSUME CountIsCurrent
        PROVE  ContentSize(items) = TotalHeight
    <3>1. items \in Seq(Item) /\ Stacked(items)
      BY <2>2 DEF LayoutInv, TypeInv, StackedInv
    <3>2. \A k \in 1 .. Len(items) : items[k].height \in Nat
      <4>1. LabelWidth \in Int
        BY NicknameWidthAssumption DEF LabelWidth, LayoutInv, TypeInv
      <4> QED
        BY <3>1, <4>1, MeasuredHeights DEF LayoutInv, MeasuredInv
    <3> QED
      BY <3>1, <3>2, StackedSize DEF TotalHeight, Heights
  <2> QED
    BY <1>1, <2>1, <2>2 DEF LayoutInv, StackedInv, Stacked
<1> QED
  BY <1>2, <1>3, <1>4, <1>5, <1>6 DEF LayoutInv

\* A layout stacks what it has measured.
LEMMA RecalculateStep ==
    ASSUME TypeInv, Recalculate,
           main' \in [width : Nat, height : Nat], text' \in Seq(Char)
    PROVE  /\ items' \in Seq(Item) /\ Len(items') = Len(items)
           /\ \A k \in 1 .. Len(items) : items'[k].text = items[k].text
           /\ LabelWidth' \in Int /\ MeasuredInv' /\ Stacked(items')
           /\ box' \in [width : Int, height : Int] /\ lastmmod' \in Int /\ tall' \in BOOLEAN
           /\ LaidPane(lastmmod') \in Pane
           /\ LaidPane(lastmmod').height = main'.height - Top - lastmmod'
           /\ LaidPane(lastmmod').pos = pane.pos + lastmmod - lastmmod'
           /\ LaidPane(lastmmod').csize = pane.csize
<1> DEFINE N == Len(items)
<1>1. N \in Nat /\ DOMAIN items = 1 .. N /\ items \in Seq(Item)
  BY LenProperties DEF TypeInv
<1>2. \A k \in 1 .. N : items[k].text \in Seq(Char)
  BY <1>1, HeightsAre DEF Item
<1>3. LabelWidth' \in Int
  BY NicknameWidthAssumption DEF LabelWidth
<1>4. PICK w \in Int : w = LabelWidth'
  BY <1>3
<1> DEFINE height == [k \in 1 .. N |-> CalcHeight(items[k].text, w)]
           npos   == Sums(height)
           its    == [k \in 1 .. N |->
                         [text |-> items[k].text, y |-> npos[k - 1], height |-> height[k]]]
<1> HIDE DEF N
<1>5. items' = its
  BY <1>1, <1>4 DEF Recalculate, Restacked
<1>6. \A k \in 1 .. N : height[k] = CalcHeight(items[k].text, w) /\ height[k] \in Int
  <2>1. TAKE k \in 1 .. N
  <2>2. height[k] = CalcHeight(items[k].text, w)
    OBVIOUS
  <2>3. CalcHeight(items[k].text, w) \in Nat
    BY <1>2, CalcHeightIsNat
  <2> QED
    BY <2>2, <2>3
<1>7. height \in Seq(Int) /\ Len(height) = N
  BY <1>1, <1>6, IsASeq
<1> HIDE DEF height
<1>8. \A k \in 0 .. N : npos[k] \in Int
  BY <1>7, SumsSteps
<1> HIDE DEF npos
<1>9. \A k \in 1 .. N : its[k].text = items[k].text /\ its[k].y = npos[k - 1]
                        /\ its[k].height = height[k] /\ its[k] \in Item
  <2>1. TAKE k \in 1 .. N
  <2>2. k - 1 \in 0 .. N
    BY <1>1
  <2>3. npos[k - 1] \in Int /\ height[k] \in Int /\ items[k].text \in Seq(Char)
    BY <1>2, <1>6, <1>8, <2>2
  <2> QED
    BY <2>3 DEF Item
<1>10. its \in Seq(Item) /\ Len(its) = N
  BY <1>1, <1>9, IsASeq
<1> HIDE DEF its
<1>11. Heights(its) = height
  <2>1. DOMAIN its = 1 .. N /\ DOMAIN height = 1 .. N
    BY <1>7, <1>10, LenProperties
  <2>2. Heights(its) = [k \in 1 .. N |-> height[k]]
    BY <1>9, <2>1 DEF Heights
  <2> QED
    BY <2>1, <2>2 DEF height
<1>12. Stacked(items')
  BY <1>5, <1>9, <1>10, <1>11 DEF Stacked, npos
<1>13. MeasuredInv'
  BY <1>4, <1>5, <1>6, <1>9, <1>10 DEF MeasuredInv
<1>14. lastmmod' \in Int /\ box' \in [width : Int, height : Int] /\ tall' \in BOOLEAN
  <2>1. box.width \in Int /\ main'.width - ServerListWidth \in Int
    BY DEF TypeInv, ServerListWidth
  <2>2. PICK t \in Seq(Char) : t = text'
    OBVIOUS
  <2>3. CalcHeight(t, box.width) \in Nat
    BY <2>1, CalcHeightIsNat
  <2>4. CalcHeight(t, box.width) \in Int
    BY <2>3
  <2> QED
    BY <2>1, <2>2, <2>4 DEF Recalculate
<1>15. /\ LaidPane(lastmmod') \in Pane
       /\ LaidPane(lastmmod').height = main'.height - Top - lastmmod'
       /\ LaidPane(lastmmod').pos = pane.pos + lastmmod - lastmmod'
       /\ LaidPane(lastmmod').csize = pane.csize
  <2> DEFINE pos == pane.pos + lastmmod - lastmmod'
             high == main'.height - Top - lastmmod'
  <2>1. pos \in Int /\ high \in Int /\ pane \in Pane
    <3>1. pane \in Pane /\ lastmmod \in Int /\ lastmmod' \in Int /\ main'.height \in Int
      BY <1>14 DEF TypeInv
    <3>2. pane.pos \in Int
      BY <3>1 DEF Pane
    <3>3. \A a, b, c \in Int : a + b - c \in Int /\ a - 20 - c \in Int
      OBVIOUS
    <3>4. pane.pos + lastmmod - lastmmod' \in Int /\ main'.height - 20 - lastmmod' \in Int
      BY <3>1, <3>2, <3>3, Zenon
    <3> QED
      BY <3>1, <3>4 DEF Top
  <2>2. LaidPane(lastmmod') = [pane EXCEPT !.pos = pos, !.height = high]
    BY DEF LaidPane
  <2> HIDE DEF pos, high
  <2>3. /\ [pane EXCEPT !.pos = pos, !.height = high] \in Pane
        /\ [pane EXCEPT !.pos = pos, !.height = high].height = high
        /\ [pane EXCEPT !.pos = pos, !.height = high].pos = pos
        /\ [pane EXCEPT !.pos = pos, !.height = high].csize = pane.csize
    BY <2>1 DEF Pane
  <2> QED
    BY <2>2, <2>3 DEF pos, high
<1> QED
  BY <1>3, <1>5, <1>9, <1>10, <1>12, <1>13, <1>14, <1>15 DEF N

\* A layout that draws: the pane learns the size of the new column.
LEMMA DrawnLayoutStep ==
    ASSUME LayoutInv, Recalculate, pane' = Draw(LaidPane(lastmmod'), items'),
           main' \in [width : Nat, height : Nat], main'.width # 0,
           text' \in Seq(Char), UNCHANGED label_count
    PROVE  LayoutInv'
<1>1. /\ items' \in Seq(Item) /\ Stacked(items') /\ LabelWidth' \in Int /\ MeasuredInv'
      /\ box' \in [width : Int, height : Int] /\ lastmmod' \in Int /\ tall' \in BOOLEAN
      /\ LaidPane(lastmmod') \in Pane
      /\ LaidPane(lastmmod').height = main'.height - Top - lastmmod'
  BY RecalculateStep DEF LayoutInv
<1>2. /\ pane' \in Pane /\ pane'.csize = ContentSize(items')
      /\ pane'.height = main'.height - Top - lastmmod'
  BY <1>1, DrawPane
<1>3. TypeInv'
  BY <1>1, <1>2 DEF TypeInv, LayoutInv
<1>4. HiddenInv' /\ HeightInv'
  BY <1>2 DEF HiddenInv, HeightInv, Shown
<1>5. ContentSize(items') = Sums(Heights(items'))[Len(items')]
  <2>1. \A k \in 1 .. Len(items') : items'[k].height \in Nat
    BY <1>1, MeasuredHeights DEF MeasuredInv
  <2> QED
    BY <1>1, <2>1, StackedSize
<1>6. StackedInv'
  BY <1>1, <1>2, <1>5 DEF StackedInv, Stacked, TotalHeight, Heights
<1> QED
  BY <1>1, <1>3, <1>4, <1>6 DEF LayoutInv

\* Sending a message lays out the same column again and draws only the text box.
LEMMA SubmitStep ==
    ASSUME LayoutInv, Submit
    PROVE  LayoutInv'
<1>1. /\ main' = main /\ text' = <<>> /\ label_count' = label_count /\ Recalculate
      /\ pane' = LaidPane(lastmmod') /\ Shown
  BY DEF Submit
<1>2. text' \in Seq(Char) /\ main' \in [width : Nat, height : Nat] /\ TypeInv
  BY <1>1 DEF LayoutInv, TypeInv
<1>3. /\ items' \in Seq(Item) /\ Len(items') = Len(items)
      /\ \A k \in 1 .. Len(items) : items'[k].text = items[k].text
      /\ MeasuredInv' /\ Stacked(items')
      /\ box' \in [width : Int, height : Int] /\ lastmmod' \in Int /\ tall' \in BOOLEAN
      /\ pane' \in Pane /\ pane'.height = main'.height - Top - lastmmod'
      /\ pane'.csize = pane.csize
  BY <1>1, <1>2, RecalculateStep
<1>4. TypeInv'
  BY <1>1, <1>2, <1>3 DEF TypeInv
<1>5. HiddenInv' /\ HeightInv'
  BY <1>1, <1>3 DEF HiddenInv, HeightInv, Shown
<1>6. TotalHeight' = TotalHeight
  <2>1. LabelWidth' = LabelWidth
    BY <1>1 DEF LabelWidth
  <2>2. \A k \in 1 .. Len(items) : items'[k].height = items[k].height
    BY <1>3, <2>1 DEF LayoutInv, MeasuredInv
  <2>3. DOMAIN items' = 1 .. Len(items) /\ DOMAIN items = 1 .. Len(items)
    BY <1>2, <1>3, LenProperties DEF TypeInv
  <2>4. [k \in DOMAIN items' |-> items'[k].height] = [k \in DOMAIN items |-> items[k].height]
    BY <2>2, <2>3
  <2> QED
    BY <1>3, <2>4 DEF TotalHeight
<1>7. StackedInv'
  BY <1>1, <1>3, <1>6 DEF StackedInv, LayoutInv, CountIsCurrent, Stacked
<1> QED
  BY <1>3, <1>4, <1>5, <1>7 DEF LayoutInv

\* A message at the end of a column without gaps leaves none, and its lines are
\* counted.
LEMMA AddMessageStep ==
    ASSUME LayoutInv, NEW t \in Seq(Char), AddMessage(t)
    PROVE  /\ LayoutInv'
           /\ CountIsCurrent' = CountIsCurrent
           /\ CountIsCurrent => items'[Len(items')].y = TotalHeight
           /\ pane'.height = pane.height
<1> DEFINE N == Len(items)
           h == CalcHeight(t, LabelWidth)
           it == [text |-> t, y |-> label_count * LineHeight, height |-> h]
           c == label_count + h \div LineHeight
<1>1. /\ Shown /\ items' = Append(items, it) /\ label_count' = c
      /\ pane' = Draw(Followed(c), items')
      /\ UNCHANGED <<main, text, box, lastmmod, tall>>
  BY DEF AddMessage
<1>2. /\ items \in Seq(Item) /\ N \in Nat /\ DOMAIN items = 1 .. N /\ pane \in Pane
      /\ label_count \in Int /\ LabelWidth \in Int
  BY LenProperties, NicknameWidthAssumption DEF LayoutInv, TypeInv, LabelWidth
<1>3. h \in Nat /\ h \div 20 \in Nat /\ 20 * (h \div 20) = h
  BY <1>2, CalcHeightIsNat
<1> HIDE DEF h
<1>4. it \in Item /\ it.text = t /\ it.y = label_count * 20 /\ it.height = h
  BY <1>2, <1>3 DEF Item, LineHeight
<1>5. c \in Int /\ c * 20 = label_count * 20 + h
  <2>1. \A a \in Int, b \in Nat : (a + b) * 20 = a * 20 + 20 * b
    OBVIOUS
  <2>2. c = label_count + h \div 20
    BY DEF LineHeight
  <2> QED
    BY <1>2, <1>3, <2>1, <2>2
<1> HIDE DEF it, c, N
<1>6. /\ items' \in Seq(Item) /\ Len(items') = N + 1 /\ items'[N + 1] = it
      /\ \A k \in 1 .. N : items'[k] = items[k]
  BY <1>1, <1>2, <1>4, AppendProperties DEF N
<1>7. Followed(c) \in Pane /\ Followed(c).height = pane.height
  <2> DEFINE pos == -(c * LineHeight - pane.height)
  <2>1. pos \in Int
    BY <1>2, <1>5 DEF LineHeight, Pane
  <2> HIDE DEF pos
  <2>2. [pane EXCEPT !.pos = pos] \in Pane /\ [pane EXCEPT !.pos = pos].height = pane.height
    BY <1>2, <2>1 DEF Pane
  <2> QED
    BY <1>2, <2>2 DEF Followed, pos
<1>8. pane' \in Pane /\ pane'.height = pane.height /\ pane'.csize = ContentSize(items')
  BY <1>1, <1>6, <1>7, DrawPane
<1>9. TypeInv'
  BY <1>1, <1>5, <1>6, <1>8 DEF TypeInv, LayoutInv
<1>10. HiddenInv' /\ HeightInv'
  BY <1>1, <1>8 DEF HiddenInv, HeightInv, LayoutInv, Shown
<1>11. MeasuredInv'
  <2>1. LabelWidth' = LabelWidth
    BY <1>1 DEF LabelWidth
  <2>2. \A k \in 1 .. N + 1 : k \in 1 .. N \/ k = N + 1
    BY <1>2
  <2>3. \A k \in 1 .. N : items[k].height = CalcHeight(items[k].text, LabelWidth)
    BY DEF LayoutInv, MeasuredInv, N
  <2> QED
    BY <1>4, <1>6, <2>1, <2>2, <2>3 DEF MeasuredInv, h
<1> DEFINE old == Heights(items)
           new == Heights(items')
<1>12. /\ old \in Seq(Int) /\ new \in Seq(Int) /\ Len(old) = N /\ Len(new) = N + 1
       /\ new[N + 1] = h /\ \A k \in 1 .. N : new[k] = old[k]
  <2>1. /\ old \in Seq(Int) /\ Len(old) = N
        /\ \A k \in 1 .. N : old[k] = items[k].height
    BY <1>2, HeightsAre DEF N
  <2>2. PICK its \in Seq(Item) : its = items'
    BY <1>6
  <2>3. /\ Heights(its) \in Seq(Int) /\ Len(Heights(its)) = Len(its)
        /\ \A k \in 1 .. Len(its) : Heights(its)[k] = its[k].height
    BY HeightsAre
  <2>4. Len(its) = N + 1 /\ its[N + 1] = it /\ \A k \in 1 .. N : its[k] = items[k]
    BY <1>6, <2>2
  <2>5. N + 1 \in 1 .. N + 1 /\ \A k \in 1 .. N : k \in 1 .. N + 1
    BY <1>2
  <2>6. new = Heights(its)
    BY <2>2
  <2> HIDE DEF old, new
  <2> QED
    BY <1>4, <2>1, <2>3, <2>4, <2>5, <2>6
<1>13. TotalHeight = Sums(old)[N] /\ TotalHeight' = Sums(new)[N + 1]
  BY <1>6 DEF TotalHeight, Heights, N
<1> HIDE DEF old, new
<1>14. \A k \in 0 .. N : Sums(new)[k] = Sums(old)[k]
  <2>1. N \in Nat /\ N <= Len(old) /\ N <= Len(new)
    BY <1>2, <1>12
  <2> QED
    BY <1>12, <2>1, SumsAgree
<1>15. Sums(new)[N + 1] = Sums(old)[N] + h /\ Sums(old)[N] \in Int
  <2>1. N + 1 \in 1 .. N + 1 /\ (N + 1) - 1 = N /\ N \in 0 .. N
    BY <1>2
  <2> QED
    BY <1>12, <1>14, <2>1, SumsSteps
<1>16. CountIsCurrent' = CountIsCurrent
  <2>1. CountIsCurrent' <=> c * 20 = TotalHeight + h
    BY <1>1, <1>13, <1>15 DEF CountIsCurrent, LineHeight
  <2>2. TotalHeight \in Int
    BY <1>13, <1>15
  <2>3. \A a, b, d \in Int : a + d = b + d <=> a = b
    OBVIOUS
  <2>4. label_count * 20 \in Int /\ h \in Int
    BY <1>2, <1>3
  <2> QED
    BY <1>5, <2>1, <2>2, <2>3, <2>4 DEF CountIsCurrent, LineHeight
<1>17. ASSUME CountIsCurrent
       PROVE  Stacked(items')
  <2>1. Stacked(items) /\ label_count * 20 = TotalHeight
    BY <1>17 DEF LayoutInv, StackedInv, CountIsCurrent, LineHeight
  <2>2. \A k \in 1 .. N : items'[k].y = Sums(new)[k - 1]
    <3>1. TAKE k \in 1 .. N
    <3>2. k - 1 \in 0 .. N
      BY <1>2
    <3> QED
      BY <1>6, <1>14, <2>1, <3>2 DEF Stacked, old, N
  <2>3. items'[N + 1].y = Sums(new)[(N + 1) - 1]
    <3>1. (N + 1) - 1 = N /\ N \in 0 .. N
      BY <1>2
    <3> QED
      BY <1>4, <1>6, <1>13, <1>14, <2>1, <3>1
  <2>4. \A k \in 1 .. N + 1 : k \in 1 .. N \/ k = N + 1
    BY <1>2
  <2> QED
    BY <1>6, <2>2, <2>3, <2>4 DEF Stacked, new
<1>18. StackedInv'
  <2>1. \A k \in 1 .. Len(items') : items'[k].height \in Nat
    <3>1. LabelWidth' \in Int
      BY <1>1, <1>2 DEF LabelWidth
    <3> QED
      BY <1>6, <1>11, <3>1, MeasuredHeights DEF MeasuredInv
  <2>2. CountIsCurrent => ContentSize(items') = TotalHeight'
    BY <1>6, <1>13, <1>17, <2>1, StackedSize DEF new
  <2> QED
    BY <1>8, <1>16, <1>17, <2>2 DEF StackedInv, Stacked
<1>19. CountIsCurrent => items'[Len(items')].y = TotalHeight
  BY <1>4, <1>6 DEF CountIsCurrent, LineHeight
<1> QED
  BY <1>8, <1>9, <1>10, <1>11, <1>16, <1>18, <1>19 DEF LayoutInv

\* What the pointer does.
PointerStep ==
    \/ \E b \in BOOLEAN : ClickBar(b) \/ Wheel(b)
    \/ \E at \in Points : \/ LeftMouseDown(at) \/ LeftMouseUp(at) \/ LeftMouseUpTall(at)
                         \/ MotionIn(at) \/ MotionOut(at)

\* The pointer moves the column in its pane, and nothing else.
LEMMA PointerKeeps ==
    ASSUME LayoutInv, PointerStep
    PROVE  /\ Kept(pane', pane, items) /\ tall' \in BOOLEAN
           /\ UNCHANGED <<main, text, box, items, label_count, lastmmod>>
<1>1. pane \in Pane /\ items \in Seq(Item) /\ tall \in BOOLEAN
  BY DEF LayoutInv, TypeInv
<1>2. Kept(pane, pane, items)
  BY <1>1 DEF Kept
<1>3. Kept(Draw(pane, items), pane, items)
  BY <1>1, <1>2, DrawKept
<1>4. ASSUME NEW b \in BOOLEAN, ClickBar(b)
      PROVE  /\ Kept(pane', pane, items) /\ tall' \in BOOLEAN
             /\ UNCHANGED <<main, text, box, items, label_count, lastmmod>>
  BY <1>1, <1>3, <1>4 DEF ClickBar
<1>5. ASSUME NEW b \in BOOLEAN, Wheel(b)
      PROVE  /\ Kept(pane', pane, items) /\ tall' \in BOOLEAN
             /\ UNCHANGED <<main, text, box, items, label_count, lastmmod>>
  BY <1>1, <1>5, ScrollKept DEF Wheel, OnlyPane
<1>6. ASSUME NEW at \in Points,
             \/ LeftMouseDown(at) \/ LeftMouseUp(at) \/ LeftMouseUpTall(at)
             \/ MotionIn(at) \/ MotionOut(at)
      PROVE  /\ Kept(pane', pane, items) /\ tall' \in BOOLEAN
             /\ UNCHANGED <<main, text, box, items, label_count, lastmmod>>
  <2>1. at \in Point
    BY PointsAssumption DEF Point
  <2>2. CASE LeftMouseDown(at)
    BY <1>1, <2>1, <2>2, PressKept DEF LeftMouseDown, OnlyPane
  <2>3. CASE LeftMouseUp(at)
    <3>1. Kept(DragOver(pane), pane, items)
      BY <1>1, <2>1, PressKept
    <3>2. Kept(MouseUp(pane, items), pane, items)
      BY <1>1, <3>1, DrawKept DEF MouseUp
    <3>3. Kept(Clicked(MouseUp(pane, items), items, at), pane, items)
      BY <1>1, <2>1, <3>2, ClickKept
    <3> QED
      BY <1>1, <2>3, <3>3 DEF LeftMouseUp, OnlyPane
  <2>4. CASE LeftMouseUpTall(at)
    <3>1. Kept(Clicked(Draw(pane, items), items, at), pane, items)
      BY <1>1, <1>3, <2>1, ClickKept
    <3> QED
      BY <1>1, <1>3, <2>4, <3>1 DEF LeftMouseUpTall, OnlyPane
  <2>5. CASE MotionIn(at)
    BY <1>1, <2>1, <2>5, MoveKept DEF MotionIn, OnlyPane
  <2>6. CASE MotionOut(at)
    BY <1>1, <1>2, <2>1, <2>6, PressKept DEF MotionOut, OnlyPane
  <2> QED
    BY <1>6, <2>2, <2>3, <2>4, <2>5, <2>6
<1> QED
  BY <1>4, <1>5, <1>6 DEF PointerStep

\* Every other step but a message is a layout.
LayoutStep ==
    /\ UNCHANGED label_count
    /\ Recalculate
    /\ main' \in [width : Nat, height : Nat] /\ main'.width # 0
    /\ text' \in Seq(Char)
    /\ \/ Submit
       \/ pane' = Draw(LaidPane(lastmmod'), items')

\* Every step is the pointer's, a layout, or a message.
LEMMA NextCases ==
    ASSUME LayoutInv, Next
    PROVE  PointerStep \/ LayoutStep \/ \E t \in MessageTexts : AddMessage(t)
<1>1. main \in [width : Nat, height : Nat] /\ text \in Seq(Char)
  BY DEF LayoutInv, TypeInv
<1>2. ASSUME NEW t \in Seq(Char), Edit(t)
      PROVE  LayoutStep
  BY <1>1, <1>2 DEF Edit, LayoutStep, Shown
<1>3. ASSUME NEW s \in WindowSizes, Resize(s)
      PROVE  LayoutStep
  <2>1. s \in [width : Nat, height : Nat] /\ s.width > 0 /\ s.width \in Nat
    BY WindowSizesAssumption
  <2>2. s.width # 0
    BY <2>1
  <2> QED
    BY <1>1, <1>3, <2>1, <2>2 DEF Resize, LayoutStep
<1>4. ASSUME NEW ch \in Keys, EnterCharacter(ch)
      PROVE  LayoutStep
  <2>1. Append(text, ch) \in Seq(Char)
    BY <1>1, KeysAssumption, AppendProperties
  <2> QED
    BY <1>2, <1>4, <2>1 DEF EnterCharacter
<1>5. ASSUME Backspace
      PROVE  LayoutStep
  <2>1. Front(text) \in Seq(Char)
    <3>1. Len(text) \in Nat /\ Len(text) # 0
      BY <1>1, <1>5, LenProperties, EmptySeq DEF Backspace
    <3>2. 1 \in 1 .. Len(text) + 1 /\ Len(text) - 1 \in 0 .. Len(text)
      BY <3>1
    <3>3. SubSeq(text, 1, Len(text) - 1) \in Seq(Char)
      BY <1>1, <3>2, SubSeqProperties
    <3> QED
      BY <3>3 DEF Front
  <2> QED
    BY <1>2, <1>5, <2>1 DEF Backspace
<1>6. ASSUME Submit
      PROVE  LayoutStep
  <2>1. <<>> \in Seq(Char)
    BY EmptySeq
  <2> QED
    BY <1>1, <1>6, <2>1 DEF Submit, LayoutStep, Shown
<1> QED
  BY <1>3, <1>4, <1>5, <1>6 DEF Next, PointerStep

\* Every step keeps LayoutInv.
LEMMA NextLayout == LayoutInv /\ [Next]_vars => LayoutInv'
<1> SUFFICES ASSUME LayoutInv, [Next]_vars
             PROVE  LayoutInv'
  OBVIOUS
<1>1. CASE PointerStep
  BY <1>1, PointerKeeps, PaneStep
<1>2. CASE LayoutStep
  BY <1>2, SubmitStep, DrawnLayoutStep DEF LayoutStep
<1>3. CASE \E t \in MessageTexts : AddMessage(t)
  BY <1>3, AddMessageStep, MessageTextsAssumption
<1>4. CASE UNCHANGED vars
  BY <1>4 DEF vars, LayoutInv, TypeInv, HiddenInv, HeightInv, MeasuredInv, StackedInv, Shown,
              CountIsCurrent, TotalHeight, LabelWidth
<1> QED
  BY <1>1, <1>2, <1>3, <1>4, NextCases

\* The column is laid out as the pane and the counters say, in every state of
\* every window: the inductive invariant behind the theorems below.
THEOREM Layout == Spec => []LayoutInv
<1> QED
  BY InitLayout, NextLayout, PTL DEF Spec

-----------------------------------------------------------------------------
(* Theorems                                                                *)

\* A prefix of a column without gaps ends where the next item begins.
LEMMA PrefixSize ==
    ASSUME NEW its \in Seq(Item), Stacked(its), \A k \in 1 .. Len(its) : its[k].height \in Nat,
           NEW k \in 1 .. Len(its)
    PROVE  ContentSize(SubSeq(its, 1, k - 1)) = its[k].y
<1> DEFINE N == Len(its)
           n == k - 1
           pre == SubSeq(its, 1, n)
<1>1. N \in Nat /\ n \in Nat /\ n <= N /\ \A j \in 1 .. n : j \in 1 .. N
  BY LenProperties
<1>2. pre \in Seq(Item) /\ Len(pre) = n /\ \A j \in 1 .. n : pre[j] = its[j]
  <2>1. n \in 0 .. Len(its) /\ 1 \in 1 .. Len(its) + 1 /\ n \in 1 - 1 .. Len(its)
    BY <1>1
  <2> QED
    BY <1>1, <2>1, SubSeqProperties
<1> HIDE DEF N, n, pre
<1>3. /\ Heights(its) \in Seq(Int) /\ Len(Heights(its)) = N
      /\ \A j \in 1 .. N : Heights(its)[j] = its[j].height
  BY HeightsAre DEF N
<1>4. /\ Heights(pre) \in Seq(Int) /\ Len(Heights(pre)) = n
      /\ \A j \in 1 .. n : Heights(pre)[j] = pre[j].height
  BY <1>2, HeightsAre
<1>5. \A j \in 1 .. n : Heights(its)[j] = Heights(pre)[j]
  BY <1>1, <1>2, <1>3, <1>4
<1>6. \A j \in 0 .. n : Sums(Heights(its))[j] = Sums(Heights(pre))[j]
  <2>1. n <= Len(Heights(its)) /\ n <= Len(Heights(pre))
    BY <1>1, <1>3, <1>4
  <2> QED
    BY <1>1, <1>3, <1>4, <1>5, <2>1, SumsAgree
<1>7. Stacked(pre)
  <2>1. \A j \in 1 .. n : pre[j].y = Sums(Heights(pre))[j - 1]
    <3>1. TAKE j \in 1 .. n
    <3>2. j - 1 \in 0 .. n /\ j \in 1 .. N
      BY <1>1
    <3> QED
      BY <1>2, <1>6, <3>2 DEF Stacked, N
  <2> QED
    BY <1>2, <2>1 DEF Stacked
<1>8. \A j \in 1 .. Len(pre) : pre[j].height \in Nat
  BY <1>1, <1>2 DEF N
<1>9. ContentSize(pre) = Sums(Heights(pre))[n]
  BY <1>2, <1>7, <1>8, StackedSize
<1>10. n \in 0 .. n
  BY <1>1
<1> QED
  BY <1>6, <1>9, <1>10 DEF Stacked, n, pre

\* While label_count is right the messages stand one below the other without a
\* gap, whichever of client_add_message and client_recalculate_sizes placed them.
THEOREM ColumnCorrect == Spec => []ColumnIsStacked
<1>1. LayoutInv => ColumnIsStacked
  <2> SUFFICES ASSUME LayoutInv, CountIsCurrent
               PROVE  /\ \A k \in DOMAIN items :
                             items[k].y = ContentSize(SubSeq(items, 1, k - 1))
                      /\ pane.csize = TotalHeight
    BY DEF ColumnIsStacked
  <2>1. /\ items \in Seq(Item) /\ DOMAIN items = 1 .. Len(items)
        /\ Stacked(items) /\ pane.csize = TotalHeight
    BY LenProperties DEF LayoutInv, TypeInv, StackedInv
  <2>2. \A k \in 1 .. Len(items) : items[k].height \in Nat
    <3>1. LabelWidth \in Int
      BY NicknameWidthAssumption DEF LabelWidth, LayoutInv, TypeInv
    <3> QED
      BY <2>1, <3>1, MeasuredHeights DEF LayoutInv, MeasuredInv
  <2> QED
    BY <2>1, <2>2, PrefixSize
<1> QED
  BY <1>1, Layout, PTL

\* Typing and sending keep the reader's distance to the end of the messages
\* (the pos of client_recalculate_sizes).
THEOREM ReadingPlaceCorrect == Spec => ReadingPlaceKept
<1>1. LayoutInv /\ [Next]_vars =>
          [UNCHANGED main => pane'.height = pane.height
                             \/ pane'.pos - pane'.height = pane.pos - pane.height]_vars
  <2> SUFFICES ASSUME LayoutInv, Next, main' = main
               PROVE  pane'.height = pane.height
                      \/ pane'.pos - pane'.height = pane.pos - pane.height
    OBVIOUS
  <2>1. CASE PointerStep
    BY <2>1, PointerKeeps DEF Kept
  <2>2. CASE LayoutStep
    <3>1. /\ LaidPane(lastmmod') \in Pane /\ items' \in Seq(Item)
          /\ LaidPane(lastmmod').height = main'.height - Top - lastmmod'
          /\ LaidPane(lastmmod').pos = pane.pos + lastmmod - lastmmod'
          /\ lastmmod' \in Int
      BY <2>2, RecalculateStep DEF LayoutStep, LayoutInv
    <3>2. /\ pane'.height = LaidPane(lastmmod').height
          /\ pane'.pos = LaidPane(lastmmod').pos
      BY <2>2, <3>1, DrawPane DEF LayoutStep, Submit
    <3>3. pane.height = main.height - 20 - lastmmod
      BY <2>2 DEF LayoutStep, LayoutInv, HeightInv, Shown, Top
    <3>4. /\ pane'.height = main.height - 20 - lastmmod'
          /\ pane'.pos = pane.pos + lastmmod - lastmmod'
      BY <3>1, <3>2 DEF Top
    <3>5. pane.pos \in Int /\ lastmmod \in Int /\ main.height \in Int
      BY DEF LayoutInv, TypeInv, Pane
    <3>6. \A p, m, l, n \in Int : (p + l - n) - (m - 20 - n) = p - (m - 20 - l)
      OBVIOUS
    <3> QED
      BY <3>1, <3>3, <3>4, <3>5, <3>6
  <2>3. CASE \E t \in MessageTexts : AddMessage(t)
    BY <2>3, AddMessageStep, MessageTextsAssumption
  <2> QED
    BY <2>1, <2>2, <2>3, NextCases
<1> QED
  BY <1>1, Layout, PTL DEF Spec, ReadingPlaceKept

\* What is painted when a message has arrived.
LEMMA NewestPainted ==
    ASSUME LayoutInv, NEW t \in Seq(Char), AddMessage(t)
    PROVE  \/ Len(items') \in pane'.drawn
           \/ ~CountIsCurrent
           \/ label_count' * LineHeight = pane.height
           \/ Last(items').height > pane.height
<1> SUFFICES ASSUME CountIsCurrent, label_count' * LineHeight # pane.height,
                    ~(Last(items').height > pane.height)
             PROVE  Len(items') \in pane'.drawn
  OBVIOUS
<1>1. /\ items' \in Seq(Item) /\ pane \in Pane /\ label_count' \in Int
      /\ CountIsCurrent' /\ pane'.csize = TotalHeight' /\ Stacked(items')
      /\ items'[Len(items')].y = TotalHeight
  BY AddMessageStep DEF LayoutInv, TypeInv, StackedInv, Stacked
<1> DEFINE n == Len(items')
           last == items'[n]
           size == label_count' * 20
           p == Followed(label_count')
<1>2. pane' = Draw(p, items') /\ Len(items) \in Nat
  BY LenProperties DEF AddMessage, LayoutInv, TypeInv
<1>3. n \in 1 .. n /\ last \in Item
  <2>1. items' = Append(items, [text |-> t, y |-> label_count * LineHeight,
                                height |-> CalcHeight(t, LabelWidth)])
    BY DEF AddMessage
  <2>2. n = Len(items) + 1
    <3>1. items \in Seq(Item)
      BY DEF LayoutInv, TypeInv
    <3> QED
      BY <1>2, <2>1, <3>1
  <2>3. n \in 1 .. n
    BY <1>2, <2>2
  <2> QED
    BY <1>1, <2>3, HeightsAre
<1>4. last.y + last.height = size /\ last.y \in Nat /\ last.height \in Int
  <2>1. last.y = Sums(Heights(items'))[n - 1] /\ TotalHeight' = Sums(Heights(items'))[n]
    BY <1>1, <1>3 DEF Stacked, TotalHeight, Heights
  <2>2. /\ Heights(items') \in Seq(Int) /\ Len(Heights(items')) = n
        /\ Heights(items')[n] = last.height
        /\ \A k \in 1 .. n : Heights(items')[k] \in Nat
    <3>1. \A k \in 1 .. n : items'[k].height \in Nat
      <4>1. LabelWidth' \in Int /\ MeasuredInv'
        <5>1. LabelWidth \in Int
          BY NicknameWidthAssumption DEF LayoutInv, TypeInv, LabelWidth
        <5>2. LabelWidth' = LabelWidth
          BY DEF AddMessage, LabelWidth
        <5> QED
          BY <5>1, <5>2, AddMessageStep DEF LayoutInv
      <4> QED
        BY <1>1, <4>1, MeasuredHeights DEF MeasuredInv
    <3> QED
      BY <1>1, <1>3, <3>1, HeightsAre
  <2>3. /\ Sums(Heights(items'))[n] = Sums(Heights(items'))[n - 1] + last.height
        /\ Sums(Heights(items'))[0] = 0
    BY <1>3, <2>2, SumsSteps
  <2>4. 0 \in 0 .. n /\ n - 1 \in 0 .. n /\ 0 <= n - 1
    BY <1>3
  <2>5. Sums(Heights(items'))[0] <= Sums(Heights(items'))[n - 1]
    BY <2>2, <2>4, SumsGrow
  <2>6. last.y \in Int /\ last.height \in Int
    BY <1>3 DEF Item
  <2>7. last.y \in Nat
    BY <2>1, <2>3, <2>5, <2>6
  <2> QED
    BY <1>1, <2>1, <2>3, <2>6, <2>7 DEF CountIsCurrent, LineHeight
<1>5. size # pane.height /\ last.height <= pane.height /\ size \in Int /\ pane.height \in Int
  <2>1. pane.height \in Int /\ last.height \in Int
    BY <1>1, <1>4 DEF Pane
  <2>2. ~(last.height > pane.height) /\ size # pane.height
    BY DEF Last, LineHeight
  <2>3. size \in Int
    BY <1>1
  <2> HIDE DEF last, size
  <2> QED
    BY <2>1, <2>2, <2>3
<1>6. /\ p \in Pane /\ p.height = pane.height
      /\ size > pane.height => p.pos = -(size - pane.height)
  <2> DEFINE pos == -(size - pane.height)
  <2>1. pos \in Int
    BY <1>5
  <2>2. p = IF size > pane.height THEN [pane EXCEPT !.pos = pos] ELSE pane
    BY DEF Followed, LineHeight
  <2> HIDE DEF pos, size, p
  <2>3. [pane EXCEPT !.pos = pos] \in Pane /\ [pane EXCEPT !.pos = pos].height = pane.height
        /\ [pane EXCEPT !.pos = pos].pos = pos
    BY <1>1, <2>1 DEF Pane
  <2> QED
    BY <1>1, <2>2, <2>3 DEF pos
<1>7. ContentSize(items') = size
  BY <1>1, <1>2, <1>6, DrawPane DEF CountIsCurrent, LineHeight
<1> DEFINE y == last.y + (IF size >= pane.height THEN p.pos ELSE 0)
<1>8. y >= 0 /\ y + last.height <= pane.height
  <2> HIDE DEF last, size, p
  <2> DEFINE ly == last.y
             lh == last.height
             high == pane.height
  <2>1. ly \in Nat /\ lh \in Int /\ size \in Int /\ high \in Int
        /\ ly + lh = size /\ size # high /\ lh <= high
    BY <1>4, <1>5
  <2>2. CASE size > high
    <3>1. y = ly + -(size - high)
      BY <1>6, <2>1, <2>2
    <3>2. \A a, b, c, h \in Int : a + b = c /\ b <= h =>
                a + -(c - h) >= 0 /\ a + -(c - h) + b <= h
      OBVIOUS
    <3>3. ly \in Int
      BY <2>1
    <3> HIDE DEF y, ly, lh, high
    <3>4. y >= 0 /\ y + lh <= high
      BY <2>1, <3>1, <3>2, <3>3
    <3> QED
      BY <3>4 DEF lh, high
  <2>3. CASE size < high
    <3>1. y = ly + 0
      BY <2>1, <2>3
    <3> HIDE DEF y, ly, lh, high
    <3> QED
      BY <2>1, <2>3, <3>1 DEF ly, lh, high
  <2> QED
    BY <2>1, <2>2, <2>3
<1>9. pane'.drawn = {k \in 1 .. n :
                        LET z == items'[k].y + (IF ContentSize(items') >= p.height
                                                THEN p.pos ELSE 0)
                        IN  z >= 0 /\ z + items'[k].height <= p.height}
  BY <1>1, <1>2, <1>6, DrawPane
<1> QED
  BY <1>3, <1>6, <1>7, <1>8, <1>9

\* A message that arrives is painted wherever the reader was, but for a column
\* exactly as high as the pane (client_add_message).
THEOREM NewestCorrect == Spec => NewestShown
<1> DEFINE Newest == Len(items') > Len(items) =>
                        \/ Len(items') \in pane'.drawn
                        \/ ~CountIsCurrent
                        \/ label_count' * LineHeight = pane.height
                        \/ Last(items').height > pane.height
<1>1. LayoutInv /\ [Next]_vars => [Newest]_vars
  <2> SUFFICES ASSUME LayoutInv, Next, Len(items') > Len(items)
               PROVE  Newest
    OBVIOUS
  <2>1. items \in Seq(Item) /\ Len(items) \in Nat /\ ~(Len(items) > Len(items))
    BY LenProperties DEF LayoutInv, TypeInv
  <2>2. ~PointerStep
    <3> SUFFICES ASSUME PointerStep
                 PROVE  FALSE
      OBVIOUS
    <3>1. items' = items
      BY PointerKeeps
    <3> QED
      BY <2>1, <3>1
  <2>3. ~LayoutStep
    <3> SUFFICES ASSUME LayoutStep
                 PROVE  FALSE
      OBVIOUS
    <3>1. Len(items') = Len(items)
      BY RecalculateStep DEF LayoutStep, LayoutInv
    <3> QED
      BY <2>1, <3>1
  <2>4. PICK t \in MessageTexts : AddMessage(t)
    BY <2>2, <2>3, NextCases
  <2> QED
    BY <2>4, NewestPainted, MessageTextsAssumption
<1> QED
  BY <1>1, Layout, PTL DEF Spec, NewestShown

\* The wheel and a drag that draws keep to the ends of the column.
THEOREM ScrollCorrect == Spec => []ScrollsWithinColumn
<1>1. LayoutInv => ScrollsWithinColumn
  <2> SUFFICES ASSUME LayoutInv, InRange(pane), pane.csize = ContentSize(items)
               PROVE  /\ InRange(ScrollUp(pane, items))
                      /\ InRange(ScrollDown(pane, items))
                      /\ \A at \in Points :
                            LET to == MouseMove(pane, items, at)
                            IN  Inside(pane, at) /\ to.prev_pos # pane.prev_pos => InRange(to)
    BY DEF ScrollsWithinColumn
  <2>1. pane \in Pane /\ items \in Seq(Item)
    BY DEF LayoutInv, TypeInv
  <2>2. pane.pos \in Int /\ pane.height \in Int /\ pane.csize \in Int
    BY <2>1 DEF Pane
  <2> DEFINE bottom == pane.height - pane.csize
  <2>3. bottom \in Int /\ (pane.csize >= pane.height => bottom <= pane.pos /\ pane.pos <= 0)
        /\ (pane.csize >= pane.height => bottom <= 0)
    BY <2>2 DEF InRange, Bottom
  <2>4. ASSUME NEW q, q.csize = pane.csize, q.height = pane.height,
               bottom <= 0 => bottom <= q.pos /\ q.pos <= 0
        PROVE  InRange(q)
    BY <2>3, <2>4 DEF InRange, Bottom
  <2>5. InRange(ScrollUp(pane, items))
    <3> DEFINE up == IF pane.pos < -10 THEN pane.pos + 10 ELSE 0
               p  == [pane EXCEPT !.pos = up]
    <3>1. up \in Int /\ (bottom <= 0 => bottom <= up /\ up <= 0)
      BY <2>2, <2>3
    <3>2. ScrollUp(pane, items) = Draw(p, items)
      BY DEF ScrollUp
    <3> HIDE DEF up, bottom
    <3>3. p \in Pane /\ p.pos = up /\ p.height = pane.height
      BY <2>1, <3>1 DEF Pane
    <3> HIDE DEF p
    <3>4. /\ Draw(p, items).csize = ContentSize(items)
          /\ Draw(p, items).pos = up /\ Draw(p, items).height = pane.height
      BY <2>1, <3>3, DrawPane
    <3> QED
      BY <2>4, <3>1, <3>2, <3>4
  <2>6. InRange(ScrollDown(pane, items))
    <3> DEFINE down == IF pane.pos > bottom + 10 THEN pane.pos - 10 ELSE bottom
               p    == [pane EXCEPT !.pos = down]
    <3>1. down \in Int /\ (bottom <= 0 => bottom <= down /\ down <= 0)
      BY <2>2, <2>3
    <3>2. ScrollDown(pane, items) = Draw(p, items)
      BY DEF ScrollDown, Bottom
    <3> HIDE DEF down, bottom
    <3>3. p \in Pane /\ p.pos = down /\ p.height = pane.height
      BY <2>1, <3>1 DEF Pane
    <3> HIDE DEF p
    <3>4. /\ Draw(p, items).csize = ContentSize(items)
          /\ Draw(p, items).pos = down /\ Draw(p, items).height = pane.height
      BY <2>1, <3>3, DrawPane
    <3> QED
      BY <2>4, <3>1, <3>2, <3>4
  <2>7. ASSUME NEW at \in Points, MouseMove(pane, items, at).prev_pos # pane.prev_pos
        PROVE  InRange(MouseMove(pane, items, at))
    <3> DEFINE q == MouseMove(pane, items, at)
    <3>1. at \in Point
      BY PointsAssumption DEF Point
    <3>2. PICK n \in Int : q.pos = DragClamped(pane, n) /\ q.csize = ContentSize(items)
      BY <2>1, <2>7, <3>1, MoveKept
    <3>3. q.height = pane.height
      BY <2>1, <3>1, MoveKept DEF Kept
    <3> HIDE DEF q
    <3>4. q.pos = IF n < bottom + 10 THEN bottom ELSE IF n > -10 THEN 0 ELSE n
      BY <3>2 DEF DragClamped, Bottom
    <3>5. bottom <= 0 => bottom <= q.pos /\ q.pos <= 0
      <4> HIDE DEF bottom
      <4> QED
        BY <2>3, <3>4
    <3>6. q.csize = pane.csize
      BY <3>2
    <3> HIDE DEF bottom
    <3>7. InRange(q)
      BY <2>4, <3>3, <3>5, <3>6
    <3> QED
      BY <3>7 DEF q
  <2> QED
    BY <2>5, <2>6, <2>7
<1> QED
  BY <1>1, Layout, PTL

\* What calc_height measured is enough for what draw paints, for the texts and widths
\* of the constants and for every message that has been laid out (client.cc:275 and
\* client.cc:418).
THEOREM PaintedCorrect == Spec => []PaintedAsMeasured
<1>1. DrawAgreesWithHeight
  <2>1. ASSUME NEW str \in Texts
        PROVE  str \in Seq(Char)
    <3>1. PICK n \in 0 .. MaxLine : str \in [1 .. n -> Char]
      BY DEF Texts
    <3>2. n \in Nat
      BY MaxLineAssumption
    <3> QED
      BY <3>1, <3>2
  <2>2. \A width \in LineWidths : width \in Int
    BY LineWidthsAssumption
  <2> QED
    BY <2>1, <2>2, LineBreaksAgree DEF DrawAgreesWithHeight
<1>2. LayoutInv => PaintedAsMeasured
  <2> SUFFICES ASSUME LayoutInv, NEW k \in DOMAIN items
               PROVE  DrawnHeight(items[k].text, LabelWidth) <= items[k].height
    BY <1>1 DEF PaintedAsMeasured
  <2>1. k \in 1 .. Len(items) /\ items[k] \in Item
    BY LenProperties, ElementOfSeq DEF LayoutInv, TypeInv
  <2>2. items[k].text \in Seq(Char) /\ items[k].height = CalcHeight(items[k].text, LabelWidth)
    BY <2>1 DEF Item, LayoutInv, MeasuredInv
  <2>3. LabelWidth \in Int
    BY NicknameWidthAssumption DEF LabelWidth, LayoutInv, TypeInv
  <2> QED
    BY <2>2, <2>3, DrawnFits
<1> QED
  BY <1>2, Layout, PTL

\* A layout that keeps the width of the text box leaves it high enough for its lines
\* (client.cc:394 and client.cc:407), for any text, font and sizes.
THEOREM TextBoxCorrect == Spec => TextBoxFits
<1>1. ASSUME LayoutInv, LayoutInv', Next, ~UNCHANGED <<main, text, box>>, box'.width = box.width
      PROVE  DrawnHeight(text', box'.width) <= box'.height
  <2>1. text' \in Seq(Char) /\ box.width \in Int
    BY <1>1 DEF LayoutInv, TypeInv
  <2>2. Recalculate
    BY <1>1
    DEF Next, Resize, EnterCharacter, Edit, Backspace, Submit, AddMessage, ClickBar, Wheel,
        LeftMouseDown, LeftMouseUp, LeftMouseUpTall, MotionIn, MotionOut, OnlyPane
  <2>3. box'.height = CalcHeight(text', box.width)
    BY <2>2 DEF Recalculate
  <2> QED
    BY <1>1, <2>1, <2>3, DrawnFits
<1>2. LayoutInv /\ LayoutInv' /\ [Next]_vars => [box'.width = box.width =>
            DrawnHeight(text', box'.width) <= box'.height]_<<main, text, box>>
  BY <1>1 DEF vars
<1> QED
  BY <1>2, Layout, PTL DEF Spec, TextBoxFits
=============================================================================
