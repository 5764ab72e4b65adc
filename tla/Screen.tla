-------------------------------- MODULE Screen --------------------------------
(***************************************************************************)
(* What the drawing instructions promise, in pixels: four pages, of which  *)
(* one is drawn to, one was shown last and one is to be shown next.  Every *)
(* instruction, with its operands, has one outcome (two copies apart, that *)
(* C does not define); so has every row of a shape, which goes from one    *)
(* edge to the other.                                                      *)
(*                                                                         *)
(* op is the input of the machine: what the step has just been asked for.  *)
(***************************************************************************)
EXTENDS Integers, Sequences, FiniteSets

CONSTANTS
  W, H,          \* the width and the height of a page, in pixels
  Colors,        \* the colours: indices into the palette
  CharW, CharH,  \* the size of a character, in pixels
  Pictures       \* what pages with pictures look like

Pages == 0 .. 3
Pixels == (0 .. W - 1) \X (0 .. H - 1)

BLEND == 16
PAGE0 == 17
FRONT == 254
BACK == 255

\* A new line is a set of pixels that no character is.
NewLine == {<<-1, -1>>}

VARIABLES
  page,         \* the pages: functions of the pixels
  work,         \* the page that is drawn to
  front, back,  \* the pages that was shown last, and that is to be shown next
  row,          \* the row of the shape that is drawn next
  op            \* what this step was asked for, with its operands

turned == <<work, front, back>>
vars == <<page, turned, row, op>>

\* The eight lighter colours differ from the darker ones in bit 3.
Light(c) == IF c < 8 THEN c + 8 ELSE c

\* What a pixel becomes that is painted on page p.
Inked(p, xy, ink) ==
  CASE ink = BLEND -> Light(page[p][xy])
    [] ink = PAGE0 -> page[0][xy]
    [] OTHER       -> ink

\* The page of an identifier; what is none means page 0.
Named(id) ==
  CASE id \in Pages -> id
    [] id = FRONT   -> front
    [] id = BACK    -> back
    [] OTHER        -> 0

\* The pixels of a row from x1 to x2.  Edges that have crossed are drawn between, unless
\* one is beyond the side of the page at which it should not be.
Span(x1, x2, y) ==
  {xy \in Pixels : xy[2] = y /\ \/ xy[1] \in x1 .. x2
                                \/ xy[1] \in x2 .. x1 /\ x1 < W /\ x2 >= 0}

\* The place of the k-th character of a text: its line and its column in it.
NewLines(s, k) == {n \in 1 .. k - 1 : s[n] = NewLine}
LineOf(s, k) == Cardinality(NewLines(s, k))
ColumnOf(s, k) == Cardinality({n \in 1 .. k - 1 : \A m \in NewLines(s, k) : m < n})

\* The pixels of a text whose first character is in column x, at height y.
\* A character that does not fit on the page is left out.
Text(s, x, y) ==
  LET left(k) == (x + ColumnOf(s, k)) * CharW
      top(k) == y + LineOf(s, k) * CharH
      fits(k) == s[k] # NewLine /\ left(k) + CharW <= W /\ top(k) + CharH <= H
  IN  UNION {{<<left(k) + d[1], top(k) + d[2]>> : d \in s[k]} : k \in {n \in DOMAIN s : fits(n)}}

-----------------------------------------------------------------------------
\* The pixels of a region get the ink; nothing else changes.
Paint(p, region, ink) ==
  page' = [q \in Pages |-> [xy \in Pixels |->
             IF q = p /\ xy \in region THEN Inked(p, xy, ink) ELSE page[q][xy]]]

\* Page s goes to page p, moved down by v: what nothing comes to stays as it is.
Shift(s, p, v) ==
  page' = [q \in Pages |-> [xy \in Pixels |->
             IF q = p /\ xy[2] - v \in 0 .. H - 1 THEN page[s][<<xy[1], xy[2] - v>>]
             ELSE page[q][xy]]]

\* A page that is moved within itself, where source and target overlap: C does not say
\* what comes to the target, but nothing else changes.
Smear(p, v) ==
  /\ page' \in [Pages -> [Pixels -> Colors]]
  /\ \A q \in Pages, xy \in Pixels :
       ~ (q = p /\ xy[2] - v \in 0 .. H - 1) => page'[q][xy] = page[q][xy]

Select ==
  /\ op'.do = "select"
  /\ work' = Named(op'.page)
  /\ UNCHANGED <<page, front, back, row>>

Fill ==
  /\ op'.do = "fill"
  /\ Paint(Named(op'.page), Pixels, op'.ink)
  /\ UNCHANGED <<turned, row>>

\* Identifiers from 128 on, but for those of the front and the back, ask for one of the
\* four pages and a scroll; bit 6 of the others means nothing.
Scrolls(id) == id \in 128 .. 253
SourceOf(id) ==
  CASE Scrolls(id) -> id % 4
    [] id < 128    -> Named(id % 64)
    [] OTHER       -> Named(id)

Copy ==
  /\ op'.do = "copy"
  /\ LET s == SourceOf(op'.from)
         p == Named(op'.to)
         v == IF Scrolls(op'.from) THEN op'.scroll ELSE 0
     IN  IF op'.from = op'.to \/ v \notin 1 - H .. H - 1
         THEN UNCHANGED page
         ELSE Shift(s, p, v) \/ (s = p /\ v # 0 /\ 2 * v \in 1 - H .. H - 1 /\ Smear(p, v))
  /\ UNCHANGED <<turned, row>>

Load ==
  /\ op'.do = "load"
  /\ op'.picture \in Pictures
  /\ page' = [page EXCEPT ![0] = op'.picture]
  /\ UNCHANGED <<turned, row>>

Write ==
  /\ op'.do = "write"
  /\ Paint(work, Text(op'.text, op'.at[1], op'.at[2]), op'.ink)
  /\ UNCHANGED <<turned, row>>

Dot ==
  /\ op'.do = "dot"
  /\ Paint(work, {op'.at}, op'.ink)
  /\ UNCHANGED <<turned, row>>

\* A shape is begun at its uppermost row, ...
Shape ==
  /\ op'.do = "shape"
  /\ row' = op'.top
  /\ UNCHANGED <<page, turned>>

\* ... and drawn downwards, whether its rows are on the page or not.
Line ==
  /\ op'.do = "line"
  /\ Paint(work, Span(op'.from, op'.to, row), op'.ink)
  /\ row' = row + 1
  /\ UNCHANGED turned

Show ==
  /\ op'.do = "show"
  /\ front' = Named(op'.page)
  /\ back' = IF op'.page = BACK THEN front ELSE back
  /\ UNCHANGED <<page, work, row>>

Init ==
  /\ page = [p \in Pages |-> [xy \in Pixels |-> 0]]
  /\ work = 2 /\ front = 2 /\ back = 1
  /\ row = 0

Next == Select \/ Fill \/ Copy \/ Load \/ Write \/ Dot \/ Shape \/ Line \/ Show

Spec == Init /\ [][Next]_vars
=============================================================================
