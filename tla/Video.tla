-------------------------------- MODULE Video --------------------------------
(***************************************************************************)
(* The drawing of the game (video.cpp): four pages in one block of memory, *)
(* three pointers to them, and the shapes that scripts draw.               *)
(*                                                                         *)
(* Two pixels share a byte: every line begins and ends with half bytes.    *)
(* A shape is a polygon or a group of shapes, which are drawn in order;    *)
(* the stack of readAndDrawPolygonHierarchy is the sequence todo of what   *)
(* is still to be drawn.  A polygon is filled row by row between two       *)
(* edges, which are followed in fixed point, with 16 bits of fraction.     *)
(*                                                                         *)
(* Abstractions.  A byte is the pair of its two colours, upper half first. *)
(* Polygons are read from the segment of the part: the records of Shapes.  *)
(* The words that are computed with 32 bits (cpt1, cpt2) are numbers, as   *)
(* of their sums only 16 bits are used, and the steps fit (InTable); those *)
(* with 16 bits keep their width.  Only one instruction is carried out at  *)
(* a time, and no interrupt touches a page.  drawn is a history variable:  *)
(* what was asked for last, an instruction or a row, with its operands.    *)
(***************************************************************************)
EXTENDS Integers, Sequences, FiniteSets, SequencesExt

CONSTANTS
  W, H,          \* the size of a page in pixels: 320 and 200
  Colors,        \* the colours in use
  CharW, CharH,  \* the size of a character: 8 and 8
  Strings,       \* the texts of the string table
  TextPlaces,    \* the columns and heights at which scripts write
  ShapeIds,      \* the shapes of the polygon segments
  Shapes,        \* ShapeIds -> what is found there
  Zooms,         \* the zooms in use; 64 is the natural size
  Places,        \* the points at which scripts draw
  Palettes,      \* the palettes that scripts ask for
  Group,         \* the pixels whose bits share a byte of a picture: 8
  Pictures,      \* the pictures: by plane and byte, the bits from the highest on
  PageIds,       \* the pages that scripts name: 0 to 3, FRONT and BACK
  Sources,       \* the bytes by which scripts say what to copy
  MaxInstructions  \* bound: the instructions of a behaviour

ASSUME SizeAssumption ==
  /\ W \in Nat \ {0} /\ H \in Nat \ {0} /\ W % 2 = 0
  /\ CharW \in Nat \ {0} /\ CharH \in Nat \ {0} /\ CharW % 2 = 0
  /\ Colors \subseteq 0 .. 15 /\ 0 \in Colors
  /\ \A c \in Colors : c < 8 => c + 8 \in Colors
  /\ PageIds \cup Sources \cup Palettes \subseteq 0 .. 255
  /\ Zooms \subseteq Nat /\ Places \subseteq Int \X Int
  /\ TextPlaces \subseteq Nat \X Nat
  /\ MaxInstructions \in Nat
  /\ Group \in Nat \ {0} /\ Group % 2 = 0 /\ W % Group = 0
  /\ Pictures \subseteq [0 .. 3 -> [0 .. (W * H) \div Group - 1 -> [1 .. Group -> {0, 1}]]]

BLEND == 16
PAGE0 == 17
Inks == Colors \cup {BLEND, PAGE0}
OWN_COLOR == 255

Byte == 0 .. 255

\* The members of a group are shapes, which have colours of their own or keep those
\* they come with.  Of polygons, what the commented-out assertion of readVertices asks
\* of the data, and that the points come in pairs of the same height.
WellFormed(s) ==
  \/ /\ s.kind = "group"
     /\ s.at \in Byte \X Byte
     /\ s.members \in Seq([shape : ShapeIds, at : Byte \X Byte, color : Inks \cup 128 .. 255])
  \/ /\ s.kind = "polygon" /\ s.color \in Inks
     /\ s.box \in Byte \X Byte /\ s.points \in Seq(Byte \X Byte)
     /\ Len(s.points) % 2 = 0 /\ Len(s.points) \in 4 .. 49
     /\ \A k \in DOMAIN s.points :
          s.points[k][2] = s.points[Len(s.points) + 1 - k][2]
     /\ \A k \in 1 .. Len(s.points) \div 2 - 1 : s.points[k][2] <= s.points[k + 1][2]

ASSUME ShapesAssumption == \A id \in ShapeIds : WellFormed(Shapes[id])

PITCH == W \div 2
VID_PAGE_SIZE == PITCH * H
Memory == 0 .. 4 * VID_PAGE_SIZE - 1
Pages == 0 .. 3
PagePtrs == [p \in Pages |-> p * VID_PAGE_SIZE]

FRONT == 254    \* 0xFE: the page that was shown last
BACK == 255     \* 0xFF: the page that is to be shown next
NO_PALETTE_CHANGE_REQUESTED == 255
FRACTION == 65536
TABLE_SIZE == 1024    \* the quotients of _interpTable

HalfWord == 32768
Int16(v) == ((v + HalfWord) % (2 * HalfWord)) - HalfWord
Uint16(v) == v % 65536

VARIABLES
  mem,                 \* the four pages: Memory -> <<upper half, lower half>>
  curPagePtr1,         \* the page that is drawn to
  curPagePtr2,         \* the page that was shown last
  curPagePtr3,         \* the page that is to be shown next
  paletteIdRequested,  \* paletteIdRequested
  pal,                 \* the palette that is in use
  todo,                \* the shapes that are still to be drawn
  fill,                \* the polygon that is being filled, if any
  hliney,              \* _hliney
  drawn,               \* the instruction or the row that was drawn last
  done                 \* the number of instructions so far

ptrVars == <<curPagePtr1, curPagePtr2, curPagePtr3>>
palVars == <<paletteIdRequested, pal>>
shapeVars == <<todo, fill, hliney>>
vars == <<mem, ptrVars, palVars, shapeVars, drawn, done>>

NoFill == [n |-> 0]

Idle == todo = <<>> /\ fill = NoFill

\* The next instruction, within the bound.
Instruction == Idle /\ done < MaxInstructions /\ done' = done + 1

-----------------------------------------------------------------------------
(* Pages.                                                                  *)

\* getPagePtr: an identifier that means nothing means page 0.
PagePtr(id) ==
  CASE id \in Pages -> PagePtrs[id]
    [] id = BACK    -> curPagePtr3
    [] id = FRONT   -> curPagePtr2
    [] OTHER        -> PagePtrs[0]

ChangePagePtr1 ==
  /\ Instruction
  /\ \E id \in PageIds :
       /\ curPagePtr1' = PagePtr(id)
       /\ drawn' = [do |-> "select", page |-> id]
  /\ UNCHANGED <<mem, curPagePtr2, curPagePtr3, palVars, shapeVars>>

FillPage ==
  /\ Instruction
  /\ \E id \in PageIds, c \in Colors :
       /\ mem' = [a \in Memory |-> IF a - PagePtr(id) \in 0 .. VID_PAGE_SIZE - 1 THEN <<c, c>>
                                   ELSE mem[a]]
       /\ drawn' = [do |-> "fill", page |-> id, ink |-> c]
  /\ UNCHANGED <<ptrVars, palVars, shapeVars>>

\* memcpy, byte by byte.  Where the areas overlap it may come upon bytes that it has
\* written itself, if it works towards them: which way it works, C leaves open.
Ways == {"upwards", "downwards"}

Taken(to, from, size, way, k) ==
  CASE way = "upwards" /\ to > from   -> k % (to - from)
    [] way = "downwards" /\ to < from -> size - 1 - ((size - 1 - k) % (from - to))
    [] OTHER                          -> k

Copied(to, from, size, way) ==
  [a \in Memory |-> IF a - to \in 0 .. size - 1 THEN mem[from + Taken(to, from, size, way, a - to)]
                    ELSE mem[a]]

\* srcPageId & 0xBF
WithoutBit6(id) == IF (id \div 64) % 2 = 1 THEN id - 64 ELSE id

\* Bit 7 of what is copied asks for a scroll, but for FRONT and BACK.
AsksForScroll(src) == src < FRONT /\ WithoutBit6(src) >= 128

Scrolled(q, p, vscroll, way) ==
  CASE vscroll \notin 1 - H .. H - 1 -> mem
    [] vscroll \in 1 - H .. -1       -> Copied(q, p - vscroll * PITCH, (H + vscroll) * PITCH, way)
    [] vscroll \in 0 .. H - 1        -> Copied(q + vscroll * PITCH, p, (H - vscroll) * PITCH, way)

CopiedPage(src, dst, vscroll, way) ==
  CASE src = dst          -> mem
    [] src # dst /\ AsksForScroll(src)
       -> Scrolled(PagePtr(dst), PagePtr(WithoutBit6(src) % 4), vscroll, way)
    [] src # dst /\ ~ AsksForScroll(src)
       -> Copied(PagePtr(dst), PagePtr(IF src >= FRONT THEN src ELSE WithoutBit6(src)),
                 VID_PAGE_SIZE, way)

\* op_copyVideoPage: how far, says the variable VM_VARIABLE_SCROLL_Y.
CopyPage ==
  /\ Instruction
  /\ \E src \in Sources, dst \in PageIds, way \in Ways :
     \E vscroll \in IF AsksForScroll(src) THEN -H .. H ELSE {0} :
       /\ mem' = CopiedPage(src, dst, vscroll, way)
       /\ drawn' = [do |-> "copy", from |-> src, to |-> dst, scroll |-> vscroll]
  /\ UNCHANGED <<ptrVars, palVars, shapeVars>>

\* copyPagePtr: the j-th of the bytes that come of one byte of each plane.  Its bits
\* are taken from the four planes in turn, that of the highest weight first.
Interleaved(src, group, j) ==
  LET Bit(i) == src[3 - (i % 4)][group][2 * j + (i \div 4) + 1]
      Half(i) == 8 * Bit(i) + 4 * Bit(i + 1) + 2 * Bit(i + 2) + Bit(i + 3)
  IN  <<Half(0), Half(4)>>

\* The colours in use are also those of the pictures.
ASSUME PicturesAssumption ==
  \A src \in Pictures, group \in 0 .. (W * H) \div Group - 1, j \in 0 .. Group \div 2 - 1 :
    Interleaved(src, group, j) \in Colors \X Colors

\* The pixels of a picture: their numbers are spread over the planes, bit by bit.
Pixels(src) ==
  [xy \in (0 .. W - 1) \X (0 .. H - 1) |->
     LET n == xy[2] * W + xy[1]
         Bit(plane) == src[plane][n \div Group][(n % Group) + 1]
     IN  Bit(0) + 2 * Bit(1) + 4 * Bit(2) + 8 * Bit(3)]

\* A picture that scripts get loaded goes to page 0.
CopyPagePtr ==
  /\ Instruction
  /\ \E src \in Pictures :
       /\ mem' = [a \in Memory |->
                    IF a < VID_PAGE_SIZE
                    THEN Interleaved(src, a \div (Group \div 2), a % (Group \div 2))
                    ELSE mem[a]]
       /\ drawn' = [do |-> "load", picture |-> Pixels(src)]
  /\ UNCHANGED <<ptrVars, palVars, shapeVars>>

\* op_setPalette.
SetPalette ==
  /\ Instruction
  /\ paletteIdRequested' \in Palettes
  /\ UNCHANGED <<mem, ptrVars, pal, shapeVars, drawn>>

\* updateDisplay, the rest of op_blitFramebuffer.
UpdateDisplay ==
  /\ Instruction
  /\ \E id \in PageIds :
       /\ curPagePtr2' = IF id = BACK THEN curPagePtr3 ELSE PagePtr(id)
       /\ curPagePtr3' = IF id = BACK THEN curPagePtr2 ELSE curPagePtr3
       /\ drawn' = [do |-> "show", page |-> id]
  /\ pal' = IF paletteIdRequested < 32 THEN paletteIdRequested ELSE pal
  /\ paletteIdRequested' = NO_PALETTE_CHANGE_REQUESTED
  /\ UNCHANGED <<mem, curPagePtr1, shapeVars>>

-----------------------------------------------------------------------------
(* Half bytes.                                                             *)

\* What the half of the byte at address a becomes.
Inked(ink, a, half) ==
  CASE ink = BLEND -> IF mem[a][half] < 8 THEN mem[a][half] + 8 ELSE mem[a][half]
    [] ink = PAGE0 -> mem[a - curPagePtr1][half]
    [] OTHER       -> ink

\* The bytes of a line are counted in a byte by drawLineP, else in a word.
Counts(ink) == IF ink = PAGE0 THEN 256 ELSE 65536

\* Mutant: the last column is the upper half of its byte when it is odd.
Line_OddEnd(xa, xb, ink) ==
  LET xmax == IF xa > xb THEN xa ELSE xb
      xmin == IF xa > xb THEN xb ELSE xa
      p == curPagePtr1 + hliney * PITCH + xmin \div 2
      s == IF xmin % 2 = 1 THEN 1 ELSE 0
      e == IF xmax % 2 = 1 THEN 1 ELSE 0
      w == (xmax \div 2 - xmin \div 2 + 1 - s - e) % Counts(ink)
      whole == p + s .. p + s + w - 1
  IN  [a \in Memory |->
        << IF a \in whole \/ (e = 1 /\ a = p + s + w) THEN Inked(ink, a, 1) ELSE mem[a][1],
           IF a \in whole \/ (s = 1 /\ a = p) THEN Inked(ink, a, 2) ELSE mem[a][2] >>]

\* drawLineN, drawLineBlend and drawLineP: perhaps half a byte, then w whole
\* bytes, then perhaps half a byte.
Line(xa, xb, ink) ==
  LET xmax == IF xa > xb THEN xa ELSE xb
      xmin == IF xa > xb THEN xb ELSE xa
      p == curPagePtr1 + hliney * PITCH + xmin \div 2
      s == IF xmin % 2 = 1 THEN 1 ELSE 0
      e == IF xmax % 2 = 0 THEN 1 ELSE 0
      w == (xmax \div 2 - xmin \div 2 + 1 - s - e) % Counts(ink)
      whole == p + s .. p + s + w - 1
  IN  [a \in Memory |->
        << IF a \in whole \/ (e = 1 /\ a = p + s + w) THEN Inked(ink, a, 1) ELSE mem[a][1],
           IF a \in whole \/ (s = 1 /\ a = p) THEN Inked(ink, a, 2) ELSE mem[a][2] >>]

\* drawPoint.
Point(ink, x, y) ==
  LET p == curPagePtr1 + y * PITCH + x \div 2
      half == IF x % 2 = 1 THEN 2 ELSE 1
  IN  IF x \in 0 .. W - 1 /\ y \in 0 .. H - 1
      THEN [mem EXCEPT ![p][half] = Inked(ink, p, half)]
      ELSE mem

\* drawChar, on the pages m: the bits of a row of the character, two a byte.
Char(m, glyph, x, y, c) ==
  IF x <= W \div CharW - 1 /\ y <= H - CharH
  THEN LET p == curPagePtr1 + x * (CharW \div 2) + y * PITCH
           bit(a, half) == <<2 * ((a - p) % PITCH) + half - 1, (a - p) \div PITCH>> \in glyph
       IN  [a \in Memory |-> IF a < p THEN m[a]
                             ELSE << IF bit(a, 1) THEN c ELSE m[a][1],
                                     IF bit(a, 2) THEN c ELSE m[a][2] >>]
  ELSE m

NewLine == {<<-1, -1>>}

\* A character is the set of its pixels.
ASSUME StringsAssumption ==
  \A s \in Strings : s \in Seq({NewLine} \cup SUBSET ((0 .. CharW - 1) \X (0 .. CharH - 1)))

\* drawString: the pen moves on over the characters.
Typed(pen, glyph, xOrigin, c) ==
  IF glyph = NewLine
  THEN [pen EXCEPT !.x = xOrigin, !.y = Uint16(@ + CharH)]
  ELSE [pen EXCEPT !.m = Char(pen.m, glyph, pen.x, pen.y, c), !.x = Uint16(@ + 1)]

Written(s, at, c) ==
  LET start == [m |-> mem, x |-> at[1], y |-> at[2]]
  IN  FoldLeft(LAMBDA pen, glyph : Typed(pen, glyph, at[1], c), start, s).m

\* A text that is not in the table is not written.
DrawString ==
  /\ Instruction
  /\ \/ \E s \in Strings, at \in TextPlaces, c \in Colors :
          /\ mem' = Written(s, at, c)
          /\ drawn' = [do |-> "write", text |-> s, at |-> at, ink |-> c]
     \/ UNCHANGED <<mem, drawn>>
  /\ UNCHANGED <<ptrVars, palVars, shapeVars>>

-----------------------------------------------------------------------------
(* Shapes.                                                                 *)

\* op 0x40 and op 0x80: a shape in its own colour, at a place.
DrawShape ==
  /\ Instruction
  /\ \E id \in ShapeIds, zoom \in Zooms, pt \in Places :
       todo' = <<[shape |-> id, zoom |-> zoom, pt |-> pt, color |-> OWN_COLOR]>>
  /\ UNCHANGED <<mem, ptrVars, palVars, fill, hliney, drawn>>

Scaled(v, zoom) == Uint16((v * zoom) \div 64)

Moved(pt, d, zoom, sign) ==
  << Int16(pt[1] + sign * ((d[1] * zoom) \div 64)),
     Int16(pt[2] + sign * ((d[2] * zoom) \div 64)) >>

\* What calcStep relies on: the height of an edge, by which it looks up a quotient, is one
\* of the table's, and the width of an edge fits in a word, so that a step does in two.
InTable(s, zoom) ==
  LET x(k) == Int16(Scaled(s.points[k][1], zoom))
      y(k) == Scaled(s.points[k][2], zoom)
      n == Len(s.points)
  IN  /\ \A k \in 1 .. n - 1 : x(k + 1) - x(k) \in 1 - HalfWord .. HalfWord - 1
      /\ \A k \in 1 .. n \div 2 - 1 : Uint16(y(k + 1) - y(k)) < TABLE_SIZE

ASSUME TableAssumption ==
  \A id \in ShapeIds, zoom \in Zooms :
    Shapes[id].kind = "polygon" => InTable(Shapes[id], zoom)

\* The shape that is next, when none is being filled.
Head1 == Head(todo)
Shape == Shapes[Head1.shape]

\* readAndDrawPolygonHierarchy: its members come before what follows it.  A
\* group has no colour of its own to give to them.
OpenGroup ==
  /\ fill = NoFill /\ todo # <<>>
  /\ Shape.kind = "group"
  /\ LET origin == Moved(Head1.pt, Shape.at, Head1.zoom, -1)
         member(m) == [shape |-> m.shape, zoom |-> Head1.zoom, color |-> m.color,
                       pt |-> Moved(origin, m.at, Head1.zoom, 1)]
     IN  todo' = [k \in DOMAIN Shape.members |-> member(Shape.members[k])] \o Tail(todo)
  /\ UNCHANGED <<mem, ptrVars, palVars, fill, hliney, drawn, done>>

\* readVertices.
Bbw == Scaled(Shape.box[1], Head1.zoom)
Bbh == Scaled(Shape.box[2], Head1.zoom)
Points == [k \in 0 .. Len(Shape.points) - 1 |->
             << Int16(Scaled(Shape.points[k + 1][1], Head1.zoom)),
                Int16(Scaled(Shape.points[k + 1][2], Head1.zoom)) >>]

\* Bit 7 of the color asks for the one that the polygon comes with.
Ink == IF Head1.color >= 128 THEN Shape.color ELSE Head1.color

IsPoint == Bbw = 0 /\ Bbh = 1 /\ Len(Shape.points) = 4

X1 == Int16(Head1.pt[1] - Bbw \div 2)
X2 == Int16(Head1.pt[1] + Bbw \div 2)
Y1 == Int16(Head1.pt[2] - Bbh \div 2)
Y2 == Int16(Head1.pt[2] + Bbh \div 2)

OffScreen == X1 > W - 1 \/ X2 < 0 \/ Y1 > H - 1 \/ Y2 < 0

\* The head of fillPolygon.  The first point begins the right edge, the last
\* one the left edge.
StartPolygon ==
  /\ fill = NoFill /\ todo # <<>>
  /\ Shape.kind = "polygon"
  /\ todo' = Tail(todo)
  /\ mem' = IF IsPoint THEN Point(Ink, Head1.pt[1], Head1.pt[2]) ELSE mem
  /\ IF IsPoint \/ OffScreen
     THEN /\ drawn' = IF IsPoint THEN [do |-> "dot", at |-> Head1.pt, ink |-> Ink] ELSE drawn
          /\ UNCHANGED <<fill, hliney>>
     ELSE LET n == Len(Shape.points)
          IN  /\ hliney' = Y1
              /\ drawn' = [do |-> "shape", top |-> Y1]
              /\ fill' = [n |-> n, points |-> Points, i |-> 1, j |-> n - 2, left |-> X1,
                          cpt1 |-> Int16(Points[n - 1][1] + X1) * FRACTION,
                          cpt2 |-> Int16(Points[0][1] + X1) * FRACTION,
                          step1 |-> 0, step2 |-> 0, h |-> 0, ink |-> Ink]
  /\ UNCHANGED <<ptrVars, palVars, done>>

\* calcStep, with the quotients of _interpTable.
Interp(dy) == IF dy = 0 THEN 16384 ELSE 16384 \div dy
Dy(p1, p2) == Uint16(p2[2] - p1[2])
CalcStep(p1, p2) == (p2[1] - p1[1]) * Interp(Dy(p1, p2)) * 4

Rounded(cpt, half) == (cpt \div FRACTION) * FRACTION + half

\* Mutant: the edges start at the left side of a pixel, not in its middle.
NextEdges_NoRounding ==
  /\ fill # NoFill /\ fill.h = 0
  /\ LET n == (fill.n - 2) % 256
         p == fill.points
         i == fill.i
         j == fill.j
         h == Dy(p[i - 1], p[i])
         step1 == CalcStep(p[j + 1], p[j])
         step2 == CalcStep(p[i - 1], p[i])
     IN  fill' = IF n = 0 THEN NoFill
                 ELSE [fill EXCEPT !.n = n, !.i = i + 1, !.j = j - 1, !.h = h,
                         !.step1 = step1, !.step2 = step2,
                         !.cpt1 = Rounded(@, 0) + (IF h = 0 THEN step1 ELSE 0),
                         !.cpt2 = Rounded(@, 0) + (IF h = 0 THEN step2 ELSE 0)]
  /\ UNCHANGED <<mem, ptrVars, palVars, todo, hliney, drawn, done>>

\* The next pair of edges, or the end.  The height is that of the right one.
NextEdges ==
  /\ fill # NoFill /\ fill.h = 0
  /\ LET n == (fill.n - 2) % 256
         p == fill.points
         i == fill.i
         j == fill.j
         h == Dy(p[i - 1], p[i])
         step1 == CalcStep(p[j + 1], p[j])
         step2 == CalcStep(p[i - 1], p[i])
     IN  fill' = IF n = 0 THEN NoFill
                 ELSE [fill EXCEPT !.n = n, !.i = i + 1, !.j = j - 1, !.h = h,
                         !.step1 = step1, !.step2 = step2,
                         !.cpt1 = Rounded(@, 32767) + (IF h = 0 THEN step1 ELSE 0),
                         !.cpt2 = Rounded(@, 32768) + (IF h = 0 THEN step2 ELSE 0)]
  /\ UNCHANGED <<mem, ptrVars, palVars, todo, hliney, drawn, done>>

RowX1 == Int16(fill.cpt1 \div FRACTION)
RowX2 == Int16(fill.cpt2 \div FRACTION)

RowVisible == hliney >= 0 /\ RowX1 <= W - 1 /\ RowX2 >= 0

\* A row, with the edges as they are before it is clipped.
RowDrawn == [do |-> "line", from |-> RowX1, to |-> RowX2, ink |-> fill.ink]

\* Mutant: the bottom of the page is not looked at.
Row_NoBottom ==
  /\ fill # NoFill /\ fill.h # 0
  /\ mem' = IF RowVisible
            THEN Line(IF RowX1 < 0 THEN 0 ELSE RowX1, IF RowX2 > W - 1 THEN W - 1 ELSE RowX2,
                      fill.ink)
            ELSE mem
  /\ hliney' = hliney + 1
  /\ drawn' = RowDrawn
  /\ fill' = [fill EXCEPT !.h = @ - 1, !.cpt1 = @ + fill.step1, !.cpt2 = @ + fill.step2]
  /\ UNCHANGED <<ptrVars, palVars, todo, done>>

\* Mutant: nothing is done for a row above the page.
Row_StuckAbove ==
  /\ fill # NoFill /\ fill.h # 0
  /\ IF hliney < 0 THEN UNCHANGED <<mem, hliney, fill, drawn>>
     ELSE /\ mem' = IF RowVisible
                    THEN Line(IF RowX1 < 0 THEN 0 ELSE RowX1,
                              IF RowX2 > W - 1 THEN W - 1 ELSE RowX2, fill.ink)
                    ELSE mem
          /\ hliney' = hliney + 1
          /\ drawn' = RowDrawn
          /\ fill' = IF hliney' > H - 1 THEN NoFill
                     ELSE [fill EXCEPT !.h = @ - 1, !.cpt1 = @ + fill.step1,
                                       !.cpt2 = @ + fill.step2]
  /\ UNCHANGED <<ptrVars, palVars, todo, done>>

\* A row between the edges, clipped to the page.
Row ==
  /\ fill # NoFill /\ fill.h # 0
  /\ mem' = IF RowVisible
            THEN Line(IF RowX1 < 0 THEN 0 ELSE RowX1, IF RowX2 > W - 1 THEN W - 1 ELSE RowX2,
                      fill.ink)
            ELSE mem
  /\ hliney' = hliney + 1
  /\ drawn' = RowDrawn
  /\ fill' = IF hliney' > H - 1 THEN NoFill
             ELSE [fill EXCEPT !.h = @ - 1, !.cpt1 = @ + fill.step1, !.cpt2 = @ + fill.step2]
  /\ UNCHANGED <<ptrVars, palVars, todo, done>>

-----------------------------------------------------------------------------
Init ==
  /\ mem = [a \in Memory |-> <<0, 0>>]
  /\ curPagePtr3 = PagePtrs[1]
  /\ curPagePtr2 = PagePtrs[2]
  /\ curPagePtr1 = PagePtrs[2]
  /\ paletteIdRequested = NO_PALETTE_CHANGE_REQUESTED
  /\ pal = NO_PALETTE_CHANGE_REQUESTED
  /\ todo = <<>>
  /\ fill = NoFill
  /\ hliney = 0
  /\ drawn = [do |-> "nothing"]
  /\ done = 0

PageOps ==
  ChangePagePtr1 \/ FillPage \/ CopyPage \/ CopyPagePtr \/ SetPalette \/ UpdateDisplay

FillPolygon == StartPolygon \/ NextEdges \/ Row

Next == PageOps \/ DrawString \/ DrawShape \/ OpenGroup \/ FillPolygon

Spec == Init /\ [][Next]_vars

\* The program goes on with what it draws.
FairSpec == Spec /\ WF_vars(OpenGroup \/ FillPolygon)

-----------------------------------------------------------------------------
Ptrs == {PagePtrs[p] : p \in Pages}

\* Pages hold colours, and the three pointers point to pages.  What is written beyond the
\* four pages is not seen here: mem has no place for it.
TypeOK ==
  /\ mem \in [Memory -> Colors \X Colors]
  /\ curPagePtr1 \in Ptrs /\ curPagePtr2 \in Ptrs /\ curPagePtr3 \in Ptrs
  /\ paletteIdRequested \in Palettes \cup {NO_PALETTE_CHANGE_REQUESTED}
  /\ pal \in 0 .. 31 \cup {NO_PALETTE_CHANGE_REQUESTED}
  /\ hliney \in -HalfWord .. H
  /\ fill # NoFill => fill.h \in Nat /\ fill.i \in DOMAIN fill.points
  /\ done \in 0 .. MaxInstructions

Abs(v) == IF v < 0 THEN -v ELSE v

\* For edges up to this size the steps, which are rounded down, come out at the
\* vertex; in a wide and high polygon they fall short of it by some pixels.
SmallEdges(p) ==
  \A k \in DOMAIN p \ {0} : Abs(p[k][1] - p[k - 1][1]) * Abs(p[k][2] - p[k - 1][2]) < 8192

\* Where an edge ends, at its vertex, the next one begins, on both sides, though
\* only the steps between the rows are added up: neighbouring polygons meet.
EdgesMeet ==
  fill # NoFill /\ fill.h = 0 /\ SmallEdges(fill.points) =>
    /\ RowX1 = Int16(fill.left + fill.points[fill.j + 1][1])
    /\ RowX2 = Int16(fill.left + fill.points[fill.i - 1][1])

\* Every instruction that draws comes to its end, whatever the shape.
DrawingEnds == []<>Idle

\* A pixel of the memory.
Pixel(p, xy) == mem[PagePtrs[p] + xy[2] * PITCH + xy[1] \div 2][1 + (xy[1] % 2)]

\* What is on the pages.
Page == [p \in Pages |-> [xy \in (0 .. W - 1) \X (0 .. H - 1) |-> Pixel(p, xy)]]

\* The page that a pointer points to.
PageOf(ptr) == CHOOSE p \in Pages : PagePtrs[p] = ptr

Scr == INSTANCE Screen WITH
  Pictures <- {Pixels(src) : src \in Pictures}, page <- Page, row <- hliney, op <- drawn,
  work <- PageOf(curPagePtr1), front <- PageOf(curPagePtr2), back <- PageOf(curPagePtr3)

\* Every instruction does to the pixels what it is asked for, on the page that it names or
\* that is drawn to, and nothing else: a line goes from one edge to the other, where the
\* page is, though it begins and ends within bytes; a copy is scrolled as far as it should.
ImplementsScreen == Scr!Spec
=============================================================================
