------------------------------- MODULE MCVideo -------------------------------
(* A page of six pixels by three, two characters, and six shapes.          *)
EXTENDS Video

MC_Letters == {<<0, 0>>, <<1, 1>>}
MC_Strings == {<<MC_Letters>>, <<NewLine, MC_Letters, {<<1, 0>>}>>}

MC_Polygon(box, points, color) ==
  [kind |-> "polygon", box |-> box, points |-> points, color |-> color]

\* A rhombus, in page 0's pixels; a bar, which lightens; a trapezoid with a
\* flat pair of edges in the middle; two triangles, between edges that
\* cross; a point; and a group of two of them.
MC_Shapes ==
  [rhombus |-> MC_Polygon(<<4, 4>>, <<<<3, 0>>, <<4, 2>>, <<3, 4>>, <<2, 4>>, <<0, 2>>, <<2, 0>>>>, PAGE0),
   bar |-> MC_Polygon(<<2, 1>>, <<<<2, 0>>, <<2, 1>>, <<0, 1>>, <<0, 0>>>>, BLEND),
   hat |-> MC_Polygon(<<4, 3>>, <<<<2, 0>>, <<3, 1>>, <<4, 1>>, <<3, 4>>, <<2, 4>>, <<0, 1>>, <<1, 1>>, <<2, 0>>>>, 1),
   bow |-> MC_Polygon(<<4, 3>>, <<<<0, 0>>, <<4, 3>>, <<0, 3>>, <<4, 0>>>>, 8),
   point |-> MC_Polygon(<<0, 1>>, <<<<0, 0>>, <<0, 1>>, <<0, 1>>, <<0, 0>>>>, 9),
   group |-> [kind |-> "group", at |-> <<1, 1>>,
              members |-> <<[shape |-> "bar", at |-> <<0, 1>>, color |-> 8],
                            [shape |-> "point", at |-> <<2, 0>>, color |-> OWN_COLOR]>>]]

MC_TextPlaces == {<<0, 0>>, <<1, 1>>, <<2, 0>>}

\* Pixels of three colours; the second plane is empty.
MC_Bits(n) == [k \in 1 .. 6 |-> (n \div 2^(6 - k)) % 2]
MC_Pictures == {[plane \in 0 .. 3 |-> [row \in 0 .. 2 |->
  MC_Bits(CASE plane = 0 -> 11 + row [] plane = 3 -> 38 [] OTHER -> 0)]]}

MC_Places == {<<-1, -1>>, <<1, 1>>, <<2, 2>>, <<4, 0>>}
=============================================================================
