----------------------------- MODULE MCDrawings -----------------------------
(* Drawings on a display of 24 x 16 with ints of 12 bits, so that the ellipse *)
(* of half axes 7 and 7 is one whose products do not fit.                     *)
EXTENDS Drawings

Lines == [shape : {"row", "upline", "slopline"}, x : {0, 9}, y : {0, 5}, len : 1 .. 10]
         \cup {[shape |-> "row", x |-> 20, y |-> 4, len |-> 8]}    \* beyond the edge
Areas == [shape : {"squarearea", "rect"}, x : {1, 12}, y : {2}, width : 1 .. 9, high : 1 .. 9]
Rounds == [shape : {"ball", "cir"}, x : {8, 11}, y : {7}, len : 1 .. 7]
Ellipses == [shape : {"ellipse"}, x : {11}, y : {7}, width : 1 .. 9, high : 1 .. 7]

FigureCalls == Lines \cup Areas \cup Rounds \cup Ellipses

\* A, e with an acute accent, a Chinese character, one without a glyph, and one
\* whose code is that of A when cut to 16 bits.
LatinA == 65
EAcute == 233
Zhong  == 20013
NoGlyphFor == 66
Beyond16   == 65536 + LatinA
Characters == {LatinA, EAcute, Zhong, NoGlyphFor, Beyond16}

WholeStrings == [chars : UNION {[1 .. n -> Characters] : n \in 0 .. 3}, cut : {0}]
CutStrings == {[chars |-> <<LatinA, EAcute>>, cut |-> 1], [chars |-> <<Zhong>>, cut |-> 1],
               [chars |-> <<LatinA, Zhong>>, cut |-> 2], [chars |-> <<Beyond16>>, cut |-> 3]}

AllStrings == WholeStrings \cup CutStrings
AllPlaces == {<<1, 4>>}
WhatFollows == {<<0, 0, 0, 0>>, <<LatinA, LatinA, LatinA, LatinA, 0, 0, 0, 0>>}

\* A glyph's ink is where its bits are set, the first of a byte included.
SomeFont ==
  LatinA :> [psize |-> [top |-> 3, ink |-> {<<1, 0>>, <<8, 1>>, <<9, 2>>}],
             char  |-> [top |-> 2, ink |-> {<<0, 0>>, <<2, 2>>}]]
  @@ EAcute :> [psize |-> [top |-> 0, ink |-> {}], char |-> [top |-> 4, ink |-> {<<7, 4>>}]]
  @@ Zhong  :> [psize |-> [top |-> 1, ink |-> {<<3, 0>>}], char |-> [top |-> 1, ink |-> {<<4, 1>>}]]

\* Wide enough to fill the display and one more, high enough for one row too many;
\* with padding or without, complete or not, with another depth or offset.
Whole(w, h) == 54 + h * 4 * ((3 * w + 3) \div 4)
Plains == {[w |-> w, h |-> h, depth |-> 24, offset |-> 54, size |-> Whole(w, h)] :
             w \in {0, 4, 7, 24, 25}, h \in {0, 1, 3, 16, 18}}
Others == {[w |-> 4, h |-> 3, depth |-> 24, offset |-> 54, size |-> 54 + k] : k \in {0, 5, 35}}
          \cup {[w |-> 4, h |-> 3, depth |-> 8, offset |-> 1078, size |-> 1090],
                [w |-> 4, h |-> 3, depth |-> 24, offset |-> 138, size |-> 174]}
AllFiles == Plains \cup Others
=============================================================================
