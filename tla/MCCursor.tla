------------------------------ MODULE MCCursor ------------------------------
(* Cursor on a display of 4 x 3 cells: the cursor is 2 x 2, one transparent. *)
EXTENDS Cursor

Arrowhead == {0, 2, 3}

Moves  == [buttons : {0}, x : {-1, 0, 2}, y : {-1, 0, 2}]
Clicks == [buttons : 1 .. 7, x : {1}, y : {0}]
Mice   == Moves \cup Clicks

Anywhere == {<<1, 0>>, <<1, 1>>, <<3, 2>>}
=============================================================================
