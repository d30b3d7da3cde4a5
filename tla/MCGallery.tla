------------------------------ MODULE MCGallery ------------------------------
(* Gallery with two thumbnails, a column apart, on a grid of 4 x 2.         *)
EXTENDS Gallery

TwoBoxes == << [x1 |-> 0, x2 |-> 0, y1 |-> 1, y2 |-> 1],
               [x1 |-> 2, x2 |-> 2, y1 |-> 1, y2 |-> 1] >>

Hand == {[dx |-> 1, dy |-> 1, left |-> FALSE], [dx |-> -1, dy |-> -1, left |-> FALSE],
         [dx |-> 2, dy |-> 0, left |-> FALSE], [dx |-> -1, dy |-> 1, left |-> FALSE],
         [dx |-> 0, dy |-> 0, left |-> TRUE], [dx |-> 1, dy |-> 0, left |-> TRUE]}
=============================================================================
