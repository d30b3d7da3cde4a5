------------------------------- MODULE MCShow -------------------------------
(* Show with the seven effects of play_picture.c, in their order, on a      *)
(* display of 4 x 3; ev[] happens to be zeroed.                             *)
EXTENDS Show, TLC

Zeroed == {[type |-> EV_SYN, code |-> 0, value |-> 0]}

OnDisplay(fields) == [w |-> 4, h |-> 3] @@ fields

Cycle ==
  << OnDisplay([effect |-> "circle", x |-> 1, y |-> 2, step |-> 1, limit |-> 4]),
     OnDisplay([effect |-> "chessboard", squares |-> 3]),
     OnDisplay([effect |-> "shut", strip |-> 1, reach |-> 2, tail |-> 1]),
     OnDisplay([effect |-> "diamond", step |-> 1]),
     OnDisplay([effect |-> "move"]),
     OnDisplay([effect |-> "block", quarter |-> 1]),
     OnDisplay([effect |-> "slopline", half |-> 2]) >>

PlayPicture == [s \in 0 .. 6 |-> Cycle[s + 1]]
=============================================================================
