----------------------------- MODULE MCPictures -----------------------------
(* Pictures on a display of 4 x 3, shorts of three bits and ints of six.    *)
EXTENDS Pictures, TLC

Whole(p)  == p @@ [lost |-> {}]
\* The file ends before the last row, or is damaged in one pixel of the first.
CutShort(p) == p @@ [lost |-> (p.h - 1) * p.w .. p.h * p.w - 1]
Damaged(p)  == p @@ [lost |-> {p.w - 1}]

Pics == {Whole(p) : p \in [w : {1, 3, 5}, h : {1, 2, 6}, components : {1, 3, 4}]}
Grey == {Whole([w |-> 2, h |-> 2, components |-> 1])}

Simple(f, ps) == [function : {f}, pics : {<<p>> : p \in ps}]

Square == [w |-> 2, h |-> 2, components |-> 3]
Two    == {Whole(Square), Whole([w |-> 3, h |-> 1, components |-> 3])}
Marred == {CutShort(Square), Damaged(Square), Damaged([w |-> 2, h |-> 3, components |-> 3])}

OneCall == Simple("display_jpeg", Pics \cup Marred) \cup Simple("move", Two)
Thumbnails == [function : {"decr"}, pics : {<<p>> : p \in Two \cup Marred},
               x : {0, 1}, y : {1}, len : {2}, high : {1}]
Mixed == [function : {"transparent"}, pics : Two \X (Two \cup {CutShort(Square)})]

AllCalls  == OneCall \cup Thumbnails \cup Mixed
AnyShort  == {-2, 0, 1, 2, 3}
GreyCalls == Simple("display_jpeg", Grey)
=============================================================================
