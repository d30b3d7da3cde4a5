------------------------------- MODULE Screen -------------------------------
(***************************************************************************)
(* What the display promises to the person in front of it: pictures        *)
(* replace one another, each only when the one before is whole; while one  *)
(* replaces the other every cell shows one of the two, and a cell that     *)
(* shows the new picture does not go back to the old one.                  *)
(***************************************************************************)

VARIABLES shown,             \* the picture each cell belongs to
          picture,           \* the one begun last
          whole              \* it has replaced the one before it everywhere

scVars == <<shown, picture, whole>>

\* One picture is on the display when the program starts.
ScInit == \A c, d \in DOMAIN shown : shown[c] = shown[d]

Begin == /\ whole = TRUE /\ whole' = FALSE
         /\ UNCHANGED shown

\* Some cells, perhaps none, take the picture; it is whole when all have.
Replace == /\ whole = FALSE
           /\ DOMAIN shown' = DOMAIN shown
           /\ \A c \in DOMAIN shown : shown'[c] \in {shown[c], picture}
           /\ whole' = TRUE => \A c \in DOMAIN shown : shown'[c] = picture
           /\ UNCHANGED picture

ScSpec == ScInit /\ [][Begin \/ Replace]_scVars
=============================================================================
