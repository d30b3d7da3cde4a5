------------------------------- MODULE Gallery -------------------------------
(***************************************************************************)
(* The gallery of main.c:149-494, compiled out by #if 0 at this commit, as *)
(* the lines run when they are enabled with the mouse thread they need     *)
(* (main.c:133-135) and main gets to its label start: without the join of  *)
(* line 143, which does not return, and without lines 146-148, which       *)
(* display another picture and loop for ever.  An overview of thumbnails;  *)
(* the one the pointer is on is enlarged; two clicks on it show its        *)
(* picture full screen, and two more go back to the overview.              *)
(*                                                                         *)
(* The two threads share m_x, m_y and left_button.  Only the mouse thread  *)
(* takes button_mut for its increment; the gallery tests and resets        *)
(* left_button mostly without it.  Every access to the three is a step.    *)
(* What the mouse thread does to the screen is in module Cursor.           *)
(***************************************************************************)
EXTENDS Integers

CONSTANTS
  Thumbs,        \* the thumbnails, numbered in the order the code tests them
  Box,           \* the range of m_x and of m_y that is each thumbnail's
  MaxX, MaxY,    \* where the position is clamped (1014, 751)
  HomeX, HomeY,  \* where the mouse thread puts the pointer first (512, 384)
  Packets        \* what the mouse may send: dx, dy, and whether left is down

\* The tests of one thumbnail: m_x >= 100, m_x <= 300, m_y >= 100, m_y <= 250.
Tests == 1 .. 4

ASSUME ThumbsAssumption == Thumbs \in Nat \ {0}
ASSUME BoxAssumption ==
  Box \in [1 .. Thumbs -> [x1 : Nat, x2 : Nat, y1 : Nat, y2 : Nat]]
ASSUME PointerAssumption == /\ MaxX \in Nat /\ MaxY \in Nat
                            /\ HomeX \in 0 .. MaxX /\ HomeY \in 0 .. MaxY
ASSUME PacketsAssumption == Packets \subseteq [dx : Int, dy : Int, left : BOOLEAN]

VARIABLES
  mpc,           \* the mouse thread's next step
  packet,        \* mouse: the packet in hand
  m_x, m_y,      \* shared: the pointer
  loaded,        \* mouse: left_button as left_button++ read it
  left_button,   \* shared: clicks, three stands for three or more
  button_mut,    \* shared: owner of the mutex
  gpc,           \* the gallery's next step
  at,            \* gallery: the thumbnail being tested or shown
  test,          \* gallery: the test of it that comes next
  hovering,      \* gallery: in the inner loop, the thumbnail is enlarged
  showing,       \* what is on the screen
  fresh          \* history: clicks since the gallery last used two, up to two

mouseVars   == <<mpc, packet, m_x, m_y, loaded>>
galleryVars == <<gpc, at, test, hovering, showing>>
vars == <<mouseVars, left_button, button_mut, galleryVars, fresh>>

Overview == [kind |-> "overview", thumb |-> 0]
Large(k) == [kind |-> "large", thumb |-> k]
Full(k)  == [kind |-> "full", thumb |-> k]

Rest == [dx |-> 0, dy |-> 0, left |-> FALSE]

Init == /\ mpc = "begin" /\ packet = Rest
        /\ m_x = 0 /\ m_y = 0
        /\ loaded = 0 /\ left_button = 0 /\ button_mut = "free"
        /\ gpc = "start" /\ at = 1 /\ test = 1 /\ hovering = FALSE
        /\ showing = Overview /\ fresh = 0

-----------------------------------------------------------------------------
(* The mouse thread                                                        *)

\* The thread sleeps a second before it places the pointer.
Home == /\ mpc = "begin"
        /\ m_x' = HomeX /\ m_y' = HomeY
        /\ mpc' = "read"
        /\ UNCHANGED <<packet, loaded, left_button, button_mut, galleryVars, fresh>>

Read == /\ mpc = "read"
        /\ packet' \in Packets
        /\ mpc' = "move_x"
        /\ UNCHANGED <<m_x, m_y, loaded, left_button, button_mut, galleryVars, fresh>>

\* The pointer may be outside the display until it is clamped, and on a
\* diagonal it passes a corner it does not stop at.
MoveX == /\ mpc = "move_x"
         /\ m_x' = m_x + packet.dx
         /\ mpc' = "move_y"
         /\ UNCHANGED <<packet, m_y, loaded, left_button, button_mut, galleryVars, fresh>>

MoveY == /\ mpc = "move_y"
         /\ m_y' = m_y + packet.dy
         /\ mpc' = "clamp_y"
         /\ UNCHANGED <<packet, m_x, loaded, left_button, button_mut, galleryVars, fresh>>

Clamp(v, max) == IF v < 0 THEN 0 ELSE IF v >= max THEN max ELSE v

ClampY == /\ mpc = "clamp_y"
          /\ m_y' = Clamp(m_y, MaxY)
          /\ mpc' = "clamp_x"
          /\ UNCHANGED <<packet, m_x, loaded, left_button, button_mut, galleryVars, fresh>>

\* Wrong variant: the pointer is not kept on the display.
ClampXForgotten ==
  /\ mpc = "clamp_x"
  /\ mpc' = IF packet.left THEN "lock" ELSE "read"
  /\ UNCHANGED <<packet, m_x, m_y, loaded, left_button, button_mut, galleryVars, fresh>>

ClampX == /\ mpc = "clamp_x"
          /\ m_x' = Clamp(m_x, MaxX)
          /\ mpc' = IF packet.left THEN "lock" ELSE "read"
          /\ UNCHANGED <<packet, m_y, loaded, left_button, button_mut, galleryVars, fresh>>

Lock == /\ mpc = "lock" /\ button_mut = "free"
        /\ button_mut' = "mouse"
        /\ mpc' = "load"
        /\ UNCHANGED <<packet, m_x, m_y, loaded, left_button, galleryVars, fresh>>

Load == /\ mpc = "load"
        /\ loaded' = left_button
        /\ mpc' = "store"
        /\ UNCHANGED <<packet, m_x, m_y, left_button, button_mut, galleryVars, fresh>>

Store == /\ mpc = "store"
         /\ left_button' = IF loaded < 3 THEN loaded + 1 ELSE 3
         /\ fresh' = IF fresh < 2 THEN fresh + 1 ELSE 2
         /\ mpc' = "unlock"
         /\ UNCHANGED <<packet, m_x, m_y, loaded, button_mut, galleryVars>>

Unlock == /\ mpc = "unlock"
          /\ button_mut' = "free"
          /\ mpc' = "read"
          /\ UNCHANGED <<packet, m_x, m_y, loaded, left_button, galleryVars, fresh>>

Mouse == Home \/ Read \/ MoveX \/ MoveY \/ ClampY \/ ClampX \/ Lock \/ Load \/ Store \/ Unlock

-----------------------------------------------------------------------------
(* The gallery                                                             *)

\* start: the background and the thumbnails are drawn.
Start == /\ gpc = "start"
         /\ showing' = Overview
         /\ gpc' = "test" /\ at' = 1 /\ test' = 1 /\ hovering' = FALSE
         /\ UNCHANGED <<mouseVars, left_button, button_mut, fresh>>

\* Wrong variant: the upper edge of the thumbnail is not tested.
HoldsAbove(k, n) == CASE n = 1 -> m_x >= Box[k].x1
                      [] n = 2 -> m_x <= Box[k].x2
                      [] n = 3 -> TRUE
                      [] n = 4 -> m_y <= Box[k].y2

Holds(k, n) == CASE n = 1 -> m_x >= Box[k].x1
                 [] n = 2 -> m_x <= Box[k].x2
                 [] n = 3 -> m_y >= Box[k].y1
                 [] n = 4 -> m_y <= Box[k].y2

\* Where the gallery goes when the pointer is on the thumbnail it tests, and off it.
OnIt  == [p \in {"test", "again", "hover"} |->
            CASE p = "test"  -> "first"
              [] p = "again" -> "enlarge"
              [] p = "hover" -> "clicks"]
OffIt == [p \in {"test", "again", "hover"} |->
            CASE p = "test"  -> IF at < Thumbs THEN "test" ELSE "nowhere"
              [] p = "again" -> "hover"
              [] p = "hover" -> "start"]

\* One comparison of "is the pointer on this thumbnail", at 166, 188 and 193: the
\* pointer may move between two of them.
TestPointer ==
  /\ gpc \in {"test", "again", "hover"}
  /\ \/ Holds(at, test) /\ test < 4 /\ test' = test + 1 /\ UNCHANGED <<gpc, at>>
     \/ Holds(at, test) /\ test = 4 /\ test' = 1 /\ gpc' = OnIt[gpc] /\ UNCHANGED at
     \/ /\ ~Holds(at, test) /\ test' = 1 /\ gpc' = OffIt[gpc]
        /\ at' = IF gpc = "test" /\ at < Thumbs THEN at + 1 ELSE at
  /\ UNCHANGED <<mouseVars, left_button, button_mut, hovering, showing, fresh>>

\* Wrong variant: any two clicks or more.
TwoClicksOrMore == left_button >= 2

TwoClicks == left_button = 2

\* left_button == 2, when the pointer comes onto a thumbnail.
First == /\ gpc = "first"
         /\ gpc' = IF TwoClicks THEN "open" ELSE "again"
         /\ UNCHANGED <<mouseVars, left_button, button_mut, at, test, hovering, showing, fresh>>

Enlarge == /\ gpc = "enlarge"
           /\ showing' = Large(at)
           /\ gpc' = "hover"
           /\ UNCHANGED <<mouseVars, left_button, button_mut, at, test, hovering, fresh>>

\* The same test in the inner loop, while the thumbnail is enlarged.
Clicks == /\ gpc = "clicks"
          /\ gpc' = IF TwoClicks THEN "open" ELSE "hover"
          /\ hovering' = TRUE
          /\ UNCHANGED <<mouseVars, left_button, button_mut, at, test, showing, fresh>>

\* The pointer is on no thumbnail: clicks made there, two or more, are forgotten.
\* The test and the reset are two accesses.
Nowhere == /\ gpc = "nowhere"
           /\ gpc' = IF left_button >= 2 THEN "forget" ELSE "test"
           /\ at' = 1
           /\ UNCHANGED <<mouseVars, left_button, button_mut, test, hovering, showing, fresh>>

Forget == /\ gpc = "forget"
          /\ left_button' = 0 /\ fresh' = 0
          /\ gpc' = "test"
          /\ UNCHANGED <<mouseVars, button_mut, at, test, hovering, showing>>

\* The picture is displayed, then the clicks are reset, without the mutex.
Open == /\ gpc = "open"
        /\ showing' = Full(at)
        /\ gpc' = "reset"
        /\ UNCHANGED <<mouseVars, left_button, button_mut, at, test, hovering, fresh>>

Reset == /\ gpc = "reset"
         /\ left_button' = 0 /\ fresh' = 0
         /\ gpc' = "wait"
         /\ UNCHANGED <<mouseVars, button_mut, at, test, hovering, showing>>

\* while(left_button != 2), under the mutex, which is free while it sleeps.
Wait == /\ gpc = "wait" /\ button_mut = "free"
        /\ button_mut' = "gallery"
        /\ gpc' = "look"
        /\ UNCHANGED <<mouseVars, left_button, at, test, hovering, showing, fresh>>

\* Wrong variant: off by one.
LookForOne ==
  /\ gpc = "look"
  /\ gpc' = IF left_button = 1 THEN "release" ELSE "sleep"
  /\ UNCHANGED <<mouseVars, left_button, button_mut, at, test, hovering, showing, fresh>>

Look == /\ gpc = "look"
        /\ gpc' = IF left_button = 2 THEN "release" ELSE "sleep"
        /\ UNCHANGED <<mouseVars, left_button, button_mut, at, test, hovering, showing, fresh>>

\* Wrong variant: the mutex is not given up while it sleeps.
SleepLocked == /\ gpc = "sleep"
               /\ gpc' = "look"
               /\ UNCHANGED <<mouseVars, left_button, button_mut, at, test, hovering, showing, fresh>>

Sleep == /\ gpc = "sleep"
         /\ button_mut' = "free"
         /\ gpc' = "wait"
         /\ UNCHANGED <<mouseVars, left_button, at, test, hovering, showing, fresh>>

Release == /\ gpc = "release"
           /\ button_mut' = "free"
           /\ gpc' = "check"
           /\ UNCHANGED <<mouseVars, left_button, at, test, hovering, showing, fresh>>

\* if(left_button == 2), after the unlock: a third click may have come.  Then the
\* gallery falls back into the loop it came from, the picture still displayed.
Check == /\ gpc = "check"
         /\ gpc' = IF left_button = 2 THEN "close" ELSE IF hovering THEN "hover" ELSE "test"
         /\ at' = IF left_button = 2 \/ hovering THEN at ELSE 1
         /\ UNCHANGED <<mouseVars, left_button, button_mut, test, hovering, showing, fresh>>

Close == /\ gpc = "close"
         /\ left_button' = 0 /\ fresh' = 0
         /\ gpc' = "start"
         /\ UNCHANGED <<mouseVars, button_mut, at, test, hovering, showing>>

Gallery == \/ Start \/ TestPointer \/ First \/ Enlarge \/ Clicks \/ Nowhere \/ Forget
           \/ Open \/ Reset \/ Wait \/ Look \/ Sleep \/ Release \/ Check \/ Close

Next == Mouse \/ Gallery

Spec == Init /\ [][Next]_vars

\* Both threads go on; the mutex is free again and again for each, for the other
\* holds it for a moment only.  Nothing is assumed of the hand on the mouse.
Fairness == /\ WF_vars(Home \/ MoveX \/ MoveY \/ ClampY \/ ClampX \/ Load \/ Store \/ Unlock)
            /\ SF_vars(Lock) /\ WF_vars(Gallery) /\ SF_vars(Wait)

FairSpec == Spec /\ Fairness

-----------------------------------------------------------------------------

Kinds == {"overview", "large", "full"}

TypeOK == /\ mpc \in {"begin", "read", "move_x", "move_y", "clamp_y", "clamp_x",
                     "lock", "load", "store", "unlock"}
          /\ packet \in Packets \cup {Rest}
          /\ m_x \in Int /\ (mpc \notin {"move_y", "clamp_y", "clamp_x"} => m_x \in 0 .. MaxX)
          /\ m_y \in Int /\ (mpc # "clamp_y" => m_y \in 0 .. MaxY)
          /\ loaded \in 0 .. 3 /\ left_button \in 0 .. 3 /\ fresh \in 0 .. 2
          /\ button_mut \in {"free", "mouse", "gallery"}
          /\ gpc \in {"start", "test", "first", "again", "enlarge", "hover", "clicks",
                     "nowhere", "forget", "open", "reset", "wait", "look", "sleep",
                     "release", "check", "close"}
          /\ at \in 1 .. Thumbs /\ test \in Tests /\ hovering \in BOOLEAN
          /\ showing \in [kind : Kinds, thumb : 0 .. Thumbs]

\* No click is used twice: a picture is opened, and closed, only after two clicks
\* that came since left_button was last reset, although the reset is made without
\* the mutex and an increment in progress may undo it: left_button is then 3 and
\* more, and the tests for exactly 2 pass it over (main.c:91-94, 168-182).
FreshClicks == gpc \in {"open", "close"} => fresh = 2

\* While a picture waits to be closed, two clicks close it, unless a third comes
\* before the gallery looks; then left_button never is 2 again
\* (main.c:173-184).
DoubleClickCloses ==
  (gpc = "wait" /\ left_button = 2) ~> (gpc = "start" \/ left_button = 3)

\* A click is counted in the end although the gallery takes button_mut again and
\* again to look at left_button (main.c:92, 172-178).
ClickGetsThrough == mpc = "lock" ~> mpc = "unlock"

OnThumb(k) == m_x \in Box[k].x1 .. Box[k].x2 /\ m_y \in Box[k].y1 .. Box[k].y2

\* When the mouse comes to rest, no thumbnail stays enlarged that the pointer is
\* not on, though the gallery compares coordinates that the mouse thread is
\* changing and may enlarge one the pointer never was on (main.c:164-217).  The
\* converse fails: a pointer that leaves before the second comparison (188) and is
\* back for the third (193) rests on a thumbnail that is not enlarged, and a
\* picture that a third click has closed stays displayed over the overview (180).
ScreenSettles ==
  <>[](mpc = "read") => <>[](showing.kind = "large" => OnThumb(showing.thumb))
=============================================================================
