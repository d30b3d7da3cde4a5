---------------------------- MODULE GalleryProofs ----------------------------
(***************************************************************************)
(* Theorems about Gallery, for any number of thumbnails wherever they are, *)
(* any display and whatever the mouse sends.                               *)
(***************************************************************************)
EXTENDS Gallery, TLAPS

\* The gallery has seen two clicks and has not reset left_button yet.
Using == gpc \in {"open", "reset", "forget", "close"}

\* left_button counts the clicks since the last reset, unless it says three or
\* more: then a reset may have been undone, and the count is too high.
Counted == left_button < 3 => fresh = left_button

\* What an increment in progress has read is still there, or it was two or more:
\* left_button is reset without the mutex, but only then.
Increment == mpc = "store" => loaded = left_button \/ loaded >= 2

\* No increment takes away the clicks the gallery has seen.
Seen == Using => left_button >= 2

IInv == TypeOK /\ Counted /\ Increment /\ Seen /\ FreshClicks

-----------------------------------------------------------------------------

\* A clamped coordinate is on the display.
LEMMA ClampOn ==
  ASSUME NEW v \in Int, NEW max \in Nat
  PROVE  Clamp(v, max) \in 0 .. max
BY DEF Clamp

\* The overview is one of the things that can be on the screen.
LEMMA OverviewType == Overview \in [kind : Kinds, thumb : 0 .. Thumbs]
BY ThumbsAssumption DEF Overview, Kinds

LEMMA SafeInit == Init => IInv
<1> SUFFICES ASSUME Init PROVE IInv
  OBVIOUS
<1>1. TypeOK
  <2>1. showing \in [kind : Kinds, thumb : 0 .. Thumbs]
    BY ThumbsAssumption, OverviewType DEF Init
  <2>2. packet \in Packets \cup {Rest} /\ m_x \in 0 .. MaxX /\ m_y \in 0 .. MaxY
    BY PointerAssumption DEF Init
  <2>3. at \in 1 .. Thumbs /\ test \in Tests
    BY ThumbsAssumption DEF Init, Tests
  <2>4. /\ mpc = "begin" /\ gpc = "start" /\ button_mut = "free" /\ hovering = FALSE
        /\ loaded = 0 /\ left_button = 0 /\ fresh = 0
    BY DEF Init
  <2>5. m_x \in Int /\ m_y \in Int /\ loaded \in 0 .. 3 /\ left_button \in 0 .. 3 /\ fresh \in 0 .. 2
    BY <2>2, <2>4, PointerAssumption
  <2>6. /\ mpc \in {"begin", "read", "move_x", "move_y", "clamp_y", "clamp_x",
                     "lock", "load", "store", "unlock"}
        /\ button_mut \in {"free", "mouse", "gallery"} /\ hovering \in BOOLEAN
          /\ gpc \in {"start", "test", "first", "again", "enlarge", "hover", "clicks",
                     "nowhere", "forget", "open", "reset", "wait", "look", "sleep",
                     "release", "check", "close"}
    BY <2>4
  <2> QED
    BY <2>1, <2>2, <2>3, <2>5, <2>6 DEF TypeOK
<1>2. Counted /\ Increment /\ Seen /\ FreshClicks
  BY DEF Init, Counted, Increment, Seen, Using, FreshClicks
<1> QED
  BY <1>1, <1>2 DEF IInv

\* The pointer's steps touch no click.
LEMMA PointerSafe ==
  IInv /\ (Home \/ Read \/ MoveX \/ MoveY \/ ClampY \/ ClampX) => IInv'
<1> SUFFICES ASSUME IInv, Home \/ Read \/ MoveX \/ MoveY \/ ClampY \/ ClampX PROVE IInv'
  OBVIOUS
<1> USE PointerAssumption, PacketsAssumption
        DEF IInv, Counted, Increment, Seen, Using, FreshClicks, galleryVars, TypeOK
<1>1. packet.dx \in Int /\ packet.dy \in Int
  <2>1. packet \in [dx : Int, dy : Int, left : BOOLEAN]
    <3>1. Rest \in [dx : Int, dy : Int, left : BOOLEAN]
      BY DEF Rest
    <3> QED
      BY <3>1
  <2> QED
    BY <2>1
<1>2. CASE Home
  BY <1>2 DEF Home
<1>3. CASE Read
  BY <1>3 DEF Read
<1>4. CASE MoveX
  BY <1>1, <1>4 DEF MoveX
<1>5. CASE MoveY
  BY <1>1, <1>5 DEF MoveY
<1>6. CASE ClampY
  BY <1>6, ClampOn DEF ClampY
<1>7. CASE ClampX
  BY <1>7, ClampOn DEF ClampX
<1> QED
  BY <1>2, <1>3, <1>4, <1>5, <1>6, <1>7

\* Nor does an increment lose or invent one that the gallery could use.
LEMMA ClickSafe == IInv /\ (Lock \/ Load \/ Store \/ Unlock) => IInv'
<1> SUFFICES ASSUME IInv, Lock \/ Load \/ Store \/ Unlock PROVE IInv'
  OBVIOUS
<1> USE DEF IInv, Counted, Increment, Seen, Using, FreshClicks, galleryVars, TypeOK
<1>1. CASE Lock
  BY <1>1 DEF Lock
<1>2. CASE Load
  BY <1>2 DEF Load
<1>3. CASE Store
  BY <1>3 DEF Store
<1>4. CASE Unlock
  BY <1>4 DEF Unlock
<1> QED
  BY <1>1, <1>2, <1>3, <1>4

\* The steps of the gallery that look at the pointer or draw.
LEMMA OverviewSafe == IInv /\ (Start \/ TestPointer \/ Enlarge \/ Open) => IInv'
<1> SUFFICES ASSUME IInv, Start \/ TestPointer \/ Enlarge \/ Open PROVE IInv'
  OBVIOUS
<1> USE ThumbsAssumption
        DEF IInv, Counted, Increment, Seen, Using, FreshClicks, mouseVars, TypeOK, Kinds, Tests
<1>1. CASE Start
  <2>1. at' \in 1 .. Thumbs /\ test' \in Tests /\ showing' \in [kind : Kinds, thumb : 0 .. Thumbs]
    BY <1>1, OverviewType DEF Start
  <2> QED
    BY <1>1, <2>1 DEF Start
<1>2. CASE TestPointer
  <2>1. OnIt[gpc] \in {"first", "enlarge", "clicks"}
    BY <1>2 DEF TestPointer, OnIt
  <2>2. OffIt[gpc] \in {"test", "nowhere", "hover", "start"}
    BY <1>2 DEF TestPointer, OffIt
  <2>3. /\ gpc' \in {"first", "enlarge", "clicks", "test", "nowhere", "hover", "start", gpc}
        /\ at' \in 1 .. Thumbs /\ test' \in Tests
    BY <1>2, <2>1, <2>2 DEF TestPointer
  <2> QED
    BY <1>2, <2>3 DEF TestPointer
<1>3. CASE Enlarge
  BY <1>3 DEF Enlarge, Large
<1>4. CASE Open
  BY <1>4 DEF Open, Full
<1> QED
  BY <1>1, <1>2, <1>3, <1>4

\* The steps that read left_button.
LEMMA LookSafe ==
  IInv /\ (First \/ Clicks \/ Nowhere \/ Wait \/ Look \/ Sleep \/ Release \/ Check) => IInv'
<1> SUFFICES ASSUME IInv,
                    First \/ Clicks \/ Nowhere \/ Wait \/ Look \/ Sleep \/ Release \/ Check
             PROVE  IInv'
  OBVIOUS
<1> USE ThumbsAssumption
        DEF IInv, Counted, Increment, Seen, Using, FreshClicks, mouseVars, TypeOK, TwoClicks
<1>1. CASE First
  BY <1>1 DEF First
<1>2. CASE Clicks
  BY <1>2 DEF Clicks
<1>3. CASE Nowhere
  BY <1>3 DEF Nowhere
<1>4. CASE Wait
  BY <1>4 DEF Wait
<1>5. CASE Look
  BY <1>5 DEF Look
<1>6. CASE Sleep
  BY <1>6 DEF Sleep
<1>7. CASE Release
  BY <1>7 DEF Release
<1>8. CASE Check
  BY <1>8 DEF Check
<1> QED
  BY <1>1, <1>2, <1>3, <1>4, <1>5, <1>6, <1>7, <1>8

\* The steps that reset it.
LEMMA ResetSafe == IInv /\ (Forget \/ Reset \/ Close) => IInv'
<1> SUFFICES ASSUME IInv, Forget \/ Reset \/ Close PROVE IInv'
  OBVIOUS
<1> USE DEF IInv, Counted, Increment, Seen, Using, FreshClicks, mouseVars, TypeOK
<1>1. CASE Forget
  BY <1>1 DEF Forget
<1>2. CASE Reset
  BY <1>2 DEF Reset
<1>3. CASE Close
  BY <1>3 DEF Close
<1> QED
  BY <1>1, <1>2, <1>3

LEMMA SafeStep == IInv /\ [Next]_vars => IInv'
<1> SUFFICES ASSUME IInv, [Next]_vars PROVE IInv'
  OBVIOUS
<1>1. CASE Next
  BY <1>1, PointerSafe, ClickSafe, OverviewSafe, LookSafe, ResetSafe DEF Next, Mouse, Gallery
<1>2. CASE UNCHANGED vars
  BY <1>2 DEF IInv, TypeOK, Counted, Increment, Seen, Using, FreshClicks,
              vars, mouseVars, galleryVars
<1> QED
  BY <1>1, <1>2

\* Types, and what left_button and the value loaded for its increment can be, given
\* the clicks since the last reset, hold in every reachable state.
THEOREM Inductive == Spec => []IInv
BY SafeInit, SafeStep, PTL DEF Spec

\* The pointer is on the display whenever no packet is being applied, and the
\* gallery's own indices stay in range (main.c:74-87, 164-217).
THEOREM TypeCorrect == Spec => []TypeOK
<1>1. IInv => TypeOK
  BY DEF IInv
<1> QED
  BY <1>1, Inductive, PTL

\* A picture is opened, and closed, only after two clicks that came since
\* left_button was last reset, for any thumbnails and any hand on the mouse,
\* although the resets are made without button_mut (main.c:91-94, 168-182).
THEOREM NoClickUsedTwice == Spec => []FreshClicks
<1>1. IInv => FreshClicks
  BY DEF IInv
<1> QED
  BY <1>1, Inductive, PTL
=============================================================================
