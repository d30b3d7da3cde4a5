----------------------------- MODULE CursorProofs -----------------------------
(***************************************************************************)
(* Theorems about Cursor: a display and a cursor of any size, any mouse,   *)
(* any other threads.                                                      *)
(***************************************************************************)
EXTENDS Cursor, TLAPS

LEMMA Division ==
  ASSUME NEW j \in Nat, NEW d \in Nat \ {0}
  PROVE  /\ j \div d \in Nat /\ j % d \in 0 .. d - 1
         /\ j = d * (j \div d) + (j % d)
OBVIOUS

\* Pixels of the cursor lie on the display.
LEMMA CellOnDisplay ==
  ASSUME TypeOK, NEW j \in Index
  PROVE  Cell(j) \in Cells
<1>1. CW \in Nat \ {0} /\ CH \in Nat \ {0} /\ j \in Nat /\ j < CW * CH
  BY DisplayAssumption DEF Index
<1> DEFINE q == j \div CW
           r == j % CW
<1>2. q \in Nat /\ r \in 0 .. CW - 1 /\ j = CW * q + r
  BY <1>1, Division
<1>3. q < CH
  <2> HIDE DEF q, r
  <2>1. SUFFICES ASSUME q >= CH PROVE FALSE
    BY <1>1, <1>2
  <2>2. CW * q >= CW * CH
    BY <1>1, <1>2, <2>1
  <2> QED
    BY <1>1, <1>2, <2>2
<1>4. m_x + r \in 0 .. W - 1 /\ m_y + q \in 0 .. H - 1
  <2> HIDE DEF q, r
  <2> QED
    BY <1>1, <1>2, <1>3, DisplayAssumption DEF TypeOK
<1> QED
  BY <1>4 DEF Cell, Cells

\* No two pixels of the cursor share a cell.
LEMMA CellsDiffer ==
  ASSUME TypeOK, NEW j \in Index, NEW k \in Index, Cell(j) = Cell(k)
  PROVE  j = k
<1>1. CW \in Nat \ {0} /\ j \in Nat /\ k \in Nat /\ m_x \in Int /\ m_y \in Int
  BY DisplayAssumption DEF Index, TypeOK
<1>2. j \div CW \in Nat /\ j % CW \in 0 .. CW - 1 /\ j = CW * (j \div CW) + (j % CW)
  BY <1>1, Division
<1>5. k \div CW \in Nat /\ k % CW \in 0 .. CW - 1 /\ k = CW * (k \div CW) + (k % CW)
  BY <1>1, Division
<1>3. m_x + (j % CW) = m_x + (k % CW) /\ m_y + (j \div CW) = m_y + (k \div CW)
  BY DEF Cell
<1>4. j % CW = k % CW /\ j \div CW = k \div CW
  <2> DEFINE jr == j % CW
             jq == j \div CW
             kr == k % CW
             kq == k \div CW
  <2>1. jr \in Nat /\ jq \in Nat /\ kr \in Nat /\ kq \in Nat
    BY <1>1, <1>2, <1>5
  <2>2. m_x + jr = m_x + kr /\ m_y + jq = m_y + kq
    BY <1>3
  <2> HIDE DEF jr, jq, kr, kq
  <2>3. jr = kr /\ jq = kq
    BY <1>1, <2>1, <2>2
  <2> QED
    BY <2>3 DEF jr, jq, kr, kq
<1> QED
  BY <1>2, <1>5, <1>4

-----------------------------------------------------------------------------

\* The loops start at their first pixel.
Counter == pc \notin {"restore", "save", "draw"} => i = 0

IInv == TypeOK /\ Counter /\ NoTrail /\ KeepsPicture

LEMMA Sizes ==
  ASSUME NEW j \in Index
  PROVE  /\ j \in Nat /\ j < CW * CH /\ CW * CH \in Nat /\ 0 \in Index
         /\ j + 1 < CW * CH => j + 1 \in Index
         /\ ~(j + 1 < CW * CH) => \A k \in Index : k <= j
<1>1. CW * CH \in Nat
  BY DisplayAssumption
<1> DEFINE n == CW * CH
<1>2. n \in Nat /\ Index = 0 .. n - 1
  BY <1>1 DEF Index
<1> HIDE DEF n
<1>3. /\ j \in Nat /\ j < n /\ 0 \in Index
      /\ j + 1 < n => j + 1 \in Index
      /\ ~(j + 1 < n) => \A k \in Index : k <= j
  BY <1>2
<1> QED
  BY <1>1, <1>3 DEF n

LEMMA InitInv == Init => IInv
<1>1. 0 \in Index /\ 0 \in 0 .. MaxX /\ 0 \in 0 .. MaxY
  <2>1. CW * CH > 0 /\ CW * CH \in Nat
    BY DisplayAssumption
  <2> QED
    BY <2>1, DisplayAssumption DEF Index
<1>2. 0 \in Colours
  BY PaintsAssumption DEF Colours
<1> SUFFICES ASSUME Init PROVE IInv
  OBVIOUS
<1>3. TypeOK
  <2>1. mevent \in [x : Int, y : Int, button : Int]
    BY ButtonsAssumption DEF Init
  <2>2. /\ save_cursor \in [Index -> Colours] /\ latest \in [Cells -> Colours]
        /\ screen \in [Cells -> Colours \cup {Arrow}]
    BY <1>2 DEF Init
  <2>3. i \in Index /\ m_x \in 0 .. MaxX /\ m_y \in 0 .. MaxY
    BY <1>1 DEF Init
  <2>4. left_button \in 0 .. 2 /\ bits \in 0 .. 7 /\ seen \in 0 .. 2
    BY DEF Init
  <2>5. fdOpen \in BOOLEAN
    BY DEF Init
  <2>6. overdrawn \subseteq Cells /\ pc = "start"
    BY DEF Init
  <2> QED
    BY <2>1, <2>2, <2>3, <2>4, <2>5, <2>6 DEF TypeOK
<1>4. \A j \in Index : ~Holds(j)
  BY DEF Init, Holds
<1>5. NoTrail /\ KeepsPicture
  BY <1>4 DEF Init, NoTrail, KeepsPicture, Arrow
<1> QED
  BY <1>3, <1>5 DEF Init, IInv, Counter

\* Saving a pixel takes it from the screen into the cursor's keeping; it is not
\* one of the cursor's own, and it is the latest unless overdrawn.
LEMMA SaveInv == ASSUME IInv, SavePixel PROVE IInv'
<1>1. TypeOK /\ i \in Index /\ pc = "save"
  BY DEF IInv, TypeOK, SavePixel
<1>2. Cell(i) \in Cells
  BY <1>1, CellOnDisplay
<1>3. ~Held(Cell(i))
  <2> SUFFICES ASSUME NEW j \in Index, Cell(j) = Cell(i), Holds(j) PROVE FALSE
    BY DEF Held
  <2>1. j = i
    BY <1>1, CellsDiffer
  <2> QED
    BY <1>1, <2>1, Sizes DEF Holds
<1>4. screen[Cell(i)] \in Colours
  BY <1>1, <1>2, <1>3 DEF IInv, TypeOK, NoTrail
<1>5. \A j \in Index : Cell(j)' = Cell(j)
  BY DEF SavePixel, Cell, place
<1>6. \A j \in Index : Holds(j)' <=> Holds(j) \/ j = i
  <2> TAKE j \in Index
  <2>1. j \in Nat /\ i \in Nat
    BY <1>1, Sizes
  <2>2. CASE i + 1 < CW * CH
    BY <1>1, <2>1, <2>2 DEF Holds, SavePixel, Loop
  <2>3. CASE ~(i + 1 < CW * CH)
    <3>1. j <= i
      BY <1>1, <2>3, Sizes
    <3> QED
      BY <1>1, <2>1, <2>3, <3>1 DEF Holds, SavePixel, Loop
  <2> QED
    BY <2>2, <2>3
<1>7. TypeOK'
  <2>1. i' \in Index /\ pc' \in {"save", "draw"}
    BY <1>1, Sizes DEF SavePixel, Loop
  <2>2. save_cursor' \in [Index -> Colours]
    BY <1>1, <1>4 DEF SavePixel, TypeOK
  <2> QED
    BY <1>1, <2>1, <2>2 DEF TypeOK, SavePixel, place, paintVars
<1>8. Counter'
  BY <1>1 DEF Counter, SavePixel, Loop
<1>9. NoTrail'
  BY <1>5, <1>6 DEF NoTrail, Held, IInv, SavePixel, paintVars
<1>10. KeepsPicture'
  <2> SUFFICES ASSUME NEW c \in Cells \ overdrawn
               PROVE  /\ ~Held(c)' => screen[c] = latest[c]
                      /\ \A j \in Index : Cell(j) = c /\ Holds(j)'
                           => save_cursor'[j] = latest[c]
    BY <1>5 DEF KeepsPicture, SavePixel, paintVars
  <2>1. ~Held(c)' => ~Held(c)
    BY <1>5, <1>6 DEF Held
  <2>2. ASSUME NEW j \in Index, Cell(j) = c, Holds(j)'
        PROVE  save_cursor'[j] = latest[c]
    <3>1. CASE j = i
      BY <1>1, <1>3, <2>2, <3>1 DEF SavePixel, TypeOK, IInv, KeepsPicture
    <3>2. CASE j # i
      BY <1>1, <1>6, <2>2, <3>2 DEF SavePixel, TypeOK, IInv, KeepsPicture
    <3> QED
      BY <3>1, <3>2
  <2> QED
    BY <2>1, <2>2 DEF IInv, KeepsPicture
<1> QED
  BY <1>7, <1>8, <1>9, <1>10 DEF IInv

\* Restoring a pixel puts its latest colour back on the screen.
LEMMA RestoreInv == ASSUME IInv, RestorePixel PROVE IInv'
<1>1. TypeOK /\ i \in Index /\ pc = "restore"
  BY DEF IInv, TypeOK, RestorePixel
<1>2. Cell(i) \in Cells /\ Holds(i)
  BY <1>1, CellOnDisplay, Sizes DEF Holds
<1>3. \A j \in Index : Cell(j)' = Cell(j)
  BY DEF RestorePixel, Cell, place
<1>4. \A j \in Index : Holds(j)' <=> Holds(j) /\ j # i
  <2> TAKE j \in Index
  <2>1. j \in Nat /\ i \in Nat
    BY <1>1, Sizes
  <2>2. CASE i + 1 < CW * CH
    BY <1>1, <2>1, <2>2 DEF Holds, RestorePixel, Loop
  <2>3. CASE ~(i + 1 < CW * CH)
    <3>1. j <= i
      BY <1>1, <2>3, Sizes
    <3> QED
      BY <1>1, <2>1, <2>3, <3>1 DEF Holds, RestorePixel, Loop
  <2> QED
    BY <2>2, <2>3
<1>5. \A c \in Cells : screen'[c] = IF c = Cell(i) THEN save_cursor[i] ELSE screen[c]
  BY <1>1, <1>2 DEF RestorePixel, TypeOK
<1>6. save_cursor[i] \in Colours /\ Arrow \notin Colours
  BY <1>1 DEF TypeOK, Colours, Arrow
<1>7. TypeOK'
  <2>1. i' \in Index /\ pc' \in {"restore", "move"}
    BY <1>1, Sizes DEF RestorePixel, Loop
  <2>2. screen' \in [Cells -> Colours \cup {Arrow}]
    BY <1>1, <1>6 DEF RestorePixel, TypeOK
  <2> QED
    BY <1>1, <2>1, <2>2 DEF TypeOK, RestorePixel, place
<1>8. Counter'
  BY <1>1 DEF Counter, RestorePixel, Loop
<1>9. ASSUME NEW c \in Cells PROVE Held(c)' <=> Held(c) /\ c # Cell(i)
  <2>1. \A j \in Index : Cell(j) = Cell(i) => j = i
    BY <1>1, CellsDiffer
  <2> QED
    BY <1>1, <1>3, <1>4, <2>1 DEF Held
<1>10. NoTrail'
  BY <1>5, <1>6, <1>9 DEF NoTrail, IInv
<1>11. KeepsPicture'
  <2> SUFFICES ASSUME NEW c \in Cells \ overdrawn
               PROVE  /\ ~Held(c)' => screen'[c] = latest[c]
                      /\ \A j \in Index : Cell(j) = c /\ Holds(j)'
                           => save_cursor[j] = latest[c]
    BY <1>3 DEF KeepsPicture, RestorePixel
  <2>1. ~Held(c)' => screen'[c] = latest[c]
    <3>1. CASE c = Cell(i)
      BY <1>1, <1>2, <1>5, <3>1 DEF IInv, KeepsPicture
    <3>2. CASE c # Cell(i)
      BY <1>5, <1>9, <3>2 DEF IInv, KeepsPicture
    <3> QED
      BY <3>1, <3>2
  <2> QED
    BY <1>4, <2>1 DEF IInv, KeepsPicture
<1> QED
  BY <1>7, <1>8, <1>10, <1>11 DEF IInv

\* The cursor is drawn only over cells it holds.
LEMMA DrawInv == ASSUME IInv, DrawPixel PROVE IInv'
<1>1. TypeOK /\ i \in Index /\ pc = "draw"
  BY DEF IInv, TypeOK, DrawPixel
<1>2. Cell(i) \in Cells
  BY <1>1, CellOnDisplay
<1>3. \A j \in Index : Cell(j)' = Cell(j) /\ Holds(j) /\ Holds(j)'
  BY <1>1 DEF DrawPixel, Cell, place, Holds, Loop
<1>4. Held(Cell(i))
  BY <1>1, <1>3 DEF Held
<1>5. \A c \in Cells : screen'[c] = screen[c] \/ c = Cell(i)
  BY <1>1, <1>2 DEF DrawPixel, TypeOK
<1>6. TypeOK'
  <2>1. i' \in Index /\ pc' \in {"draw", "read", "button"}
    BY <1>1, Sizes DEF DrawPixel, Loop
  <2>2. screen' \in [Cells -> Colours \cup {Arrow}]
    BY <1>1 DEF DrawPixel, TypeOK
  <2> QED
    BY <1>1, <2>1, <2>2 DEF TypeOK, DrawPixel, place
<1>7. Counter'
  BY <1>1 DEF Counter, DrawPixel, Loop
<1>8. \A c \in Cells : Held(c)' <=> Held(c)
  BY <1>3 DEF Held
<1>9. NoTrail'
  BY <1>4, <1>5, <1>8 DEF NoTrail, IInv
<1>10. KeepsPicture'
  BY <1>3, <1>4, <1>5, <1>8 DEF KeepsPicture, IInv, DrawPixel
<1> QED
  BY <1>6, <1>7, <1>9, <1>10 DEF IInv

\* A cell painted by another thread is overdrawn exactly if the cursor holds it.
LEMMA PaintInv == ASSUME IInv, NEW c \in Region, Paint(c) PROVE IInv'
<1>1. TypeOK /\ c \in Cells /\ Paints \in Nat
  BY PaintsAssumption DEF IInv
<1>2. \A j \in Index : Cell(j)' = Cell(j) /\ (Holds(j)' <=> Holds(j))
  BY DEF Paint, Cell, Holds, place
<1>3. \A d \in Cells : Held(d)' <=> Held(d)
  BY <1>2 DEF Held
<1>4. latest'[c] \in Colours /\ latest'[c] # Arrow
  <2>1. latest[c] \in Nat /\ latest[c] < Paints
    BY <1>1 DEF Paint, TypeOK, Colours
  <2>2. latest'[c] = latest[c] + 1
    BY <1>1 DEF Paint, TypeOK
  <2> QED
    BY <1>1, <2>1, <2>2 DEF Colours, Arrow
<1>5. \A d \in Cells : /\ screen'[d] = IF d = c THEN latest'[c] ELSE screen[d]
                       /\ d # c => latest'[d] = latest[d]
  BY <1>1 DEF Paint, TypeOK
<1>6. TypeOK'
  <2>1. latest' \in [Cells -> Colours] /\ screen' \in [Cells -> Colours \cup {Arrow}]
    BY <1>1, <1>4 DEF Paint, TypeOK
  <2>2. overdrawn' \subseteq Cells
    <3>1. overdrawn' = overdrawn \cup {c} \/ overdrawn' = overdrawn \ {c}
      BY DEF Paint
    <3> QED
      BY <1>1, <3>1 DEF TypeOK
  <2> QED
    BY <1>1, <2>1, <2>2 DEF TypeOK, Paint, place
<1>7. Counter'
  BY DEF Counter, Paint, IInv
<1>8. NoTrail'
  BY <1>3, <1>4, <1>5 DEF NoTrail, IInv
<1>9. KeepsPicture'
  <2> SUFFICES ASSUME NEW d \in Cells, d \notin overdrawn'
               PROVE  /\ ~Held(d) => screen'[d] = latest'[d]
                      /\ \A j \in Index : Cell(j) = d /\ Holds(j)
                           => save_cursor[j] = latest'[d]
    BY <1>2, <1>3 DEF KeepsPicture, Paint
  <2>1. CASE d = c
    BY <1>1, <1>5, <2>1 DEF Paint, Held
  <2>2. CASE d # c
    BY <1>5, <2>2 DEF Paint, IInv, KeepsPicture
  <2> QED
    BY <2>1, <2>2
<1> QED
  BY <1>6, <1>7, <1>8, <1>9 DEF IInv

\* A step outside the loops keeps what the cursor holds: all of it or nothing.
LEMMA StillInv ==
  ASSUME IInv, UNCHANGED <<paintVars, save_cursor>>,
         \/ \A j \in Index : Cell(j)' = Cell(j) /\ (Holds(j)' <=> Holds(j))
         \/ \A j \in Index : ~Holds(j) /\ ~Holds(j)'
  PROVE  NoTrail' /\ KeepsPicture'
<1>1. \A c \in Cells : Held(c)' <=> Held(c)
  BY DEF Held
<1> QED
  BY <1>1 DEF IInv, NoTrail, KeepsPicture, paintVars

LEMMA StartInv == ASSUME IInv, Start PROVE IInv'
<1>1. TypeOK' /\ Counter'
  BY DisplayAssumption, Sizes DEF IInv, TypeOK, Counter, Start, paintVars, Index
<1>2. \A j \in Index : ~Holds(j) /\ ~Holds(j)'
  BY Sizes DEF Start, Holds
<1> QED
  BY <1>1, <1>2, StillInv DEF IInv, Start

LEMMA ReadInv == ASSUME IInv, Read PROVE IInv'
<1>1. PICK p \in Packets :
        /\ mevent' = [x |-> p.x, y |-> -p.y,
                      button |-> Pressed(p.buttons, mevent.button)]
        /\ bits' = p.buttons
  BY DEF Read
<1>2. p.x \in Int /\ -p.y \in Int /\ p.buttons \in 0 .. 7
  BY PacketsAssumption
<1>3. Pressed(p.buttons, mevent.button) \in Int
  BY DEF Pressed, IInv, TypeOK
<1>4. mevent' \in [x : Int, y : Int, button : Int]
  BY <1>1, <1>2, <1>3
<1>5. i = 0 /\ i' = 0
  BY DEF IInv, Counter, Read
<1>6. TypeOK' /\ Counter'
  BY <1>1, <1>2, <1>4, <1>5 DEF IInv, TypeOK, Counter, Read, OneMore, place, paintVars
<1>7. \A j \in Index : Cell(j)' = Cell(j) /\ Holds(j)' /\ Holds(j)
  BY <1>5, Sizes DEF Read, Holds, Cell, place
<1> QED
  BY <1>6, <1>7, StillInv DEF IInv, Read

LEMMA ClampInside ==
  ASSUME NEW v \in Int, NEW max \in Nat
  PROVE  Clamp(v, max) \in 0 .. max
BY DEF Clamp

LEMMA MoveInv == ASSUME IInv, Move PROVE IInv'
<1>1. m_x' \in 0 .. MaxX /\ m_y' \in 0 .. MaxY
  <2>1. m_x + mevent.x \in Int /\ m_y + mevent.y \in Int
    BY DisplayAssumption DEF IInv, TypeOK
  <2> QED
    BY <2>1, ClampInside, DisplayAssumption DEF Move
<1>2. i = 0 /\ i' = 0
  BY DEF IInv, Counter, Move
<1>3. TypeOK' /\ Counter'
  BY <1>1, <1>2 DEF IInv, TypeOK, Counter, Move, paintVars
<1>4. \A j \in Index : ~Holds(j) /\ ~Holds(j)'
  BY <1>2, Sizes DEF Move, Holds
<1> QED
  BY <1>3, <1>4, StillInv DEF IInv, Move

LEMMA ButtonInv == ASSUME IInv, Button PROVE IInv'
<1>1. mevent' \in [x : Int, y : Int, button : Int]
  BY DEF IInv, TypeOK, Button
<1>2. TypeOK' /\ Counter'
  BY <1>1 DEF IInv, TypeOK, Counter, Button, OneMore, place, paintVars
<1>3. \A j \in Index : Cell(j)' = Cell(j) /\ Holds(j)' /\ Holds(j)
  BY DEF Button, Holds, Cell, place
<1> QED
  BY <1>2, <1>3, StillInv DEF IInv, Button

\* The inductive invariant: types, what the screen and save_cursor hold of each
\* cell, and that two pixels of the cursor never share a cell.
THEOREM CursorInductive == Spec => []IInv
<1>1. Init => IInv
  BY InitInv
<1>2. IInv /\ [Next]_vars => IInv'
  <2> SUFFICES ASSUME IInv, [Next]_vars PROVE IInv'
    OBVIOUS
  <2>1. CASE Mouse /\ ~Poll
    BY <2>1, StartInv, ReadInv, RestoreInv, MoveInv, SaveInv, DrawInv, ButtonInv DEF Mouse
  <2>2. CASE \E c \in Region : Paint(c)
    BY <2>2, PaintInv
  <2>3. CASE Poll \/ UNCHANGED vars
    <3>1. UNCHANGED vars
      BY <2>3 DEF Poll
    <3>2. TypeOK' /\ Counter'
      BY <3>1 DEF vars, place, paintVars, IInv, TypeOK, Counter
    <3>3. \A j \in Index : Cell(j)' = Cell(j) /\ (Holds(j)' <=> Holds(j))
      BY <3>1 DEF vars, place, Cell, Holds
    <3> QED
      BY <3>1, <3>2, <3>3, StillInv DEF vars, IInv
  <2> QED
    BY <2>1, <2>2, <2>3 DEF Next
<1> QED
  BY <1>1, <1>2, PTL DEF Spec

\* Types; among them, that the cursor and all its pixels are on the display and
\* that save_cursor never holds a pixel of the cursor itself.
THEOREM CursorTypes == Spec => []TypeOK
BY CursorInductive, PTL DEF IInv

\* The cursor leaves no trail, whoever paints over it.
THEOREM LeavesNoTrail == Spec => []NoTrail
BY CursorInductive, PTL DEF IInv

\* Lifting the cursor gives back the latest picture, but for overdrawn cells.
THEOREM GivesBackPicture == Spec => []KeepsPicture
BY CursorInductive, PTL DEF IInv

-----------------------------------------------------------------------------
(* Clicks                                                                  *)

\* mevent.button is 1 only because the packet in hand says so, but for what it
\* held before the first packet.
ClickInv == /\ pc = "read" /\ seen >= 1 => mevent.button # 1
            /\ pc \in {"restore", "move", "button"} => seen >= 1
            /\ seen = 2 /\ mevent.button = 1 => bits = 1

LEMMA ClickInit == Init => ClickInv
BY DEF Init, ClickInv

\* A packet without a single button down leaves the old value, which is not 1.
LEMMA ClickRead == IInv /\ ClickInv /\ Read => ClickInv'
<1> SUFFICES ASSUME IInv, ClickInv, Read PROVE ClickInv'
  OBVIOUS
<1>1. PICK p \in Packets :
        /\ mevent' = [x |-> p.x, y |-> -p.y,
                      button |-> Pressed(p.buttons, mevent.button)]
        /\ bits' = p.buttons
  BY DEF Read
<1>2. mevent'.button = Pressed(p.buttons, mevent.button) /\ p.buttons \in 0 .. 7
  BY <1>1, PacketsAssumption
<1>3. mevent'.button = 1 => bits' = 1 \/ mevent.button = 1
  BY <1>1, <1>2 DEF Pressed
<1>4. /\ pc = "read" /\ pc' = "restore" /\ seen \in 0 .. 2
      /\ seen' = IF seen < 2 THEN seen + 1 ELSE seen
  BY DEF Read, OneMore, IInv, TypeOK
<1> QED
  BY <1>3, <1>4 DEF ClickInv

LEMMA ClickStep == IInv /\ ClickInv /\ [Next]_vars => ClickInv'
<1> SUFFICES ASSUME IInv, ClickInv, [Next]_vars PROVE ClickInv'
  OBVIOUS
<1>1. seen \in 0 .. 2 /\ mevent \in [x : Int, y : Int, button : Int]
  BY DEF IInv, TypeOK
<1>2. CASE Read
  BY <1>2, ClickRead
<1>3. CASE Button
  <2>1. mevent'.button # 1
    BY <1>1, <1>3 DEF Button
  <2> QED
    BY <1>3, <2>1 DEF Button, ClickInv
<1>4. CASE Start \/ Move \/ Poll \/ UNCHANGED vars \/ \E c \in Region : Paint(c)
  BY <1>4 DEF Start, Move, Poll, Paint, vars, place, ClickInv
<1>5. CASE RestorePixel \/ SavePixel \/ DrawPixel
  BY <1>1, <1>5 DEF RestorePixel, SavePixel, DrawPixel, Loop, place, ClickInv
<1> QED
  BY <1>2, <1>3, <1>4, <1>5 DEF Next, Mouse

\* A click is counted only for a packet with the left button alone down, or once
\* for what mevent.button held before the first packet, for any packets and any
\* uninitialized value (mouse.c:86-102, main.c:89-96).
THEOREM LeftClicksCounted == Spec => CountsLeftOnly
<1>1. IInv /\ ClickInv /\ [Next]_vars => [bits = 1 \/ seen = 1]_left_button
  <2> SUFFICES ASSUME IInv, ClickInv, [Next]_vars, left_button' # left_button
               PROVE  bits = 1 \/ seen = 1
    OBVIOUS
  <2>1. Button
    BY DEF Next, Mouse, Start, Read, Poll, RestorePixel, Move, SavePixel, DrawPixel,
           Paint, vars, place
  <2>2. mevent.button = 1 /\ pc = "button" /\ seen \in 0 .. 2
    BY <2>1 DEF Button, IInv, TypeOK
  <2> QED
    BY <2>2 DEF ClickInv
<1> QED
  BY <1>1, ClickInit, ClickStep, CursorInductive, PTL DEF Spec, CountsLeftOnly
=============================================================================
