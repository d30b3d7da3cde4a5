------------------------------- MODULE Cursor -------------------------------
(***************************************************************************)
(* The mouse thread, test_mouse in main.c with the functions of mouse.c:   *)
(* it lifts the cursor (fb_restore_cursor), moves it, keeps what is below  *)
(* its new place (fb_save_cursor) and draws it there (fb_draw_cursor).     *)
(* Nothing keeps other threads from drawing meanwhile, so every pixel of   *)
(* the three loops is a step, and any pixel of a region may be painted by  *)
(* somebody else between two steps.                                        *)
(*                                                                         *)
(* A colour is the number of times its pixel had been painted when it was  *)
(* put there, or Arrow for a pixel of the cursor.                          *)
(***************************************************************************)
EXTENDS Integers

CONSTANTS
  W, H,          \* the display (1024 x 768)
  CW, CH,        \* C_WIDTH and C_HEIGHT (10 x 17)
  MaxX, MaxY,    \* where the position is clamped (1014, 751)
  Opaque,        \* pixels of cursor_pixel that are not T___
  Packets,       \* what the mouse may send: buttons 0 .. 7, movements x and y
  Buttons,       \* what mevent.button may hold before the first packet
  Region,        \* cells of the display other threads paint
  Paints         \* bound: how often they paint one of them

Cells == (0 .. W - 1) \X (0 .. H - 1)
Index == 0 .. CW * CH - 1
Arrow == -1

ASSUME DisplayAssumption == /\ W \in Nat \ {0} /\ H \in Nat \ {0}
                            /\ CW \in Nat \ {0} /\ CH \in Nat \ {0}
                            /\ MaxX \in Nat /\ MaxX + CW <= W /\ W \div 2 <= MaxX
                            /\ MaxY \in Nat /\ MaxY + CH <= H /\ H \div 2 <= MaxY
ASSUME CursorAssumption  == Opaque \subseteq Index
ASSUME PacketsAssumption == Packets \subseteq [buttons : 0 .. 7, x : Int, y : Int]
ASSUME ButtonsAssumption == Buttons \subseteq Int
ASSUME PaintsAssumption  == Region \subseteq Cells /\ Paints \in Nat

VARIABLES
  pc,            \* the thread's next step
  i,             \* the pixel its loop has reached
  fdOpen,        \* mouse_open succeeded
  m_x, m_y,      \* position of the cursor
  mevent,        \* the event last parsed
  left_button,   \* left clicks, counted up to two
  save_cursor,   \* what fb_save_cursor read
  screen,        \* the framebuffer
  latest,        \* history: paintings of each cell by the other threads
  overdrawn,     \* history: cells last painted while the cursor held them
  bits,          \* history: buttons of the packet last read
  seen           \* history: packets read, up to two

place   == <<m_x, m_y>>
paintVars == <<screen, latest, overdrawn>>
vars == <<pc, i, fdOpen, place, mevent, left_button, save_cursor, paintVars, bits, seen>>

\* Pixel j of the cursor, at its present place.
Cell(j) == <<m_x + (j % CW), m_y + (j \div CW)>>

\* The cell's colour is in save_cursor, to be put back: it has been saved since
\* it was last restored.
Holds(j) == \/ pc = "save" /\ j < i
            \/ pc \in {"draw", "button", "read"}
            \/ pc = "restore" /\ j >= i

Held(c) == \E j \in Index : Cell(j) = c /\ Holds(j)

Init == /\ pc = "start" /\ i = 0
        /\ fdOpen = FALSE
        /\ m_x = 0 /\ m_y = 0
        /\ \E b \in Buttons : mevent = [x |-> 0, y |-> 0, button |-> b]
        /\ left_button = 0
        /\ save_cursor = [j \in Index |-> 0]
        /\ screen = [c \in Cells |-> 0]
        /\ latest = [c \in Cells |-> 0]
        /\ overdrawn = {}
        /\ bits = 0 /\ seen = 0

-----------------------------------------------------------------------------

OneMore(n) == IF n < 2 THEN n + 1 ELSE n

\* mouse_open may fail; the thread does not look.
Start == /\ pc = "start"
         /\ m_x' = W \div 2 /\ m_y' = H \div 2
         /\ fdOpen' \in BOOLEAN
         /\ pc' = "save" /\ i' = 0
         /\ UNCHANGED <<mevent, left_button, save_cursor, paintVars, bits, seen>>

\* A single button has a number; none, or several at once, leave the old one.
Pressed(b, before) == CASE b = 1 -> 1
                        [] b = 2 -> 2
                        [] b = 4 -> 3
                        [] OTHER -> before

\* Wrong variant: the cursor is not lifted before it moves.
ReadNoLift == /\ pc = "read" /\ fdOpen
              /\ \E p \in Packets :
                   /\ mevent' = [x |-> p.x, y |-> -p.y, button |-> mevent.button]
                   /\ bits' = p.buttons
              /\ seen' = OneMore(seen)
              /\ pc' = "move" /\ i' = 0
              /\ UNCHANGED <<fdOpen, place, left_button, save_cursor, paintVars>>

Read == /\ pc = "read" /\ fdOpen
        /\ \E p \in Packets :
             /\ mevent' = [x |-> p.x, y |-> -p.y,
                           button |-> Pressed(p.buttons, mevent.button)]
             /\ bits' = p.buttons
        /\ seen' = OneMore(seen)
        /\ pc' = "restore" /\ i' = 0
        /\ UNCHANGED <<fdOpen, place, left_button, save_cursor, paintVars>>

\* read() has nothing, or fails: sleep and try again.
Poll == pc = "read" /\ UNCHANGED vars

\* Wrong variant: the loops leave out the last pixel.
LoopShort(next) == IF i + 2 < CW * CH THEN pc' = pc /\ i' = i + 1
                                      ELSE pc' = next /\ i' = 0

\* One more pixel of a loop over the cursor, and what follows the last.
Loop(next) == IF i + 1 < CW * CH THEN pc' = pc /\ i' = i + 1
                                 ELSE pc' = next /\ i' = 0

RestorePixel == /\ pc = "restore"
                /\ screen' = [screen EXCEPT ![Cell(i)] = save_cursor[i]]
                /\ Loop("move")
                /\ UNCHANGED <<fdOpen, place, mevent, left_button, save_cursor,
                               latest, overdrawn, bits, seen>>

\* Wrong variant: off by one.
ClampLoosely(v, max) == IF v < 0 THEN 0 ELSE IF v >= max + 1 THEN max + 1 ELSE v

Clamp(v, max) == IF v < 0 THEN 0 ELSE IF v >= max THEN max ELSE v

Move == /\ pc = "move"
        /\ m_x' = Clamp(m_x + mevent.x, MaxX)
        /\ m_y' = Clamp(m_y + mevent.y, MaxY)
        /\ pc' = "save"
        /\ UNCHANGED <<i, fdOpen, mevent, left_button, save_cursor, paintVars, bits, seen>>

SavePixel == /\ pc = "save"
             /\ save_cursor' = [save_cursor EXCEPT ![i] = screen[Cell(i)]]
             /\ Loop("draw")
             /\ UNCHANGED <<fdOpen, place, mevent, left_button, paintVars, bits, seen>>

\* After the first drawing there is no event to look at.
DrawPixel == /\ pc = "draw"
             /\ screen' = IF i \in Opaque
                            THEN [screen EXCEPT ![Cell(i)] = Arrow]
                            ELSE screen
             /\ Loop(IF seen = 0 THEN "read" ELSE "button")
             /\ UNCHANGED <<fdOpen, place, mevent, left_button, save_cursor,
                            latest, overdrawn, bits, seen>>

\* Wrong variant: the left button stays in mevent.
ButtonKept == /\ pc = "button"
              /\ left_button' = IF mevent.button = 1 THEN OneMore(left_button) ELSE left_button
              /\ pc' = "read"
              /\ UNCHANGED <<i, fdOpen, place, mevent, save_cursor, paintVars, bits, seen>>

\* right_button is only ever counted; nothing reads it.
Button == /\ pc = "button"
          /\ IF mevent.button = 1
               THEN /\ left_button' = OneMore(left_button)
                    /\ mevent' = [mevent EXCEPT !.button = 0]
               ELSE UNCHANGED <<left_button, mevent>>
          /\ pc' = "read"
          /\ UNCHANGED <<i, fdOpen, place, save_cursor, paintVars, bits, seen>>

\* Another thread paints a pixel; it knows nothing of the cursor.
Paint(c) ==
  /\ latest[c] < Paints
  /\ latest' = [latest EXCEPT ![c] = @ + 1]
  /\ screen' = [screen EXCEPT ![c] = latest'[c]]
  /\ overdrawn' = IF Held(c) THEN overdrawn \cup {c} ELSE overdrawn \ {c}
  /\ UNCHANGED <<pc, i, fdOpen, place, mevent, left_button, save_cursor, bits, seen>>

Mouse == \/ Start \/ Read \/ Poll \/ RestorePixel \/ Move
         \/ SavePixel \/ DrawPixel \/ Button

Next == Mouse \/ \E c \in Region : Paint(c)

Spec == Init /\ [][Next]_vars

-----------------------------------------------------------------------------

Colours == 0 .. Paints

TypeOK == /\ pc \in {"start", "read", "restore", "move", "save", "draw", "button"}
          /\ i \in Index
          /\ fdOpen \in BOOLEAN
          /\ m_x \in 0 .. MaxX /\ m_y \in 0 .. MaxY
          /\ mevent \in [x : Int, y : Int, button : Int]
          /\ left_button \in 0 .. 2
          /\ save_cursor \in [Index -> Colours]
          /\ screen \in [Cells -> Colours \cup {Arrow}]
          /\ latest \in [Cells -> Colours]
          /\ overdrawn \subseteq Cells
          /\ bits \in 0 .. 7 /\ seen \in 0 .. 2

\* The cursor leaves no trail: a pixel of it is on the screen only where
\* save_cursor still holds what was there, so that the next move removes it,
\* although other threads paint over the cursor between any two pixels
\* (main.c:66-84, mouse.c:137-198).
NoTrail == \A c \in Cells : screen[c] = Arrow => Held(c)

\* Lifting the cursor gives back the latest picture everywhere, except where
\* another thread painted a cell while the cursor held it: there the picture
\* from before the painting comes back (main.c:66, mouse.c:147).
KeepsPicture ==
  \A c \in Cells \ overdrawn :
    /\ ~Held(c) => screen[c] = latest[c]
    /\ \A j \in Index : Cell(j) = c /\ Holds(j) => save_cursor[j] = latest[c]

\* Every left click counted is that of a packet with the left button alone
\* down; only before the first packet can mevent.button, which is not
\* initialized, be taken for one (mouse.c:86-102, main.c:89-96).
CountsLeftOnly == [][bits = 1 \/ seen = 1]_left_button
=============================================================================
