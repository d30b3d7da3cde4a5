-------------------------------- MODULE Clock --------------------------------
(***************************************************************************)
(* The clock panel: get_time of clock.c, beside the threads that use the   *)
(* same framebuffer.  The thread frames a panel (fb_draw_rect), saves it   *)
(* once (save_frame) and then, for ever, puts the saved panel back         *)
(* (load_frame) and writes the time and the day on it (display_string).    *)
(* Nothing keeps the player from painting pictures and the mouse thread    *)
(* from moving its cursor meanwhile.                                       *)
(*                                                                         *)
(* One row of the panel stands for all, in bytes, as the code copies it,   *)
(* with the pixel that follows the panel.  main does not start the thread  *)
(* at this commit (main.c:124-125).                                        *)
(***************************************************************************)
EXTENDS Integers, FiniteSetsExt

CONSTANTS
  Len,           \* pixels of a row of the panel (230)
  Bytes,         \* bytes of a pixel (4)
  Border,        \* pixels of the row that fb_draw_rect paints
  Faces,         \* the pixels that a time and a day may cover in the row
  Pictures       \* what the player may paint

Pixels == 0 .. Len               \* the panel's and the one after
Memory == 0 .. (Len + 1) * Bytes - 1
Span   == 0 .. Len * Bytes       \* i runs from x to x+len*4 included

ASSUME SizeAssumption  == Len \in Nat \ {0} /\ Bytes \in Nat \ {0}
ASSUME InsideAssumption ==
  /\ Border \subseteq 0 .. Len - 1
  /\ Faces # {} /\ \A f \in Faces : f \subseteq 0 .. Len - 1

VARIABLES
  pc,            \* the thread's next step
  i,             \* the byte its loop has reached
  todo,          \* pixels still to be drawn by fb_draw_rect or display_string
  face,          \* the time and the day, as pixels
  font,          \* init_ft has loaded the font
  save_buf,      \* the saved panel
  screen,        \* the framebuffer
  cursor,        \* mouse: the pixel its cursor is on, or None
  save_cursor    \* mouse: what was there

clockVars == <<pc, i, todo, face, font, save_buf>>
mouseVars == <<cursor, save_cursor>>
vars == <<clockVars, screen, mouseVars>>

None == -1

\* What a byte may belong to.
Picture(v) == <<"picture", v>>
Frame   == <<"frame", 0>>
Arrow   == <<"arrow", 0>>
Now     == <<"text", 0>>
Earlier == <<"text", 1>>

Nothing == [b \in 0 .. Bytes - 1 |-> Picture(0)]

Of(p) == p * Bytes .. (p + 1) * Bytes - 1

Paint(p, colour) == [b \in Memory |-> IF b \in Of(p) THEN colour ELSE screen[b]]

\* A second passes: what was written belongs to an earlier time.
Older(memory) == [b \in DOMAIN memory |-> IF memory[b] = Now THEN Earlier ELSE memory[b]]

Init == /\ pc = "begin" /\ i = 0 /\ todo = {}
        /\ face \in Faces /\ font = FALSE
        /\ save_buf = [b \in Span |-> Picture(0)]
        /\ screen = [b \in Memory |-> Picture(0)]
        /\ cursor = None /\ save_cursor = Nothing

-----------------------------------------------------------------------------
(* get_time                                                                *)

\* init_fb's failure ends the thread.  init_ft's does not: it is reported as 1 and
\* tested for as a negative number.
Begin == /\ pc = "begin"
         /\ \/ pc' = "returned" /\ UNCHANGED <<font, todo>>
            \/ pc' = "rect" /\ font' \in BOOLEAN /\ todo' = Border
         /\ UNCHANGED <<i, face, save_buf, screen, mouseVars>>

RectPixel == /\ pc = "rect" /\ todo # {}
             /\ screen' = Paint(Min(todo), Frame)
             /\ todo' = todo \ {Min(todo)}
             /\ UNCHANGED <<pc, i, face, font, save_buf, mouseVars>>

RectDone == /\ pc = "rect" /\ todo = {}
            /\ pc' = "save"
            /\ UNCHANGED <<i, todo, face, font, save_buf, screen, mouseVars>>

\* Wrong variant: the loops leave out the last pixel of the panel.
NextByteShort(then) == IF i < (Len - 1) * Bytes THEN i' = i + 1 /\ UNCHANGED pc
                                                ELSE i' = 0 /\ pc' = then

\* One more byte of a loop over the panel, and what follows the last.
NextByte(then) == IF i < Len * Bytes THEN i' = i + 1 /\ UNCHANGED pc
                                     ELSE i' = 0 /\ pc' = then

SaveByte == /\ pc = "save"
            /\ save_buf' = [b \in DOMAIN save_buf \cup {i} |->
                              IF b = i THEN screen[i] ELSE save_buf[b]]
            /\ NextByte("format")
            /\ UNCHANGED <<todo, face, font, screen, mouseVars>>

\* time, asctime, sscanf and sprintf.
Format == /\ pc = "format"
          /\ face' \in Faces
          /\ screen' = Older(screen)
          /\ save_cursor' = Older(save_cursor)
          /\ pc' = "load"
          /\ UNCHANGED <<i, todo, font, save_buf, cursor>>

\* Wrong variant: p++ before the byte is put back.
LoadByteLate == /\ pc = "load"
                /\ screen' = [screen EXCEPT ![i + 1] = save_buf[i]]
                /\ NextByte("print")
                /\ UNCHANGED <<todo, face, font, save_buf, mouseVars>>

LoadByte == /\ pc = "load"
            /\ screen' = [screen EXCEPT ![i] = save_buf[i]]
            /\ NextByte("print")
            /\ UNCHANGED <<todo, face, font, save_buf, mouseVars>>

\* display_string: without a font it stops at the first character.
Write == /\ pc = "print"
         /\ todo' = IF font THEN face ELSE {}
         /\ pc' = "text"
         /\ UNCHANGED <<i, face, font, save_buf, screen, mouseVars>>

TextPixel == /\ pc = "text" /\ todo # {}
             /\ screen' = Paint(Min(todo), Now)
             /\ todo' = todo \ {Min(todo)}
             /\ UNCHANGED <<pc, i, face, font, save_buf, mouseVars>>

\* Wrong variant: the panel is saved anew in every round.
SleepAndSave == /\ pc = "text" /\ todo = {}
                /\ pc' = "save"
                /\ UNCHANGED <<i, todo, face, font, save_buf, screen, mouseVars>>

Sleep == /\ pc = "text" /\ todo = {}
         /\ pc' = "format"
         /\ UNCHANGED <<i, todo, face, font, save_buf, screen, mouseVars>>

GetTime == \/ Begin \/ RectPixel \/ RectDone \/ SaveByte \/ Format
           \/ LoadByte \/ Write \/ TextPixel \/ Sleep

-----------------------------------------------------------------------------
(* The others                                                              *)

\* A picture is painted over the pixel.
Player(p) == /\ \E v \in Pictures : screen' = Paint(p, Picture(v))
             /\ UNCHANGED <<clockVars, mouseVars>>

\* fb_restore_cursor: the copy is of no more use.
Lift == /\ cursor # None
        /\ screen' = [b \in Memory |-> IF b \in Of(cursor)
                                         THEN save_cursor[b - cursor * Bytes] ELSE screen[b]]
        /\ cursor' = None /\ save_cursor' = Nothing
        /\ UNCHANGED clockVars

\* fb_save_cursor and fb_draw_cursor
Put(p) == /\ cursor = None
          /\ save_cursor' = [b \in 0 .. Bytes - 1 |-> screen[p * Bytes + b]]
          /\ screen' = Paint(p, Arrow)
          /\ cursor' = p
          /\ UNCHANGED clockVars

Next == GetTime \/ Lift \/ \E p \in Pixels : Player(p) \/ Put(p)

Spec == Init /\ [][Next]_vars

\* The thread goes on; nothing is assumed of the others.
FairSpec == Spec /\ WF_vars(GetTime)

-----------------------------------------------------------------------------

Background == {Picture(v) : v \in Pictures \cup {0}} \cup {Frame, Arrow}

\* What was saved is never text: a time that has passed can come back from
\* save_cursor, but it is not kept in the panel for good.
TypeOK == /\ pc \in {"begin", "returned", "rect", "save", "format", "load", "print", "text"}
          /\ i \in Span
          /\ todo \subseteq 0 .. Len - 1 /\ face \in Faces /\ font \in BOOLEAN
          /\ save_buf \in [Span -> Background]
          /\ screen \in [Memory -> Background \cup {Now, Earlier}]
          /\ cursor \in Pixels \cup {None}
          /\ save_cursor \in [0 .. Bytes - 1 -> Background \cup {Now, Earlier}]

\* When the others come to rest, every round leaves the panel with this second's
\* time on the background that was saved once: no digit of an earlier time stays,
\* not even one that the cursor gave back, and no picture painted since is seen,
\* nor the cursor that rests there; without a font the background is all there is
\* (clock.c:85-105, main.c:514).
OnPanel == \A b \in 0 .. Len * Bytes - 1 :
             screen[b] = IF font /\ b \div Bytes \in face THEN Now ELSE save_buf[b]

PanelConverges == <>[][GetTime]_vars => <>[](pc = "format" => OnPanel)

\* Beside the panel the thread changes a single byte of every row, the first of
\* the pixel that follows, to what it was when the panel was saved: if a picture
\* has been painted since, that pixel has the colour of neither
\* (clock.c:25, 46).
SpillsOneByte ==
  [][GetTime => \A b \in Memory :
       b >= Len * Bytes /\ screen'[b] # screen[b]
         => b = Len * Bytes /\ screen'[b] = save_buf[b]]_screen
=============================================================================
