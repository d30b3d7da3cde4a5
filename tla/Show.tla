-------------------------------- MODULE Show --------------------------------
(***************************************************************************)
(* Slideshow together with Transitions: what the order of the threads'     *)
(* steps means for what can be seen.  Showing a picture, one step in       *)
(* Slideshow, takes here as long as in the code: the picture is decoded,   *)
(* scaled and converted, which changes nothing on the display (module      *)
(* Pictures), then its effect paints frame after frame.  Between any two   *)
(* frames the keyboard thread may pause the show or end the process.       *)
(* Some frames write a pixel past the mapping: such a frame may be the     *)
(* last thing the process does, and what it spoils may end it later.       *)
(***************************************************************************)
EXTENDS Slideshow

CONSTANT Effect              \* the effect of each picture of the cycle, a job of Transitions

VARIABLES job, t, fb,        \* those of Transitions, for the picture being painted
          painting,          \* player: the effect runs
          screen,            \* the picture and the offset in it that each cell shows
          spilt              \* history: a frame has written past the mapping

Tr == INSTANCE Transitions WITH Jobs <- {Effect[s] : s \in DOMAIN Effect}

ASSUME EffectAssumption ==
  /\ DOMAIN Effect = 0 .. Slides - 1
  /\ \A s \in DOMAIN Effect :
       /\ Effect[s].effect \in Tr!Effects /\ Tr!WellFormed(Effect[s])
       /\ Effect[s].w = Effect[0].w /\ Effect[s].h = Effect[0].h

effectVars == <<job, t, fb, painting, screen, spilt>>
showVars   == <<vars, effectVars>>

Boot  == -1                  \* what was on the display before
Cells == Tr!Mapped(Effect[0])

Fresh == [k \in Cells |-> Tr!Old]

ShInit == /\ Init
          /\ job = Effect[0] /\ t = 0 /\ fb = Fresh
          /\ painting = FALSE
          /\ screen = [k \in Cells |-> <<Boot, k>>]
          /\ spilt = FALSE

\* Wrong variant: every picture has the effect of the one before it.
EffectOfLast(s) == Effect[(s + Slides - 1) % Slides]

\* decode_jpeg, scale24 and rgb24to32 are done: the effect begins.
EffectOf(s) == Effect[s]

Convert == /\ running /\ ppc = "show" /\ ~painting
           /\ painting' = TRUE
           /\ job' = EffectOf(slide) /\ t' = 0 /\ fb' = Fresh
           /\ UNCHANGED <<vars, screen, spilt>>

\* The next frame of the effect.
Draws == /\ running /\ painting
         /\ Tr!Next /\ t' = t + 1
         /\ spilt' = (spilt \/ DOMAIN fb' # Cells)
         /\ UNCHANGED painting

\* The cells that hold a pixel of the picture once the frame is drawn.
Touched == {k \in Cells : fb'[k] # Tr!Old}

Puts(reached) ==
  screen' = [k \in Cells |-> IF k \in reached THEN <<slide, fb'[k]>> ELSE screen[k]]

Frame == Draws /\ Puts(Touched) /\ UNCHANGED vars

\* The process dies of the frame's pixel past the mapping, with any part of the
\* rest of the frame on the display.
Fault == /\ Draws /\ DOMAIN fb' # DOMAIN fb
         /\ \E reached \in SUBSET {k \in Touched : fb'[k] # fb[k]} : Puts(reached)
         /\ Killed

\* It dies later, of what such a pixel has spoilt.
Corrupted == /\ spilt
             /\ Killed
             /\ UNCHANGED effectVars

\* Wrong variant: a pause ends the effect where it is.
ReturnOnPause == /\ painting /\ (t = Tr!Frames(job) \/ flag_play = 0)
                 /\ PlShow
                 /\ painting' = FALSE
                 /\ UNCHANGED <<job, t, fb, screen, spilt>>

\* The effect has painted its last frame and returns.
Return == /\ painting /\ t = Tr!Frames(job)
          /\ PlShow
          /\ painting' = FALSE
          /\ UNCHANGED <<job, t, fb, screen, spilt>>

\* decode_jpeg, scale24 or rgb24to32 ends the process: they are called before
\* the first frame.
Fails == /\ ~painting
         /\ PlShowFails
         /\ UNCHANGED effectVars

\* Everything else happens as in Slideshow.
Elsewhere == /\ \/ Main \/ Keyboard
                \/ PlSleep \/ PlLock \/ PlTest \/ PlTestElse \/ PlUnlock \/ PlReturn
                \/ \E k \in Keys, v \in 0 .. 2 : Key(k, v)
                \/ Ended
             /\ UNCHANGED effectVars

ShNext == Convert \/ Frame \/ Fault \/ Corrupted \/ Return \/ Fails \/ Elsewhere

ShSpec == ShInit /\ [][ShNext]_showVars

-----------------------------------------------------------------------------

Pictured == 0 .. Slides - 1 \cup {Boot}

ShTypeOK == /\ TypeOK
            /\ painting => ppc = "show" /\ job = Effect[slide]
            /\ t \in 0 .. Tr!Frames(job)
            /\ screen \in [Cells -> Pictured \X Cells]
            /\ spilt \in BOOLEAN

\* Where the picture's pixel of a cell is when its effect has finished: move
\* leaves in the first row what belongs to the second.
Home(s, k) == IF s # Boot /\ Effect[s].effect = "move" /\ k < Effect[s].w
                THEN k + Effect[s].w ELSE k

\* A picture that cannot be shown does not spoil the one before it: when the
\* process fails at it (disp-jpeg.c:392-396), the display still shows one picture,
\* whole and with each of its pixels in place.  Whatever else ends the process,
\* between two frames or within one that writes past the mapping (keyboard.c:20-24,
\* disp-jpeg.c:195, 232-236, 265), every cell shows the picture that was being
\* painted or still, in its place, the one before it.
EndLeavesPictures ==
  \E s \in Pictured : \A k \in Cells :
     \/ screen[k] = <<s, Home(s, k)>>
     \/ status # "failed" /\ screen[k][1] = slide

Scr == INSTANCE Screen WITH shown <- [k \in Cells |-> screen[k][1]],
                            picture <- IF ppc = "unborn" THEN Boot ELSE slide,
                            whole <- ppc # "show"

\* Whatever the keys pressed meanwhile, a picture begins only when the one before
\* is whole, replaces it cell by cell without turning back, and is whole before
\* the player comes to the gate: a pause never holds the show half way between
\* two pictures, each of the seven effects covers what any other left
\* (play_picture.c:41-61, disp-jpeg.c:18-381).
ImplementsScreen == Scr!ScSpec
=============================================================================
