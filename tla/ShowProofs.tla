------------------------------ MODULE ShowProofs ------------------------------
(***************************************************************************)
(* Theorems about Show, for any number of pictures, any effects that fit   *)
(* the display, and a display of any size.  What is proved of Slideshow    *)
(* and of Transitions by themselves holds of the two together; what the    *)
(* display shows follows from both.                                        *)
(***************************************************************************)
EXTENDS Show, SlideshowProofs

TrP == INSTANCE TransitionsProofs WITH Jobs <- {Effect[s] : s \in DOMAIN Effect}

-----------------------------------------------------------------------------
(* Tr and TrP are two instances of the same definitions.                   *)

LEMMA SameWellFormed == ASSUME NEW j PROVE Tr!WellFormed(j) = TrP!WellFormed(j)
BY DEF Tr!WellFormed, Tr!Strips, Tr!Larger, Tr!CircleFrames, Tr!SquareareaFrames,
       Tr!DiamondFrames, TrP!WellFormed, TrP!Strips, TrP!Larger, TrP!CircleFrames,
       TrP!SquareareaFrames, TrP!DiamondFrames

LEMMA JobsFit == TrP!JobsAssumption
BY EffectAssumption, SameWellFormed DEF TrP!JobsAssumption, Tr!Effects, TrP!Effects

LEMMA SameFrames == ASSUME NEW j PROVE Tr!Frames(j) = TrP!Frames(j)
BY DEF Tr!Frames, Tr!ShutFrames, Tr!DotFrames, Tr!BlockFrames, Tr!SloplineFrames,
       Tr!CircleFrames, Tr!SquareareaFrames, Tr!ChessboardFrames, Tr!DiamondFrames,
       Tr!MoveFrames, Tr!Strips, Tr!Cell,
       TrP!Frames, TrP!ShutFrames, TrP!DotFrames, TrP!BlockFrames, TrP!SloplineFrames,
       TrP!CircleFrames, TrP!SquareareaFrames, TrP!ChessboardFrames, TrP!DiamondFrames,
       TrP!MoveFrames, TrP!Strips, TrP!Cell

LEMMA SameMapped == ASSUME NEW j PROVE Tr!Mapped(j) = TrP!Mapped(j)
BY DEF Tr!Mapped, Tr!Size, TrP!Mapped, TrP!Size

LEMMA SameOld == Tr!Old = TrP!Old
BY DEF Tr!Old, TrP!Old

LEMMA SameNext == Tr!Next => TrP!Next
<1> SUFFICES ASSUME Tr!Next PROVE TrP!Next
  OBVIOUS
<1>0. Tr!Frames(job) = TrP!Frames(job)
  BY SameFrames
<1>1. ASSUME Tr!Shut PROVE TrP!Shut
  BY <1>0, <1>1 DEF
         Tr!Shut, Tr!Paint, Tr!ShutDots, Tr!Strips, Tr!Rows,
         TrP!Shut, TrP!Paint, TrP!ShutDots, TrP!Strips, TrP!Rows
<1>2. ASSUME Tr!Dot PROVE TrP!Dot
  BY <1>0, <1>2 DEF
         Tr!Dot, Tr!Paint, Tr!DotDots, Tr!Print16x16, Tr!Guarded, Tr!Size,
         TrP!Dot, TrP!Paint, TrP!DotDots, TrP!Print16x16, TrP!Guarded, TrP!Size
<1>3. ASSUME Tr!Block PROVE TrP!Block
  BY <1>0, <1>3 DEF
         Tr!Block, Tr!Paint, Tr!BlockDots,
         TrP!Block, TrP!Paint, TrP!BlockDots
<1>4. ASSUME Tr!Slopline PROVE TrP!Slopline
  BY <1>0, <1>4 DEF
         Tr!Slopline, Tr!Paint, Tr!SloplineDots, Tr!Guarded, Tr!Size,
         TrP!Slopline, TrP!Paint, TrP!SloplineDots, TrP!Guarded, TrP!Size
<1>5. ASSUME Tr!Circle PROVE TrP!Circle
  BY <1>0, <1>5 DEF
         Tr!Circle, Tr!Paint, Tr!CircleDots, Tr!Guarded, Tr!Size,
         TrP!Circle, TrP!Paint, TrP!CircleDots, TrP!Guarded, TrP!Size
<1>6. ASSUME Tr!Squarearea PROVE TrP!Squarearea
  BY <1>0, <1>6 DEF
         Tr!Squarearea, Tr!Paint, Tr!SquareareaDots, Tr!Guarded, Tr!Size,
         TrP!Squarearea, TrP!Paint, TrP!SquareareaDots, TrP!Guarded, TrP!Size
<1>7. ASSUME Tr!Chessboard PROVE TrP!Chessboard
  BY <1>0, <1>7 DEF
         Tr!Chessboard, Tr!Paint, Tr!ChessboardDots, Tr!Column, Tr!Cell,
         TrP!Chessboard, TrP!Paint, TrP!ChessboardDots, TrP!Column, TrP!Cell
<1>8. ASSUME Tr!Diamond PROVE TrP!Diamond
  BY <1>0, <1>8 DEF
         Tr!Diamond, Tr!Paint, Tr!DiamondDots, Tr!Mapped, Tr!Size, Tr!Abs,
         TrP!Diamond, TrP!Paint, TrP!DiamondDots, TrP!Mapped, TrP!Size, TrP!Abs
<1>9. ASSUME Tr!Move PROVE TrP!Move
  BY <1>0, <1>9 DEF Tr!Move, Tr!Slide,
         TrP!Move, TrP!Slide
<1>10. ASSUME Tr!Done PROVE TrP!Done
  BY <1>0, <1>10 DEF Tr!Done, Tr!vars,
         TrP!Done, TrP!vars
<1> QED
  BY <1>1, <1>2, <1>3, <1>4, <1>5, <1>6, <1>7, <1>8, <1>9, <1>10 DEF Tr!Next, TrP!Next

-----------------------------------------------------------------------------
(* Show does to the threads what Slideshow does                            *)

LEMMA ShowStep == [ShNext]_showVars => [Next]_vars
<1> SUFFICES ASSUME [ShNext]_showVars PROVE [Next]_vars
  OBVIOUS
<1>1. CASE Convert
  BY <1>1 DEF Convert
<1>2. CASE Frame
  BY <1>2 DEF Frame
<1>3. CASE Return
  BY <1>3 DEF Return, Next, Player
<1>4. CASE Fails
  BY <1>4 DEF Fails, Next, Player
<1>5. CASE Elsewhere
  BY <1>5 DEF Elsewhere, Next, Player
<1>6. CASE UNCHANGED showVars
  BY <1>6 DEF showVars
<1>7. CASE Fault \/ Corrupted
  BY <1>7 DEF Fault, Corrupted, Next
<1> QED
  BY <1>1, <1>2, <1>3, <1>4, <1>5, <1>6, <1>7 DEF ShNext

\* The frames of the effects do not disturb the threads: whatever is proved of
\* Slideshow holds of Show (play_picture.c:41-61).
THEOREM ShowIsSlideshow == ShSpec => Spec
<1>1. ShInit => Init
  BY DEF ShInit
<1> QED
  BY <1>1, ShowStep, PTL DEF ShSpec, Spec

\* With frames between the steps of the threads, too, flag_play changes only on a
\* batch that brought its own ev[1], where the stack's contents are no press.
THEOREM FramesDoNotDecide == QuietGarbage => (ShSpec => ActsOnReadEventsOnly)
BY ShowIsSlideshow, ReadEventsDecide

-----------------------------------------------------------------------------
(* The effect of the picture being painted                                 *)

LEMMA EffectShape ==
  /\ 0 \in DOMAIN Effect /\ DOMAIN Effect = 0 .. Slides - 1
  /\ \A s \in DOMAIN Effect : TrP!Mapped(Effect[s]) = Cells
<1>1. 0 \in DOMAIN Effect /\ DOMAIN Effect = 0 .. Slides - 1
  BY EffectAssumption, SlidesAssumption
<1>2. ASSUME NEW s \in DOMAIN Effect PROVE TrP!Mapped(Effect[s]) = Cells
  <2>1. Effect[s].w = Effect[0].w /\ Effect[s].h = Effect[0].h
    BY EffectAssumption
  <2> QED
    BY <2>1 DEF Cells, TrP!Mapped, TrP!Size, Tr!Mapped, Tr!Size
<1> QED
  BY <1>1, <1>2

LEMMA FrameInit == TrP!Init => TrP!IInv
BY JobsFit, TrP!Inductive

LEMMA FrameStep == TrP!IInv /\ [TrP!Next]_(TrP!vars) => TrP!IInv'
BY JobsFit, TrP!Inductive

\* An effect leaves on each cell a pixel of the picture or what was there.
LEMMA Pixels ==
  TrP!IInv => /\ job \in {Effect[s] : s \in DOMAIN Effect}
              /\ t \in 0 .. Tr!Frames(job)
              /\ \A k \in Cells : fb[k] \in Cells \cup {Tr!Old}
<1> SUFFICES ASSUME TrP!IInv
             PROVE  /\ job \in {Effect[s] : s \in DOMAIN Effect}
                    /\ t \in 0 .. Tr!Frames(job)
                    /\ \A k \in Cells : fb[k] \in Cells \cup {Tr!Old}
  OBVIOUS
<1>1. job \in {Effect[s] : s \in DOMAIN Effect} /\ t \in 0 .. TrP!Frames(job)
  BY JobsFit, TrP!Typed DEF TrP!TypeOK
<1>2. TrP!Mapped(job) = Cells
  BY <1>1, EffectShape
<1>3. ASSUME NEW k \in Cells PROVE fb[k] \in Cells \cup {TrP!Old}
  <2>1. CASE job.effect = "move"
    BY <1>2, <2>1, JobsFit, TrP!MovedInside
  <2>2. CASE job.effect # "move"
    <3>1. /\ DOMAIN fb = TrP!Mapped(job) \cup TrP!Painted(job, t)
          /\ \A i \in DOMAIN fb : fb[i] = IF i \in TrP!Painted(job, t) THEN i ELSE TrP!Old
      BY <2>2, JobsFit, TrP!Shows
    <3> QED
      BY <1>2, <3>1
  <2> QED
    BY <2>1, <2>2
<1> QED
  BY <1>1, <1>3, SameFrames, SameOld

LEMMA Finished ==
  ASSUME TrP!IInv, t = Tr!Frames(job), job = Effect[slide], slide \in DOMAIN Effect,
         NEW k \in Cells
  PROVE  fb[k] = Home(slide, k) /\ fb[k] # Tr!Old
<1>1. t = TrP!Frames(job) /\ TrP!Mapped(job) = Cells
  BY EffectShape, SameFrames
<1>2. fb[k] = IF job.effect = "move" /\ k < job.w THEN k + job.w ELSE k
  BY <1>1, JobsFit, TrP!Completed DEF TrP!CompletePicture
<1>3. slide # Boot
  BY EffectShape DEF Boot
<1>4. fb[k] = Home(slide, k)
  BY <1>2, <1>3 DEF Home
<1>5. k \in Nat /\ job.w \in Nat
  <2>1. job.w \in Nat /\ Cells = 0 .. TrP!Size(job) - 1
    BY <1>1, JobsFit, TrP!JobShape DEF TrP!Mapped
  <2>2. TrP!Size(job) \in Nat
    BY JobsFit, TrP!SizeIs
  <2> QED
    BY <2>1, <2>2
<1>6. fb[k] \in Nat
  BY <1>2, <1>5
<1> QED
  BY <1>4, <1>6 DEF Tr!Old

-----------------------------------------------------------------------------
(* What the display shows                                                  *)

\* Every cell shows the picture begun last or, in its place, the one before it.
TwoPictures == \E s \in Pictured : \A k \in Cells :
                 screen[k] = <<s, Home(s, k)>> \/ screen[k][1] = slide

\* While an effect runs, what it has painted is on the display.  Otherwise one
\* picture is, whole.  A process that was killed leaves it at that.
ScreenInv ==
  status # "killed" =>
    IF painting
      THEN \A k \in Cells : fb[k] # Tr!Old => screen[k] = <<slide, fb[k]>>
      ELSE \E s \in Pictured : \A k \in Cells : screen[k] = <<s, Home(s, k)>>

\* An effect runs only while the player shows a picture, and it is the picture's.
PaintingInv == painting => ppc = "show" /\ job = Effect[slide]

\* The process never fails at a picture whose effect has begun.
FailInv == status = "failed" => ~painting

ScreenType == screen \in [Cells -> Pictured \X Cells]

ShInv == /\ IInv /\ TrP!IInv
         /\ PaintingInv /\ ScreenType /\ ScreenInv /\ TwoPictures /\ FailInv
         /\ spilt \in BOOLEAN

LEMMA ShowInit == ShInit => ShInv
<1> SUFFICES ASSUME ShInit PROVE ShInv
  OBVIOUS
<1>1. IInv
  BY SafeInit DEF ShInit
<1>2. TrP!Init
  <2>1. job = Effect[0] /\ t = 0 /\ fb = [k \in Cells |-> Tr!Old]
    BY DEF ShInit, Fresh
  <2>2. job \in {Effect[s] : s \in DOMAIN Effect} /\ TrP!Mapped(job) = Cells
    BY <2>1, EffectShape
  <2> QED
    BY <2>1, <2>2, SameOld DEF TrP!Init
<1>3. ~painting /\ screen = [k \in Cells |-> <<Boot, k>>] /\ status = "running"
  BY DEF ShInit, Init
<1>4. ScreenType
  BY <1>3 DEF ScreenType, Pictured
<1>5. ScreenInv
  BY <1>3 DEF ScreenInv, Pictured, Home
<1>6. TwoPictures
  BY <1>3, <1>5 DEF ScreenInv, TwoPictures
<1>7. spilt \in BOOLEAN
  BY DEF ShInit
<1> QED
  BY <1>1, <1>2, <1>3, <1>4, <1>5, <1>6, <1>7, FrameInit DEF ShInv, PaintingInv, FailInv

LEMMA NextFrameInit == (TrP!Init => TrP!IInv)'
BY FrameInit, PTL

LEMMA NextPixels ==
  (TrP!IInv => /\ job \in {Effect[s] : s \in DOMAIN Effect}
               /\ t \in 0 .. Tr!Frames(job)
               /\ \A k \in Cells : fb[k] \in Cells \cup {Tr!Old})'
BY Pixels, PTL

LEMMA SlideType == IInv => slide \in DOMAIN Effect /\ slide \in Pictured
BY EffectShape DEF IInv, TypeOK, Pictured

\* Before the first frame nothing of the picture is on the display.
LEMMA ConvertSafe == ASSUME ShInv, Convert, IInv' PROVE ShInv'
<1>1. /\ painting' = TRUE /\ job' = Effect[slide] /\ t' = 0
      /\ fb' = [k \in Cells |-> Tr!Old] /\ screen' = screen
      /\ running /\ ppc = "show" /\ UNCHANGED <<ppc, slide, status, spilt>>
  BY DEF Convert, EffectOf, Fresh, vars, plVars
<1>2. slide \in DOMAIN Effect
  BY SlideType DEF ShInv
<1>3. TrP!Init'
  <2>1. job' \in {Effect[s] : s \in DOMAIN Effect} /\ TrP!Mapped(job') = Cells
    BY <1>1, <1>2, EffectShape
  <2> QED
    BY <1>1, <2>1, SameOld DEF TrP!Init
<1>4. TrP!IInv'
  BY <1>3, NextFrameInit
<1>5. ScreenInv'
  BY <1>1 DEF ScreenInv
<1>6. status' # "failed"
  BY <1>1 DEF running
<1>7. TwoPictures'
  BY <1>1 DEF ShInv, TwoPictures
<1> QED
  BY <1>1, <1>4, <1>5, <1>6, <1>7 DEF ShInv, PaintingInv, FailInv, ScreenType

\* A frame, or as much of it as was drawn, puts pixels of the picture on the
\* display and leaves the rest of the display alone.
LEMMA DrawSafe ==
  ASSUME ShInv, Draws, NEW reached \in SUBSET Touched, Puts(reached),
         UNCHANGED <<ppc, slide>>
  PROVE  /\ TrP!IInv' /\ PaintingInv' /\ ScreenType' /\ TwoPictures'
         /\ spilt' \in BOOLEAN
<1>1. /\ running /\ painting /\ painting' = painting
      /\ screen' = [k \in Cells |-> IF k \in reached THEN <<slide, fb'[k]>> ELSE screen[k]]
      /\ spilt' \in BOOLEAN
  BY DEF Draws, Puts, ShInv
<1>2. TrP!Next
  BY SameNext DEF Draws
<1>3. TrP!IInv' /\ job' = job
  <2>1. TrP!IInv'
    BY <1>2, FrameStep DEF ShInv
  <2>2. job' = job
    BY <1>2, JobsFit, TrP!JobStep DEF ShInv, TrP!IInv
  <2> QED
    BY <2>1, <2>2
<1>4. \A k \in reached : k \in Cells /\ fb'[k] \in Cells
  BY <1>3, NextPixels DEF Touched
<1>5. ScreenType'
  <2>1. \A k \in Cells : screen[k] \in Pictured \X Cells
    BY DEF ShInv, ScreenType
  <2>2. slide \in Pictured
    BY SlideType DEF ShInv
  <2>3. \A k \in Cells : screen'[k] \in Pictured \X Cells
    BY <1>1, <1>4, <2>1, <2>2
  <2> QED
    BY <1>1, <2>3 DEF ScreenType
<1>6. TwoPictures'
  <2>1. PICK s \in Pictured : \A k \in Cells :
          screen[k] = <<s, Home(s, k)>> \/ screen[k][1] = slide
    BY DEF ShInv, TwoPictures
  <2>2. \A k \in Cells : screen'[k] = <<s, Home(s, k)>> \/ screen'[k][1] = slide
    BY <1>1, <2>1
  <2> QED
    BY <2>2 DEF TwoPictures
<1>7. PaintingInv'
  BY <1>1, <1>3 DEF ShInv, PaintingInv
<1> QED
  BY <1>1, <1>3, <1>5, <1>6, <1>7

LEMMA FrameSafe == ASSUME ShInv, Frame, IInv' PROVE ShInv'
<1>1. /\ Draws /\ Puts(Touched) /\ running /\ painting /\ painting' = painting
      /\ UNCHANGED <<ppc, slide, status>>
  BY DEF Frame, Draws, vars, plVars
<1>2. /\ TrP!IInv' /\ PaintingInv' /\ ScreenType' /\ TwoPictures'
      /\ spilt' \in BOOLEAN
  BY <1>1, DrawSafe
<1>3. ScreenInv'
  <2>1. \A k \in Cells : fb'[k] # Tr!Old => screen'[k] = <<slide, fb'[k]>>
    BY <1>1 DEF Puts, Touched
  <2> QED
    BY <1>1, <2>1 DEF ScreenInv
<1>4. FailInv'
  BY <1>1 DEF FailInv, running
<1> QED
  BY <1>2, <1>3, <1>4 DEF ShInv

\* A frame the process does not survive.
LEMMA FaultSafe == ASSUME ShInv, Fault, IInv' PROVE ShInv'
<1>1. PICK reached \in SUBSET {k \in Touched : fb'[k] # fb[k]} : Puts(reached)
  BY DEF Fault
<1>2. /\ Draws /\ status' = "killed" /\ UNCHANGED <<ppc, slide>>
      /\ reached \in SUBSET Touched
  BY DEF Fault, Killed, plVars
<1>3. /\ TrP!IInv' /\ PaintingInv' /\ ScreenType' /\ TwoPictures'
      /\ spilt' \in BOOLEAN
  BY <1>1, <1>2, DrawSafe
<1>4. ScreenInv' /\ FailInv'
  BY <1>2 DEF ScreenInv, FailInv
<1> QED
  BY <1>3, <1>4 DEF ShInv

\* When the effect returns, every cell shows the picture.
LEMMA ReturnSafe == ASSUME ShInv, Return, IInv' PROVE ShInv'
<1>1. /\ running /\ painting /\ painting' = FALSE /\ t = Tr!Frames(job)
      /\ UNCHANGED <<job, t, fb, screen, slide, status, spilt>>
  BY DEF Return, PlShow
<1>2. slide \in DOMAIN Effect /\ slide \in Pictured /\ job = Effect[slide]
  BY <1>1, SlideType DEF ShInv, PaintingInv
<1>3. ASSUME NEW k \in Cells PROVE screen[k] = <<slide, Home(slide, k)>>
  <2>1. fb[k] = Home(slide, k) /\ fb[k] # Tr!Old
    BY <1>1, <1>2, Finished DEF ShInv
  <2> QED
    BY <1>1, <2>1 DEF ShInv, ScreenInv, running
<1>4. ScreenInv'
  <2>1. \A k \in Cells : screen'[k] = <<slide, Home(slide, k)>>
    BY <1>1, <1>3
  <2> QED
    BY <1>1, <1>2, <2>1 DEF ScreenInv
<1>5. TrP!IInv'
  <2>1. UNCHANGED TrP!vars
    BY <1>1 DEF TrP!vars
  <2> QED
    BY <2>1, FrameStep DEF ShInv
<1>6. TwoPictures'
  BY <1>1 DEF ShInv, TwoPictures
<1> QED
  BY <1>1, <1>4, <1>5, <1>6 DEF ShInv, PaintingInv, FailInv, ScreenType

\* Steps that leave the display and the effect alone.
LEMMA OthersSafe ==
  ASSUME ShInv, UNCHANGED effectVars, IInv',
         painting => /\ UNCHANGED <<ppc, slide>>
                     /\ status' = "failed" => status = "failed",
         status = "killed" => UNCHANGED <<slide, status>>
  PROVE  ShInv'
<1>1. UNCHANGED <<job, t, fb, painting, screen, spilt>>
  BY DEF effectVars
<1>2. TrP!IInv'
  <2>1. UNCHANGED TrP!vars
    BY <1>1 DEF TrP!vars
  <2> QED
    BY <2>1, FrameStep DEF ShInv
<1>3. ScreenType'
  BY <1>1 DEF ShInv, ScreenType
<1>4. ScreenInv'
  BY <1>1 DEF ShInv, ScreenInv
<1>5. PaintingInv' /\ FailInv'
  BY <1>1 DEF ShInv, PaintingInv, FailInv
<1>6. TwoPictures'
  <2>1. CASE slide' = slide
    BY <1>1, <2>1 DEF ShInv, TwoPictures
  <2>2. CASE ~painting /\ status # "killed"
    <3>1. PICK s \in Pictured : \A k \in Cells : screen[k] = <<s, Home(s, k)>>
      BY <2>2 DEF ShInv, ScreenInv
    <3> QED
      BY <1>1, <3>1 DEF TwoPictures
  <2> QED
    BY <2>1, <2>2
<1> QED
  BY <1>1, <1>2, <1>3, <1>4, <1>5, <1>6 DEF ShInv

\* While an effect runs, what the threads do elsewhere begins no picture and fails
\* nowhere but in the keyboard thread's exit.
LEMMA ElsewhereQuiet ==
  ASSUME IInv, Elsewhere, ppc = "show"
  PROVE  UNCHANGED <<ppc, slide>> /\ (status' = "failed" => status = "failed")
<1>1. CASE Main
  <2>1. mpc = "join"
    BY DEF IInv, Born
  <2> QED
    BY <1>1, <2>1 DEF Main, MainInitFb, MainCreateKeyboard, MainCreatePlayer, MainJoinsNobody
<1>2. CASE Keyboard
  BY <1>2 DEF Keyboard, KbOpen, KbReadFails, KbRead, KbLock, KbStore, KbUnlock, plVars
<1>3. CASE PlSleep \/ PlLock \/ PlTest \/ PlTestElse \/ PlUnlock \/ PlReturn
  BY <1>3 DEF PlSleep, PlLock, PlTest, PlTestElse, PlUnlock, PlReturn
<1>4. CASE \E k \in Keys, v \in 0 .. 2 : Key(k, v)
  BY <1>4 DEF Key, plVars
<1>5. CASE Ended
  BY <1>5 DEF Ended, vars, plVars
<1> QED
  BY <1>1, <1>2, <1>3, <1>4, <1>5 DEF Elsewhere

\* What ends the process ends its threads.
LEMMA KilledRests == ASSUME Elsewhere, status = "killed" PROVE UNCHANGED <<slide, status>>
<1>1. ~running
  BY DEF running
<1>2. Ended
  BY <1>1 DEF Elsewhere, Main, MainInitFb, MainCreateKeyboard, MainCreatePlayer,
     MainJoinsNobody, Keyboard, KbOpen, KbReadFails, KbRead, KbLock, KbStore, KbUnlock,
     PlSleep, PlLock, PlTest, PlTestElse, PlUnlock, PlReturn, Key
<1> QED
  BY <1>2 DEF Ended, vars, plVars

LEMMA ShowSafe == ShInv /\ [ShNext]_showVars => ShInv'
<1> SUFFICES ASSUME ShInv, [ShNext]_showVars PROVE ShInv'
  OBVIOUS
<1>0. IInv'
  BY ShowStep, SafeStep DEF ShInv
<1>1. CASE Convert
  BY <1>0, <1>1, ConvertSafe
<1>2. CASE Frame
  BY <1>0, <1>2, FrameSafe
<1>3. CASE Return
  BY <1>0, <1>3, ReturnSafe
<1>4. CASE Fails
  BY <1>0, <1>4, OthersSafe DEF Fails, PlShowFails, running
<1>5. CASE Elsewhere
  <2>1. painting => ppc = "show"
    BY DEF ShInv, PaintingInv
  <2> QED
    BY <1>0, <1>5, <2>1, ElsewhereQuiet, KilledRests, OthersSafe DEF Elsewhere, ShInv
<1>6. CASE UNCHANGED showVars
  BY <1>0, <1>6, OthersSafe DEF showVars, vars, plVars
<1>7. CASE Fault
  BY <1>0, <1>7, FaultSafe
<1>8. CASE Corrupted
  BY <1>0, <1>8, OthersSafe DEF Corrupted, Killed, plVars, running
<1> QED
  BY <1>1, <1>2, <1>3, <1>4, <1>5, <1>6, <1>7, <1>8 DEF ShNext

LEMMA ShowInductive == ShSpec => []ShInv
BY ShowInit, ShowSafe, PTL DEF ShSpec

\* Every variable of the show has its type, an effect runs only for the picture
\* being shown, and every cell holds a pixel of some picture.
THEOREM ShowTypes == ShSpec => []ShTypeOK
<1>1. ShInv => ShTypeOK
  BY Pixels DEF ShInv, IInv, PaintingInv, ScreenType, Pictured, ShTypeOK
<1> QED
  BY <1>1, ShowInductive, PTL

\* When the process fails at a picture that cannot be shown, the display still
\* holds one picture, whole and in place (disp-jpeg.c:392-396); whatever else ends
\* it, in mid-effect or in mid-frame, the display holds the picture being painted
\* and, wherever that has not come yet, the one before it, in place (keyboard.c:20-24,
\* disp-jpeg.c:195, 232-236, 265).
THEOREM PicturesLeft == ShSpec => []EndLeavesPictures
<1>1. ASSUME ShInv PROVE EndLeavesPictures
  <2>1. CASE status = "failed"
    <3>1. \E s \in Pictured : \A k \in Cells : screen[k] = <<s, Home(s, k)>>
      BY <1>1, <2>1 DEF ShInv, FailInv, ScreenInv
    <3> QED
      BY <3>1 DEF EndLeavesPictures
  <2>2. CASE status # "failed"
    BY <1>1, <2>2 DEF ShInv, TwoPictures, EndLeavesPictures
  <2> QED
    BY <2>1, <2>2
<1> QED
  BY <1>1, ShowInductive, PTL

-----------------------------------------------------------------------------
(* Show implements Screen                                                  *)

Shown == [k \in Cells |-> screen[k][1]]
Begun == IF ppc = "unborn" THEN Boot ELSE slide
Whole == ppc # "show"

LEMMA ScreenInit == ShInit => Scr!ScInit
<1> SUFFICES ASSUME ShInit PROVE Scr!ScInit
  OBVIOUS
<1>1. \A k \in Cells : screen[k][1] = Boot
  BY DEF ShInit
<1> QED
  BY <1>1 DEF Scr!ScInit

\* A step that begins a picture leaves the display alone.
LEMMA BeginsOne ==
  ASSUME Whole = TRUE, Whole' = FALSE, Shown' = Shown
  PROVE  Scr!Begin
BY DEF Scr!Begin, Whole, Shown

\* A step that shows some of a picture, or the rest of it.
LEMMA ReplacesSome ==
  ASSUME Whole = FALSE, Begun' = Begun,
         \A k \in Cells : screen'[k][1] \in {screen[k][1], Begun},
         Whole' = TRUE => \A k \in Cells : screen'[k][1] = Begun
  PROVE  Scr!Replace
<1>1. DOMAIN Shown = Cells /\ DOMAIN Shown' = Cells
  BY DEF Shown
<1>2. \A k \in Cells : Shown[k] = screen[k][1] /\ Shown'[k] = screen'[k][1]
  BY DEF Shown
<1>3. /\ DOMAIN Shown' = DOMAIN Shown
      /\ \A k \in DOMAIN Shown : Shown'[k] \in {Shown[k], Begun}
      /\ Whole' = TRUE => \A k \in DOMAIN Shown : Shown'[k] = Begun
  BY <1>1, <1>2
<1> QED
  BY <1>3 DEF Scr!Replace, Shown, Begun, Whole

LEMMA ShowsNothingNew ==
  ASSUME Shown' = Shown, Begun' = Begun, Whole' = Whole
  PROVE  UNCHANGED Scr!scVars
BY DEF Scr!scVars, Shown, Begun, Whole

LEMMA DrawReplaces ==
  ASSUME ShInv, Draws, NEW reached, Puts(reached), UNCHANGED <<ppc, slide>>
  PROVE  Scr!Replace
<1>1. /\ painting
      /\ screen' = [k \in Cells |-> IF k \in reached THEN <<slide, fb'[k]>> ELSE screen[k]]
  BY DEF Draws, Puts
<1>2. ppc = "show"
  BY <1>1 DEF ShInv, PaintingInv
<1>3. Whole = FALSE /\ Whole' = FALSE /\ Begun = slide /\ Begun' = Begun
  BY <1>1, <1>2 DEF Whole, Begun
<1>4. \A k \in Cells : screen'[k][1] \in {screen[k][1], Begun}
  BY <1>1, <1>3
<1> QED
  BY <1>3, <1>4, ReplacesSome

LEMMA ReturnReplaces == ASSUME ShInv, Return PROVE Scr!Replace
<1>1. /\ painting /\ t = Tr!Frames(job) /\ ppc = "show" /\ ppc' = "sleep"
      /\ UNCHANGED <<screen, slide>>
  BY DEF Return, PlShow
<1>2. slide \in DOMAIN Effect /\ job = Effect[slide]
  BY <1>1, SlideType DEF ShInv, PaintingInv
<1>3. Whole = FALSE /\ Begun = slide /\ Begun' = Begun
  BY <1>1 DEF Whole, Begun
<1>4. ASSUME NEW k \in Cells PROVE screen[k][1] = Begun
  <2>1. fb[k] # Tr!Old
    BY <1>1, <1>2, Finished DEF ShInv
  <2>2. screen[k] = <<slide, fb[k]>>
    BY <1>1, <2>1 DEF ShInv, ScreenInv, Return, PlShow, running
  <2> QED
    BY <1>3, <2>2
<1>5. \A k \in Cells : screen'[k][1] = Begun
  BY <1>1, <1>4
<1> QED
  BY <1>3, <1>5, ReplacesSome

\* Of the other steps, the start of the player and the end of the gate begin a
\* picture, and the rest cannot be seen.
LEMMA ElsewhereBegins ==
  ASSUME IInv, Elsewhere
  PROVE  Scr!Begin \/ UNCHANGED Scr!scVars
<1>1. Shown' = Shown
  BY DEF Elsewhere, effectVars, Shown
<1>2. CASE MainCreatePlayer /\ ppc' = "show"
  <2>1. ppc = "unborn"
    BY <1>2 DEF MainCreatePlayer, IInv, Born
  <2>2. Whole = TRUE /\ Whole' = FALSE
    BY <1>2, <2>1 DEF Whole
  <2> QED
    BY <1>1, <2>2, BeginsOne
<1>3. CASE MainInitFb \/ MainCreateKeyboard \/ MainJoinsNobody \/ Keyboard \/ Ended
           \/ (MainCreatePlayer /\ ppc' = "unborn")
           \/ \E k \in Keys, v \in 0 .. 2 : Key(k, v)
  <2>1. UNCHANGED <<ppc, slide>>
    BY <1>3 DEF MainInitFb, MainCreateKeyboard, MainJoinsNobody, MainCreatePlayer,
       IInv, Born, Keyboard, KbOpen, KbReadFails, KbRead,
       KbLock, KbStore, KbUnlock, Key, Ended, vars, plVars
  <2> QED
    BY <1>1, <2>1, ShowsNothingNew DEF Whole, Begun
<1>4. CASE PlSleep \/ PlLock \/ PlTest \/ PlTestElse \/ PlUnlock \/ (PlReturn /\ answer = 0)
  <2>1. /\ ppc \notin {"show", "unborn"} /\ ppc' \notin {"show", "unborn"}
        /\ slide' = slide
    BY <1>4 DEF PlSleep, PlLock, PlTest, PlTestElse, PlUnlock, PlReturn
  <2>2. Whole = TRUE /\ Whole' = TRUE /\ Begun = slide /\ Begun' = slide'
    BY <2>1 DEF Whole, Begun
  <2> QED
    BY <1>1, <2>1, <2>2, ShowsNothingNew
<1>5. CASE PlReturn /\ answer # 0
  <2>1. ppc = "return" /\ ppc' = "show"
    BY <1>5 DEF PlReturn
  <2>2. Whole = TRUE /\ Whole' = FALSE
    BY <2>1 DEF Whole
  <2> QED
    BY <1>1, <2>2, BeginsOne
<1> QED
  BY <1>2, <1>3, <1>4, <1>5 DEF Elsewhere, Main, MainCreatePlayer

\* Frames, threads and keys together do nothing that Screen does not allow: no
\* picture begins before the last is whole, and none comes to the gate before it
\* is whole itself (play_picture.c:41-61, disp-jpeg.c:18-381).
THEOREM ShowImplementsScreen == ShSpec => ImplementsScreen
<1>1. ASSUME ShInv, [ShNext]_showVars PROVE [Scr!Begin \/ Scr!Replace]_(Scr!scVars)
  <2>1. CASE Convert
    BY <2>1, ShowsNothingNew DEF Convert, vars, plVars, Shown, Begun, Whole
  <2>2. CASE Frame
    BY <1>1, <2>2, DrawReplaces DEF Frame, vars, plVars
  <2>3. CASE Return
    BY <1>1, <2>3, ReturnReplaces
  <2>4. CASE Fails
    BY <2>4, ShowsNothingNew DEF Fails, PlShowFails, effectVars, plVars, Shown, Begun, Whole
  <2>5. CASE Elsewhere
    BY <1>1, <2>5, ElsewhereBegins DEF ShInv
  <2>6. CASE UNCHANGED showVars
    BY <2>6, ShowsNothingNew DEF showVars, vars, plVars, effectVars, Shown, Begun, Whole
  <2>7. CASE Fault
    BY <1>1, <2>7, DrawReplaces DEF Fault, Killed, plVars
  <2>8. CASE Corrupted
    BY <2>8, ShowsNothingNew DEF Corrupted, Killed, effectVars, plVars, Shown, Begun, Whole
  <2> QED
    BY <1>1, <2>1, <2>2, <2>3, <2>4, <2>5, <2>6, <2>7, <2>8 DEF ShNext
<1> QED
  BY <1>1, ScreenInit, ShowInductive, PTL DEF ShSpec, ImplementsScreen, Scr!ScSpec
=============================================================================
