----------------------------- MODULE Transitions -----------------------------
(***************************************************************************)
(* The special_ effects of disp-jpeg.c: how a picture that was decoded and *)
(* scaled to the display replaces the one on the screen, frame by frame.   *)
(* A frame is one turn of the effect's outer loop, which ends in usleep    *)
(* where the effect has one; the process can be killed between any two.    *)
(*                                                                         *)
(* The screen and the picture buffer have the same layout, so a pixel is   *)
(* its offset: fb[k] = k says that the pixel at offset k shows what the    *)
(* picture has there.  Memory is a partial function: a write outside the   *)
(* mapping adds to its domain.                                             *)
(*                                                                         *)
(* The code's literals are fields of the job, named here with the value    *)
(* they have in the code.  The effects that use literals for the size of   *)
(* the display are modelled for a display of that size.                    *)
(***************************************************************************)
EXTENDS Integers

CONSTANT Jobs                \* effects to run, each with its literals

VARIABLES job,               \* the effect, the display's size, the literals
          t,                 \* frames done
          fb                 \* what each offset of the framebuffer shows

vars == <<job, t, fb>>

Old == -1                    \* a pixel of the picture shown before

Size(j)   == j.w * j.h
Mapped(j) == 0 .. Size(j) - 1

\* Wrong variant: the guard is off by one more.
GuardedLoosely(j) == 0 .. Size(j) + 1

\* Offsets let through by "index > 1024*768 || index < 0: continue".
Guarded(j) == 0 .. Size(j)

Rows(j, first, n) == first * j.w .. (first + n) * j.w - 1

Abs(x) == IF x < 0 THEN -x ELSE x

-----------------------------------------------------------------------------
(* The offsets each effect writes in frame s, and how many frames it has.  *)

\* shut: strip = 153, reach = 650, tail = 3 (and the display has 768 rows).
Strips(j) == (j.reach + j.strip - 1) \div j.strip

ShutFrames(j) == j.strip * Strips(j) + 1

\* Wrong variant: the last rows are left out.
ShutDotsNoTail(j, s) == Rows(j, (s % Strips(j)) * j.strip + s \div Strips(j), 1)

ShutDots(j, s) ==
  IF s < j.strip * Strips(j)
    THEN Rows(j, (s % Strips(j)) * j.strip + s \div Strips(j), 1)
    ELSE Rows(j, j.h - j.tail, j.tail)

\* dot: side = 16, columns = 64, blocks = 3072.
Print16x16(j, n) ==
  LET x == (n \div j.columns) * j.side
      y == (n % j.columns) * j.side
  IN  {(x + a) * j.w + y + b : a, b \in 0 .. j.side - 1} \cap Guarded(j)

DotFrames(j) == j.blocks

\* Wrong variant: every pass starts at the first block.
DotDotsRepeated(j, s) == Print16x16(j, (3 * s) % j.blocks)

DotDots(j, s) ==
  LET third == j.blocks \div 3
  IN  CASE s < third     -> Print16x16(j, 3 * s)
        [] s \div third = 1 -> Print16x16(j, j.blocks - 2 - 3 * (s - third))
        [] OTHER         -> Print16x16(j, 2 + 3 * (s - 2 * third))

\* block: quarter = 256.  Two sweeps down and two up; those that run upwards
\* paint 257 pixels from right to left.
BlockFrames(j) == 4 * j.h

BlockDots(j, s) ==
  LET n == s % j.h
      q == j.quarter
  IN  CASE s \div j.h = 0 -> n * j.w .. n * j.w + q - 1
        [] s \div j.h = 1 -> (j.h - 1 - n) * j.w + q .. (j.h - 1 - n) * j.w + 2 * q
        [] s \div j.h = 2 -> n * j.w + 2 * q .. n * j.w + 3 * q - 1
        [] OTHER          -> (j.h - 1 - n) * j.w + 3 * q .. (j.h - n) * j.w

\* slopline: half = 512.  Two diagonals; a pixel of the first that is out of
\* range also skips the second.
SloplineFrames(j) == 2 * j.half + 1

SloplineDots(j, s) ==
  LET i       == s - (j.half + 1)
      down(r) == r * j.w + r + i + 1
      up(r)   == r * j.w + r - i
      rows    == {r \in 0 .. j.h - 1 : down(r) \in Guarded(j)}
  IN  {down(r) : r \in rows} \cup ({up(r) : r \in rows} \cap Guarded(j))

\* circle: centre = row 384, column 516; step = 10, limit = 1024.
CircleFrames(j) == (j.limit - 1) \div j.step

CircleDots(j, s) ==
  LET len  == j.step * (s + 1)
      disc == {d \in (-len .. len) \X (-len .. len) :
                 d[1] * d[1] + d[2] * d[2] <= len * len}
  IN  {(j.x + d[1]) * j.w + j.y + d[2] : d \in disc} \cap Guarded(j)

\* squarearea: xstep = 10, ystep = 14, xlimit = 770, ylimit = 1024; x counts
\* rows and y columns.
SquareareaFrames(j) ==
  LET x == j.xlimit \div j.xstep
      y == j.ylimit \div j.ystep
  IN  1 + IF x > y THEN x ELSE y

\* Wrong variant: the number of rows goes down instead of up.
SquareareaDotsBackwards(j, s) ==
  {r * j.w + c : r \in 0 .. j.xlimit - j.xstep * s, c \in 0 .. j.ystep * s - 1}
    \cap Guarded(j)

SquareareaDots(j, s) ==
  {r * j.w + c : r \in 0 .. j.xstep * s - 1, c \in 0 .. j.ystep * s - 1}
    \cap Guarded(j)

\* chessboard: squares = 10 of each colour in a row.  Column s of the squares of
\* one colour from left to right, then of the other colour from right to left.
Cell(j)             == j.w \div (2 * j.squares)
ChessboardFrames(j) == 2 * (Cell(j) + 1)

\* Column i of the squares whose column a and row b add up to the parity.
Column(j, parity, i) ==
  LET n       == 2 * j.squares
      squares == {x \in (0 .. n - 1) \X (0 .. n - 1) : (x[1] + x[2]) % 2 = parity}
      m(a)    == (a * j.w) \div n + i
      top(b)  == (b * j.h) \div n
  IN  {m(x[1]) + (top(x[2]) + r) * j.w : x \in squares, r \in 0 .. j.h \div n}

ChessboardDots(j, s) ==
  IF s <= Cell(j) THEN Column(j, 1, s) ELSE Column(j, 0, 2 * Cell(j) + 1 - s)

\* diamond: step = 20.
DiamondFrames(j) == (j.w + j.step - 1) \div j.step

DiamondDots(j, s) ==
  {k \in Mapped(j) : LET column == k % j.w
                         row    == k \div j.w
                     IN  Abs(row - j.h \div 2) + Abs(column - j.w \div 2) <= j.step * s}

\* Wrong variant: the turn for the first row, and one more.
MoveFramesTooMany(j) == j.h + 1

MoveFrames(j) == j.h - 1

-----------------------------------------------------------------------------

Frames(j) == CASE j.effect = "shut"       -> ShutFrames(j)
               [] j.effect = "dot"        -> DotFrames(j)
               [] j.effect = "block"      -> BlockFrames(j)
               [] j.effect = "slopline"   -> SloplineFrames(j)
               [] j.effect = "circle"     -> CircleFrames(j)
               [] j.effect = "squarearea" -> SquareareaFrames(j)
               [] j.effect = "chessboard" -> ChessboardFrames(j)
               [] j.effect = "diamond"    -> DiamondFrames(j)
               [] j.effect = "move"       -> MoveFrames(j)

Init == /\ job \in Jobs
        /\ t = 0
        /\ fb = [k \in Mapped(job) |-> Old]

Paint(effect, dots(_, _)) ==
  /\ job.effect = effect /\ t < Frames(job)
  /\ LET written == dots(job, t)
     IN  fb' = [k \in DOMAIN fb \cup written |-> IF k \in written THEN k ELSE fb[k]]
  /\ t' = t + 1
  /\ UNCHANGED job

Shut       == Paint("shut", ShutDots)
Dot        == Paint("dot", DotDots)
Block      == Paint("block", BlockDots)
Slopline   == Paint("slopline", SloplineDots)
Circle     == Paint("circle", CircleDots)
Squarearea == Paint("squarearea", SquareareaDots)
Chessboard == Paint("chessboard", ChessboardDots)
Diamond    == Paint("diamond", DiamondDots)

\* Wrong variant: memmove copies a row too few.
SlideShort(row, rows) ==
  LET w == job.w
  IN  fb' = [k \in DOMAIN fb |-> IF k < w THEN row * w + k
                                 ELSE IF k < rows * w THEN fb[k - w]
                                 ELSE fb[k]]

\* Row 0 takes a row of the picture, then memmove copies rows 0 .. rows - 1
\* down by one.
Slide(row, rows) ==
  LET w == job.w
  IN  fb' = [k \in DOMAIN fb |-> IF k < w THEN row * w + k
                                 ELSE IF k < 2 * w THEN row * w + k - w
                                 ELSE IF k < (rows + 1) * w THEN fb[k - w]
                                 ELSE fb[k]]

\* The rows of the picture enter at the top of the screen, the last row first.
Move ==
  /\ job.effect = "move" /\ t < Frames(job)
  /\ Slide(job.h - 1 - t, t + 1)
  /\ t' = t + 1
  /\ UNCHANGED job

Done == t = Frames(job) /\ UNCHANGED vars

Next == \/ Shut \/ Dot \/ Block \/ Slopline \/ Circle \/ Squarearea
        \/ Chessboard \/ Diamond \/ Move
        \/ Done

Spec == Init /\ [][Next]_vars

TypeOK == /\ job \in Jobs
          /\ t \in 0 .. Frames(job)
          /\ Mapped(job) \subseteq DOMAIN fb
          /\ \A k \in DOMAIN fb : fb[k] \in Guarded(job) \cup {Old}

-----------------------------------------------------------------------------
(* What the literals have to satisfy for an effect to do its work          *)

Larger(x, y) == IF x > y THEN x ELSE y

WellFormed(j) ==
  /\ j.w \in Nat \ {0} /\ j.h \in Nat \ {0}
  /\ CASE j.effect = "shut" ->
            /\ j.strip \in Nat \ {0} /\ j.reach \in Nat \ {0} /\ j.tail \in Nat
            /\ Strips(j) * j.strip + j.tail = j.h
       [] j.effect = "dot" ->
            /\ j.side \in Nat \ {0} /\ j.columns \in Nat \ {0}
            /\ j.blocks \in Nat \ {0} /\ j.blocks % 3 = 0
            /\ j.blocks % j.columns = 0
            /\ j.w = j.columns * j.side
            /\ j.h = (j.blocks \div j.columns) * j.side
       [] j.effect = "block" ->
            j.quarter \in Nat \ {0} /\ j.w = 4 * j.quarter
       [] j.effect = "slopline" ->
            j.half \in Nat \ {0} /\ j.w = 2 * j.half /\ j.h >= j.half
       [] j.effect = "circle" ->
            /\ j.step \in Nat \ {0} /\ j.limit \in Nat /\ j.limit > j.step
            /\ j.x \in 0 .. j.h - 1 /\ j.y \in 0 .. j.w - 1
            /\ LET rows    == Larger(j.x, j.h - 1 - j.x)
                   columns == Larger(j.y, j.w - 1 - j.y)
                   last    == j.step * CircleFrames(j)
               IN  rows * rows + columns * columns <= last * last
       [] j.effect = "squarearea" ->
            /\ j.xstep \in Nat \ {0} /\ j.xlimit \in Nat
            /\ j.ystep \in Nat \ {0} /\ j.ylimit \in Nat
            /\ j.xstep * (SquareareaFrames(j) - 1) >= j.h
            /\ j.ystep * (SquareareaFrames(j) - 1) >= j.w
       [] j.effect = "chessboard" ->
            /\ j.squares \in Nat \ {0}
            /\ j.w % (2 * j.squares) # 0 /\ j.h % (2 * j.squares) # 0
       [] j.effect = "diamond" ->
            /\ j.step \in Nat \ {0}
            /\ j.step * (DiamondFrames(j) - 1) >= j.w \div 2 + j.h \div 2
       [] j.effect = "move" ->
            j.h > 1

Effects == {"shut", "dot", "block", "slopline", "circle", "squarearea",
            "chessboard", "diamond", "move"}

ASSUME JobsAssumption == \A j \in Jobs : j.effect \in Effects /\ WellFormed(j)

-----------------------------------------------------------------------------
(* Properties                                                              *)

\* Whatever the order in which an effect paints, the screen ends up showing the
\* picture, each pixel in its place (disp-jpeg.c:18-381).  Only move falls
\* short: it stops before the picture's first row, and the second is shown
\* twice (disp-jpeg.c:57).
CompletePicture ==
  t = Frames(job) =>
    \A k \in Mapped(job) :
      fb[k] = IF job.effect = "move" /\ k < job.w THEN k + job.w ELSE k

\* No effect writes outside the mapping (fb.c:40) by more than the one pixel
\* that follows it, and only four write that one: three whose guard is
\* "> 1024*768" (disp-jpeg.c:232, 265, 295), and block, whose last sweep starts
\* its rows one pixel too far right (disp-jpeg.c:195).
OverrunsByOnePixel ==
  /\ DOMAIN fb \subseteq Mapped(job) \cup {Size(job)}
  /\ Size(job) \in DOMAIN fb =>
       job.effect \in {"block", "slopline", "circle", "squarearea"}

\* During move the bottom t rows of the picture fill the screen from its second
\* row on, in order; the first row repeats the second; below them the old
\* picture is untouched (disp-jpeg.c:57-79).
MoveSlides ==
  job.effect = "move" /\ t > 0 =>
    \A k \in Mapped(job) :
      fb[k] = IF k < job.w THEN (job.h - t) * job.w + k
              ELSE IF k < (t + 1) * job.w THEN (job.h - t) * job.w + k - job.w
              ELSE Old

\* In the effects that grow, what shows of the picture after any frame is one
\* whole figure, the last one painted, with no hole and nothing outside it
\* (disp-jpeg.c:257-273, 289-302, 364-378).
GrowsWhole ==
  LET shown == {k \in DOMAIN fb : fb[k] = k}
  IN  t > 0 => /\ job.effect = "circle"     => shown = CircleDots(job, t - 1)
               /\ job.effect = "squarearea" => shown = SquareareaDots(job, t - 1)
               /\ job.effect = "diamond"    => shown = DiamondDots(job, t - 1)

\* shut and dot never paint a pixel twice: every frame shows something new and
\* the frames are exactly enough (disp-jpeg.c:24-47, 128-144).
PaintsOnce ==
  [][/\ job.effect = "shut" => \A k \in ShutDots(job, t) : fb[k] = Old
     /\ job.effect = "dot"  => \A k \in DotDots(job, t) : fb[k] = Old]_t

\* The bound the effects test for is that of the mapping, so that nothing is
\* written past it (fb.c:40, disp-jpeg.c:265).
StaysMapped == DOMAIN fb = Mapped(job)
=============================================================================
