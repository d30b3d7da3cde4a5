------------------------------ MODULE Pictures ------------------------------
(***************************************************************************)
(* From a file to the screen: the display_jpeg functions of disp-jpeg.c    *)
(* with decode_jpeg, scale24 and rgb24to32 of jpeg.c.  Every step that     *)
(* asks for something may not get it; what happens then is the subject.    *)
(*                                                                         *)
(* The bytes of a colour picture are numbered, row by row, red green blue, *)
(* as are the samples of a grey one; memory holds these numbers, MadeUp    *)
(* where libjpeg had no data to go by, or Junk.                            *)
(* Sizes are those of the machine the binary is for: short, and an int of  *)
(* twice its width, which wraps (the Makefile does not optimize).          *)
(***************************************************************************)
EXTENDS Integers, Sequences

CONSTANTS
  W, H,          \* the display (1024 x 768; decr has 1024 as a literal)
  Short,         \* shorts are -Short .. Short - 1 (2^15)
  Calls,         \* display_jpeg calls: function, pictures, and place if decr
  Stack          \* what the uninitialized w of decode_jpeg may hold

IntWrap == 2 * Short * Short          \* ints are -IntWrap .. IntWrap - 1

\* display_jpeg stands for the functions with an effect, too, but for move.
Functions == {"display_jpeg", "move", "decr", "transparent"}

\* libjpeg gives pictures narrower and lower than 65500, of 1, 3 or 4 components.
\* The file may be cut short or damaged: libjpeg warns, and makes up the pixels
\* that are lost.
PictureType == [w : 1 .. 2 * Short - 1, h : 1 .. 2 * Short - 1, components : {1, 3, 4},
                lost : SUBSET Nat]

\* A display_jpeg_decr call has its place on the display, and room beside it.
Placed(c) == /\ c.x \in Nat /\ c.y \in Nat
             /\ c.len \in Nat \ {0} /\ c.high \in Nat \ {0}
             /\ c.x + c.len < W /\ c.y + c.high < H

ASSUME DisplayAssumption == W \in Nat \ {0} /\ H \in Nat \ {0, 1}
ASSUME ShortAssumption   == Short \in Nat \ {0} /\ Stack \subseteq -Short .. Short - 1
ASSUME CallsAssumption   ==
  \A c \in Calls :
    /\ c.function \in Functions
    /\ c.pics \in Seq(PictureType)
    /\ Len(c.pics) = IF c.function = "transparent" THEN 2 ELSE 1
    /\ c.function = "decr" => Placed(c)

VARIABLES
  pc,            \* the next step of the call, "idle" or "over"
  call,          \* the call
  n,             \* which of its pictures is in hand
  row,           \* rows decoded
  lineOffset,    \* computed before w is assigned
  held,          \* files, decompressors and blocks not released
  buf24, scale_buf, buf32,  \* the blocks, per picture
  outside,       \* history: "read" or "write" outside a block
  screen

bufs == <<buf24, scale_buf, buf32>>
vars == <<pc, call, n, row, lineOffset, held, bufs, outside, screen>>

Junk == -1
MadeUp == -2
JunkPixel == [b \in 0 .. 2 |-> Junk]
NULL == [k \in {} |-> Junk]

Pic   == call.pics[n]
Nulls == [m \in 1 .. 2 |-> NULL]

\* The two conversions an int goes through.
Narrow(i) == ((i + Short) % (2 * Short)) - Short
Wrap(i)   == ((i + IntWrap) % (2 * IntWrap)) - IntWrap

\* What malloc gives, and a read of pixels.
Block(size) == [k \in 0 .. size - 1 |-> Junk]
At(b, k)    == IF k \in DOMAIN b THEN b[k] ELSE JunkPixel

Init == /\ pc = "idle" /\ call \in Calls /\ n = 1 /\ row = 0 /\ lineOffset = 0
        /\ held = {} /\ buf24 = Nulls /\ scale_buf = Nulls /\ buf32 = Nulls
        /\ outside = {}
        /\ screen = [k \in 0 .. W * H - 1 |-> <<JunkPixel>>]

-----------------------------------------------------------------------------
(* decode_jpeg                                                             *)

Call == /\ pc = "idle"
        /\ call' \in Calls
        /\ pc' = "open"
        /\ outside' = outside \ {"read"}
        /\ UNCHANGED <<n, row, lineOffset, held, bufs, screen>>

\* fopen; without the file the function returns NULL.
Open == /\ pc = "open"
        /\ \E w \in Stack : lineOffset' = 3 * w
        /\ \/ pc' = "scale" /\ UNCHANGED held
           \/ pc' = "header" /\ held' = held \cup {<<"file", n>>, <<"cinfo", n>>}
        /\ UNCHANGED <<call, n, row, bufs, outside, screen>>

\* libjpeg reports an error: jpeg_error_exit.  A width that is negative as a
\* short is one, in alloc_sarray.
LibjpegExit == /\ pc \in {"header", "rows"}
               /\ pc' = "over" /\ held' = {}
               /\ UNCHANGED <<call, n, row, lineOffset, bufs, outside, screen>>

Size24(p) == Wrap(3 * Narrow(p.w) * Narrow(p.h))

\* The header is read, and the block for the picture asked for; without it, or
\* for a number of components that is neither 1 nor 3, NULL is returned and the
\* rest stays held.
Header == /\ pc = "header" /\ Narrow(Pic.w) > 0
          /\ \/ pc' = "scale" /\ UNCHANGED <<held, buf24>>
             \/ /\ Size24(Pic) > 0
                /\ held' = held \cup {<<"buf24", n>>}
                /\ IF Pic.components \in {1, 3}
                     THEN pc' = "rows" /\ buf24' = [buf24 EXCEPT ![n] = Block(Size24(Pic))]
                     ELSE pc' = "scale" /\ UNCHANGED buf24
          /\ row' = 0
          /\ UNCHANGED <<call, n, lineOffset, scale_buf, buf32, outside, screen>>

\* What jpeg_read_scanlines gives for byte k, which is one of pixel s.
Sample(p, s, k) == IF s \in p.lost THEN MadeUp ELSE k

\* What a row writes: in colour, and a sample three times in grey, for as long a
\* row as lineOffset says.
RowWrites(p, y) ==
  LET w == Narrow(p.w)
  IN  IF p.components = 3
        THEN [k \in 3 * w * y .. 3 * w * (y + 1) - 1 |-> Sample(p, k \div 3, k)]
        ELSE [k \in lineOffset * y .. lineOffset * (y + 1) - 1 |->
                LET s == (k - lineOffset * y) \div 3
                IN  IF s < w THEN Sample(p, w * y + s, w * y + s) ELSE Junk]

\* Wrong variant: one row more.
RowsLeftToo == row <= Pic.h

RowsLeft == row < Pic.h

Row == /\ pc = "rows" /\ RowsLeft
       /\ LET new == RowWrites(Pic, row)
              old == buf24[n]
          IN  /\ buf24' = [buf24 EXCEPT ![n] =
                             [k \in DOMAIN old |-> IF k \in DOMAIN new THEN new[k] ELSE old[k]]]
              /\ outside' = outside
                   \cup (IF DOMAIN new \subseteq DOMAIN old THEN {} ELSE {"write"})
                   \cup (IF Pic.components = 1 /\ lineOffset > 3 * Narrow(Pic.w)
                           THEN {"read"} ELSE {})
       /\ row' = row + 1
       /\ UNCHANGED <<pc, call, n, lineOffset, held, scale_buf, buf32, screen>>

Finish == /\ pc = "rows" /\ ~RowsLeft
          /\ held' = held \ {<<"file", n>>, <<"cinfo", n>>}
          /\ pc' = "scale"
          /\ UNCHANGED <<call, n, row, lineOffset, bufs, outside, screen>>

-----------------------------------------------------------------------------
(* scale24, rgb24to32 and the display_jpeg functions                       *)

\* The size the picture is scaled to.
ToW == IF call.function = "decr" THEN call.len ELSE W
ToH == IF call.function = "decr" THEN call.high ELSE H

\* Wrong variant: rounds up.
FromUp(i, size, from) == (i * from + size - 1) \div size

\* The column or row of the picture that column or row i of the scaled one shows.
From(i, size, from) == (i * from) \div size

\* Wrong variant: the rows of the scaled picture, not of the decoded one.
SourceByteStride(p, k) ==
  LET x == (k \div 3) % ToW
      y == (k \div 3) \div ToW
  IN  (From(x, ToW, p.w) + From(y, ToH, p.h) * ToW) * 3 + (k % 3)

\* The byte of picture p that byte k of scale_buf is copied from.
SourceByte(p, k) ==
  LET x == (k \div 3) % ToW
      y == (k \div 3) \div ToW
  IN  (From(x, ToW, p.w) + From(y, ToH, p.h) * p.w) * 3 + (k % 3)

\* A read of NULL ends the process.
Crash == /\ pc' = "over" /\ held' = {}
         /\ UNCHANGED <<bufs, outside>>

Scale == /\ pc = "scale"
         /\ \/ pc' = "convert" /\ UNCHANGED <<held, bufs, outside>>
            \/ buf24[n] = NULL /\ Crash
            \/ /\ buf24[n] # NULL
               /\ LET from == [k \in 0 .. 3 * ToW * ToH - 1 |-> SourceByte(Pic, k)]
                  IN  /\ scale_buf' = [scale_buf EXCEPT ![n] =
                                         [k \in DOMAIN from |->
                                           IF from[k] \in DOMAIN buf24[n]
                                             THEN buf24[n][from[k]] ELSE Junk]]
                      /\ outside' = IF \A k \in DOMAIN from : from[k] \in DOMAIN buf24[n]
                                      THEN outside ELSE outside \cup {"read"}
               /\ held' = held \cup {<<"scale_buf", n>>}
               /\ pc' = "convert"
               /\ UNCHANGED <<buf24, buf32>>
         /\ UNCHANGED <<call, n, row, lineOffset, screen>>

\* Red, green and blue go to bytes 2, 1 and 0 of a pixel.
Convert ==
  /\ pc = "convert"
  /\ LET last == n = Len(call.pics)
         next == IF last THEN "paint" ELSE "open"
     IN  /\ n' = IF last THEN n ELSE n + 1
         /\ \/ pc' = next /\ UNCHANGED <<held, bufs, outside>>
            \/ scale_buf[n] = NULL /\ Crash
            \/ /\ scale_buf[n] # NULL
               /\ buf32' = [buf32 EXCEPT ![n] =
                    [k \in 0 .. ToW * ToH - 1 |->
                      [b \in 0 .. 2 |-> scale_buf[n][3 * k + 2 - b]]]]
               /\ held' = held \cup {<<"buf32", n>>}
               /\ pc' = next
               /\ UNCHANGED <<buf24, scale_buf, outside>>
  /\ UNCHANGED <<call, row, lineOffset, screen>>

\* The pixel of buf32 that offset k of the screen gets: the effects leave the
\* picture complete but for the first row of move.  decr runs to len and high
\* included.
PixelAt(k) ==
  CASE call.function = "move" -> IF k < W THEN k + W ELSE k
    [] call.function = "decr" -> (k \div W - call.y) * call.len + (k % W) - call.x
    [] OTHER -> k

\* Wrong variant: one column too many.
PaintedWide == IF call.function = "decr"
                 THEN {(call.y + i) * W + call.x + j : i \in 0 .. call.high, j \in 0 .. call.len + 1}
                 ELSE DOMAIN screen

Painted == IF call.function = "decr"
             THEN {(call.y + i) * W + call.x + j : i \in 0 .. call.high, j \in 0 .. call.len}
             ELSE DOMAIN screen

\* What is painted there; transparent mixes two pictures byte by byte.
Shown(k) == IF call.function = "transparent"
              THEN <<At(buf32[1], k), At(buf32[2], k)>>
              ELSE <<At(buf32[1], PixelAt(k))>>

Paint == /\ pc = "paint"
         /\ IF (\E m \in 1 .. Len(call.pics) : buf32[m] = NULL)
              THEN Crash /\ UNCHANGED screen
              ELSE /\ screen' = [k \in DOMAIN screen |->
                                   IF k \in Painted THEN Shown(k) ELSE screen[k]]
                   /\ outside' = IF \A k \in Painted : PixelAt(k) \in DOMAIN buf32[1]
                                   THEN outside ELSE outside \cup {"read"}
                   /\ pc' = "free"
                   /\ UNCHANGED <<held, bufs>>
         /\ UNCHANGED <<call, n, row, lineOffset>>

\* Wrong variant: the second picture is not freed.
FreeFirst == /\ pc = "free"
             /\ held' = held \ ({"buf24", "scale_buf", "buf32"} \X {1})
             /\ buf24' = Nulls /\ scale_buf' = Nulls /\ buf32' = Nulls
             /\ n' = 1 /\ row' = 0 /\ lineOffset' = 0 /\ pc' = "idle"
             /\ UNCHANGED <<call, outside, screen>>

Free == /\ pc = "free"
        /\ held' = held \ ({"buf24", "scale_buf", "buf32"} \X {1, 2})
        /\ buf24' = Nulls /\ scale_buf' = Nulls /\ buf32' = Nulls
        /\ n' = 1 /\ row' = 0 /\ lineOffset' = 0 /\ pc' = "idle"
        /\ UNCHANGED <<call, outside, screen>>

\* A read outside a block may bring the process down, a write at any later time.
Corrupted == /\ \/ "write" \in outside
                \/ "read" \in outside /\ pc # "idle"
             /\ pc # "over"
             /\ Crash
             /\ UNCHANGED <<call, n, row, lineOffset, screen>>

Over == pc = "over" /\ UNCHANGED vars

Next == \/ Call \/ Open \/ LibjpegExit \/ Header \/ Row \/ Finish
        \/ Scale \/ Convert \/ Paint \/ Free \/ Corrupted \/ Over

Spec == Init /\ [][Next]_vars

-----------------------------------------------------------------------------

Steps == {"idle", "open", "header", "rows", "scale", "convert", "paint", "free", "over"}

\* A block is NULL or as long as it was asked for.
TypeOK == /\ pc \in Steps /\ call \in Calls
          /\ n \in 1 .. Len(call.pics)
          /\ row \in Nat /\ (pc = "rows" => row <= Pic.h)
          /\ lineOffset \in {3 * w : w \in Stack} \cup {0}
          /\ held \subseteq {"file", "cinfo", "buf24", "scale_buf", "buf32"} \X {1, 2}
          /\ \A m \in 1 .. Len(call.pics) :
               /\ DOMAIN buf24[m] \in {{}, 0 .. Size24(call.pics[m]) - 1}
               /\ DOMAIN scale_buf[m] \in {{}, 0 .. 3 * ToW * ToH - 1}
               /\ DOMAIN buf32[m] \in {{}, 0 .. ToW * ToH - 1}
          /\ outside \subseteq {"read", "write"}
          /\ DOMAIN screen = 0 .. W * H - 1

\* Whatever was missing, a process that goes on has released every file,
\* decompressor and block of the call before: the returns that leave some
\* behind (jpeg.c:75, 108) are followed by the end of the process, because no
\* caller looks for NULL before it reads (disp-jpeg.c:392-407).
NothingHeld == pc = "idle" => held = {}

\* A colour picture whose bytes an int can count.
Fits(p) == p.components = 3 /\ 3 * p.w * p.h < IntWrap

AllFit == \A m \in 1 .. Len(call.pics) : Fits(call.pics[m])

\* A call for such pictures, which does not read past them as decr does.
Calm == AllFit /\ call.function # "decr"

\* Decoding, scaling, converting and painting such a picture stays inside the
\* blocks, for whatever of its size a short can hold (jpeg.c:65-83, 159-170,
\* disp-jpeg.c:665-671).
StaysInside == [][Calm => outside' \subseteq outside]_outside

\* The cells of the display that the call is about.
Frame == IF call.function = "decr"
           THEN {(call.y + i) * W + call.x + j : i \in 0 .. call.high - 1, j \in 0 .. call.len - 1}
           ELSE IF call.function = "move" THEN W .. W * H - 1 ELSE 0 .. W * H - 1

\* Pixel s of picture p is the one that lies under cell k of the display.
Under(p, s, k) ==
  LET x == IF call.function = "decr" THEN (k % W) - call.x ELSE k % W
      y == IF call.function = "decr" THEN (k \div W) - call.y ELSE k \div W
  IN  /\ (s % p.w) * ToW <= x * p.w /\ x * p.w < ((s % p.w) + 1) * ToW
      /\ (s \div p.w) * ToH <= y * p.h /\ y * p.h < ((s \div p.w) + 1) * ToH

\* Its colour, blue first, made up where the file has lost it.
Colour(p, s) == [b \in 0 .. 2 |->
                  Sample(p, s, IF p.components = 3 THEN 3 * s + 2 - b ELSE s)]

Displayed(k) ==
  \A m \in 1 .. Len(call.pics) : m \in DOMAIN screen'[k] /\
    LET p == call.pics[m]
    IN  \E s \in 0 .. p.w * p.h - 1 : Under(p, s, k) /\ screen'[k][m] = Colour(p, s)

\* What is painted is the picture asked for, every cell of it, in its place, and in
\* its colours as far as the file has them.  An error of libjpeg, a missing file or
\* a missing block leaves the screen alone; a file that is cut short does not: only
\* error_exit is replaced, so the warning passes and what libjpeg makes up for the
\* rest is painted, in the cells of the lost pixels and in no others
\* (disp-jpeg.c:386-678, jpeg.c:53, 82, 126-170; jdatasrc.c:104-111).
ShowsPicture ==
  [][AllFit /\ screen' # screen => \A k \in Frame : Displayed(k)]_screen

\* display_jpeg_decr paints one column and one row more than the thumbnail has,
\* with what follows in the buffer, and nothing else (disp-jpeg.c:630-637).
SpillsByOne ==
  [][call.function = "decr" =>
       \A k \in DOMAIN screen \ Frame :
         screen'[k] # screen[k] =>
           \/ k % W = call.x + call.len /\ k \div W \in call.y .. call.y + call.high
           \/ k \div W = call.y + call.high /\ k % W \in call.x .. call.x + call.len]_screen

\* A grey picture that an int can count is shown too, as the code for one
\* component means it to be (jpeg.c:86-105).
ShowsGrey ==
  [][(\A m \in 1 .. Len(call.pics) : call.pics[m].components = 1
                                     /\ 3 * call.pics[m].w * call.pics[m].h < IntWrap)
       /\ screen' # screen => \A k \in Frame : Displayed(k)]_screen
=============================================================================
