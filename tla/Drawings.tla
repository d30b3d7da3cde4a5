------------------------------ MODULE Drawings ------------------------------
(***************************************************************************)
(* What the program draws with a single call: a shape (draw.c, my_draw.c), *)
(* a string (font.c) or a bitmap file (disp_bmp.c), on a display of 32     *)
(* bits a pixel.  A behaviour is one call: a shape is one step, a string   *)
(* one step per character, a bitmap one step per row.                      *)
(*                                                                         *)
(* fb_pixel looks at no bound: what is handed to it is an offset from the  *)
(* beginning of the display's memory, so that a pixel to the right of the  *)
(* display is on its next line.  Shapes and strings stay in that memory    *)
(* (the callers see to it); a bitmap's rows need not.                      *)
(***************************************************************************)
EXTENDS Shapes, Utf8, SequencesExt

CONSTANTS
  W, H,          \* the display (1024 x 768)
  Figures,       \* the calls that draw a shape
  Strings,       \* the strings displayed: [chars, cut], their characters and how
                 \* many bytes the last lacks
  Places,        \* where strings are displayed
  Beyond,        \* bytes that may follow a string in memory
  psize,         \* what x advances for a character
  Font,          \* the face: a glyph for some codes, in each size
  Bitmaps        \* bitmap files: [w, h, depth, offset, size], header complete

Offsets == 0 .. W * H - 1

Offset(c) == W * c[2] + c[1]

ASSUME DisplayAssumption == W \in Nat \ {0} /\ H \in Nat \ {0} /\ psize \in Nat

\* Lengths are not negative; a circle or an ellipse has a radius: with none, nothing
\* of it is drawn.
ASSUME FiguresAssumption ==
  \A s \in Figures :
    /\ s.x \in Int /\ s.y \in Int
    /\ CASE s.shape \in {"row", "upline", "slopline", "ball"} -> s.len \in Nat
         [] s.shape = "cir" -> s.len \in Nat \ {0}
         [] s.shape \in {"squarearea", "rect"} -> s.width \in Nat /\ s.high \in Nat
         [] s.shape = "ellipse" -> s.width \in Nat \ {0} /\ s.high \in Nat \ {0}
         [] OTHER -> FALSE

ASSUME BitmapsAssumption ==
  \A file \in Bitmaps :
    /\ file.w \in Nat /\ file.h \in Nat /\ file.offset \in Nat
    /\ file.size \in Nat /\ file.size >= 54

\* Characters are those of Unicode's seventeen planes, NUL excepted.
ASSUME StringsAssumption ==
  \A s \in Strings :
    /\ s.chars \in Seq(Nat \ {0}) /\ s.cut \in Nat
    /\ \A n \in DOMAIN s.chars : s.chars[n] \div Plane <= 16
    /\ s.cut > 0 => s.chars # <<>> /\ s.cut < Len(Encode(Last(s.chars)))

\* Memory is looked at as far as four bytes that end any string.
ASSUME BeyondAssumption ==
  \A bytes \in Beyond :
    /\ bytes \in Seq(0 .. 255) /\ Len(bytes) >= 4
    /\ \A k \in Len(bytes) - 3 .. Len(bytes) : bytes[k] = 0

\* A string is displayed where no glyph of its characters leaves the display's memory.
ASSUME PlacesAssumption ==
  \A place \in Places :
    /\ place[1] \in Nat /\ place[2] \in Nat
    /\ \A s \in Strings, code \in DOMAIN Font, when \in {"psize", "char"} :
         LET glyph == Font[code][when]
         IN /\ glyph.top \in Int /\ glyph.ink \subseteq Nat \X Nat
            /\ \A n \in DOMAIN s.chars, c \in glyph.ink :
                 Offset(<<place[1] + (n - 1) * psize + c[1], place[2] - glyph.top + c[2]>>) \in Offsets

VARIABLES
  call,          \* the call: its kind and its arguments
  pc,            \* "called", "returned" or, killed, "dead"
  i,             \* the byte of the string, or the row of the bitmap, reached
  x,             \* where the next character goes
  size,          \* the size FreeType last set: "psize" or "char"
  fb             \* what is seen at each offset: <<>>, Ink, or a bitmap's pixel

vars == <<call, pc, i, x, size, fb>>

Ink == <<0>>

Painted == {o \in Offsets : fb[o] # <<>>}

At(cells) == {Offset(c) : c \in cells}

ShapeCalls  == [kind : {"shape"}, shape : Figures]
StringCalls == [kind : {"string"}, string : Strings, place : Places, beyond : Beyond,
                font : {"none", "works", "fails"}]
BitmapCalls == [kind : {"bitmap"}, file : Bitmaps]

\* A string may be the first since init_ft, or not.
Init == /\ call \in ShapeCalls \cup StringCalls \cup BitmapCalls
        /\ pc = "called"
        /\ i = IF call.kind = "string" THEN 1 ELSE 0
        /\ x = IF call.kind = "string" THEN call.place[1] ELSE 0
        /\ size \in IF call.kind = "string" THEN {"psize", "char"} ELSE {"psize"}
        /\ fb = [o \in Offsets |-> <<>>]

-----------------------------------------------------------------------------
(* Shapes                                                                  *)

Pixels(s) ==
  CASE s.shape = "row"        -> Row(s.x, s.y, s.len)
    [] s.shape = "upline"     -> Upline(s.x, s.y, s.len)
    [] s.shape = "slopline"   -> Slopline(s.x, s.y, s.len)
    [] s.shape = "squarearea" -> SquareArea(s.x, s.y, s.width, s.high)
    [] s.shape = "ball"       -> Ball(s.x, s.y, s.len)
    [] s.shape = "cir"        -> Cir(s.x, s.y, s.len)
    [] s.shape = "ellipse"    -> Ellipse(s.x, s.y, s.high, s.width)
    [] s.shape = "rect"       -> Rect(s.x, s.y, s.high, s.width)

Draw(offsets) == fb' = [o \in Offsets |-> IF o \in offsets THEN Ink ELSE fb[o]]

DrawShape == /\ pc = "called" /\ call.kind = "shape"
             /\ Draw(At(Pixels(call.shape)))
             /\ pc' = "returned"
             /\ UNCHANGED <<call, i, x, size>>

-----------------------------------------------------------------------------
(* display_string and display_font                                         *)

Bytes(string) ==
  LET whole == FlattenSeq([n \in DOMAIN string.chars |-> Encode(string.chars[n])])
  IN SubSeq(whole, 1, Len(whole) - string.cut)

\* Memory from the string on.
Memory == Bytes(call.string) \o <<0>> \o call.beyond

HasGlyph(code) == call.font # "none" /\ code \in DOMAIN Font

\* The mask 0xC0 >> (pixel % 8) has two bits, but for the last of a byte.
Masked(ink) == ink \cup {<<c[1] - 1, c[2]>> : c \in {d \in ink : d[1] % 8 # 0}}

\* Wrong variant: bitmap_top is forgotten.
GlyphCellsTop(glyph, gx, gy) ==
  {<<gx + c[1], gy + c[2]>> : c \in Masked(glyph.ink)}

GlyphCells(glyph, gx, gy) ==
  {<<gx + c[1], gy - glyph.top + c[2]>> : c \in Masked(glyph.ink)}

\* One character: its glyph is rendered in the size set last, then the other size
\* is set, for good.
Glyph ==
  LET char == Decode(SubSeq(Memory, i, i + 3))
  IN /\ pc = "called" /\ call.kind = "string" /\ Memory[i] # 0
     /\ HasGlyph(char.code)
     /\ Draw(At(GlyphCells(Font[char.code][size], x, call.place[2])))
     /\ size' = "char"
     /\ i' = i + char.len /\ x' = x + psize
     /\ UNCHANGED <<call, pc>>

\* FT_Get_Char_Index finds no glyph, or there is no face, or another function of
\* FreeType fails: nothing is drawn of this character nor of those after it.
NoGlyph == /\ pc = "called" /\ call.kind = "string" /\ Memory[i] # 0
           /\ ~HasGlyph(Decode(SubSeq(Memory, i, i + 3)).code) \/ call.font = "fails"
           /\ pc' = "returned"
           /\ UNCHANGED <<call, i, x, size, fb>>

Terminator == /\ pc = "called" /\ call.kind = "string" /\ Memory[i] = 0
              /\ pc' = "returned"
              /\ UNCHANGED <<call, i, x, size, fb>>

-----------------------------------------------------------------------------
(* disp_bmp                                                                *)

\* Byte k, 0, 1 or 2, of the n-th pixel read: its position in the file, which
\* stands for its content.  At the end of the file fread leaves buf as it was.
ByteRead(file, n, k) ==
  LET inFile == {m \in 0 .. n : 54 + 3 * m + k < file.size}
  IN IF inFile = {} THEN 14 + k ELSE 54 + 3 * Max(inFile) + k

PixelRead(file, n) == <<ByteRead(file, n, 0), ByteRead(file, n, 1), ByteRead(file, n, 2)>>

\* Wrong variant: the picture is upside down.
RowStartTop(file, row) == row * W + W - file.w

\* Where p is when a row begins: the first, at the bottom, ends with the display.
RowStart(file, row) == W * H - file.w - row * W

\* Wrong variant: i <= high.
RowLeftToo(file) == i <= file.h

RowLeft(file) == i < file.h

\* fopen fails.
NoFile == /\ pc = "called" /\ call.kind = "bitmap" /\ i = 0
          /\ pc' = "returned"
          /\ UNCHANGED <<call, i, x, size, fb>>

\* The colour depth, the offset and the size in the header are not looked at.
BmpRow ==
  LET file  == call.file
      start == RowStart(file, i)
  IN /\ pc = "called" /\ call.kind = "bitmap" /\ RowLeft(file)
     /\ fb' = [o \in Offsets |-> IF o \in start .. start + file.w - 1
                                   THEN PixelRead(file, i * file.w + o - start)
                                   ELSE fb[o]]
     /\ i' = i + 1
     /\ UNCHANGED <<call, pc, x, size>>

\* A row that begins before the display's memory begins: nothing of it is written
\* if that is not the program's.
Fault == /\ pc = "called" /\ call.kind = "bitmap" /\ RowLeft(call.file)
         /\ call.file.w > 0 /\ RowStart(call.file, i) < 0
         /\ pc' = "dead"
         /\ UNCHANGED <<call, i, x, size, fb>>

BmpDone == /\ pc = "called" /\ call.kind = "bitmap" /\ ~RowLeft(call.file)
           /\ pc' = "returned"
           /\ UNCHANGED <<call, i, x, size, fb>>

-----------------------------------------------------------------------------

Next == \/ DrawShape
        \/ Glyph \/ NoGlyph \/ Terminator
        \/ NoFile \/ BmpRow \/ Fault \/ BmpDone

Spec == Init /\ [][Next]_vars

-----------------------------------------------------------------------------

\* Every place of fb holds something that was there to be displayed, and the
\* loops end where the string or the rows do.
TypeOK ==
  /\ call \in ShapeCalls \cup StringCalls \cup BitmapCalls
  /\ pc \in {"called", "returned", "dead"}
  /\ i \in CASE call.kind = "shape"  -> {0}
            [] call.kind = "string" -> 1 .. Len(Memory)
            [] call.kind = "bitmap" -> 0 .. call.file.h
  /\ x \in Nat /\ size \in {"psize", "char"}
  /\ DOMAIN fb = Offsets
  /\ \A o \in Offsets :
       \/ fb[o] = <<>>
       \/ fb[o] = Ink /\ call.kind # "bitmap"
       \/ /\ call.kind = "bitmap" /\ Len(fb[o]) = 3
          /\ \A k \in 1 .. 3 : fb[o][k] \in 14 .. call.file.size - 1

-----------------------------------------------------------------------------
(* Shapes                                                                  *)

Display == (0 .. W - 1) \X (0 .. H - 1)

Beside(c) == {<<c[1] - 1, c[2]>>, <<c[1] + 1, c[2]>>, <<c[1], c[2] - 1>>, <<c[1], c[2] + 1>>}

Fits(s) == Pixels(s) \subseteq Display

\* The figure a shape is the outline of, or is.
Figure(s) ==
  CASE s.shape \in {"ball", "cir"} -> Ball(s.x, s.y, s.len)
    [] s.shape = "ellipse" ->
         {c \in Display : Square((c[1] - s.x) * s.high) + Square((c[2] - s.y) * s.width)
                            <= Square(s.width * s.high)}
    [] s.shape = "rect" -> SquareArea(s.x, s.y, s.width + 1, s.high + 1)
                             \ {<<s.x + s.width, s.y>>, <<s.x + s.width, s.y + s.high>>}
    [] OTHER -> Pixels(s)

\* What is painted of a shape on the display separates the whole figure from the
\* rest, since a cell of it that is not painted has neighbours of it only: the disc of a circle, and of an ellipse when the product of its squared
\* half axes is an int (300 x 200 is beyond), the box of a rectangle but for its
\* two corners on the right.  An outline has no gap, whatever the radius
\* (my_draw.c:10-42, 60-78, draw.c:43-59).
Encloses ==
  pc = "returned" /\ call.kind = "shape" =>
    LET s == call.shape
    IN /\ Fits(s)
       /\ s.shape = "ellipse" => Square(s.width * s.high) < IntHalf
       => /\ Painted \subseteq At(Figure(s))
          /\ \A c \in Figure(s) : Offset(c) \in Painted \/ Beside(c) \subseteq Figure(s)

-----------------------------------------------------------------------------
(* Strings                                                                 *)

\* The n-th character of the string: a font's codes are Unicode's.
Code(n) == call.string.chars[n]

\* The first character ever is displayed in the size given to init_ft.
SizeOf(n, first) == IF n = 1 THEN first ELSE "char"

\* The ink of the n-th character, in its place.
InkOf(n, first) ==
  LET glyph == Font[Code(n)][SizeOf(n, first)]
  IN {<<call.place[1] + (n - 1) * psize + c[1], call.place[2] - glyph.top + c[2]>> :
        c \in glyph.ink}

LeftToo(cells) == cells \cup {<<c[1] - 1, c[2]>> : c \in cells}

\* As many characters as have been displayed, from the first on, are psize apart and
\* each by its own glyph: no ink of theirs is missing, and what is more is a pixel to
\* the left of ink.  It ends at a character without a glyph or that FreeType fails at.
Legible ==
  LET chars == DOMAIN call.string.chars
      Inks(n, first) == UNION {InkOf(m, first) : m \in 1 .. n}
      Shown(n) ==
        /\ \A m \in 1 .. n : HasGlyph(Code(m))
        /\ x = call.place[1] + n * psize
        /\ \E first \in {"psize", "char"} :
             /\ At(Inks(n, first)) \subseteq Painted
             /\ Painted \subseteq At(LeftToo(Inks(n, first)))
  IN /\ i <= Len(Bytes(call.string)) + 1
     /\ \E n \in {0} \cup chars :
          /\ Shown(n)
          /\ pc = "returned" /\ n + 1 \in chars =>
               call.font = "fails" \/ ~HasGlyph(Code(n + 1))

\* It ends where a character does, and each is of an unsigned short.
Intact(string) == /\ string.cut = 0
                  /\ \A n \in DOMAIN string.chars : string.chars[n] < Plane

\* A string that is not cut, of characters of one to three bytes, is displayed
\* character after character, and nothing past its terminator is looked at
\* (font.c:17-48, 82-147, main.c:520).
ShowsText == call.kind = "string" /\ Intact(call.string) => Legible

\* A string of any of Unicode's characters is displayed so: "utf8 transfer to
\* unicode(utf32)" (font.c:15).
ShowsUtf32 == call.kind = "string" /\ call.string.cut = 0 => Legible

-----------------------------------------------------------------------------
(* Bitmaps                                                                 *)

\* The pixel of row r, from the bottom, and column c of a bitmap of 24 bits a
\* pixel, whose rows are padded to four bytes.
BitmapPixel(file, r, c) ==
  LET stride == 4 * ((3 * file.w + 3) \div 4)
      first  == file.offset + r * stride + 3 * c
  IN <<first, first + 1, first + 2>>

Plain(file) == /\ file.depth = 24 /\ file.offset = 54 /\ (3 * file.w) % 4 = 0
               /\ file.size >= 54 + 3 * file.w * file.h
               /\ file.w <= W /\ file.h <= H

\* A file of 24 bits a pixel without padding and no larger than the display is
\* displayed in the right bottom corner, the rows read so far the right way up,
\* and the rest of the display is left alone (disp_bmp.c:80-94).  Nothing of this
\* is so for other files.
BmpShown ==
  call.kind = "bitmap" /\ Plain(call.file) =>
    /\ pc # "dead"
    /\ \A c \in Display :
         LET r   == H - 1 - c[2]
             col == c[1] - (W - call.file.w)
         IN fb[Offset(c)] = IF r < i /\ col >= 0 THEN BitmapPixel(call.file, r, col)
                                                  ELSE <<>>
=============================================================================
