---------------------------- MODULE PicturesProofs ----------------------------
(***************************************************************************)
(* Theorems about Pictures: any calls, any pictures, a display and a width *)
(* of short of any size.                                                   *)
(***************************************************************************)
EXTENDS Pictures, TLAPS

-----------------------------------------------------------------------------
(* Nothing stays held in a process that goes on.                           *)

Resources == {"file", "cinfo", "buf24", "scale_buf", "buf32"}

\* The file or the decompressor of picture m is not released.
Decoding(m) == <<"file", m>> \in held \/ <<"cinfo", m>> \in held

Shape == /\ pc \in Steps
         /\ call \in Calls /\ n \in 1 .. Len(call.pics)
         /\ pc = "idle" => n = 1
         /\ held \subseteq Resources \X {1, 2}
         /\ DOMAIN buf24 = 1 .. 2 /\ DOMAIN scale_buf = 1 .. 2 /\ DOMAIN buf32 = 1 .. 2

\* A block the call has not come to is NULL, and no block is made from NULL.
Fresh ==
  \A m \in 1 .. 2 :
    /\ \/ m > n
       \/ m = n /\ pc \in {"idle", "open", "header"}
       => buf24[m] = NULL
    /\ \/ m > n
       \/ m = n /\ pc \in {"idle", "open", "header", "rows", "scale"}
       \/ buf24[m] = NULL
       => scale_buf[m] = NULL
    /\ \/ m > n
       \/ m = n /\ pc \in {"idle", "open", "header", "rows", "scale", "convert"}
       \/ scale_buf[m] = NULL
       => buf32[m] = NULL

\* What decode_jpeg leaves behind, it leaves with a NULL.
Leaks ==
  /\ \A m \in 1 .. 2 : Decoding(m) => \/ m = n /\ pc \in {"header", "rows"}
                                      \/ m <= n /\ buf24[m] = NULL
  /\ pc = "free" => \A m \in 1 .. 2 : ~Decoding(m)
  /\ pc \in {"idle", "over"} => held = {}

HeldInv == Shape /\ Fresh /\ Leaks

\* A call has one picture or two.
LEMMA Pictured ==
  ASSUME NEW c \in Calls
  PROVE  /\ Len(c.pics) \in {1, 2}
         /\ \A m \in 1 .. Len(c.pics) : c.pics[m] \in PictureType
<1>1. c.pics \in Seq(PictureType)
  BY CallsAssumption
<1>2. Len(c.pics) = IF c.function = "transparent" THEN 2 ELSE 1
  BY CallsAssumption
<1> QED
  BY <1>1, <1>2

\* One more thing held.
LEMMA Taken ==
  ASSUME NEW A, A \subseteq Resources \X {1, 2}, NEW r \in Resources, NEW m \in {1, 2}
  PROVE  A \cup {<<r, m>>} \subseteq Resources \X {1, 2}
OBVIOUS

LEMMA HeldInit == Init => HeldInv
<1> SUFFICES ASSUME Init PROVE HeldInv
  OBVIOUS
<1>1. call \in Calls
  BY DEF Init
<1>5. 1 \in 1 .. Len(call.pics)
  BY <1>1, Pictured
<1>2. Shape
  BY <1>1, <1>5 DEF Init, Shape, Steps, Nulls
<1>3. Fresh
  BY DEF Init, Fresh, Nulls
<1>4. Leaks
  BY DEF Init, Leaks, Decoding
<1> QED
  BY <1>2, <1>3, <1>4 DEF HeldInv

LEMMA HeldStep == HeldInv /\ [Next]_vars => HeldInv'
<1> SUFFICES ASSUME HeldInv, [Next]_vars PROVE HeldInv'
  OBVIOUS
<1> USE DEF HeldInv
<1>0. Len(call.pics) \in {1, 2} /\ n \in {1, 2}
  BY Pictured DEF Shape
<1>00. held \subseteq Resources \X {1, 2}
  BY DEF Shape
<1>1. CASE UNCHANGED vars
  BY <1>1 DEF vars, bufs, Shape, Fresh, Leaks, Decoding
<1>2. CASE Call
  <2>1. call' \in Calls /\ 1 \in 1 .. Len(call'.pics)
    BY <1>2, Pictured DEF Call
  <2>2. Shape'
    BY <1>2, <2>1 DEF Call, bufs, Shape, Steps
  <2>3. Fresh' /\ Leaks'
    BY <1>2 DEF Call, bufs, Shape, Fresh, Leaks, Decoding
  <2> QED
    BY <2>2, <2>3
<1>3. CASE Open
  <2>1. Shape'
    <3>1. held \cup {<<"file", n>>} \subseteq Resources \X {1, 2}
      <4>1. "file" \in Resources
        BY DEF Resources
      <4> QED
        BY <1>0, <1>00, <4>1, Taken
    <3>2. held \cup {<<"file", n>>} \cup {<<"cinfo", n>>} \subseteq Resources \X {1, 2}
      BY <1>0, <3>1, Taken DEF Shape, Resources
    <3>3. held' \subseteq Resources \X {1, 2}
      BY <1>3, <3>2 DEF Open, Shape
    <3> QED
      BY <1>3, <3>3 DEF Open, bufs, Shape, Steps
  <2>2. Fresh'
    BY <1>0, <1>3 DEF Open, bufs, Shape, Fresh
  <2>3. Leaks'
    BY <1>0, <1>3 DEF Open, bufs, Shape, Fresh, Leaks, Decoding
  <2> QED
    BY <2>1, <2>2, <2>3
<1>4. CASE LibjpegExit
  BY <1>0, <1>4 DEF LibjpegExit, bufs, Shape, Fresh, Leaks, Decoding, Steps
<1>5. CASE Header
  <2>1. Shape'
    <3>1. held \cup {<<"buf24", n>>} \subseteq Resources \X {1, 2}
      <4>1. "buf24" \in Resources
        BY DEF Resources
      <4> QED
        BY <1>0, <1>00, <4>1, Taken
    <3>2. held' \subseteq Resources \X {1, 2}
      BY <1>5, <3>1 DEF Header, Shape
    <3> QED
      BY <1>0, <1>5, <3>2 DEF Header, bufs, Shape, Steps
  <2>2. Fresh'
    BY <1>0, <1>5 DEF Header, bufs, Shape, Fresh
  <2>3. Leaks'
    BY <1>0, <1>5 DEF Header, bufs, Shape, Fresh, Leaks, Decoding
  <2> QED
    BY <2>1, <2>2, <2>3
<1>6. CASE Row
  <2>1. Shape'
    BY <1>0, <1>6 DEF Row, bufs, Shape, Steps, Resources
  <2>2. Fresh'
    BY <1>0, <1>6 DEF Row, bufs, Shape, Fresh
  <2>3. Leaks'
    BY <1>0, <1>6 DEF Row, bufs, Shape, Fresh, Leaks, Decoding
  <2> QED
    BY <2>1, <2>2, <2>3
<1>7. CASE Finish
  <2>1. Shape'
    BY <1>0, <1>7 DEF Finish, bufs, Shape, Steps, Resources
  <2>2. Fresh'
    BY <1>0, <1>7 DEF Finish, bufs, Shape, Fresh
  <2>3. Leaks'
    BY <1>0, <1>7 DEF Finish, bufs, Shape, Fresh, Leaks, Decoding
  <2> QED
    BY <2>1, <2>2, <2>3
<1>8. CASE Scale
  <2>1. Shape'
    <3>1. held \cup {<<"scale_buf", n>>} \subseteq Resources \X {1, 2}
      <4>1. "scale_buf" \in Resources
        BY DEF Resources
      <4> QED
        BY <1>0, <1>00, <4>1, Taken
    <3>2. held' \subseteq Resources \X {1, 2}
      BY <1>8, <3>1 DEF Scale, Crash, Shape
    <3> QED
      BY <1>0, <1>8, <3>2 DEF Scale, Crash, bufs, Shape, Steps
  <2>2. Fresh'
    BY <1>0, <1>8 DEF Scale, Crash, bufs, Shape, Fresh
  <2>3. Leaks'
    BY <1>0, <1>8 DEF Scale, Crash, bufs, Shape, Fresh, Leaks, Decoding
  <2> QED
    BY <2>1, <2>2, <2>3
<1>9. CASE Convert
  <2>1. Shape'
    <3>1. held \cup {<<"buf32", n>>} \subseteq Resources \X {1, 2}
      <4>1. "buf32" \in Resources
        BY DEF Resources
      <4> QED
        BY <1>0, <1>00, <4>1, Taken
    <3>2. held' \subseteq Resources \X {1, 2}
      BY <1>9, <3>1 DEF Convert, Crash, Shape
    <3> QED
      BY <1>0, <1>9, <3>2 DEF Convert, Crash, bufs, Shape, Steps
  <2>2. Fresh'
    BY <1>0, <1>9 DEF Convert, Crash, bufs, Shape, Fresh
  <2>3. Leaks'
    BY <1>0, <1>9 DEF Convert, Crash, bufs, Shape, Fresh, Leaks, Decoding
  <2> QED
    BY <2>1, <2>2, <2>3
<1>10. CASE Paint
  <2>1. Shape'
    BY <1>0, <1>10 DEF Paint, Crash, bufs, Shape, Steps, Resources
  <2>2. Fresh'
    BY <1>0, <1>10 DEF Paint, Crash, bufs, Shape, Fresh
  <2>3. Leaks'
    BY <1>0, <1>10 DEF Paint, Crash, bufs, Shape, Fresh, Leaks, Decoding
  <2> QED
    BY <2>1, <2>2, <2>3
<1>11. CASE Free
  <2>1. Shape'
    BY <1>0, <1>11 DEF Free, bufs, Shape, Steps, Resources, Nulls
  <2>2. Fresh'
    BY <1>0, <1>11 DEF Free, bufs, Shape, Fresh, Nulls
  <2>3. Leaks'
    BY <1>0, <1>11 DEF Free, bufs, Shape, Fresh, Leaks, Decoding, Resources
  <2> QED
    BY <2>1, <2>2, <2>3
<1>12. CASE Corrupted
  BY <1>0, <1>12 DEF Corrupted, Crash, bufs, Shape, Fresh, Leaks, Decoding, Steps
<1>13. CASE Over
  BY <1>13 DEF Over, vars, bufs, Shape, Fresh, Leaks, Decoding
<1> QED
  BY <1>1, <1>2, <1>3, <1>4, <1>5, <1>6, <1>7, <1>8, <1>9, <1>10, <1>11, <1>12, <1>13
     DEF Next

\* Whatever failed on the way, a process that takes the next call holds nothing
\* of the last one (jpeg.c:45-112, disp-jpeg.c:405-407).
THEOREM HoldsNothing == Spec => []NothingHeld
<1>1. HeldInv => NothingHeld
  BY DEF HeldInv, Leaks, NothingHeld
<1> QED
  BY HeldInit, HeldStep, <1>1, PTL DEF Spec

-----------------------------------------------------------------------------
(* A colour picture that an int can count is handled inside its blocks.    *)

LEMMA Division ==
  ASSUME NEW a \in Nat, NEW d \in Nat \ {0}
  PROVE  /\ a \div d \in Nat /\ a % d \in 0 .. d - 1
         /\ a = d * (a \div d) + (a % d)
OBVIOUS

LEMMA Remainder ==
  ASSUME NEW d \in Nat \ {0}, NEW a \in 0 .. 2 * d - 1
  PROVE  a % d = IF a < d THEN a ELSE a - d
<1> DEFINE q == a \div d
           r == a % d
<1>0. a \in Nat
  OBVIOUS
<1>1. q \in Nat /\ r \in 0 .. d - 1 /\ a = d * q + r
  BY <1>0, Division
<1> HIDE DEF q, r
<1>2. q \in {0, 1}
  <2> SUFFICES ASSUME q >= 2 PROVE FALSE
    BY <1>1
  <2>1. d * q >= d * 2
    BY <1>1
  <2> QED
    BY <1>1, <2>1
<1>3. r = IF a < d THEN a ELSE a - d
  BY <1>1, <1>2
<1> QED
  BY <1>3 DEF r

\* A size as a short: itself, or negative.
LEMMA Narrowed ==
  ASSUME NEW i \in 1 .. 2 * Short - 1
  PROVE  Narrow(i) = IF i < Short THEN i ELSE i - 2 * Short
<1>1. Short \in Nat \ {0}
  BY ShortAssumption
<1>2. CASE i < Short
  <2> DEFINE d == 2 * Short
             a == i + Short
  <2>1. d \in Nat \ {0} /\ a \in 0 .. 2 * d - 1 /\ a < d
    BY <1>1, <1>2
  <2>2. a % d = a
    <3> HIDE DEF a, d
    <3> QED
      BY <2>1, Remainder
  <2> QED
    BY <1>1, <1>2, <2>2 DEF Narrow
<1>3. CASE ~(i < Short)
  <2> DEFINE d == 2 * Short
             a == i + Short
  <2>1. d \in Nat \ {0} /\ a \in 0 .. 2 * d - 1 /\ ~(a < d)
    BY <1>1, <1>3
  <2>2. a % d = a - d
    <3> HIDE DEF a, d
    <3> QED
      BY <2>1, Remainder
  <2> QED
    BY <1>1, <1>3, <2>2 DEF Narrow
<1> QED
  BY <1>2, <1>3

\* What an int holds, it holds unchanged.
LEMMA Wrapped ==
  ASSUME NEW i \in Int, -IntWrap <= i, i < IntWrap
  PROVE  Wrap(i) = i
<1>1. IntWrap \in Nat \ {0}
  <2>1. Short \in Nat \ {0}
    BY ShortAssumption
  <2>2. Short * Short \in Nat \ {0}
    BY <2>1
  <2>3. IntWrap = 2 * (Short * Short)
    BY <2>1 DEF IntWrap
  <2> QED
    BY <2>2, <2>3
<1> DEFINE d == 2 * IntWrap
           a == i + IntWrap
<1>2. d \in Nat \ {0} /\ a \in 0 .. 2 * d - 1 /\ a < d
  BY <1>1
<1>3. a % d = a
  <2> HIDE DEF a, d
  <2> QED
    BY <1>2, Remainder
<1> QED
  BY <1>1, <1>3 DEF Wrap

\* A block that is asked for has the size of the picture.
LEMMA RightSize ==
  ASSUME NEW p \in PictureType, Fits(p), Narrow(p.w) > 0, Size24(p) > 0
  PROVE  Narrow(p.w) = p.w /\ Size24(p) = 3 * p.w * p.h
<1> DEFINE w == p.w
           h == p.h
<1>1. Short \in Nat \ {0} /\ w \in 1 .. 2 * Short - 1 /\ h \in 1 .. 2 * Short - 1
  BY ShortAssumption DEF PictureType
<1>2. Narrow(w) = w
  BY <1>1, Narrowed
<1>3. w * h \in Nat /\ 3 * w * h = 3 * (w * h) /\ 3 * (w * h) < IntWrap
  BY <1>1 DEF Fits
<1>4. CASE h < Short
  <2>1. Narrow(h) = h
    BY <1>1, <1>4, Narrowed
  <2>2. Wrap(3 * w * h) = 3 * w * h
    BY <1>3, Wrapped, ShortAssumption DEF IntWrap
  <2> QED
    BY <1>2, <2>1, <2>2 DEF Size24
<1>5. CASE ~(h < Short)
  <2> DEFINE g == 2 * Short - h
  <2>1. Narrow(h) = -g /\ g \in Nat \ {0} /\ g <= h
    BY <1>1, <1>5, Narrowed
  <2> HIDE DEF w, h, g
  <2>2. w * g \in Nat /\ w * g <= w * h /\ w * g > 0
    BY <1>1, <2>1
  <2>3. 3 * w * (-g) = -(3 * (w * g)) /\ 3 * w * (-g) \in Int
    BY <1>1, <2>1
  <2>4. -IntWrap <= 3 * w * (-g) /\ 3 * w * (-g) < 0
    BY <1>3, <2>2, <2>3, ShortAssumption DEF IntWrap
  <2>5. Wrap(3 * w * (-g)) = 3 * w * (-g)
    BY <1>3, <2>2, <2>3, <2>4, Wrapped, ShortAssumption DEF IntWrap
  <2>6. Size24(p) = 3 * w * (-g)
    BY <1>2, <2>1, <2>5 DEF Size24, w, h
  <2> QED
    BY <2>3, <2>4, <2>6
<1> QED
  BY <1>4, <1>5

\* Row y of a picture lies in its block.
LEMMA RowInside ==
  ASSUME NEW w \in Nat \ {0}, NEW h \in Nat \ {0}, NEW y \in 0 .. h - 1
  PROVE  3 * w * y .. 3 * w * (y + 1) - 1 \subseteq 0 .. 3 * w * h - 1
<1> DEFINE v == 3 * w
<1>1. v \in Nat
  OBVIOUS
<1> HIDE DEF v
<1>2. v * y >= 0 /\ v * y \in Int /\ v * (y + 1) <= v * h /\ v * (y + 1) \in Int /\ v * h \in Int
  BY <1>1
<1>3. v * y .. v * (y + 1) - 1 \subseteq 0 .. v * h - 1
  BY <1>2
<1> QED
  BY <1>3 DEF v

\* scale24 picks a column, or a row, that is there.
LEMMA FromInside ==
  ASSUME NEW size \in Nat \ {0}, NEW from \in Nat \ {0}, NEW i \in 0 .. size - 1
  PROVE  From(i, size, from) \in 0 .. from - 1
<1> DEFINE a == i * from
           q == a \div size
           r == a % size
<1>1. a \in Nat
  OBVIOUS
<1>2. q \in Nat /\ r \in 0 .. size - 1 /\ a = size * q + r
  BY <1>1, Division
<1>3. a < size * from
  OBVIOUS
<1> HIDE DEF a, q, r
<1>4. q < from
  <2> SUFFICES ASSUME q >= from PROVE FALSE
    BY <1>2
  <2>1. size * q >= size * from
    BY <1>2
  <2> QED
    BY <1>1, <1>2, <1>3, <2>1
<1> QED
  BY <1>2, <1>4 DEF From, a, q

\* The byte at column x and row y of a picture.
LEMMA ByteInside ==
  ASSUME NEW w \in Nat \ {0}, NEW h \in Nat \ {0},
         NEW x \in 0 .. w - 1, NEW y \in 0 .. h - 1, NEW b \in 0 .. 2
  PROVE  (x + y * w) * 3 + b \in 0 .. 3 * w * h - 1
<1>1. y * w \in Nat /\ y * w <= (h - 1) * w /\ (h - 1) * w = w * h - w /\ w * h \in Nat
  OBVIOUS
<1>2. 3 * w * h = 3 * (w * h)
  OBVIOUS
<1> QED
  BY <1>1, <1>2

\* The target of a scaling is a display, or a part of it, that is not empty.
LEMMA Target ==
  ASSUME call \in Calls
  PROVE  ToW \in Nat \ {0} /\ ToH \in Nat \ {0}
BY CallsAssumption, DisplayAssumption DEF ToW, ToH, Placed

LEMMA SourceInside ==
  ASSUME call \in Calls, NEW p \in PictureType, NEW k \in 0 .. 3 * ToW * ToH - 1
  PROVE  SourceByte(p, k) \in 0 .. 3 * p.w * p.h - 1
<1> DEFINE pixel == k \div 3
           x == pixel % ToW
           y == pixel \div ToW
<1>1. ToW \in Nat \ {0} /\ ToH \in Nat \ {0}
  BY Target
<1>2. p.w \in Nat \ {0} /\ p.h \in Nat \ {0}
  BY ShortAssumption DEF PictureType
<1>3. k \in Nat /\ k < 3 * (ToW * ToH) /\ ToW * ToH \in Nat
  BY <1>1
<1>4. pixel \in Nat /\ pixel < ToW * ToH /\ k % 3 \in 0 .. 2
  BY <1>3
<1>5. x \in 0 .. ToW - 1 /\ y \in Nat /\ pixel = ToW * y + x
  <2> HIDE DEF pixel
  <2> QED
    BY <1>1, <1>4, Division
<1>6. y \in 0 .. ToH - 1
  <2> HIDE DEF pixel, x, y
  <2> SUFFICES ASSUME y >= ToH PROVE FALSE
    BY <1>1, <1>5
  <2>1. ToW * y >= ToW * ToH
    BY <1>1, <1>5
  <2> QED
    BY <1>1, <1>3, <1>4, <1>5, <2>1
<1>7. From(x, ToW, p.w) \in 0 .. p.w - 1 /\ From(y, ToH, p.h) \in 0 .. p.h - 1
  <2> HIDE DEF x, y
  <2> QED
    BY <1>1, <1>2, <1>5, <1>6, FromInside
<1>8. (From(x, ToW, p.w) + From(y, ToH, p.h) * p.w) * 3 + (k % 3)
        \in 0 .. 3 * p.w * p.h - 1
  <2> DEFINE fx == From(x, ToW, p.w)
             fy == From(y, ToH, p.h)
             b == k % 3
  <2> HIDE DEF fx, fy, b
  <2>1. fx \in 0 .. p.w - 1 /\ fy \in 0 .. p.h - 1 /\ b \in 0 .. 2
    BY <1>4, <1>7 DEF fx, fy, b
  <2>2. (fx + fy * p.w) * 3 + b \in 0 .. 3 * p.w * p.h - 1
    BY <1>2, <2>1, ByteInside
  <2> QED
    BY <2>2 DEF fx, fy, b
<1> QED
  BY <1>8 DEF SourceByte

-----------------------------------------------------------------------------

\* The bytes of a picture.
Bytes(p) == 0 .. 3 * p.w * p.h - 1

\* Blocks are as long as the pictures of a call that fit need.
Sizes ==
  /\ row \in Nat
  /\ DOMAIN screen = 0 .. W * H - 1
  /\ AllFit =>
       /\ \A m \in 1 .. Len(call.pics) :
            /\ buf24[m] # NULL => DOMAIN buf24[m] = Bytes(call.pics[m])
            /\ buf32[m] # NULL => DOMAIN buf32[m] = 0 .. ToW * ToH - 1
       /\ pc = "rows" => DOMAIN buf24[n] = Bytes(Pic) /\ Narrow(Pic.w) = Pic.w

LEMMA SizesInit == Init => Sizes
<1> SUFFICES ASSUME Init PROVE Sizes
  OBVIOUS
<1>1. call \in Calls /\ Len(call.pics) \in {1, 2}
  BY Pictured DEF Init
<1> QED
  BY <1>1 DEF Init, Sizes, Nulls

LEMMA SizesStep ==
  HeldInv /\ Sizes /\ [Next]_vars => Sizes' /\ (Calm => outside' \subseteq outside)
<1> SUFFICES ASSUME HeldInv, Sizes, [Next]_vars
             PROVE  Sizes' /\ (Calm => outside' \subseteq outside)
  OBVIOUS
<1>0. /\ Shape /\ Len(call.pics) \in {1, 2} /\ Pic \in PictureType
      /\ n \in 1 .. Len(call.pics) /\ n \in {1, 2}
  BY Pictured DEF HeldInv, Shape, Pic
<1>1. CASE UNCHANGED vars \/ Over
  BY <1>1 DEF Over, vars, bufs, Sizes, AllFit, Pic, ToW, ToH
<1>2. CASE Call
  <2>1. buf24[1] = NULL /\ buf24[2] = NULL /\ buf32[1] = NULL /\ buf32[2] = NULL
    BY <1>0, <1>2 DEF Call, HeldInv, Fresh, Shape
  <2>2. call' \in Calls /\ Len(call'.pics) \in {1, 2}
    BY <1>2, Pictured DEF Call
  <2> QED
    <3>1. \A m \in 1 .. Len(call'.pics) : buf24'[m] = NULL /\ buf32'[m] = NULL
      <4> DEFINE count == Len(call'.pics)
      <4>1. \A m \in 1 .. count : m \in {1, 2}
        <5>1. count \in {1, 2}
          BY <2>2
        <5> HIDE DEF count
        <5> QED
          BY <5>1
      <4>2. buf24' = buf24 /\ buf32' = buf32
        BY <1>2 DEF Call, bufs
      <4> QED
        BY <2>1, <4>1, <4>2
    <3>2. Sizes'
      BY <1>2, <3>1 DEF Call, Sizes
    <3> QED
      BY <1>2, <3>2 DEF Call
<1>3. CASE Open \/ LibjpegExit \/ Finish
  BY <1>3 DEF Open, LibjpegExit, Finish, bufs, Sizes, AllFit, Pic, ToW, ToH
<1>4. CASE Header
  <2>1. CASE UNCHANGED buf24 /\ pc' # "rows"
    BY <1>4, <2>1 DEF Header, Sizes, AllFit, Pic, ToW, ToH
  <2>2. CASE /\ Size24(Pic) > 0 /\ Narrow(Pic.w) > 0
             /\ buf24' = [buf24 EXCEPT ![n] = Block(Size24(Pic))]
    <3>1. AllFit => DOMAIN buf24'[n] = Bytes(Pic) /\ Narrow(Pic.w) = Pic.w
      BY <1>0, <2>2, RightSize DEF AllFit, Pic, Block, Bytes, Shape
    <3>2. \A m \in 1 .. 2 : m # n => buf24'[m] = buf24[m]
      BY <2>2, <1>0 DEF Shape
    <3> QED
      BY <1>0, <1>4, <3>1, <3>2 DEF Header, Sizes, AllFit, Pic, ToW, ToH
  <2> QED
    BY <1>4, <2>1, <2>2 DEF Header
<1>5. CASE Row
  <2>1. DOMAIN buf24'[n] = DOMAIN buf24[n] /\ \A m \in 1 .. 2 : m # n => buf24'[m] = buf24[m]
    BY <1>0, <1>5 DEF Row, Shape
  <2>2. AllFit => Pic.components = 3 /\ DOMAIN buf24[n] = Bytes(Pic) /\ Narrow(Pic.w) = Pic.w
    BY <1>0, <1>5 DEF Row, Sizes, AllFit, Fits, Pic
  <2>3. Sizes'
    BY <1>0, <1>5, <2>1, <2>2 DEF Row, Sizes, AllFit, Pic, ToW, ToH
  <2>4. AllFit => DOMAIN RowWrites(Pic, row) \subseteq Bytes(Pic)
    <3>1. Pic.w \in Nat \ {0} /\ Pic.h \in Nat \ {0} /\ row \in 0 .. Pic.h - 1
      BY <1>0, <1>5, ShortAssumption DEF Row, RowsLeft, Sizes, PictureType
    <3>2. 3 * Pic.w * row .. 3 * Pic.w * (row + 1) - 1 \subseteq Bytes(Pic)
      BY <3>1, RowInside DEF Bytes
    <3> QED
      BY <2>2, <3>2 DEF RowWrites
  <2>5. Calm => outside' \subseteq outside
    BY <1>5, <2>2, <2>4 DEF Row, Calm
  <2> QED
    BY <2>3, <2>5
<1>6. CASE Scale
  <2>1. Sizes'
    BY <1>6 DEF Scale, Crash, bufs, Sizes, AllFit, Pic, ToW, ToH
  <2>2. AllFit /\ buf24[n] # NULL => \A k \in 0 .. 3 * ToW * ToH - 1 : SourceByte(Pic, k) \in DOMAIN buf24[n]
    BY <1>0, SourceInside DEF Sizes, Bytes, Pic, Shape
  <2>3. Calm => outside' \subseteq outside
    BY <1>6, <2>2 DEF Scale, Crash, Calm
  <2> QED
    BY <2>1, <2>3
<1>7. CASE Convert
  <2>1. CASE UNCHANGED bufs
    BY <1>7, <2>1 DEF Convert, Crash, bufs, Sizes, AllFit, Pic, ToW, ToH
  <2>2. CASE /\ UNCHANGED <<buf24, scale_buf, outside>>
             /\ buf32' = [buf32 EXCEPT ![n] =
                  [k \in 0 .. ToW * ToH - 1 |-> [b \in 0 .. 2 |-> scale_buf[n][3 * k + 2 - b]]]]
    <3>1. DOMAIN buf32'[n] = 0 .. ToW * ToH - 1
      <4>1. n \in DOMAIN buf32
        BY <1>0 DEF Shape
      <4> QED
        BY <2>2, <4>1
    <3>2. \A m \in 1 .. 2 : m # n => buf32'[m] = buf32[m]
      BY <1>0, <2>2 DEF Shape
    <3> QED
      BY <1>0, <1>7, <2>2, <3>1, <3>2 DEF Convert, Crash, Sizes, AllFit, Pic, ToW, ToH
  <2> QED
    BY <1>7, <2>1, <2>2 DEF Convert, Crash
<1>8. CASE Paint
  <2>1. Sizes'
    BY <1>8 DEF Paint, Crash, bufs, Sizes, AllFit, Pic, ToW, ToH
  <2>2. CASE \E m \in 1 .. Len(call.pics) : buf32[m] = NULL
    BY <1>8, <2>1, <2>2 DEF Paint, Crash
  <2>3. CASE \A m \in 1 .. Len(call.pics) : buf32[m] # NULL
    <3>1. Calm => DOMAIN buf32[1] = 0 .. W * H - 1
      BY <1>0, <2>3 DEF Sizes, Calm, ToW, ToH
    <3>2. Calm => Painted = 0 .. W * H - 1
      BY DEF Calm, Painted, Sizes
    <3>3. Calm => \A k \in 0 .. W * H - 1 : PixelAt(k) \in 0 .. W * H - 1
      <4>1. W \in Nat \ {0} /\ W * H \in Nat /\ 2 * W <= W * H
        <5>1. W * 2 <= W * H
          BY DisplayAssumption
        <5> QED
          BY <5>1, DisplayAssumption
      <4> QED
        BY <4>1 DEF PixelAt, Calm
    <3> QED
      BY <1>8, <2>1, <2>3, <3>1, <3>2, <3>3 DEF Paint
  <2> QED
    BY <2>2, <2>3
<1>9. CASE Free
  BY <1>0, <1>9 DEF Free, Sizes, AllFit, Nulls
<1>10. CASE Corrupted
  BY <1>10 DEF Corrupted, Crash, bufs, Sizes, AllFit, Pic, ToW, ToH
<1> QED
  BY <1>1, <1>2, <1>3, <1>4, <1>5, <1>6, <1>7, <1>8, <1>9, <1>10 DEF Next

\* A colour picture that an int can count is decoded, scaled, converted and
\* painted without a step outside a block (jpeg.c:65-172, disp-jpeg.c:386-678).
THEOREM StaysInsideBlocks == Spec => StaysInside
<1>1. HeldInv /\ Sizes /\ [Next]_vars => [Calm => outside' \subseteq outside]_outside
  BY SizesStep
<1> QED
  BY HeldInit, HeldStep, SizesInit, SizesStep, <1>1, PTL DEF Spec, StaysInside

-----------------------------------------------------------------------------
(* Types                                                                   *)

\* The blocks of picture m are NULL or as long as they were asked for.
BlocksTyped(m) == /\ DOMAIN buf24[m] \in {{}, 0 .. Size24(call.pics[m]) - 1}
                  /\ DOMAIN scale_buf[m] \in {{}, 0 .. 3 * ToW * ToH - 1}
                  /\ DOMAIN buf32[m] \in {{}, 0 .. ToW * ToH - 1}

Typed == /\ pc = "rows" => row <= Pic.h
         /\ lineOffset \in {3 * w : w \in Stack} \cup {0}
         /\ \A m \in 1 .. Len(call.pics) : BlocksTyped(m)
         /\ outside \subseteq {"read", "write"}

LEMMA TypedInit == Init => Typed
<1> SUFFICES ASSUME Init PROVE Typed
  OBVIOUS
<1>1. \A m \in 1 .. Len(call.pics) : m \in 1 .. 2
  BY Pictured DEF Init
<1>2. \A m \in 1 .. 2 : BlocksTyped(m)
  BY DEF Init, Nulls, NULL, BlocksTyped
<1>3. \A m \in 1 .. Len(call.pics) : BlocksTyped(m)
  BY <1>1, <1>2
<1> QED
  BY <1>3 DEF Init, Typed

\* A step that replaces the blocks of picture n at most.
LEMMA BlocksStep ==
  ASSUME HeldInv, Typed, call' = call, n \in 1 .. Len(call.pics),
         \A m \in 1 .. 2 : m # n => /\ buf24'[m] = buf24[m]
                                    /\ scale_buf'[m] = scale_buf[m]
                                    /\ buf32'[m] = buf32[m],
         DOMAIN buf24'[n] \in {DOMAIN buf24[n], 0 .. Size24(Pic) - 1},
         DOMAIN scale_buf'[n] \in {DOMAIN scale_buf[n], 0 .. 3 * ToW * ToH - 1},
         DOMAIN buf32'[n] \in {DOMAIN buf32[n], 0 .. ToW * ToH - 1}
  PROVE  \A m \in 1 .. Len(call'.pics) : BlocksTyped(m)'
<1> SUFFICES ASSUME NEW m \in 1 .. Len(call.pics) PROVE BlocksTyped(m)'
  OBVIOUS
<1>1. m \in 1 .. 2 /\ BlocksTyped(m)
  BY Pictured DEF HeldInv, Shape, Typed
<1>2. UNCHANGED <<ToW, ToH>>
  BY DEF ToW, ToH
<1>3. CASE m # n
  BY <1>1, <1>2, <1>3 DEF BlocksTyped
<1>4. CASE m = n
  BY <1>1, <1>2, <1>4 DEF BlocksTyped, Pic
<1> QED
  BY <1>3, <1>4

LEMMA TypedStep == HeldInv /\ Sizes /\ Typed /\ [Next]_vars => Typed'
<1> SUFFICES ASSUME HeldInv, Sizes, Typed, [Next]_vars PROVE Typed'
  OBVIOUS
<1>0. /\ Shape /\ Len(call.pics) \in {1, 2} /\ Pic \in PictureType
      /\ n \in 1 .. Len(call.pics) /\ n \in {1, 2}
  BY Pictured DEF HeldInv, Shape, Pic
<1>1. CASE UNCHANGED <<call, n, bufs>> /\ ~Row /\ ~Header
  <2>1. \A m \in 1 .. Len(call'.pics) : BlocksTyped(m)'
    BY <1>0, <1>1, BlocksStep DEF bufs
  <2>2. /\ pc' = "rows" => pc = "rows" /\ row' = row
        /\ lineOffset' \in {3 * w : w \in Stack} \cup {0}
        /\ outside' \subseteq {"read", "write"}
    BY <1>1 DEF Typed, Next, Call, Open, LibjpegExit, Finish, Scale, Convert, Paint, Free,
                Corrupted, Crash, Over, vars, bufs
  <2> QED
    BY <1>1, <2>1, <2>2 DEF Typed, Pic
<1>2. CASE Call
  <2>1. buf24[1] = NULL /\ buf24[2] = NULL /\ scale_buf[1] = NULL /\ scale_buf[2] = NULL
          /\ buf32[1] = NULL /\ buf32[2] = NULL
    BY <1>0, <1>2 DEF Call, HeldInv, Fresh, Shape
  <2>2. \A m \in 1 .. Len(call'.pics) : m \in 1 .. 2
    BY <1>2, Pictured DEF Call
  <2>3. \A m \in 1 .. 2 : BlocksTyped(m)'
    BY <1>2, <2>1 DEF Call, bufs, BlocksTyped, NULL
  <2>4. \A m \in 1 .. Len(call'.pics) : BlocksTyped(m)'
    BY <2>2, <2>3
  <2> QED
    BY <1>2, <2>4 DEF Call, Typed
<1>3. CASE Header
  <2>1. CASE UNCHANGED buf24
    <3>1. \A m \in 1 .. Len(call'.pics) : BlocksTyped(m)'
      BY <1>0, <1>3, <2>1, BlocksStep DEF Header
    <3> QED
      BY <1>0, <1>3, <3>1, ShortAssumption DEF Header, Typed, Pic, PictureType
  <2>2. CASE buf24' = [buf24 EXCEPT ![n] = Block(Size24(Pic))]
    <3>1. DOMAIN buf24'[n] = 0 .. Size24(Pic) - 1
      BY <1>0, <2>2 DEF Shape, Block
    <3>2. \A m \in 1 .. Len(call'.pics) : BlocksTyped(m)'
      BY <1>0, <1>3, <2>2, <3>1, BlocksStep DEF Header, Shape
    <3> QED
      BY <1>0, <1>3, <3>2, ShortAssumption DEF Header, Typed, Pic, PictureType
  <2> QED
    BY <1>3, <2>1, <2>2 DEF Header
<1>4. CASE Row
  <2>1. DOMAIN buf24'[n] = DOMAIN buf24[n] /\ \A m \in 1 .. 2 : m # n => buf24'[m] = buf24[m]
    BY <1>0, <1>4 DEF Row, Shape
  <2>2. \A m \in 1 .. Len(call'.pics) : BlocksTyped(m)'
    BY <1>0, <1>4, <2>1, BlocksStep DEF Row
  <2>3. row' <= Pic.h
    BY <1>0, <1>4 DEF Row, RowsLeft, Sizes, PictureType
  <2>4. outside' \subseteq {"read", "write"}
    BY <1>4 DEF Row, Typed
  <2> QED
    BY <1>4, <2>2, <2>3, <2>4 DEF Row, Typed, Pic
<1>5. CASE Scale /\ ~UNCHANGED bufs
  <2>1. /\ UNCHANGED <<call, n, lineOffset, buf24, buf32>> /\ pc' = "convert"
        /\ outside' \subseteq outside \cup {"read"}
        /\ scale_buf' = [scale_buf EXCEPT ![n] = scale_buf'[n]]
        /\ DOMAIN scale_buf'[n] = 0 .. 3 * ToW * ToH - 1
    BY <1>0, <1>5 DEF Scale, Crash, bufs, Shape
  <2>2. \A m \in 1 .. 2 : m # n => scale_buf'[m] = scale_buf[m]
    BY <1>0, <2>1 DEF Shape
  <2>3. \A m \in 1 .. Len(call'.pics) : BlocksTyped(m)'
    BY <1>0, <2>1, <2>2, BlocksStep
  <2> QED
    BY <2>1, <2>3 DEF Typed
<1>6. CASE Convert
  <2>1. /\ UNCHANGED <<call, lineOffset, outside, buf24, scale_buf>>
        /\ pc' # "rows"
        /\ \/ buf32' = buf32
           \/ buf32' = [buf32 EXCEPT ![n] =
                    [k \in 0 .. ToW * ToH - 1 |->
                      [b \in 0 .. 2 |-> scale_buf[n][3 * k + 2 - b]]]]
    BY <1>6 DEF Convert, Crash, bufs
  <2>2. DOMAIN buf32'[n] \in {DOMAIN buf32[n], 0 .. ToW * ToH - 1}
    BY <1>0, <2>1 DEF Shape
  <2>3. \A m \in 1 .. 2 : m # n => buf32'[m] = buf32[m]
    BY <1>0, <2>1 DEF Shape
  <2>4. \A m \in 1 .. Len(call'.pics) : BlocksTyped(m)'
    BY <1>0, <2>1, <2>2, <2>3, BlocksStep
  <2> QED
    BY <2>1, <2>4 DEF Typed
<1>7. CASE Free
  <2>1. \A m \in 1 .. 2 : BlocksTyped(m)'
    BY <1>7 DEF Free, Nulls, NULL, BlocksTyped
  <2>2. \A m \in 1 .. Len(call'.pics) : m \in 1 .. 2
    <3>1. call' = call
      BY <1>7 DEF Free
    <3> QED
      BY <3>1, Pictured DEF HeldInv, Shape
  <2>3. \A m \in 1 .. Len(call'.pics) : BlocksTyped(m)'
    BY <2>1, <2>2
  <2> QED
    BY <1>7, <2>3 DEF Free, Typed
<1> QED
  BY <1>1, <1>2, <1>3, <1>4, <1>5, <1>6, <1>7
     DEF Next, Open, LibjpegExit, Finish, Scale, Paint, Crash, Corrupted, Over, vars

\* Every variable has its type; among them, that a block is NULL or as long as the
\* header of its own picture, or the target of its call, made it
\* (jpeg.c:65-112, 126-170).
THEOREM PicturesTypes == Spec => []TypeOK
<1>1. HeldInv /\ Sizes /\ Typed => TypeOK
  BY DEF HeldInv, Shape, Sizes, Typed, BlocksTyped, TypeOK, Resources
<1> QED
  BY HeldInit, HeldStep, SizesInit, SizesStep, TypedInit, TypedStep, <1>1, PTL DEF Spec

-----------------------------------------------------------------------------
(* What is painted is the picture asked for: the contents of every block,  *)
(* from the decoded rows to the screen.                                    *)

\* Byte k of picture p as libjpeg gives it, and the byte that scale24 puts at k.
Got(p, k)      == Sample(p, k \div 3, k)
Scaled24(p, k) == Got(p, SourceByte(p, k))

\* The pixel at offset k of picture p scaled.
Pixel(p, k) == [b \in 0 .. 2 |-> Scaled24(p, 3 * k + 2 - b)]

\* What a block holds of the picture it is made for.
Contents ==
  AllFit /\ pc # "over" =>
    /\ \A m \in 1 .. Len(call.pics) :
         /\ buf24[m] # NULL /\ ~(pc = "rows" /\ m = n)
              => \A k \in Bytes(call.pics[m]) : buf24[m][k] = Got(call.pics[m], k)
         /\ scale_buf[m] # NULL
              => \A k \in 0 .. 3 * ToW * ToH - 1 :
                   scale_buf[m][k] = Scaled24(call.pics[m], k)
         /\ buf32[m] # NULL
              => \A k \in 0 .. ToW * ToH - 1 :
                   buf32[m][k] = Pixel(call.pics[m], k)
    /\ pc = "rows" => /\ row <= Pic.h
                      /\ \A k \in 0 .. 3 * Pic.w * row - 1 : buf24[n][k] = Got(Pic, k)

LEMMA ContentsInit == Init => Contents
<1> SUFFICES ASSUME Init PROVE Contents
  OBVIOUS
<1>1. call \in Calls /\ Len(call.pics) \in {1, 2}
  BY Pictured DEF Init
<1> QED
  BY <1>1 DEF Init, Contents, Nulls

LEMMA OneOrTwo ==
  ASSUME NEW l \in {1, 2}, NEW m \in 1 .. l
  PROVE  m \in 1 .. 2
OBVIOUS

\* A step that keeps the call scales to the same size.
LEMMA SameSource ==
  ASSUME call' = call
  PROVE  /\ ToW' = ToW /\ ToH' = ToH
         /\ \A p, k : Scaled24(p, k)' = Scaled24(p, k) /\ Pixel(p, k)' = Pixel(p, k)
<1>1. ToW' = ToW /\ ToH' = ToH
  BY DEF ToW, ToH
<1>2. \A p, k : SourceByte(p, k)' = SourceByte(p, k)
  BY <1>1 DEF SourceByte
<1>3. \A p, k : Scaled24(p, k)' = Scaled24(p, k)
  BY <1>2 DEF Scaled24, Got, Sample
<1> QED
  BY <1>1, <1>3 DEF Pixel

LEMMA Rows ==
  ASSUME NEW v \in Nat, NEW h \in Nat, NEW y \in 0 .. h - 1
  PROVE  /\ v * y \in Int /\ v * (y + 1) \in Int /\ v * h \in Int
         /\ 0 <= v * y /\ v * y <= v * (y + 1) /\ v * (y + 1) <= v * h
OBVIOUS

\* A row adds its bytes to those decoded.
LEMMA RowContents ==
  ASSUME HeldInv, Sizes, Contents, Row
  PROVE  Contents'
<1>0. /\ Shape /\ Len(call.pics) \in {1, 2} /\ Pic \in PictureType
      /\ n \in 1 .. Len(call.pics) /\ n \in {1, 2}
  BY Pictured DEF HeldInv, Shape, Pic
<1>1. SUFFICES ASSUME AllFit PROVE Contents'
  BY DEF Row, Contents, AllFit
<1> DEFINE v == 3 * Pic.w
<1>2. /\ Pic.components = 3 /\ DOMAIN buf24[n] = 0 .. v * Pic.h - 1
      /\ Narrow(Pic.w) = Pic.w /\ pc = "rows" /\ row \in Nat /\ row < Pic.h
      /\ \A k \in 0 .. v * row - 1 : buf24[n][k] = Got(Pic, k)
  BY <1>0, <1>1 DEF Row, RowsLeft, Sizes, Contents, AllFit, Fits, Pic, Bytes
<1>3. Pic.w \in Nat \ {0} /\ Pic.h \in Nat \ {0} /\ v \in Nat
  BY <1>0, ShortAssumption DEF PictureType
<1>4. RowWrites(Pic, row) = [k \in v * row .. v * (row + 1) - 1 |-> Got(Pic, k)]
  BY <1>2 DEF RowWrites, Got
<1>5. \A k \in DOMAIN buf24[n] :
        buf24'[n][k] = IF k \in v * row .. v * (row + 1) - 1 THEN Got(Pic, k) ELSE buf24[n][k]
  BY <1>0, <1>4 DEF Row, Shape
<1>6. \A k \in 0 .. v * (row + 1) - 1 : buf24'[n][k] = Got(Pic, k)
  <2> DEFINE h == Pic.h
  <2>1. v \in Nat /\ h \in Nat /\ row \in 0 .. h - 1
    BY <1>2, <1>3
  <2>2. \A k \in 0 .. v * h - 1 : k \in DOMAIN buf24[n]
    BY <1>2
  <2> HIDE DEF v, h
  <2>3. /\ v * row \in Int /\ v * (row + 1) \in Int /\ v * h \in Int
        /\ 0 <= v * row /\ v * row <= v * (row + 1) /\ v * (row + 1) <= v * h
    BY <2>1, Rows
  <2> QED
    BY <1>2, <1>5, <2>2, <2>3
<1>7. \A m \in 1 .. 2 : m # n => buf24'[m] = buf24[m]
  BY <1>0 DEF Row, Shape
<1>8. row' <= Pic.h
  BY <1>2, <1>3 DEF Row
<1>9. UNCHANGED <<pc, call, n, scale_buf, buf32>>
  BY DEF Row
<1>10. \A m \in 1 .. Len(call.pics) : m \in 1 .. 2
  BY <1>0, OneOrTwo
<1>11. /\ Pic' = Pic /\ ToW' = ToW /\ ToH' = ToH
       /\ \A p, k : Scaled24(p, k)' = Scaled24(p, k) /\ Pixel(p, k)' = Pixel(p, k)
  BY <1>9, SameSource DEF Pic
<1>12. \A m \in 1 .. Len(call.pics) :
         buf24'[m] # NULL /\ ~(pc = "rows" /\ m = n)
           => \A k \in Bytes(call.pics[m]) : buf24'[m][k] = Got(call.pics[m], k)
  BY <1>1, <1>2, <1>7, <1>10 DEF Contents
<1>13. \A m \in 1 .. Len(call.pics) :
         /\ scale_buf'[m] # NULL
              => \A k \in 0 .. 3 * ToW' * ToH' - 1 :
                   scale_buf'[m][k] = Scaled24(call.pics[m], k)'
         /\ buf32'[m] # NULL
              => \A k \in 0 .. ToW' * ToH' - 1 :
                   buf32'[m][k] = Pixel(call.pics[m], k)'
  <2>1. UNCHANGED <<scale_buf, buf32>>
    BY <1>9
  <2> QED
    BY <1>1, <1>2, <1>9, <1>11, <2>1 DEF Contents
<1>14. row' <= Pic'.h /\ \A k \in 0 .. 3 * Pic'.w * row' - 1 : buf24'[n][k] = Got(Pic, k)
  <2>1. row' = row + 1
    BY DEF Row
  <2> QED
    BY <1>6, <1>8, <1>11, <2>1
<1> QED
  BY <1>9, <1>11, <1>12, <1>13, <1>14 DEF Contents

\* A step that touches no block, before the rows or after them.
LEMMA Kept ==
  ASSUME Contents, call' = call, UNCHANGED bufs,
         pc # "over", pc # "rows", pc' # "rows"
  PROVE  Contents'
<1>1. /\ ToW' = ToW /\ ToH' = ToH
      /\ \A p, k : Scaled24(p, k)' = Scaled24(p, k) /\ Pixel(p, k)' = Pixel(p, k)
  BY SameSource
<1>2. SUFFICES ASSUME AllFit PROVE Contents'
  BY DEF Contents, AllFit
<1>3. \A m \in 1 .. Len(call.pics) :
        /\ buf24[m] # NULL => \A k \in Bytes(call.pics[m]) : buf24[m][k] = Got(call.pics[m], k)
        /\ scale_buf[m] # NULL => \A k \in 0 .. 3 * ToW * ToH - 1 :
                                    scale_buf[m][k] = Scaled24(call.pics[m], k)
        /\ buf32[m] # NULL => \A k \in 0 .. ToW * ToH - 1 :
                                buf32[m][k] = Pixel(call.pics[m], k)
  BY <1>2 DEF Contents
<1>4. buf24' = buf24 /\ scale_buf' = scale_buf /\ buf32' = buf32
  BY DEF bufs
<1> QED
  BY <1>1, <1>3, <1>4 DEF Contents, Bytes

\* Blocks that are not there hold nothing wrong.
LEMMA Emptied ==
  ASSUME Len(call'.pics) \in {1, 2}, pc' # "rows",
         \A m \in 1 .. 2 : buf24'[m] = NULL /\ scale_buf'[m] = NULL /\ buf32'[m] = NULL
  PROVE  Contents'
<1>1. \A m \in 1 .. Len(call'.pics) : m \in 1 .. 2
  <2> DEFINE count == Len(call'.pics)
  <2> HIDE DEF count
  <2>1. count \in {1, 2}
    BY DEF count
  <2>2. \A m \in 1 .. count : m \in 1 .. 2
    BY <2>1, OneOrTwo
  <2> QED
    BY <2>2 DEF count
<1> QED
  BY <1>1 DEF Contents

\* The other steps.
LEMMA ContentsStep == HeldInv /\ Sizes /\ Contents /\ [Next]_vars => Contents'
<1> SUFFICES ASSUME HeldInv, Sizes, Contents, [Next]_vars PROVE Contents'
  OBVIOUS
<1>0. /\ Shape /\ Len(call.pics) \in {1, 2} /\ Pic \in PictureType
      /\ n \in 1 .. Len(call.pics) /\ n \in {1, 2}
  BY Pictured DEF HeldInv, Shape, Pic
<1>00. \A m \in 1 .. Len(call.pics) : m \in 1 .. 2
  BY <1>0, OneOrTwo
<1>1. CASE UNCHANGED <<pc, call, n, row, bufs>>
  <2>1. /\ Pic' = Pic /\ ToW' = ToW /\ ToH' = ToH
        /\ \A p, k : Scaled24(p, k)' = Scaled24(p, k) /\ Pixel(p, k)' = Pixel(p, k)
    BY <1>1, SameSource DEF Pic
  <2>2. buf24' = buf24 /\ scale_buf' = scale_buf /\ buf32' = buf32 /\ call' = call
        /\ pc' = pc /\ n' = n /\ row' = row
    BY <1>1 DEF bufs
  <2> QED
    BY <2>1, <2>2 DEF Contents, AllFit
<1>2. CASE Call
  <2>1. \A m \in 1 .. 2 : buf24'[m] = NULL /\ scale_buf'[m] = NULL /\ buf32'[m] = NULL
    BY <1>0, <1>2 DEF Call, bufs, HeldInv, Shape, Fresh
  <2>2. Len(call'.pics) \in {1, 2} /\ pc' # "rows"
    BY <1>2, Pictured DEF Call
  <2> QED
    BY <2>1, <2>2, Emptied
<1>3. CASE pc' = "over"
  BY <1>3 DEF Contents
<1>4. CASE Open
  BY <1>4, Kept DEF Open
<1>5. CASE Header
  <2>1. CASE UNCHANGED buf24 /\ pc' # "rows"
    BY <1>5, <2>1, Kept DEF Header, bufs
  <2>2. CASE buf24' = [buf24 EXCEPT ![n] = Block(Size24(Pic))] /\ pc' = "rows"
    <3>1. \A m \in 1 .. 2 : m # n => buf24'[m] = buf24[m]
      BY <1>0, <2>2 DEF Shape
    <3>2. /\ Pic' = Pic /\ ToW' = ToW /\ ToH' = ToH
          /\ \A p, k : Scaled24(p, k)' = Scaled24(p, k) /\ Pixel(p, k)' = Pixel(p, k)
      BY <1>5, SameSource DEF Pic, Header
    <3>3. Pic.h \in Nat /\ 0 <= Pic.h /\ Pic.w \in Nat /\ row' = 0
      BY <1>0, <1>5, ShortAssumption DEF PictureType, Header
    <3>4. \A k \in 0 .. 3 * Pic.w * 0 - 1 : FALSE
      BY <3>3
    <3> QED
      BY <1>5, <1>00, <2>2, <3>1, <3>2, <3>3, <3>4 DEF Header, Contents, AllFit, Bytes
  <2> QED
    BY <1>5, <2>1, <2>2 DEF Header
<1>6. CASE Row
  BY <1>6, RowContents
<1>7. CASE Finish
  <2>1. UNCHANGED <<call, n, buf24, scale_buf, buf32>> /\ pc = "rows" /\ pc' = "scale"
    BY <1>7 DEF Finish, bufs
  <2>2. AllFit => \A k \in Bytes(Pic) : buf24[n][k] = Got(Pic, k)
    <3>1. AllFit => row = Pic.h
      BY <1>0, <1>7, ShortAssumption DEF Finish, RowsLeft, Contents, Sizes, PictureType
    <3> QED
      BY <2>1, <3>1 DEF Contents, Bytes
  <2>3. /\ ToW' = ToW /\ ToH' = ToH
        /\ \A p, k : Scaled24(p, k)' = Scaled24(p, k) /\ Pixel(p, k)' = Pixel(p, k)
    BY <2>1, SameSource
  <2> QED
    BY <2>1, <2>2, <2>3 DEF Contents, AllFit, Pic, Bytes
<1>8. CASE Scale
  <2>1. CASE UNCHANGED bufs /\ pc' = "convert"
    BY <1>8, <2>1, Kept DEF Scale
  <2>2. CASE /\ buf24[n] # NULL /\ UNCHANGED <<buf24, buf32>>
             /\ pc' = "convert" /\ scale_buf' = [scale_buf EXCEPT ![n] =
                  [k \in 0 .. 3 * ToW * ToH - 1 |->
                    IF SourceByte(Pic, k) \in DOMAIN buf24[n]
                      THEN buf24[n][SourceByte(Pic, k)] ELSE Junk]]
    <3>1. SUFFICES ASSUME AllFit PROVE Contents'
      BY <1>8 DEF Scale, Contents, AllFit
    <3>2. pc = "scale" /\ UNCHANGED <<call, n>>
      BY <1>8 DEF Scale
    <3>3. DOMAIN buf24[n] = Bytes(Pic) /\ \A k \in Bytes(Pic) : buf24[n][k] = Got(Pic, k)
      BY <1>0, <2>2, <3>1, <3>2 DEF Sizes, Contents, Pic
    <3>4. \A k \in 0 .. 3 * ToW * ToH - 1 : SourceByte(Pic, k) \in Bytes(Pic)
      BY <1>0, SourceInside DEF Shape, Bytes
    <3>5. \A k \in 0 .. 3 * ToW * ToH - 1 : scale_buf'[n][k] = Scaled24(Pic, k)
      <4>1. scale_buf'[n] = [k \in 0 .. 3 * ToW * ToH - 1 |->
                               IF SourceByte(Pic, k) \in DOMAIN buf24[n]
                                 THEN buf24[n][SourceByte(Pic, k)] ELSE Junk]
        BY <1>0, <2>2 DEF Shape
      <4> QED
        BY <3>3, <3>4, <4>1 DEF Scaled24
    <3>6. \A m \in 1 .. 2 : m # n => scale_buf'[m] = scale_buf[m]
      BY <1>0, <2>2 DEF Shape
    <3>7. /\ ToW' = ToW /\ ToH' = ToH
          /\ \A p, k : Scaled24(p, k)' = Scaled24(p, k) /\ Pixel(p, k)' = Pixel(p, k)
      BY <3>2, SameSource
    <3>8. \A m \in 1 .. Len(call.pics) :
            scale_buf'[m] # NULL
              => \A k \in 0 .. 3 * ToW * ToH - 1 :
                   scale_buf'[m][k] = Scaled24(call.pics[m], k)
      BY <1>00, <3>1, <3>2, <3>5, <3>6 DEF Contents, Pic
    <3>9. \A m \in 1 .. Len(call.pics) :
            /\ buf24[m] # NULL => \A k \in Bytes(call.pics[m]) : buf24[m][k] = Got(call.pics[m], k)
            /\ buf32[m] # NULL => \A k \in 0 .. ToW * ToH - 1 :
                                    buf32[m][k] = Pixel(call.pics[m], k)
      BY <3>1, <3>2 DEF Contents
    <3> QED
      BY <2>2, <3>2, <3>7, <3>8, <3>9 DEF Contents
  <2> QED
    BY <1>3, <1>8, <2>1, <2>2 DEF Scale, Crash, bufs
<1>9. CASE Convert
  <2>1. CASE UNCHANGED bufs /\ pc' \in {"open", "paint"}
    BY <1>9, <2>1, Kept DEF Convert
  <2>2. CASE /\ scale_buf[n] # NULL /\ UNCHANGED <<buf24, scale_buf>>
             /\ pc' \in {"open", "paint"} /\ buf32' = [buf32 EXCEPT ![n] =
                    [k \in 0 .. ToW * ToH - 1 |->
                      [b \in 0 .. 2 |-> scale_buf[n][3 * k + 2 - b]]]]
    <3>1. SUFFICES ASSUME AllFit PROVE Contents'
      BY <1>9 DEF Convert, Contents, AllFit
    <3>2. pc = "convert" /\ UNCHANGED call
      BY <1>9 DEF Convert
    <3>3. \A k \in 0 .. 3 * ToW * ToH - 1 : scale_buf[n][k] = Scaled24(Pic, k)
      BY <1>0, <2>2, <3>1, <3>2 DEF Contents, Pic
    <3>4. \A k \in 0 .. ToW * ToH - 1 : \A b \in 0 .. 2 : 3 * k + 2 - b \in 0 .. 3 * ToW * ToH - 1
      <4>1. ToW \in Nat \ {0} /\ ToH \in Nat \ {0}
        BY <1>0, Target DEF Shape
      <4>2. ToW * ToH \in Nat /\ 3 * ToW * ToH = 3 * (ToW * ToH)
        BY <4>1
      <4> QED
        BY <4>2
    <3>5. \A k \in 0 .. ToW * ToH - 1 : buf32'[n][k] = Pixel(Pic, k)
      <4> DEFINE pixels == [k \in 0 .. ToW * ToH - 1 |->
                             [b \in 0 .. 2 |-> scale_buf[n][3 * k + 2 - b]]]
      <4>1. buf32'[n] = pixels
        <5>1. buf32' = [buf32 EXCEPT ![n] = pixels]
          BY <2>2
        <5> HIDE DEF pixels
        <5> QED
          BY <1>0, <5>1 DEF Shape
      <4> QED
        BY <3>3, <3>4, <4>1 DEF Pixel
    <3>6. \A m \in 1 .. 2 : m # n => buf32'[m] = buf32[m]
      BY <1>0, <2>2 DEF Shape
    <3>7. /\ ToW' = ToW /\ ToH' = ToH
          /\ \A p, k : Scaled24(p, k)' = Scaled24(p, k) /\ Pixel(p, k)' = Pixel(p, k)
      BY <3>2, SameSource
    <3>8. \A m \in 1 .. Len(call.pics) :
            buf32'[m] # NULL
              => \A k \in 0 .. ToW * ToH - 1 : buf32'[m][k] = Pixel(call.pics[m], k)
      BY <1>00, <3>1, <3>2, <3>5, <3>6 DEF Contents, Pic
    <3>9. \A m \in 1 .. Len(call.pics) :
            /\ buf24[m] # NULL => \A k \in Bytes(call.pics[m]) : buf24[m][k] = Got(call.pics[m], k)
            /\ scale_buf[m] # NULL => \A k \in 0 .. 3 * ToW * ToH - 1 :
                                    scale_buf[m][k] = Scaled24(call.pics[m], k)
      BY <3>1, <3>2 DEF Contents
    <3> QED
      BY <2>2, <3>2, <3>7, <3>8, <3>9 DEF Contents
  <2> QED
    BY <1>3, <1>9, <2>1, <2>2 DEF Convert, Crash, bufs
<1>10. CASE Paint
  BY <1>3, <1>10, Kept DEF Paint, Crash, bufs
<1>11. CASE Free
  <2>1. \A m \in 1 .. 2 : buf24'[m] = NULL /\ scale_buf'[m] = NULL /\ buf32'[m] = NULL
    BY <1>11 DEF Free, Nulls
  <2>2. Len(call'.pics) \in {1, 2} /\ pc' # "rows"
    BY <1>0, <1>11 DEF Free
  <2> QED
    BY <2>1, <2>2, Emptied
<1>12. CASE LibjpegExit \/ Corrupted
  BY <1>3, <1>12 DEF LibjpegExit, Corrupted, Crash
<1>13. CASE Over \/ UNCHANGED vars
  BY <1>1, <1>13 DEF Over, vars
<1> QED
  BY <1>2, <1>4, <1>5, <1>6, <1>7, <1>8, <1>9, <1>10, <1>11, <1>12, <1>13 DEF Next
-----------------------------------------------------------------------------

LEMMA Quotient ==
  ASSUME NEW d \in Nat \ {0}, NEW q \in Nat, NEW r \in 0 .. d - 1
  PROVE  (q * d + r) \div d = q /\ (q * d + r) % d = r
<1> DEFINE a == q * d + r
           u == a \div d
           v == a % d
<1>1. a \in Nat /\ a = d * q + r
  OBVIOUS
<1>2. u \in Nat /\ v \in 0 .. d - 1 /\ a = d * u + v
  <2> HIDE DEF a
  <2> QED
    BY <1>1, Division
<1> HIDE DEF a, u, v
<1>3. ~(u > q)
  <2> SUFFICES ASSUME u >= q + 1 PROVE FALSE
    BY <1>2
  <2>1. d * u >= d * (q + 1) /\ d * (q + 1) = d * q + d
    BY <1>2
  <2> QED
    BY <1>1, <1>2, <2>1
<1>4. ~(q > u)
  <2> SUFFICES ASSUME q >= u + 1 PROVE FALSE
    BY <1>2
  <2>1. d * q >= d * (u + 1) /\ d * (u + 1) = d * u + d
    BY <1>2
  <2> QED
    BY <1>1, <1>2, <2>1
<1>5. u = q /\ v = r
  BY <1>1, <1>2, <1>3, <1>4
<1> QED
  BY <1>5 DEF u, v, a

\* A row or column that scale24 picks covers the one it is picked for.
LEMMA Covers ==
  ASSUME NEW size \in Nat \ {0}, NEW from \in Nat \ {0}, NEW i \in 0 .. size - 1
  PROVE  /\ From(i, size, from) * size <= i * from
         /\ i * from < (From(i, size, from) + 1) * size
<1> DEFINE a == i * from
           q == a \div size
           r == a % size
<1>1. a \in Nat
  OBVIOUS
<1>2. q \in Nat /\ r \in 0 .. size - 1 /\ a = size * q + r
  BY <1>1, Division
<1> HIDE DEF a, q, r
<1>3. q * size <= a /\ a < (q + 1) * size
  <2>1. q * size = size * q /\ (q + 1) * size = size * q + size /\ size * q \in Int
    BY <1>2
  <2> QED
    BY <1>1, <1>2, <2>1
<1> QED
  BY <1>3 DEF From, a, q

\* The column and the row of the scaled picture that cell k shows.
Column(k) == IF call.function = "decr" THEN (k % W) - call.x ELSE k % W
Line(k)   == IF call.function = "decr" THEN (k \div W) - call.y ELSE k \div W

\* A cell of the frame is painted, with the pixel of its column and row.
LEMMA InFrame ==
  ASSUME call \in Calls, DOMAIN screen = 0 .. W * H - 1, NEW k \in Frame
  PROVE  /\ k \in DOMAIN screen /\ k \in Painted
         /\ Column(k) \in 0 .. ToW - 1 /\ Line(k) \in 0 .. ToH - 1
         /\ PixelAt(k) = Line(k) * ToW + Column(k)
<1>1. W \in Nat \ {0} /\ H \in Nat \ {0} /\ W * H \in Nat
  BY DisplayAssumption
<1>2. CASE call.function # "decr"
  <2>1. k \in 0 .. W * H - 1 /\ PixelAt(k) = k /\ k \in Painted
    <3>1. call.function = "move" => k \in W .. W * H - 1
      BY <1>2 DEF Frame
    <3>2. call.function # "move" => k \in 0 .. W * H - 1
      BY <1>2 DEF Frame
    <3> QED
      BY <1>1, <1>2, <3>1, <3>2 DEF Painted, PixelAt
  <2>2. k \in Nat /\ k < W * H
    BY <1>1, <2>1
  <2> DEFINE x == k % W
             y == k \div W
  <2>3. x \in 0 .. W - 1 /\ y \in Nat /\ k = W * y + x
    BY <1>1, <2>2, Division
  <2>4. y < H /\ y * W = W * y
    <3> HIDE DEF x, y
    <3>1. ~(y >= H)
      <4> SUFFICES ASSUME y >= H PROVE FALSE
        OBVIOUS
      <4>1. W * y >= W * H
        BY <1>1, <2>3
      <4> QED
        BY <1>1, <2>2, <2>3, <4>1
    <3> QED
      BY <1>1, <2>3, <3>1
  <2>5. x \in 0 .. W - 1 /\ y \in 0 .. H - 1 /\ k = y * W + x
    <3> HIDE DEF x, y
    <3> QED
      BY <1>1, <2>3, <2>4
  <2> QED
    BY <1>2, <2>1, <2>5 DEF Column, Line, ToW, ToH
<1>3. CASE call.function = "decr"
  <2>1. Placed(call)
    BY <1>3, CallsAssumption
  <2>2. PICK i \in 0 .. call.high - 1, j \in 0 .. call.len - 1 :
          k = (call.y + i) * W + call.x + j
    BY <1>3 DEF Frame
  <2> DEFINE x == call.x + j
             y == call.y + i
  <2>3. /\ x \in 0 .. W - 1 /\ y \in 0 .. H - 1
        /\ i \in 0 .. call.high /\ j \in 0 .. call.len
        /\ x - call.x = j /\ y - call.y = i /\ i \in Nat /\ j \in Nat
        /\ call.len \in Nat /\ x \in Nat /\ y \in Nat
    <3> DEFINE cx == call.x
               cy == call.y
               l == call.len
               g == call.high
    <3>1. cx \in Nat /\ cy \in Nat /\ l \in Nat /\ g \in Nat /\ cx + l < W /\ cy + g < H
      BY <2>1 DEF Placed
    <3>2. i \in 0 .. g - 1 /\ j \in 0 .. l - 1
      BY <2>2
    <3> HIDE DEF cx, cy, l, g
    <3>3. /\ cx + j \in 0 .. W - 1 /\ cy + i \in 0 .. H - 1 /\ i \in 0 .. g /\ j \in 0 .. l
          /\ cx + j - cx = j /\ cy + i - cy = i /\ i \in Nat /\ j \in Nat
          /\ cx + j \in Nat /\ cy + i \in Nat
      BY <1>1, <3>1, <3>2
    <3>4. /\ x = cx + j /\ y = cy + i
          /\ call.x = cx /\ call.y = cy /\ call.len = l /\ call.high = g
      BY DEF cx, cy, l, g
    <3> HIDE DEF x, y
    <3> QED
      BY <3>1, <3>3, <3>4
  <2>33. k = y * W + x
    <3>1. k = y * W + call.x + j
      BY <2>2
    <3>2. y * W \in Int /\ call.x \in Int /\ j \in Int
      <4> HIDE DEF x, y
      <4> QED
        BY <1>1, <2>1, <2>3 DEF Placed
    <3> QED
      BY <3>1, <3>2
  <2>4. k % W = x /\ k \div W = y
    <3> HIDE DEF x, y
    <3> QED
      BY <1>1, <2>3, <2>33, Quotient
  <2>5. k \in 0 .. W * H - 1
    <3> HIDE DEF x, y
    <3>1. y * W <= (H - 1) * W /\ (H - 1) * W = W * H - W /\ y * W \in Nat
      BY <1>1, <2>3
    <3> QED
      BY <1>1, <2>3, <2>33, <3>1
  <2>6. k \in Painted
    BY <1>3, <2>2, <2>3 DEF Painted
  <2>7. Column(k) = j /\ Line(k) = i
    BY <1>3, <2>3, <2>4 DEF Column, Line
  <2>8. PixelAt(k) = i * call.len + j
    <3>1. PixelAt(k) = (y - call.y) * call.len + x - call.x
      <4>1. PixelAt(k) = (k \div W - call.y) * call.len + (k % W) - call.x
        <5>1. call.function # "move"
          BY <1>3
        <5> QED
          BY <1>3, <5>1, Zenon DEF PixelAt
      <4> QED
        BY <2>4, <4>1
    <3>2. i * call.len \in Int /\ call.x \in Int
      BY <2>1, <2>3 DEF Placed
    <3> QED
      BY <2>3, <3>1, <3>2
  <2> QED
    BY <1>3, <2>2, <2>5, <2>6, <2>7, <2>8 DEF ToW, ToH
<1> QED
  BY <1>2, <1>3

\* The pixel of a scaled picture is that of the picture which lies there.
LEMMA Scaled ==
  ASSUME call \in Calls, NEW p \in PictureType, p.components = 3,
         NEW x \in 0 .. ToW - 1, NEW y \in 0 .. ToH - 1
  PROVE  \E s \in 0 .. p.w * p.h - 1 :
           /\ (s % p.w) * ToW <= x * p.w /\ x * p.w < ((s % p.w) + 1) * ToW
           /\ (s \div p.w) * ToH <= y * p.h /\ y * p.h < ((s \div p.w) + 1) * ToH
           /\ y * ToW + x \in 0 .. ToW * ToH - 1
           /\ Pixel(p, y * ToW + x) = Colour(p, s)
<1> DEFINE q == y * ToW + x
           fx == From(x, ToW, p.w)
           fy == From(y, ToH, p.h)
           s == fy * p.w + fx
<1>1. /\ ToW \in Nat \ {0} /\ ToH \in Nat \ {0}
      /\ p.w \in Nat \ {0} /\ p.h \in Nat \ {0}
  BY Target, ShortAssumption DEF PictureType
<1>2. fx \in 0 .. p.w - 1 /\ fy \in 0 .. p.h - 1
  BY <1>1, FromInside
<1>3. /\ fx * ToW <= x * p.w /\ x * p.w < (fx + 1) * ToW
      /\ fy * ToH <= y * p.h /\ y * p.h < (fy + 1) * ToH
  BY <1>1, Covers
<1>4. s % p.w = fx /\ s \div p.w = fy
  <2> DEFINE w == p.w
  <2>1. w \in Nat \ {0} /\ fx \in 0 .. w - 1 /\ fy \in Nat
    <3> HIDE DEF fx, fy
    <3> QED
      BY <1>1, <1>2
  <2>2. (fy * w + fx) % w = fx /\ (fy * w + fx) \div w = fy
    <3> HIDE DEF w, fx, fy
    <3> QED
      BY <2>1, Quotient
  <2> QED
    BY <2>2
<1>5. s \in 0 .. p.w * p.h - 1
  <2> HIDE DEF fx, fy
  <2>1. fy * p.w <= (p.h - 1) * p.w /\ (p.h - 1) * p.w = p.w * p.h - p.w /\ fy * p.w \in Nat
    BY <1>1, <1>2
  <2> QED
    BY <1>1, <1>2, <2>1
<1>6. q % ToW = x /\ q \div ToW = y
  BY <1>1, Quotient
<1>7. q \in 0 .. ToW * ToH - 1
  <2>1. y * ToW <= (ToH - 1) * ToW /\ (ToH - 1) * ToW = ToW * ToH - ToW /\ y * ToW \in Nat
    BY <1>1
  <2>2. ToW * ToH \in Nat
    BY <1>1
  <2> QED
    BY <1>1, <2>1, <2>2
<1>8. \A b \in 0 .. 2 : SourceByte(p, 3 * q + 2 - b) = 3 * s + 2 - b
  <2> SUFFICES ASSUME NEW b \in 0 .. 2
               PROVE  SourceByte(p, 3 * q + 2 - b) = 3 * s + 2 - b
    OBVIOUS
  <2>1. (3 * q + 2 - b) \div 3 = q /\ (3 * q + 2 - b) % 3 = 2 - b
    <3> HIDE DEF q
    <3> QED
      BY <1>1, <1>7
  <2>2. SourceByte(p, 3 * q + 2 - b) = (fx + fy * p.w) * 3 + (2 - b)
    <3> HIDE DEF q
    <3> QED
      BY <1>6, <2>1 DEF SourceByte
  <2>3. (fx + fy * p.w) * 3 + (2 - b) = 3 * s + 2 - b
    <3> HIDE DEF fx, fy
    <3>1. fy * p.w \in Nat
      BY <1>1, <1>2
    <3> QED
      BY <1>2, <3>1
  <2> QED
    BY <2>2, <2>3
<1>9. Pixel(p, q) = Colour(p, s)
  <2>1. s \in Nat
    BY <1>1, <1>5
  <2> HIDE DEF q, s
  <2>2. \A b \in 0 .. 2 : (3 * s + 2 - b) \div 3 = s
    BY <2>1
  <2>3. \A b \in 0 .. 2 : Scaled24(p, 3 * q + 2 - b) = Sample(p, s, 3 * s + 2 - b)
    BY <1>8, <2>2 DEF Scaled24, Got
  <2> QED
    BY <2>3 DEF Pixel, Colour
<1>10. /\ (s % p.w) * ToW <= x * p.w /\ x * p.w < ((s % p.w) + 1) * ToW
       /\ (s \div p.w) * ToH <= y * p.h /\ y * p.h < ((s \div p.w) + 1) * ToH
  <2> HIDE DEF s, fx, fy
  <2> QED
    BY <1>3, <1>4
<1> QED
  BY <1>5, <1>7, <1>9, <1>10

\* Painting shows the picture asked for.
LEMMA PaintShows ==
  ASSUME HeldInv, Sizes, Contents, Paint, screen' # screen, AllFit, NEW k \in Frame
  PROVE  Displayed(k)
<1>0. /\ Shape /\ Len(call.pics) \in {1, 2} /\ call \in Calls
      /\ Len(call.pics) = IF call.function = "transparent" THEN 2 ELSE 1
      /\ \A m \in 1 .. Len(call.pics) : call.pics[m] \in PictureType
  BY Pictured, CallsAssumption DEF HeldInv, Shape
<1>1. /\ \A m \in 1 .. Len(call.pics) : buf32[m] # NULL
      /\ screen' = [c \in DOMAIN screen |-> IF c \in Painted THEN Shown(c) ELSE screen[c]]
      /\ pc = "paint"
  BY DEF Paint
<1>2. /\ k \in DOMAIN screen /\ k \in Painted
      /\ Column(k) \in 0 .. ToW - 1 /\ Line(k) \in 0 .. ToH - 1
      /\ PixelAt(k) = Line(k) * ToW + Column(k)
  BY <1>0, InFrame DEF Sizes
<1>3. screen'[k] = Shown(k)
  BY <1>1, <1>2
<1>4. \A m \in 1 .. Len(call.pics) :
        m \in DOMAIN Shown(k) /\ Shown(k)[m] = At(buf32[m], PixelAt(k))
  <2>1. CASE call.function = "transparent"
    <3>1. PixelAt(k) = k
      BY <2>1 DEF PixelAt
    <3> QED
      BY <1>0, <2>1, <3>1 DEF Shown
  <2>2. CASE call.function # "transparent"
    BY <1>0, <2>2 DEF Shown
  <2> QED
    BY <2>1, <2>2
<1> SUFFICES ASSUME NEW m \in 1 .. Len(call.pics)
             PROVE  /\ m \in DOMAIN screen'[k]
                    /\ LET p == call.pics[m]
                       IN  \E s \in 0 .. p.w * p.h - 1 :
                             Under(p, s, k) /\ screen'[k][m] = Colour(p, s)
  BY DEF Displayed
<1> DEFINE p == call.pics[m]
           q == Line(k) * ToW + Column(k)
<1>5. p \in PictureType /\ p.components = 3
  BY <1>0 DEF AllFit, Fits
<1>6. PICK s \in 0 .. p.w * p.h - 1 :
        /\ (s % p.w) * ToW <= Column(k) * p.w /\ Column(k) * p.w < ((s % p.w) + 1) * ToW
        /\ (s \div p.w) * ToH <= Line(k) * p.h /\ Line(k) * p.h < ((s \div p.w) + 1) * ToH
        /\ q \in 0 .. ToW * ToH - 1
        /\ Pixel(p, q) = Colour(p, s)
  <2> HIDE DEF p
  <2> QED
    BY <1>0, <1>2, <1>5, Scaled
<1>7. Under(p, s, k)
  BY <1>6 DEF Under, Column, Line
<1>8. At(buf32[m], q) = Pixel(p, q)
  <2>1. DOMAIN buf32[m] = 0 .. ToW * ToH - 1
    BY <1>1 DEF Sizes
  <2>2. \A c \in 0 .. ToW * ToH - 1 : buf32[m][c] = Pixel(p, c)
    BY <1>1 DEF Contents
  <2> HIDE DEF p, q
  <2> QED
    BY <1>6, <2>1, <2>2 DEF At
<1>9. m \in DOMAIN screen'[k] /\ screen'[k][m] = Colour(p, s)
  BY <1>2, <1>3, <1>4, <1>6, <1>8
<1> QED
  BY <1>7, <1>9

\* What is painted is the picture asked for, every cell of it, in its place, with
\* made up pixels exactly where the file has lost them: for colour pictures that
\* an int can count, whatever they have lost, and for a display and a short of any
\* size (disp-jpeg.c:386-678, jpeg.c:82, 126-170).
THEOREM PicturesShown == Spec => ShowsPicture
<1>1. HeldInv /\ Sizes /\ Contents /\ [Next]_vars
        => [AllFit /\ screen' # screen => \A k \in Frame : Displayed(k)]_screen
  <2> SUFFICES ASSUME HeldInv, Sizes, Contents, [Next]_vars, screen' # screen, AllFit
               PROVE  \A k \in Frame : Displayed(k)
    OBVIOUS
  <2>1. Paint
    BY DEF Next, Call, Open, LibjpegExit, Header, Row, Finish, Scale, Convert, Free,
           Corrupted, Crash, Over, vars
  <2> QED
    BY <2>1, PaintShows
<1> QED
  BY HeldInit, HeldStep, SizesInit, SizesStep, ContentsInit, ContentsStep, <1>1, PTL
     DEF Spec, ShowsPicture

-----------------------------------------------------------------------------
(* What decr paints beside its frame                                       *)

\* A cell that is painted and not in the frame lies in the column after the
\* thumbnail or in the row under it.
LEMMA BesideFrame ==
  ASSUME call \in Calls, call.function = "decr", NEW k \in Painted, k \notin Frame
  PROVE  \/ k % W = call.x + call.len /\ k \div W \in call.y .. call.y + call.high
         \/ k \div W = call.y + call.high /\ k % W \in call.x .. call.x + call.len
<1> DEFINE cx == call.x
           cy == call.y
           l == call.len
           g == call.high
<1>1. /\ cx \in Nat /\ cy \in Nat /\ l \in Nat /\ g \in Nat
      /\ cx + l < W /\ cy + g < H /\ W \in Nat \ {0}
  BY CallsAssumption, DisplayAssumption DEF Placed
<1>2. PICK i \in 0 .. g, j \in 0 .. l : k = (cy + i) * W + cx + j
  BY DEF Painted
<1>3. ~(i \in 0 .. g - 1 /\ j \in 0 .. l - 1)
  BY <1>2 DEF Frame
<1> HIDE DEF cx, cy, l, g
<1>4. i = g \/ j = l
  BY <1>1, <1>2, <1>3
<1>5. k % W = cx + j /\ k \div W = cy + i
  <2> DEFINE x == cx + j
             y == cy + i
  <2>1. x \in 0 .. W - 1 /\ y \in Nat /\ y * W \in Int
    BY <1>1, <1>2
  <2>2. k = y * W + x
    <3> HIDE DEF y
    <3> QED
      BY <1>1, <1>2, <2>1 DEF y
  <2> HIDE DEF x, y
  <2>3. k % W = x /\ k \div W = y
    BY <1>1, <2>1, <2>2, Quotient
  <2> QED
    BY <2>3 DEF x, y
<1>6. \/ k % W = cx + l /\ k \div W \in cy .. cy + g
      \/ k \div W = cy + g /\ k % W \in cx .. cx + l
  BY <1>1, <1>2, <1>4, <1>5
<1> QED
  BY <1>6 DEF cx, cy, l, g

\* A thumbnail, of any size and in any place where it fits, is painted over no
\* cell outside its frame but the next column and the next row
\* (disp-jpeg.c:630-637).
THEOREM SpillsColumnAndRow == Spec => SpillsByOne
<1> DEFINE Spilt ==
      call.function = "decr" =>
        \A k \in DOMAIN screen \ Frame :
          screen'[k] # screen[k] =>
            \/ k % W = call.x + call.len /\ k \div W \in call.y .. call.y + call.high
            \/ k \div W = call.y + call.high /\ k % W \in call.x .. call.x + call.len
<1>1. HeldInv /\ [Next]_vars => [Spilt]_screen
  <2> SUFFICES ASSUME HeldInv, [Next]_vars, screen' # screen, call.function = "decr",
                      NEW k \in DOMAIN screen \ Frame, screen'[k] # screen[k]
               PROVE  \/ k % W = call.x + call.len /\ k \div W \in call.y .. call.y + call.high
                      \/ k \div W = call.y + call.high /\ k % W \in call.x .. call.x + call.len
    OBVIOUS
  <2>1. Paint
    BY DEF Next, Call, Open, LibjpegExit, Header, Row, Finish, Scale, Convert, Free,
           Corrupted, Crash, Over, vars
  <2>2. k \in Painted
    BY <2>1 DEF Paint
  <2> QED
    BY <2>2, BesideFrame DEF HeldInv, Shape
<1> QED
  BY HeldInit, HeldStep, <1>1, PTL DEF Spec, SpillsByOne
=============================================================================
