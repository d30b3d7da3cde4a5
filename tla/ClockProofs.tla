----------------------------- MODULE ClockProofs -----------------------------
(***************************************************************************)
(* Theorems about Clock, for a panel of any width, pixels of any number of *)
(* bytes, any frame, any digits and any pictures.                          *)
(***************************************************************************)
EXTENDS Clock, TLAPS, WellFoundedInduction

Colours == Background \cup {Now, Earlier}

Copies == [0 .. Bytes - 1 -> Colours]        \* what save_cursor may hold

\* i is at the first byte between two loops.
LoopsWhole == pc \notin {"save", "load"} => i = 0

\* Before the first time is written there is no text to be saved, on the screen
\* or under the cursor.
Unwritten == pc \in {"begin", "rect", "save"} =>
               /\ screen \in [Memory -> Background]
               /\ save_cursor \in [0 .. Bytes - 1 -> Background]

\* Text is written on the panel, and the cursor gives it back there only.
TextInside ==
  /\ \A b \in Memory : b >= Len * Bytes => screen[b] \in Background
  /\ cursor = Len => save_cursor \in [0 .. Bytes - 1 -> Background]

IInv == TypeOK /\ LoopsWhole /\ Unwritten /\ TextInside

\* The step of SpillsOneByte.
Spill == \A b \in Memory :
           b >= Len * Bytes /\ screen'[b] # screen[b]
             => b = Len * Bytes /\ screen'[b] = save_buf[b]

-----------------------------------------------------------------------------
(* The operators                                                           *)

\* The least of a set of pixels is one of them.
LEMMA MinIn ==
  ASSUME NEW S \in SUBSET Nat, S # {}
  PROVE  Min(S) \in S
<1>1. PICK m \in S : \A k \in S : <<k, m>> \notin OpToRel(<, Nat)
  BY WFMin, NatLessThanWellFounded, Zenon
<1>2. m \in Nat /\ \A k \in S : k \in Nat
  OBVIOUS
<1>3. \A k \in S : ~(k < m)
  BY <1>1, <1>2, Zenon DEF OpToRel
<1>4. \A k \in S : m <= k
  BY <1>2, <1>3
<1> QED
  BY <1>1, <1>4 DEF Min

\* The panel's bytes, the next one included, lie in the memory.
LEMMA Sizes == /\ Len * Bytes \in Nat /\ (Len + 1) * Bytes = Len * Bytes + Bytes
               /\ Span \subseteq Memory /\ Len * Bytes \in Memory
               /\ Len \in Nat /\ Bytes \in Nat \ {0}
BY SizeAssumption DEF Span, Memory

\* Where the bytes of a pixel lie.
LEMMA PixelBytes ==
  ASSUME NEW p \in Pixels
  PROVE  /\ p * Bytes \in Nat /\ Of(p) = p * Bytes .. p * Bytes + Bytes - 1
         /\ Of(p) \subseteq Memory
         /\ p < Len => p * Bytes + Bytes <= Len * Bytes
<1>1. p \in Nat /\ p <= Len
  BY Sizes DEF Pixels
<1>2. p * Bytes \in Nat /\ (p + 1) * Bytes = p * Bytes + Bytes
  BY <1>1, Sizes
<1>3. p < Len => p * Bytes + Bytes <= Len * Bytes
  <2>1. p < Len => (p + 1) * Bytes <= Len * Bytes
    BY <1>1, Sizes
  <2> QED
    BY <1>2, <2>1
<1>4. p * Bytes + Bytes <= (Len + 1) * Bytes
  BY <1>1, <1>2, <1>3, Sizes
<1> QED
  BY <1>2, <1>3, <1>4, Sizes DEF Of, Memory

\* A painted pixel changes its own bytes only.
LEMMA PaintIs ==
  ASSUME NEW p, NEW c, NEW C, screen \in [Memory -> C], c \in C
  PROVE  /\ Paint(p, c) \in [Memory -> C]
         /\ \A b \in Memory : Paint(p, c)[b] = IF b \in Of(p) THEN c ELSE screen[b]
BY DEF Paint

\* Text is not a background, and grows old without becoming one.
LEMMA ColourFacts ==
  /\ Now \notin Background /\ Earlier \notin Background
  /\ Frame \in Background /\ Arrow \in Background
  /\ Picture(0) \in Background
  /\ \A v \in Pictures : Picture(v) \in Background
BY DEF Background, Picture, Frame, Arrow, Now, Earlier

LEMMA OlderIs ==
  ASSUME NEW S, NEW memory \in [S -> Colours]
  PROVE  /\ Older(memory) \in [S -> Colours]
         /\ \A b \in S : memory[b] \in Background => Older(memory)[b] = memory[b]
BY ColourFacts DEF Older, Colours

-----------------------------------------------------------------------------
(* The steps                                                               *)

LEMMA SafeInit == Init => IInv
<1> SUFFICES ASSUME Init PROVE IInv
  OBVIOUS
<1> USE DEF Init
<1>1. /\ save_buf \in [Span -> Background] /\ screen \in [Memory -> Background]
      /\ save_cursor \in [0 .. Bytes - 1 -> Background]
  BY ColourFacts DEF Nothing
<1>2. i \in Span /\ todo \subseteq 0 .. Len - 1 /\ face \in Faces /\ font \in BOOLEAN
  <2>1. 0 \in Span
    BY Sizes DEF Span
  <2> QED
    BY <2>1
<1>3. TypeOK
  BY <1>1, <1>2 DEF TypeOK
<1>4. cursor # Len
  BY Sizes DEF None
<1> QED
  BY <1>1, <1>3, <1>4, Sizes DEF IInv, Memory, LoopsWhole, Unwritten, TextInside

\* A painted pixel on the panel is text or background; elsewhere, background.
LEMMA PaintSafe ==
  ASSUME IInv, NEW p \in Pixels, NEW c \in Colours, c \in Background \/ p < Len
  PROVE  /\ Paint(p, c) \in [Memory -> Colours]
         /\ \A b \in Memory : b >= Len * Bytes => Paint(p, c)[b] \in Background
         /\ p < Len => \A b \in Memory : b >= Len * Bytes => Paint(p, c)[b] = screen[b]
         /\ screen \in [Memory -> Background] /\ c \in Background
              => Paint(p, c) \in [Memory -> Background]
<1>1. screen \in [Memory -> Colours]
  BY DEF IInv, TypeOK, Colours
<1>2. /\ Paint(p, c) \in [Memory -> Colours]
      /\ \A b \in Memory : Paint(p, c)[b] = IF b \in Of(p) THEN c ELSE screen[b]
  BY <1>1, PaintIs
<1>3. p < Len => \A b \in Memory : b >= Len * Bytes => b \notin Of(p)
  BY PixelBytes, Sizes DEF Memory
<1>4. screen \in [Memory -> Background] /\ c \in Background
        => Paint(p, c) \in [Memory -> Background]
  BY PaintIs
<1> QED
  BY <1>2, <1>3, <1>4 DEF IInv, TextInside

\* The pixel drawn next lies on the panel.
LEMMA DrawnInside == ASSUME TypeOK, todo # {} PROVE Min(todo) \in Pixels /\ Min(todo) < Len
<1>1. todo \in SUBSET Nat /\ todo \subseteq 0 .. Len - 1
  BY Sizes DEF TypeOK
<1>2. Min(todo) \in 0 .. Len - 1
  BY <1>1, MinIn, Zenon
<1> QED
  BY <1>2, Sizes DEF Pixels

\* fb_draw_rect, and display_string
LEMMA DrawSafe == IInv /\ (RectPixel \/ TextPixel) => IInv' /\ Spill
<1> SUFFICES ASSUME IInv, RectPixel \/ TextPixel PROVE IInv' /\ Spill
  OBVIOUS
<1>1. TypeOK /\ Min(todo) \in Pixels /\ Min(todo) < Len
  BY DrawnInside DEF IInv, RectPixel, TextPixel
<1>2. Frame \in Colours /\ Frame \in Background /\ Now \in Colours
  BY ColourFacts DEF Colours
<1>3. /\ screen' \in [Memory -> Colours]
      /\ \A b \in Memory : b >= Len * Bytes => screen'[b] = screen[b]
      /\ pc = "text" \/ (screen \in [Memory -> Background]
                            => screen' \in [Memory -> Background])
  <2>1. CASE RectPixel
    BY <1>1, <1>2, <2>1, PaintSafe DEF RectPixel
  <2>2. CASE TextPixel
    BY <1>1, <1>2, <2>2, PaintSafe DEF TextPixel
  <2> QED
    BY <2>1, <2>2
<1>4. UNCHANGED <<pc, i, face, font, save_buf, cursor, save_cursor>> /\ todo' \subseteq todo
  BY DEF RectPixel, TextPixel, mouseVars
<1>5. TypeOK'
  BY <1>1, <1>3, <1>4 DEF TypeOK, Colours
<1>6. Unwritten' /\ TextInside' /\ LoopsWhole'
  BY <1>3, <1>4 DEF IInv, Unwritten, TextInside, LoopsWhole
<1> QED
  BY <1>3, <1>5, <1>6 DEF IInv, Spill

\* save_frame: what is copied is a background, byte by byte.
LEMMA SaveSafe == IInv /\ SaveByte => IInv' /\ Spill
<1> SUFFICES ASSUME IInv, SaveByte PROVE IInv' /\ Spill
  OBVIOUS
<1>1. /\ i \in Span /\ screen \in [Memory -> Background] /\ pc = "save"
      /\ save_buf \in [Span -> Background] /\ TypeOK
  BY DEF IInv, Unwritten, SaveByte, TypeOK
<1>2. save_buf' \in [Span -> Background]
  BY <1>1, Sizes DEF SaveByte
<1>3. i' \in Span /\ pc' \in {"save", "format"} /\ (pc' # "save" => i' = 0)
  BY <1>1, Sizes DEF SaveByte, NextByte, Span
<1>4. UNCHANGED <<todo, face, font, screen, cursor, save_cursor>>
  BY DEF SaveByte, mouseVars
<1>5. TypeOK'
  BY <1>1, <1>2, <1>3, <1>4 DEF TypeOK
<1>6. Unwritten' /\ TextInside' /\ LoopsWhole'
  BY <1>1, <1>3, <1>4 DEF IInv, Unwritten, TextInside, LoopsWhole
<1> QED
  BY <1>4, <1>5, <1>6 DEF IInv, Spill

\* load_frame: the byte after the panel gets what was saved there.
LEMMA LoadSafe == IInv /\ LoadByte => IInv' /\ Spill
<1> SUFFICES ASSUME IInv, LoadByte PROVE IInv' /\ Spill
  OBVIOUS
<1>1. /\ i \in Span /\ screen \in [Memory -> Colours] /\ pc = "load"
      /\ save_buf \in [Span -> Background] /\ save_buf[i] \in Background /\ TypeOK
  BY DEF IInv, LoadByte, TypeOK, Colours
<1>2. /\ screen' \in [Memory -> Colours]
      /\ \A b \in Memory : screen'[b] = IF b = i THEN save_buf[i] ELSE screen[b]
  BY <1>1, Sizes DEF LoadByte, Colours
<1>3. i' \in Span /\ pc' \in {"load", "print"} /\ (pc' # "load" => i' = 0)
  BY <1>1, Sizes DEF LoadByte, NextByte, Span
<1>4. UNCHANGED <<todo, face, font, save_buf, cursor, save_cursor>>
  BY DEF LoadByte, mouseVars
<1>5. TypeOK'
  BY <1>1, <1>2, <1>3, <1>4 DEF TypeOK, Colours
<1>6. Unwritten' /\ LoopsWhole'
  BY <1>3 DEF Unwritten, LoopsWhole
<1>7. TextInside'
  BY <1>1, <1>2, <1>4 DEF IInv, TextInside
<1>8. Spill
  BY <1>1, <1>2, Sizes DEF Spill, Span, Memory
<1> QED
  BY <1>5, <1>6, <1>7, <1>8 DEF IInv

\* A new second: text grows old, wherever it is.
LEMMA FormatSafe == IInv /\ Format => IInv' /\ Spill
<1> SUFFICES ASSUME IInv, Format PROVE IInv' /\ Spill
  OBVIOUS
<1>1. screen \in [Memory -> Colours] /\ save_cursor \in Copies /\ TypeOK
  BY DEF IInv, TypeOK, Colours, Copies
<1>2. /\ screen' \in [Memory -> Colours]
      /\ \A b \in Memory : screen[b] \in Background => screen'[b] = screen[b]
  BY <1>1, OlderIs DEF Format
<1>3. /\ save_cursor' \in Copies
      /\ \A b \in 0 .. Bytes - 1 :
           save_cursor[b] \in Background => save_cursor'[b] = save_cursor[b]
  BY <1>1, OlderIs DEF Format, Copies
<1>4. UNCHANGED <<i, todo, font, save_buf, cursor>> /\ face' \in Faces /\ pc' = "load"
  BY DEF Format
<1>5. TypeOK'
  BY <1>1, <1>2, <1>3, <1>4 DEF TypeOK, Colours, Copies
<1>6. cursor = Len => save_cursor' \in [0 .. Bytes - 1 -> Background]
  BY <1>3 DEF IInv, TextInside, Copies
<1>7. TextInside' /\ Spill
  BY <1>2, <1>4, <1>6 DEF IInv, TextInside, Spill
<1> QED
  BY <1>4, <1>5, <1>7 DEF IInv, Unwritten, LoopsWhole

\* The steps of get_time that leave the memory alone.
LEMMA ControlSafe == IInv /\ (Begin \/ RectDone \/ Write \/ Sleep) => IInv' /\ Spill
<1> SUFFICES ASSUME IInv, Begin \/ RectDone \/ Write \/ Sleep PROVE IInv' /\ Spill
  OBVIOUS
<1>1. UNCHANGED <<i, face, save_buf, screen, cursor, save_cursor>>
  BY DEF Begin, RectDone, Write, Sleep, mouseVars
<1>2. /\ pc \notin {"save", "load"}
      /\ pc' \in {"returned", "rect", "save", "format", "text"}
      /\ pc' \in {"rect", "save"} => pc \in {"begin", "rect"}
      /\ pc' # "load"
  BY DEF Begin, RectDone, Write, Sleep
<1>3. todo' \subseteq 0 .. Len - 1 /\ font' \in BOOLEAN
  BY InsideAssumption DEF Begin, RectDone, Write, Sleep, IInv, TypeOK
<1>4. TypeOK'
  BY <1>1, <1>2, <1>3 DEF IInv, TypeOK
<1>5. Unwritten' /\ TextInside' /\ LoopsWhole'
  BY <1>1, <1>2 DEF IInv, Unwritten, TextInside, LoopsWhole
<1> QED
  BY <1>1, <1>4, <1>5 DEF IInv, Spill

\* The player
LEMMA PlayerSafe == IInv /\ (\E p \in Pixels : Player(p)) => IInv'
<1> SUFFICES ASSUME IInv, NEW p \in Pixels, Player(p) PROVE IInv'
  OBVIOUS
<1>1. PICK c \in Background : screen' = Paint(p, c)
  BY ColourFacts DEF Player
<1>2. c \in Colours
  BY <1>1 DEF Colours
<1>3. /\ screen' \in [Memory -> Colours]
      /\ \A b \in Memory : b >= Len * Bytes => screen'[b] \in Background
      /\ screen \in [Memory -> Background] => screen' \in [Memory -> Background]
  BY <1>1, <1>2, PaintSafe
<1>4. UNCHANGED <<pc, i, todo, face, font, save_buf, cursor, save_cursor>>
  BY DEF Player, clockVars, mouseVars
<1>5. TypeOK'
  BY <1>3, <1>4 DEF IInv, TypeOK, Colours
<1> QED
  BY <1>3, <1>4, <1>5 DEF IInv, Unwritten, TextInside, LoopsWhole

\* fb_restore_cursor gives back what was under the cursor, to the same pixel.
LEMMA LiftSafe == IInv /\ Lift => IInv'
<1> SUFFICES ASSUME IInv, Lift PROVE IInv'
  OBVIOUS
<1>1. /\ screen \in [Memory -> Colours] /\ save_cursor \in Copies /\ TypeOK
      /\ cursor \in Pixels
  BY DEF IInv, TypeOK, Colours, Copies, Lift
<1>2. \A b \in Of(cursor) : b - cursor * Bytes \in 0 .. Bytes - 1
  BY <1>1, PixelBytes, Sizes
<1>3. \A b \in Memory : screen'[b] = IF b \in Of(cursor)
                                       THEN save_cursor[b - cursor * Bytes] ELSE screen[b]
  BY DEF Lift
<1>4. screen' = [b \in Memory |-> screen'[b]]
  BY DEF Lift
<1>5. screen' \in [Memory -> Colours]
  BY <1>1, <1>2, <1>3, <1>4 DEF Copies
<1>6. Unwritten => Unwritten'
  BY <1>2, <1>3, <1>4, ColourFacts DEF Unwritten, Lift, clockVars, Nothing
<1>7. TextInside'
  <2>1. CASE cursor = Len
    BY <2>1, <1>2, <1>3 DEF IInv, TextInside, Lift, None
  <2>2. CASE cursor < Len
    BY <2>2, <1>1, <1>3, PixelBytes, Sizes DEF IInv, TextInside, Lift, None, Memory
  <2> QED
    BY <1>1, <2>1, <2>2, Sizes DEF Pixels
<1>8. Nothing \in [0 .. Bytes - 1 -> Background]
  BY ColourFacts DEF Nothing
<1>9. TypeOK'
  BY <1>1, <1>5, <1>8 DEF TypeOK, Lift, clockVars, Colours
<1> QED
  BY <1>6, <1>7, <1>9 DEF IInv, LoopsWhole, Lift, clockVars

\* fb_save_cursor and fb_draw_cursor
LEMMA PutSafe == IInv /\ (\E p \in Pixels : Put(p)) => IInv'
<1> SUFFICES ASSUME IInv, NEW p \in Pixels, Put(p) PROVE IInv'
  OBVIOUS
<1>1. screen \in [Memory -> Colours] /\ TypeOK
  BY DEF IInv, TypeOK, Colours
<1>2. \A b \in 0 .. Bytes - 1 : p * Bytes + b \in Memory /\ p * Bytes + b >= p * Bytes
  BY PixelBytes, Sizes
<1>3. save_cursor' = [b \in 0 .. Bytes - 1 |-> screen[p * Bytes + b]]
  BY DEF Put
<1>4. save_cursor' \in Copies
  BY <1>1, <1>2, <1>3 DEF Copies
<1>5. screen \in [Memory -> Background] => save_cursor' \in [0 .. Bytes - 1 -> Background]
  BY <1>2, <1>3
<1>6. p = Len => save_cursor' \in [0 .. Bytes - 1 -> Background]
  BY <1>2, <1>3 DEF IInv, TextInside
<1>7. /\ screen' \in [Memory -> Colours]
      /\ \A b \in Memory : b >= Len * Bytes => screen'[b] \in Background
      /\ screen \in [Memory -> Background] => screen' \in [Memory -> Background]
  BY PaintSafe, ColourFacts DEF Put, Colours
<1>8. UNCHANGED <<pc, i, todo, face, font, save_buf>> /\ cursor' = p
  BY DEF Put, clockVars
<1>9. TypeOK'
  BY <1>1, <1>4, <1>7, <1>8 DEF TypeOK, Colours, Copies
<1> QED
  BY <1>5, <1>6, <1>7, <1>8, <1>9 DEF IInv, Unwritten, TextInside, LoopsWhole

LEMMA GetTimeSafe == IInv /\ GetTime => IInv' /\ Spill
BY DrawSafe, SaveSafe, LoadSafe, FormatSafe, ControlSafe DEF GetTime

LEMMA SafeStep == IInv /\ [Next]_vars => IInv'
<1> SUFFICES ASSUME IInv, [Next]_vars PROVE IInv'
  OBVIOUS
<1>1. CASE UNCHANGED vars
  BY <1>1 DEF IInv, TypeOK, LoopsWhole, Unwritten, TextInside, vars, clockVars, mouseVars
<1> QED
  BY <1>1, GetTimeSafe, PlayerSafe, LiftSafe, PutSafe DEF Next

\* Types, and where no text is yet or ever, hold in every reachable state.
THEOREM Inductive == Spec => []IInv
BY SafeInit, SafeStep, PTL DEF Spec

\* What was saved of the panel never is text, so that no time stays on it for
\* good, whatever the cursor gives back and the player paints
\* (clock.c:19-60, mouse.c:53-80).
THEOREM TypeCorrect == Spec => []TypeOK
<1>1. IInv => TypeOK
  BY DEF IInv
<1> QED
  BY <1>1, Inductive, PTL

\* get_time writes a single byte beside its panel, the one that follows it, and
\* writes there what it saved (clock.c:25, 46).
THEOREM OneByteSpilt == Spec => SpillsOneByte
<1>1. IInv /\ [Next]_vars => [GetTime => Spill]_screen
  BY GetTimeSafe
<1> QED
  BY <1>1, Inductive, PTL DEF Spec, SpillsOneByte, Spill
=============================================================================
